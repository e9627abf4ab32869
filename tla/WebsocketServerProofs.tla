------------------------ MODULE WebsocketServerProofs ------------------------
(* Machine-checked proofs about WebsocketServer, for every set of clients   *)
(* and kinds of messages and any number of messages: that clients are kept  *)
(* apart, and that each step of the server is a step of RequestReply.       *)
EXTENDS WebsocketServer, FiniteSetTheorems, SequenceTheorems, TLAPS

-----------------------------------------------------------------------------
(* The inductive invariant.                                                *)

Phases == {"scheduled", "processing", "unregistered", "calling", "responding", "failed",
           "done"}
Sessions == AllTasks \cup {NoSession}
ReplyKinds == {ResponseTo[k] : k \in DOMAIN ResponseTo} \cup {"error", "unregistered_client"}
Listed == {c \in Connections : conn[c] \in {"open", "closed"}}

\* The types, with those of the functions that WebsocketTypeOK leaves out.
StateType ==
    /\ conn \in [Connections -> {"new", "open", "closed", "gone"}]
    /\ clients \in [Listed -> Sessions]
    /\ inbox \in [Connections -> Seq(1..MaxMessages)]
    /\ sent \in [Connections -> Seq(Kinds)]
    /\ \A c \in Connections : Len(sent[c]) <= MaxMessages
    /\ DOMAIN tasks \subseteq AllTasks
    /\ tasks \in [DOMAIN tasks -> [phase : Phases, session : Sessions]]
    /\ replies \in [Connections -> Seq((1..MaxMessages) \X ReplyKinds)]
    /\ server \in {"running", "killed", "stopped", "crashed"}

\* A message in the inbox was sent and is not there twice; it has neither a task
\* nor a reply.
InboxOK(c) ==
    /\ \A i \in DOMAIN inbox[c] : /\ inbox[c][i] \in DOMAIN sent[c]
                                  /\ inbox[c][i] \notin Replied(c)
                                  /\ <<c, inbox[c][i]>> \notin DOMAIN tasks
    /\ \A i, j \in DOMAIN inbox[c] : inbox[c][i] = inbox[c][j] => i = j
    /\ conn[c] = "new" => Len(sent[c]) = 0

\* A request has one reply at most, which is of its kind.
RepliesOK(c) ==
    /\ \A i, j \in DOMAIN replies[c] : replies[c][i][1] = replies[c][j][1] => i = j
    /\ \A i \in DOMAIN replies[c] :
          /\ replies[c][i][1] \in DOMAIN sent[c]
          /\ \/ replies[c][i][2] \in {"error", "unregistered_client"}
             \/ /\ sent[c][replies[c][i][1]] \in DOMAIN ResponseTo
                /\ replies[c][i][2] = ResponseTo[sent[c][replies[c][i][1]]]

\* The session of a client is one of its own registrations.
ClientOK(c) ==
    c \in DOMAIN clients /\ clients[c] # NoSession =>
       /\ clients[c][1] = c /\ clients[c][2] \in DOMAIN sent[c]
       /\ sent[c][clients[c][2]] = "registration"

\* A task is for a request that was sent; it ends with its reply.  One whose client
\* is still connected fails only in a call, and gets past the check of the
\* registration only with a session.
TaskOK(t) ==
    /\ t[2] \in DOMAIN sent[t[1]] /\ Kind(t) \in DOMAIN ResponseTo
    /\ conn[t[1]] # "new"
    /\ t[2] \in Replied(t[1]) => tasks[t].phase = "done"
    /\ tasks[t].phase = "unregistered" => Kind(t) # "registration"
    /\ tasks[t].phase = "calling" => Kind(t) \in Calls
    /\ tasks[t].phase = "failed" /\ conn[t[1]] = "open" => Kind(t) \in Calls
    /\ tasks[t].phase = "processing" /\ Kind(t) # "registration" /\ t[1] \in DOMAIN clients
          => clients[t[1]] # NoSession

\* Registration n of client c has taken effect.
Registered(c, n) ==
    /\ sent[c][n] = "registration"
    /\ \/ n <= Len(replies[c])
       \/ <<c, n>> \in DOMAIN tasks /\ tasks[<<c, n>>].phase = "responding"

\* A client that awaits each reply gets them in the order of its requests, of which
\* at most the last one has no reply; its session is that of its last registration
\* that took effect.
WaitingOK(c) ==
    /\ \A i \in DOMAIN replies[c] : replies[c][i][1] = i
    /\ Len(sent[c]) \in {Len(replies[c]), Len(replies[c]) + 1}
    /\ c \in DOMAIN clients => \A n \in DOMAIN sent[c] :
          Registered(c, n) => clients[c] # NoSession /\ n <= clients[c][2]

\* A task of such a client that found no session is not preceded by a
\* registration that was acknowledged.
UnregisteredOK(t) ==
    t[1] \in Waiting /\ tasks[t].phase = "unregistered" =>
       \A i \in DOMAIN replies[t[1]] : replies[t[1]][i][2] # "registration_acknowledgement"

\* A session is one that the client registered, and the last one before the request
\* if the client awaits each reply.
GoodSession(t, s) ==
    /\ s # NoSession
    /\ s[1] = t[1] /\ s[2] \in DOMAIN sent[t[1]] /\ Kind(s) = "registration"
    /\ t[1] \in Waiting =>
          s[2] < t[2] /\ \A n \in (s[2] + 1)..(t[2] - 1) : Kind(<<t[1], n>>) # "registration"

SessionOK(t) == tasks[t].phase = "calling" => GoodSession(t, tasks[t].session)

ServerInv ==
    /\ StateType
    /\ \A c \in Connections : InboxOK(c) /\ RepliesOK(c) /\ ClientOK(c)
    /\ \A t \in DOMAIN tasks : TaskOK(t) /\ UnregisteredOK(t) /\ SessionOK(t)
    /\ \A c \in Waiting : WaitingOK(c)
    /\ RegisteredIsServed
    /\ NoTaskOutlivesServer

-----------------------------------------------------------------------------
(* What the operators do.                                                  *)

\* The kinds of the replies.
LEMMA ResponseFacts ==
    /\ \A k \in DOMAIN ResponseTo :
          /\ ResponseTo[k] = "registration_acknowledgement" => k = "registration"
          /\ ResponseTo[k] # "unregistered_client"
          /\ ResponseTo[k] \in ReplyKinds
    /\ "error" \in ReplyKinds /\ "unregistered_client" \in ReplyKinds
<1>1. \A k \in DOMAIN ResponseTo :
          /\ ResponseTo[k] = "registration_acknowledgement" => k = "registration"
          /\ ResponseTo[k] # "unregistered_client"
  BY DEF ResponseTo
<1>2. \A k \in DOMAIN ResponseTo : ResponseTo[k] \in ReplyKinds
  BY DEF ReplyKinds
<1> QED
  BY <1>1, <1>2 DEF ReplyKinds

\* A registration makes no calls.
LEMMA RegistrationNoCall == "registration" \notin Calls
BY DEF Calls, IssCalls, CalculationCalls, QueryCalls

\* A task is named by a connection and a number.
LEMMA TaskPair ==
    /\ \A t \in AllTasks : t = <<t[1], t[2]>> /\ t[1] \in Connections /\ t[2] \in 1..MaxMessages
    /\ \A c \in Connections, n \in 1..MaxMessages :
          <<c, n>> \in AllTasks /\ <<c, n>>[1] = c /\ <<c, n>>[2] = n
BY DEF AllTasks

\* The numbers of the requests that a client sent.
LEMMA SentFacts ==
    ASSUME StateType, NEW c \in Connections
    PROVE  /\ Len(sent[c]) \in Nat /\ DOMAIN sent[c] = 1..Len(sent[c])
           /\ DOMAIN sent[c] \subseteq 1..MaxMessages
           /\ Len(replies[c]) \in Nat /\ DOMAIN replies[c] = 1..Len(replies[c])
           /\ \A n \in DOMAIN sent[c] : sent[c][n] \in Kinds
BY WebsocketAssumption DEF StateType

\* A reply that is sent is the last one, and the only change.
LEMMA ReplyEffect ==
    ASSUME StateType, NEW c \in Connections, NEW n \in 1..MaxMessages, NEW k \in ReplyKinds,
           Reply(c, n, k)
    PROVE  /\ replies' \in [Connections -> Seq((1..MaxMessages) \X ReplyKinds)]
           /\ \A d \in Connections : d # c => replies'[d] = replies[d] /\ Replied(d)' = Replied(d)
           /\ Len(replies'[c]) = Len(replies[c]) + 1
           /\ DOMAIN replies'[c] = 1 .. (Len(replies[c]) + 1)
           /\ \A i \in DOMAIN replies[c] : replies'[c][i] = replies[c][i]
           /\ replies'[c][Len(replies[c]) + 1][1] = n
           /\ replies'[c][Len(replies[c]) + 1][2] = k
           /\ Replied(c)' = Replied(c) \cup {n}
<1> DEFINE R == (1..MaxMessages) \X ReplyKinds
           r == <<n, k>>
           q == Append(replies[c], r)
<1>1. r \in R /\ r[1] = n /\ r[2] = k
  OBVIOUS
<1>2. replies \in [Connections -> Seq(R)]
  BY DEF StateType
<1> HIDE DEF R, r
<1>3. /\ q \in Seq(R) /\ Len(q) = Len(replies[c]) + 1 /\ Len(replies[c]) \in Nat
      /\ DOMAIN replies[c] = 1 .. Len(replies[c]) /\ DOMAIN q = 1 .. (Len(replies[c]) + 1)
      /\ \A i \in DOMAIN replies[c] : q[i] = replies[c][i]
      /\ q[Len(replies[c]) + 1] = r
  BY <1>1, <1>2
<1>4. replies' = [replies EXCEPT ![c] = q]
  BY DEF Reply, r
<1> HIDE DEF q
<1>5. /\ replies' \in [Connections -> Seq(R)]
      /\ replies'[c] = q
      /\ \A d \in Connections : d # c => replies'[d] = replies[d]
  BY <1>2, <1>3, <1>4
<1>6. \A d \in Connections : d # c => Replied(d)' = Replied(d)
  BY <1>5 DEF Replied
<1>7. Replied(c)' = Replied(c) \cup {n}
  <2>1. \A m \in Replied(c)' : m \in Replied(c) \cup {n}
    BY <1>1, <1>3, <1>5 DEF Replied
  <2>2. \A m \in Replied(c) : m \in Replied(c)'
    BY <1>1, <1>3, <1>5 DEF Replied
  <2>3. n \in Replied(c)'
    BY <1>1, <1>3, <1>5 DEF Replied
  <2> QED
    BY <2>1, <2>2, <2>3
<1>8. replies' \in [Connections -> Seq((1..MaxMessages) \X ReplyKinds)]
  BY <1>5 DEF R
<1> QED
  BY <1>1, <1>3, <1>5, <1>6, <1>7, <1>8

\* A task enters a phase, with the session that it has or is given.
LEMMA TaskEffect ==
    ASSUME StateType, NEW t \in DOMAIN tasks, NEW p \in Phases, NEW s \in Sessions,
           \/ tasks' = [tasks EXCEPT ![t] = [phase |-> p, session |-> s]]
           \/ Becomes(t, p) /\ s = tasks[t].session
    PROVE  /\ DOMAIN tasks' = DOMAIN tasks
           /\ tasks' \in [DOMAIN tasks -> [phase : Phases, session : Sessions]]
           /\ tasks'[t].phase = p /\ tasks'[t].session = s
           /\ \A u \in DOMAIN tasks : u # t => tasks'[u] = tasks[u]
BY DEF StateType, Becomes

\* What is known of a client that awaits each reply: only its last request may have
\* no reply.
LEMMA WaitingFacts ==
    ASSUME ServerInv, NEW c \in Waiting
    PROVE  /\ c \in Connections /\ Replied(c) = 1..Len(replies[c])
           /\ Len(replies[c]) \in Nat /\ Len(sent[c]) \in Nat
           /\ \A n \in DOMAIN sent[c] : n \notin Replied(c) =>
                 n = Len(replies[c]) + 1 /\ n = Len(sent[c])
<1>1. c \in Connections /\ StateType /\ WaitingOK(c)
  BY WebsocketAssumption DEF ServerInv
<1>2. /\ Len(sent[c]) \in Nat /\ DOMAIN sent[c] = 1..Len(sent[c])
      /\ Len(replies[c]) \in Nat /\ DOMAIN replies[c] = 1..Len(replies[c])
  BY <1>1, SentFacts
<1>3. Replied(c) = 1..Len(replies[c])
  BY <1>1, <1>2 DEF WaitingOK, Replied
<1> QED
  BY <1>1, <1>2, <1>3 DEF WaitingOK

-----------------------------------------------------------------------------
(* The steps of the tasks.                                                 *)

\* A task goes from one phase to another and sends nothing.
LEMMA SilentTaskStep ==
    ASSUME ServerInv, NEW t \in DOMAIN tasks, NEW p \in Phases, NEW s \in Sessions,
           \/ tasks' = [tasks EXCEPT ![t] = [phase |-> p, session |-> s]]
           \/ Becomes(t, p) /\ s = tasks[t].session,
           Up, UNCHANGED <<conn, clients, inbox, sent, replies, server>>,
           TaskOK(t)', UnregisteredOK(t)',
           p = "responding" => Kind(t) # "registration",
           p = "calling" => GoodSession(t, s)
    PROVE  ServerInv'
<1>1. /\ DOMAIN tasks' = DOMAIN tasks
      /\ tasks' \in [DOMAIN tasks -> [phase : Phases, session : Sessions]]
      /\ tasks'[t].phase = p /\ tasks'[t].session = s
      /\ \A u \in DOMAIN tasks : u # t => tasks'[u] = tasks[u]
  BY TaskEffect DEF ServerInv
<1>2. StateType'
  BY <1>1 DEF ServerInv, StateType, Listed
<1>R. \A c : Replied(c)' = Replied(c)
  BY DEF Replied
<1>3. ASSUME NEW c \in Connections
      PROVE  InboxOK(c)' /\ RepliesOK(c)' /\ ClientOK(c)'
  <2>1. InboxOK(c)'
    BY <1>1, <1>R DEF ServerInv, InboxOK
  <2>2. RepliesOK(c)'
    BY DEF ServerInv, RepliesOK
  <2>3. ClientOK(c)'
    BY DEF ServerInv, ClientOK
  <2> QED
    BY <2>1, <2>2, <2>3
<1>4. ASSUME NEW u \in DOMAIN tasks'
      PROVE  TaskOK(u)' /\ UnregisteredOK(u)' /\ SessionOK(u)'
  <2>1. CASE u = t
    BY <1>1, <2>1 DEF SessionOK, GoodSession, Kind
  <2>2. CASE u # t
    <3>1. u \in DOMAIN tasks /\ tasks'[u] = tasks[u]
      BY <1>1, <2>2
    <3>2. TaskOK(u)'
      BY <3>1, <1>R DEF ServerInv, TaskOK, Kind
    <3>3. UnregisteredOK(u)'
      BY <3>1 DEF ServerInv, UnregisteredOK
    <3>4. SessionOK(u)'
      BY <3>1 DEF ServerInv, SessionOK, GoodSession, Kind
    <3> QED
      BY <3>2, <3>3, <3>4
  <2> QED
    BY <2>1, <2>2
<1>5. ASSUME NEW c \in Waiting
      PROVE  WaitingOK(c)'
  <2>1. ASSUME NEW n \in DOMAIN sent[c], Registered(c, n)'
        PROVE  Registered(c, n)
    <3>1. CASE <<c, n>> = t
      BY <1>1, <2>1, <3>1 DEF Registered, Kind
    <3>2. CASE <<c, n>> # t
      BY <1>1, <2>1, <3>2 DEF Registered
    <3> QED
      BY <3>1, <3>2
  <2> QED
    BY <1>1, <2>1 DEF ServerInv, WaitingOK
<1>6. RegisteredIsServed'
  BY DEF ServerInv, RegisteredIsServed
<1>7. NoTaskOutlivesServer'
  BY DEF NoTaskOutlivesServer, Up
<1> QED
  BY <1>2, <1>3, <1>4, <1>5, <1>6, <1>7 DEF ServerInv

\* What a reply to a request that had none leaves of the invariant.
LEMMA RepliesAfter ==
    ASSUME ServerInv, NEW c \in Connections, NEW n \in DOMAIN sent[c], n \notin Replied(c),
           NEW k \in ReplyKinds, Reply(c, n, k), UNCHANGED sent,
           \/ k \in {"error", "unregistered_client"}
           \/ sent[c][n] \in DOMAIN ResponseTo /\ k = ResponseTo[sent[c][n]],
           c \in Waiting /\ k = "unregistered_client" =>
              \A i \in DOMAIN replies[c] : replies[c][i][2] # "registration_acknowledgement"
    PROVE  /\ \A d \in Connections : RepliesOK(d)'
           /\ RegisteredIsServed'
           /\ \A d \in Waiting : /\ \A i \in DOMAIN replies'[d] : replies'[d][i][1] = i
                                 /\ Len(sent'[d]) \in {Len(replies'[d]), Len(replies'[d]) + 1}
<1> DEFINE m == Len(replies[c]) + 1
<1>1. /\ DOMAIN sent[c] = 1..Len(sent[c]) /\ DOMAIN sent[c] \subseteq 1..MaxMessages
      /\ Len(replies[c]) \in Nat /\ DOMAIN replies[c] = 1..Len(replies[c])
  BY SentFacts DEF ServerInv
<1>2. /\ \A d \in Connections : d # c => replies'[d] = replies[d]
      /\ Len(replies'[c]) = m /\ DOMAIN replies'[c] = 1..m
      /\ \A i \in DOMAIN replies[c] : replies'[c][i] = replies[c][i]
      /\ replies'[c][m][1] = n /\ replies'[c][m][2] = k
  BY <1>1, ReplyEffect DEF ServerInv
<1>3. /\ \A i \in DOMAIN replies'[c] : i = m \/ i \in DOMAIN replies[c]
      /\ m \notin DOMAIN replies[c]
  BY <1>1, <1>2
<1> HIDE DEF m
<1>4. ASSUME NEW d \in Connections
      PROVE  RepliesOK(d)'
  <2>1. CASE d # c
    BY <1>2, <2>1 DEF ServerInv, RepliesOK
  <2>2. CASE d = c
    <3>1. \A i \in DOMAIN replies[c] : replies[c][i][1] # n
      BY DEF Replied
    <3>2. \A i, j \in DOMAIN replies'[c] : replies'[c][i][1] = replies'[c][j][1] => i = j
      BY <1>2, <1>3, <3>1 DEF ServerInv, RepliesOK
    <3>3. ASSUME NEW i \in DOMAIN replies'[c]
          PROVE  /\ replies'[c][i][1] \in DOMAIN sent[c]
                 /\ \/ replies'[c][i][2] \in {"error", "unregistered_client"}
                    \/ /\ sent[c][replies'[c][i][1]] \in DOMAIN ResponseTo
                       /\ replies'[c][i][2] = ResponseTo[sent[c][replies'[c][i][1]]]
      BY <1>2, <1>3 DEF ServerInv, RepliesOK
    <3> QED
      BY <2>2, <3>2, <3>3 DEF RepliesOK
  <2> QED
    BY <2>1, <2>2
<1>5. ASSUME NEW d \in Waiting, NEW i \in DOMAIN replies'[d], NEW j \in DOMAIN replies'[d],
             i < j, replies'[d][i][2] = "registration_acknowledgement"
      PROVE  replies'[d][j][2] # "unregistered_client"
  <2>1. d \in Connections
    BY WebsocketAssumption
  <2>2. CASE d # c
    BY <1>2, <1>5, <2>1, <2>2 DEF ServerInv, RegisteredIsServed
  <2>3. CASE d = c /\ j # m
    <3>1. i # m
      BY <1>1, <1>2, <1>3, <1>5, <2>3 DEF m
    <3> QED
      BY <1>2, <1>3, <1>5, <2>3, <3>1 DEF ServerInv, RegisteredIsServed
  <2>4. CASE d = c /\ j = m
    <3>1. i \in DOMAIN replies[c] /\ replies[c][i][2] = "registration_acknowledgement"
      BY <1>1, <1>2, <1>3, <1>5, <2>4 DEF m
    <3> QED
      BY <1>2, <2>4, <3>1
  <2> QED
    BY <2>2, <2>3, <2>4
<1>6. ASSUME NEW d \in Waiting
      PROVE  /\ \A i \in DOMAIN replies'[d] : replies'[d][i][1] = i
             /\ Len(sent'[d]) \in {Len(replies'[d]), Len(replies'[d]) + 1}
  <2>1. d \in Connections
    BY WebsocketAssumption
  <2>2. CASE d # c
    BY <1>2, <2>1, <2>2 DEF ServerInv, WaitingOK
  <2>3. CASE d = c
    <3>1. n = m /\ n = Len(sent[c])
      BY <2>3, WaitingFacts DEF m
    <3> QED
      BY <1>2, <1>3, <2>3, <3>1 DEF ServerInv, WaitingOK
  <2> QED
    BY <2>2, <2>3
<1> QED
  BY <1>4, <1>5, <1>6 DEF RegisteredIsServed

\* A task sends its reply and ends.
LEMMA ReplyTaskStep ==
    ASSUME ServerInv, NEW t \in DOMAIN tasks, NEW k \in ReplyKinds,
           tasks[t].phase \in {"responding", "unregistered", "failed"},
           Up, conn[t[1]] = "open", Reply(t[1], t[2], k), Becomes(t, "done"),
           UNCHANGED <<conn, clients, inbox, sent, server>>,
           k \in {"error", "unregistered_client"} \/ k = ResponseTo[Kind(t)],
           k = "unregistered_client" => tasks[t].phase = "unregistered"
    PROVE  ServerInv'
<1> DEFINE c == t[1]
           n == t[2]
<1>1. /\ t \in AllTasks /\ t = <<c, n>> /\ c \in Connections /\ n \in 1..MaxMessages
      /\ n \in DOMAIN sent[c] /\ Kind(t) \in DOMAIN ResponseTo /\ n \notin Replied(c)
      /\ Kind(t) = sent[c][n] /\ StateType /\ TaskOK(t) /\ UnregisteredOK(t)
  BY TaskPair DEF ServerInv, StateType, TaskOK, Kind
<1>2. /\ DOMAIN tasks' = DOMAIN tasks
      /\ tasks' \in [DOMAIN tasks -> [phase : Phases, session : Sessions]]
      /\ tasks'[t].phase = "done"
      /\ \A u \in DOMAIN tasks : u # t => tasks'[u] = tasks[u]
  <2>1. tasks[t].session \in Sessions /\ "done" \in Phases
    BY DEF ServerInv, StateType, Phases
  <2> QED
    BY <1>1, <2>1, TaskEffect
<1>3. /\ replies' \in [Connections -> Seq((1..MaxMessages) \X ReplyKinds)]
      /\ \A d \in Connections : d # c => replies'[d] = replies[d] /\ Replied(d)' = Replied(d)
      /\ Len(replies'[c]) = Len(replies[c]) + 1 /\ Replied(c)' = Replied(c) \cup {n}
  BY <1>1, ReplyEffect
<1>4. /\ \A d \in Connections : RepliesOK(d)'
      /\ RegisteredIsServed'
      /\ \A d \in Waiting : /\ \A i \in DOMAIN replies'[d] : replies'[d][i][1] = i
                            /\ Len(sent'[d]) \in {Len(replies'[d]), Len(replies'[d]) + 1}
  <2>1. c \in Waiting /\ k = "unregistered_client" =>
          \A i \in DOMAIN replies[c] : replies[c][i][2] # "registration_acknowledgement"
    BY <1>1 DEF UnregisteredOK
  <2> HIDE DEF c, n
  <2>2. Reply(c, n, k)
    BY DEF c, n
  <2> QED
    BY <1>1, <2>1, <2>2, RepliesAfter
<1>5. StateType'
  BY <1>2, <1>3 DEF ServerInv, StateType, Listed
<1>6. ASSUME NEW d \in Connections
      PROVE  InboxOK(d)' /\ ClientOK(d)'
  <2>1. ClientOK(d)'
    BY DEF ServerInv, ClientOK
  <2>2. \A i \in DOMAIN inbox[d] : inbox[d][i] \notin Replied(d)'
    <3>1. CASE d = c
      <4>1. \A i \in DOMAIN inbox[c] : <<c, inbox[c][i]>> \notin DOMAIN tasks
        BY <3>1 DEF ServerInv, InboxOK
      <4>2. \A i \in DOMAIN inbox[c] : inbox[c][i] # n
        BY <1>1, <4>1
      <4> QED
        BY <1>3, <3>1, <4>2 DEF ServerInv, InboxOK
    <3>2. CASE d # c
      BY <1>3, <3>2 DEF ServerInv, InboxOK
    <3> QED
      BY <3>1, <3>2
  <2>3. InboxOK(d)'
    BY <1>2, <2>2 DEF ServerInv, InboxOK
  <2> QED
    BY <2>1, <2>3
<1>7. ASSUME NEW u \in DOMAIN tasks'
      PROVE  TaskOK(u)' /\ UnregisteredOK(u)' /\ SessionOK(u)'
  <2>0. /\ u \in DOMAIN tasks /\ u = <<u[1], u[2]>> /\ u[1] \in Connections
        /\ TaskOK(u) /\ UnregisteredOK(u) /\ SessionOK(u)
    BY <1>2, TaskPair DEF ServerInv, StateType
  <2>1. CASE u = t
    BY <1>1, <1>2, <2>1 DEF TaskOK, UnregisteredOK, SessionOK, Kind
  <2>2. CASE u # t
    <3>1. tasks'[u] = tasks[u] /\ (u[2] \in Replied(u[1])' => u[2] \in Replied(u[1]))
      BY <1>1, <1>2, <1>3, <2>0, <2>2
    <3>2. TaskOK(u)'
      BY <2>0, <3>1 DEF TaskOK, Kind
    <3>3. UnregisteredOK(u)'
      <4>1. CASE u[1] # c
        BY <1>3, <2>0, <3>1, <4>1 DEF UnregisteredOK
      <4>2. CASE u[1] = c /\ c \in Waiting
        \* Then u has its reply: only the last request, that of t, had none.
        <5>1. u[2] # n
          BY <1>1, <2>0, <2>2, <4>2
        <5>2. u[2] \in Replied(c)
          BY <1>1, <2>0, <4>2, <5>1, WaitingFacts DEF TaskOK
        <5> QED
          BY <2>0, <3>1, <4>2, <5>2 DEF TaskOK, UnregisteredOK
      <4>3. CASE u[1] = c /\ c \notin Waiting
        BY <4>3 DEF UnregisteredOK
      <4> QED
        BY <4>1, <4>2, <4>3
    <3>4. SessionOK(u)'
      BY <2>0, <3>1 DEF SessionOK, GoodSession, Kind
    <3> QED
      BY <3>2, <3>3, <3>4
  <2> QED
    BY <2>1, <2>2
<1>8. ASSUME NEW d \in Waiting
      PROVE  WaitingOK(d)'
  <2>0. d \in Connections /\ WaitingOK(d)
    BY WebsocketAssumption DEF ServerInv
  <2>1. ASSUME NEW i \in DOMAIN sent[d], Registered(d, i)'
        PROVE  Registered(d, i)
    <3>1. CASE d # c
      <4>1. <<d, i>> # t
        BY <1>1, <3>1
      <4> QED
        BY <1>2, <1>3, <2>0, <2>1, <3>1, <4>1 DEF Registered
    <3>2. CASE d = c /\ i # n
      <4>1. <<d, i>> # t
        BY <1>1, <3>2
      <4>2. n = Len(replies[c]) + 1 /\ Len(replies[c]) \in Nat /\ i \in Nat
        BY <1>1, <3>2, WaitingFacts, SentFacts
      <4> QED
        BY <1>2, <1>3, <2>1, <3>2, <4>1, <4>2 DEF Registered
    <3>3. CASE d = c /\ i = n
      BY <1>1, <2>1, <3>3, RegistrationNoCall DEF Registered, TaskOK
    <3> QED
      BY <3>1, <3>2, <3>3
  <2> QED
    BY <1>4, <2>0, <2>1 DEF WaitingOK
<1>9. NoTaskOutlivesServer'
  BY DEF NoTaskOutlivesServer, Up
<1> QED
  BY <1>4, <1>5, <1>6, <1>7, <1>8, <1>9 DEF ServerInv

\* A registration takes effect.
LEMMA UpdateClientStep ==
    ASSUME ServerInv, NEW t \in DOMAIN tasks, Up, t[1] \in DOMAIN clients,
           tasks[t].phase = "processing", Kind(t) = "registration",
           clients' = [clients EXCEPT ![t[1]] = t], Becomes(t, "responding"),
           UNCHANGED <<conn, inbox, sent, replies, server>>
    PROVE  ServerInv'
<1> DEFINE c == t[1]
           n == t[2]
<1>1. /\ t \in AllTasks /\ t = <<c, n>> /\ c \in Connections /\ n \in 1..MaxMessages
      /\ n \in DOMAIN sent[c] /\ n \notin Replied(c) /\ sent[c][n] = "registration"
      /\ StateType /\ TaskOK(t) /\ t # NoSession /\ t \in Sessions
  <2>1. /\ t \in AllTasks /\ t = <<c, n>> /\ c \in Connections /\ n \in 1..MaxMessages
        /\ StateType /\ TaskOK(t)
    BY TaskPair DEF ServerInv, StateType
  <2>2. t # NoSession /\ t \in Sessions
    BY <2>1, WebsocketAssumption DEF AllTasks, Sessions
  <2> QED
    BY <2>1, <2>2 DEF TaskOK, Kind
<1>2. /\ DOMAIN tasks' = DOMAIN tasks
      /\ tasks' \in [DOMAIN tasks -> [phase : Phases, session : Sessions]]
      /\ tasks'[t].phase = "responding"
      /\ \A u \in DOMAIN tasks : u # t => tasks'[u] = tasks[u]
  <2>1. tasks[t].session \in Sessions /\ "responding" \in Phases
    BY DEF ServerInv, StateType, Phases
  <2> QED
    BY <1>1, <2>1, TaskEffect
<1>3. /\ clients' \in [Listed -> Sessions] /\ clients'[c] = t
      /\ DOMAIN clients' = DOMAIN clients
      /\ \A d \in DOMAIN clients : d # c => clients'[d] = clients[d]
  BY <1>1 DEF StateType
<1>R. \A d : Replied(d)' = Replied(d)
  BY DEF Replied
<1>4. StateType'
  BY <1>2, <1>3 DEF ServerInv, StateType, Listed
<1>5. ASSUME NEW d \in Connections
      PROVE  InboxOK(d)' /\ RepliesOK(d)' /\ ClientOK(d)'
  <2>1. InboxOK(d)'
    BY <1>2, <1>R DEF ServerInv, InboxOK
  <2>2. RepliesOK(d)'
    BY DEF ServerInv, RepliesOK
  <2>3. ClientOK(d)'
    BY <1>1, <1>3 DEF ServerInv, ClientOK
  <2> QED
    BY <2>1, <2>2, <2>3
<1>6. ASSUME NEW u \in DOMAIN tasks'
      PROVE  TaskOK(u)' /\ UnregisteredOK(u)' /\ SessionOK(u)'
  <2>0. u \in DOMAIN tasks /\ TaskOK(u) /\ UnregisteredOK(u) /\ SessionOK(u)
    BY <1>2 DEF ServerInv
  <2>1. CASE u = t
    BY <1>1, <1>2, <1>R, <2>1 DEF TaskOK, UnregisteredOK, SessionOK, Kind
  <2>2. CASE u # t
    <3>1. tasks'[u] = tasks[u]
      BY <1>2, <2>0, <2>2
    <3>2. TaskOK(u)'
      BY <1>1, <1>3, <1>R, <2>0, <3>1 DEF TaskOK, Kind
    <3>3. UnregisteredOK(u)' /\ SessionOK(u)'
      BY <2>0, <3>1 DEF UnregisteredOK, SessionOK, GoodSession, Kind
    <3> QED
      BY <3>2, <3>3
  <2> QED
    BY <2>1, <2>2
<1>7. ASSUME NEW d \in Waiting
      PROVE  WaitingOK(d)'
  <2>0. d \in Connections /\ WaitingOK(d)
    BY WebsocketAssumption DEF ServerInv
  <2>1. ASSUME NEW i \in DOMAIN sent[d], Registered(d, i)', d \in DOMAIN clients'
        PROVE  clients'[d] # NoSession /\ i <= clients'[d][2]
    <3>1. CASE d # c
      <4>1. <<d, i>> # t
        BY <1>1, <3>1
      <4>2. Registered(d, i)
        BY <1>2, <2>1, <4>1 DEF Registered
      <4> QED
        BY <1>3, <2>0, <2>1, <3>1, <4>2 DEF WaitingOK
    <3>2. CASE d = c
      \* This request is the last one that the client has sent.
      <4>1. n = Len(sent[c]) /\ Len(sent[c]) \in Nat /\ i \in 1..Len(sent[c])
        BY <1>1, <3>2, WaitingFacts, SentFacts
      <4> QED
        BY <1>1, <1>3, <3>2, <4>1
    <3> QED
      BY <3>1, <3>2
  <2> QED
    BY <2>0, <2>1 DEF WaitingOK
<1>8. RegisteredIsServed'
  BY DEF ServerInv, RegisteredIsServed
<1>9. NoTaskOutlivesServer'
  BY DEF NoTaskOutlivesServer, Up
<1> QED
  BY <1>4, <1>5, <1>6, <1>7, <1>8, <1>9 DEF ServerInv

\* A task makes a context with the session of its client.
LEMMA ContextSession ==
    ASSUME ServerInv, NEW t \in DOMAIN tasks, t[1] \in DOMAIN clients,
           tasks[t].phase = "processing", Kind(t) \in Calls
    PROVE  clients[t[1]] \in Sessions /\ GoodSession(t, clients[t[1]])
<1> DEFINE c == t[1]
           n == t[2]
           s == clients[c]
<1>1. /\ t = <<c, n>> /\ c \in Connections /\ n \in DOMAIN sent[c] /\ n \notin Replied(c)
      /\ sent[c][n] = Kind(t) /\ Kind(t) # "registration" /\ s \in Sessions
      /\ s # NoSession /\ StateType
  BY TaskPair, RegistrationNoCall DEF ServerInv, StateType, TaskOK, Kind
<1>2. s[1] = c /\ s[2] \in DOMAIN sent[c] /\ sent[c][s[2]] = "registration"
  BY <1>1 DEF ServerInv, ClientOK
<1>3. ASSUME c \in Waiting
      PROVE  s[2] < n /\ \A m \in (s[2] + 1)..(n - 1) : sent[c][m] # "registration"
  <2>1. /\ DOMAIN sent[c] = 1..Len(sent[c]) /\ Len(sent[c]) \in Nat
        /\ n = Len(replies[c]) + 1 /\ n = Len(sent[c]) /\ Len(replies[c]) \in Nat
    BY <1>1, <1>3, SentFacts, WaitingFacts
  <2>2. s[2] < n
    BY <1>1, <1>2, <2>1
  <2>3. ASSUME NEW m \in (s[2] + 1)..(n - 1), sent[c][m] = "registration"
        PROVE  FALSE
    <3>1. m \in DOMAIN sent[c] /\ m <= Len(replies[c])
      BY <1>2, <2>1, <2>3
    <3>2. m <= s[2]
      BY <1>3, <2>3, <3>1 DEF ServerInv, WaitingOK, Registered
    <3> QED
      BY <1>2, <2>1, <3>1, <3>2
  <2> QED
    BY <2>2, <2>3
<1>4. /\ Kind(s) = sent[s[1]][s[2]]
      /\ \A m : Kind(<<c, m>>) = sent[c][m]
  BY DEF Kind
<1> QED
  BY <1>1, <1>2, <1>3, <1>4 DEF GoodSession

\* The program ends.
LEMMA ServerEnds ==
    ASSUME ServerInv, UNCHANGED <<conn, clients, inbox, sent, tasks, replies>>,
           server' \in {"stopped", "crashed"},
           server' = "stopped" => \A t \in DOMAIN tasks : tasks[t].phase = "done"
    PROVE  ServerInv'
BY DEF ServerInv, StateType, Listed, InboxOK, RepliesOK, ClientOK, TaskOK, UnregisteredOK,
       SessionOK, GoodSession, Kind, Replied, WaitingOK, Registered, RegisteredIsServed,
       NoTaskOutlivesServer

\* A thread of the pool takes a step in a task.
LEMMA RunTaskStep ==
    ASSUME ServerInv, NEW t \in DOMAIN tasks, RunTask(t)
    PROVE  ServerInv'
<1> DEFINE c == t[1]
           n == t[2]
<1>1. /\ t = <<c, n>> /\ c \in Connections /\ n \in DOMAIN sent[c] /\ n \in 1..MaxMessages
      /\ Kind(t) = sent[c][n] /\ Kind(t) \in DOMAIN ResponseTo /\ StateType
      /\ TaskOK(t) /\ UnregisteredOK(t) /\ SessionOK(t) /\ tasks[t].session \in Sessions
  BY TaskPair DEF ServerInv, StateType, TaskOK, Kind
<1>2. Up /\ UNCHANGED <<conn, inbox, sent>> /\ TaskStep(t)
  BY DEF RunTask
<1>3. Kind(t)' = Kind(t)
  BY <1>2 DEF Kind
<1>4. conn[c] = "open" => c \in DOMAIN clients
  BY <1>1 DEF StateType, Listed
\* A task that fails: in a call, or because its client is gone.
<1>5. ASSUME Throws(t), UNCHANGED server, tasks[t].phase # "done",
             conn[c] = "open" => Kind(t) \in Calls
      PROVE  ServerInv'
  <2>1. Becomes(t, "failed") /\ UNCHANGED <<clients, replies>>
    BY <1>5 DEF Throws
  <2>2. tasks'[t].phase = "failed" /\ "failed" \in Phases
    BY <1>1, <2>1, TaskEffect DEF Phases
  <2>3. Replied(c)' = Replied(c)
    BY <2>1 DEF Replied
  <2>4. TaskOK(t)'
    BY <1>1, <1>2, <1>3, <1>5, <2>2, <2>3 DEF TaskOK
  <2>5. UnregisteredOK(t)'
    BY <2>2 DEF UnregisteredOK
  <2> QED
    BY <1>1, <1>2, <1>5, <2>1, <2>2, <2>4, <2>5, SilentTaskStep
\* A task that goes on, with nothing sent.
<1>6. ASSUME NEW p \in {"unregistered", "processing", "responding"}, Becomes(t, p),
             UNCHANGED <<clients, replies, server>>, tasks[t].phase # "done",
             p = "unregistered" => Kind(t) # "registration" /\ UnregisteredOK(t)',
             p = "responding" => Kind(t) # "registration",
             p = "processing" /\ Kind(t) # "registration" => clients[c] # NoSession
      PROVE  ServerInv'
  <2>1. tasks'[t].phase = p /\ p \in Phases
    BY <1>1, <1>6, TaskEffect DEF Phases
  <2>2. Replied(c)' = Replied(c)
    BY <1>6 DEF Replied
  <2>3. TaskOK(t)'
    BY <1>1, <1>2, <1>3, <1>6, <2>1, <2>2 DEF TaskOK
  <2>4. UnregisteredOK(t)'
    BY <1>6, <2>1 DEF UnregisteredOK
  <2> QED
    BY <1>1, <1>2, <1>6, <2>1, <2>3, <2>4, SilentTaskStep
<1>7. CASE process_message(t) /\ UNCHANGED server
  <2>1. CASE c \notin DOMAIN clients
    BY <1>4, <1>5, <1>7, <2>1 DEF process_message
  <2>2. CASE c \in DOMAIN clients /\ clients[c] = NoSession /\ Kind(t) # "registration"
    <3>1. Becomes(t, "unregistered") /\ UNCHANGED <<clients, replies>>
      BY <1>7, <2>2 DEF process_message
    <3>2. ASSUME c \in Waiting, NEW i \in DOMAIN replies[c],
                 replies[c][i][2] = "registration_acknowledgement"
          PROVE  FALSE
      <4>1. replies[c][i][1] = i /\ WaitingOK(c) /\ i <= Len(replies[c])
        BY <1>1, <3>2, SentFacts DEF ServerInv, WaitingOK
      <4>2. i \in DOMAIN sent[c] /\ sent[c][i] = "registration"
        BY <1>1, <3>2, <4>1, ResponseFacts DEF ServerInv, RepliesOK
      <4> QED
        BY <2>2, <4>1, <4>2 DEF WaitingOK, Registered
    <3>3. UnregisteredOK(t)'
      BY <3>1, <3>2 DEF UnregisteredOK
    <3> QED
      BY <1>6, <1>7, <2>2, <3>1, <3>3 DEF process_message
  <2>3. CASE c \in DOMAIN clients /\ ~(clients[c] = NoSession /\ Kind(t) # "registration")
    <3>1. Becomes(t, "processing") /\ UNCHANGED <<clients, replies>>
      BY <1>7, <2>3 DEF process_message
    <3> QED
      BY <1>6, <1>7, <2>3, <3>1 DEF process_message
  <2> QED
    BY <2>1, <2>2, <2>3
<1>8. CASE update_client(t) /\ UNCHANGED server
  <2>1. CASE c \notin DOMAIN clients
    BY <1>4, <1>5, <1>8, <2>1 DEF update_client
  <2>2. CASE c \in DOMAIN clients
    BY <1>2, <1>8, <2>2, UpdateClientStep DEF update_client
  <2> QED
    BY <2>1, <2>2
<1>9. CASE process_at_once(t) /\ UNCHANGED server
  <2>1. CASE Kind(t) = "test" /\ c \notin DOMAIN clients
    BY <1>4, <1>5, <1>9, <2>1 DEF process_at_once
  <2>2. CASE ~(Kind(t) = "test" /\ c \notin DOMAIN clients)
    BY <1>6, <1>9, <2>2 DEF process_at_once
  <2> QED
    BY <2>1, <2>2
<1>10. CASE make_thinknode_request_context(t) /\ UNCHANGED server
  <2>1. CASE c \notin DOMAIN clients
    BY <1>4, <1>5, <1>10, <2>1 DEF make_thinknode_request_context
  <2>2. CASE c \in DOMAIN clients
    <3> DEFINE s == clients[c]
    <3>1. /\ tasks[t].phase = "processing" /\ Kind(t) \in Calls
          /\ tasks' = [tasks EXCEPT ![t] = [phase |-> "calling", session |-> s]]
          /\ UNCHANGED <<clients, replies>>
      BY <1>10, <2>2 DEF make_thinknode_request_context
    <3>2. s \in Sessions /\ GoodSession(t, s) /\ "calling" \in Phases
      BY <2>2, <3>1, ContextSession DEF Phases
    <3>3. tasks'[t].phase = "calling"
      BY <1>1, <3>1, <3>2, TaskEffect
    <3>4. Replied(c)' = Replied(c)
      BY <3>1 DEF Replied
    <3>5. TaskOK(t)'
      BY <1>1, <1>2, <1>3, <3>1, <3>3, <3>4 DEF TaskOK
    <3>6. UnregisteredOK(t)'
      BY <3>3 DEF UnregisteredOK
    <3> HIDE DEF s
    <3> QED
      BY <1>2, <1>10, <3>1, <3>2, <3>5, <3>6, SilentTaskStep
  <2> QED
    BY <2>1, <2>2
<1>11. CASE call_returns(t) /\ UNCHANGED server
  BY <1>1, <1>6, <1>11, RegistrationNoCall DEF call_returns, TaskOK
<1>12. CASE call_throws(t) /\ UNCHANGED server
  BY <1>1, <1>5, <1>12 DEF call_throws, TaskOK
<1>13. CASE send_response(t) /\ UNCHANGED server
  <2>1. CASE conn[c] # "open"
    BY <1>5, <1>13, <2>1 DEF send_response
  <2>2. CASE conn[c] = "open"
    <3> DEFINE k == IF tasks[t].phase = "unregistered" THEN "unregistered_client"
                    ELSE ResponseTo[Kind(t)]
    <3>1. /\ tasks[t].phase \in {"responding", "unregistered"} /\ UNCHANGED clients
          /\ Reply(c, n, k) /\ Becomes(t, "done")
      BY <1>13, <2>2 DEF send_response
    <3>2. /\ k \in ReplyKinds
          /\ k \in {"error", "unregistered_client"} \/ k = ResponseTo[Kind(t)]
          /\ k = "unregistered_client" => tasks[t].phase = "unregistered"
      BY <1>1, <3>1, ResponseFacts
    <3> HIDE DEF k
    <3> QED
      BY <1>2, <1>13, <2>2, <3>1, <3>2, ReplyTaskStep
  <2> QED
    BY <2>1, <2>2
<1>14. CASE catch_clause(t)
  <2>1. CASE conn[c] = "open"
    BY <1>2, <1>14, <2>1, ResponseFacts, ReplyTaskStep DEF catch_clause
  <2>2. CASE conn[c] # "open"
    <3>1. server' = "crashed" /\ UNCHANGED <<conn, clients, inbox, sent, tasks, replies>>
      BY <1>2, <1>14, <2>2 DEF catch_clause
    <3> QED
      BY <3>1, ServerEnds
  <2> QED
    BY <2>1, <2>2
<1> QED
  BY <1>2, <1>7, <1>8, <1>9, <1>10, <1>11, <1>12, <1>13, <1>14 DEF TaskStep

-----------------------------------------------------------------------------
(* The steps of the clients and of the connections.                        *)

\* Connections open, close or end; what was not read may be lost.
LEMMA ConnectionsChange ==
    ASSUME ServerInv, UNCHANGED <<sent, tasks, replies>>, server' \in {"running", "killed"},
           conn' \in [Connections -> {"new", "open", "closed", "gone"}],
           \A c \in Connections : /\ conn'[c] = "open" => conn[c] \in {"new", "open"}
                                  /\ conn'[c] = "new" => conn[c] = "new",
           inbox' \in [Connections -> Seq(1..MaxMessages)],
           \A c \in Connections : inbox'[c] = inbox[c] \/ inbox'[c] = <<>>,
           clients' \in [Listed' -> Sessions],
           \A c \in Listed' : \/ c \in Listed /\ clients'[c] = clients[c]
                              \/ conn[c] = "new" /\ clients'[c] = NoSession
    PROVE  ServerInv'
<1>1. StateType'
  BY DEF ServerInv, StateType
<1>R. \A c : Replied(c)' = Replied(c)
  BY DEF Replied
<1>2. ASSUME NEW c \in Connections
      PROVE  InboxOK(c)' /\ RepliesOK(c)' /\ ClientOK(c)'
  <2>1. InboxOK(c)'
    <3>1. InboxOK(c) /\ (conn'[c] = "new" => conn[c] = "new")
      BY DEF ServerInv
    <3>2. CASE inbox'[c] = inbox[c]
      BY <1>R, <3>1, <3>2 DEF InboxOK
    <3>3. CASE inbox'[c] = <<>>
      <4>1. DOMAIN inbox'[c] = {}
        BY <3>3
      <4> QED
        BY <3>1, <4>1 DEF InboxOK
    <3> QED
      BY <3>2, <3>3
  <2>2. RepliesOK(c)'
    BY DEF ServerInv, RepliesOK
  <2>3. ClientOK(c)'
    BY DEF ServerInv, StateType, ClientOK
  <2> QED
    BY <2>1, <2>2, <2>3
<1>3. ASSUME NEW t \in DOMAIN tasks'
      PROVE  TaskOK(t)' /\ UnregisteredOK(t)' /\ SessionOK(t)'
  <2>1. /\ t \in DOMAIN tasks /\ t[1] \in Connections
        /\ TaskOK(t) /\ UnregisteredOK(t) /\ SessionOK(t)
    BY TaskPair DEF ServerInv, StateType
  <2>2. t[1] \in DOMAIN clients' => t[1] \in DOMAIN clients /\ clients'[t[1]] = clients[t[1]]
    BY <2>1 DEF ServerInv, StateType, TaskOK
  <2>3. TaskOK(t)'
    <3>1. conn'[t[1]] # "new" /\ (conn'[t[1]] = "open" => conn[t[1]] = "open")
      <4>1. conn[t[1]] # "new"
        BY <2>1 DEF TaskOK
      <4> QED
        BY <2>1, <4>1
    <3>2. Kind(t)' = Kind(t)
      BY DEF Kind
    <3> QED
      BY <1>R, <2>1, <2>2, <3>1, <3>2 DEF TaskOK
  <2>4. UnregisteredOK(t)' /\ SessionOK(t)'
    BY <2>1 DEF UnregisteredOK, SessionOK, GoodSession, Kind
  <2> QED
    BY <2>3, <2>4
<1>4. ASSUME NEW c \in Waiting
      PROVE  WaitingOK(c)'
  <2>1. c \in Connections /\ WaitingOK(c) /\ StateType /\ InboxOK(c)
    BY WebsocketAssumption DEF ServerInv
  <2>2. CASE c \in Listed
    BY <2>1, <2>2 DEF StateType, WaitingOK, Registered, Listed
  <2>3. CASE c \notin Listed /\ c \in Listed'
    <3>1. DOMAIN sent[c] = {}
      BY <2>1, <2>3, SentFacts DEF InboxOK
    <3> QED
      BY <2>1, <3>1 DEF WaitingOK
  <2>4. CASE c \notin Listed'
    BY <2>1, <2>4 DEF WaitingOK
  <2> QED
    BY <2>2, <2>3, <2>4
<1>5. RegisteredIsServed' /\ NoTaskOutlivesServer'
  BY DEF ServerInv, RegisteredIsServed, NoTaskOutlivesServer
<1> QED
  BY <1>1, <1>2, <1>3, <1>4, <1>5 DEF ServerInv

\* A client sends a message.
LEMMA SendStep ==
    ASSUME ServerInv, NEW c \in Connections, NEW kind \in Kinds, Send(c, kind)
    PROVE  ServerInv'
<1>0. PICK m : m = Len(sent[c]) + 1
  OBVIOUS
<1>1. /\ StateType /\ Len(sent[c]) \in Nat /\ DOMAIN sent[c] = 1..Len(sent[c])
      /\ conn[c] = "open" /\ m \in 1..MaxMessages
      /\ UNCHANGED <<conn, clients, tasks, replies, server>>
  BY <1>0, SentFacts, WebsocketAssumption DEF ServerInv, Send
<1>2. /\ sent' \in [Connections -> Seq(Kinds)]
      /\ Len(sent'[c]) = m /\ DOMAIN sent'[c] = DOMAIN sent[c] \cup {m}
      /\ \A n \in DOMAIN sent[c] : sent'[c][n] = sent[c][n]
      /\ \A d \in Connections : d # c => sent'[d] = sent[d]
  BY <1>0, <1>1 DEF Send, StateType
<1>3. /\ inbox' \in [Connections -> Seq(1..MaxMessages)]
      /\ DOMAIN inbox'[c] = DOMAIN inbox[c] \cup {Len(inbox[c]) + 1}
      /\ Len(inbox[c]) + 1 \notin DOMAIN inbox[c]
      /\ inbox'[c][Len(inbox[c]) + 1] = m
      /\ \A i \in DOMAIN inbox[c] : inbox'[c][i] = inbox[c][i]
      /\ \A d \in Connections : d # c => inbox'[d] = inbox[d]
  BY <1>0, <1>1 DEF Send, StateType
<1>4. m \notin DOMAIN sent[c]
  BY <1>0, <1>1
<1>5. m \notin Replied(c) /\ <<c, m>> \notin DOMAIN tasks
  BY <1>1, <1>4, TaskPair DEF ServerInv, RepliesOK, Replied, TaskOK
<1>R. \A d : Replied(d)' = Replied(d)
  BY <1>1 DEF Replied
<1>6. StateType'
  <2>1. \A d \in Connections : Len(sent'[d]) <= MaxMessages
    <3>1. m <= MaxMessages
      BY <1>1, WebsocketAssumption
    <3> QED
      BY <1>1, <1>2, <3>1 DEF StateType
  <2> QED
    BY <1>1, <1>2, <1>3, <2>1 DEF StateType, Listed
<1>7. ASSUME NEW d \in Connections
      PROVE  InboxOK(d)' /\ RepliesOK(d)' /\ ClientOK(d)'
  <2>1. InboxOK(d)'
    <3>1. CASE d # c
      BY <1>1, <1>2, <1>3, <1>R, <3>1 DEF ServerInv, InboxOK
    <3>2. CASE d = c
      <4>1. \A i \in DOMAIN inbox[c] : inbox[c][i] \in DOMAIN sent[c]
        BY DEF ServerInv, InboxOK
      <4>2. \A i, j \in DOMAIN inbox'[c] : inbox'[c][i] = inbox'[c][j] => i = j
        BY <1>3, <1>4, <4>1 DEF ServerInv, InboxOK
      <4>3. ASSUME NEW i \in DOMAIN inbox'[c]
            PROVE  /\ inbox'[c][i] \in DOMAIN sent'[c]
                   /\ inbox'[c][i] \notin Replied(c)
                   /\ <<c, inbox'[c][i]>> \notin DOMAIN tasks
        <5>1. CASE i \in DOMAIN inbox[c]
          BY <1>2, <1>3, <5>1 DEF ServerInv, InboxOK
        <5>2. CASE i = Len(inbox[c]) + 1
          BY <1>2, <1>3, <1>5, <5>2
        <5> QED
          BY <1>3, <5>1, <5>2
      <4> QED
        BY <1>1, <1>R, <3>2, <4>2, <4>3 DEF InboxOK
    <3> QED
      BY <3>1, <3>2
  <2>2. RepliesOK(d)'
    <3>1. RepliesOK(d) /\ UNCHANGED replies
      BY <1>1 DEF ServerInv
    <3>2. \A n \in DOMAIN sent[d] : n \in DOMAIN sent'[d] /\ sent'[d][n] = sent[d][n]
      BY <1>2
    <3> QED
      BY <3>1, <3>2 DEF RepliesOK
  <2>3. ClientOK(d)'
    BY <1>1, <1>2 DEF ServerInv, ClientOK
  <2> QED
    BY <2>1, <2>2, <2>3
<1>8. ASSUME NEW t \in DOMAIN tasks'
      PROVE  TaskOK(t)' /\ UnregisteredOK(t)' /\ SessionOK(t)'
  <2>1. /\ t \in DOMAIN tasks /\ t[1] \in Connections /\ t[2] \in DOMAIN sent[t[1]]
        /\ TaskOK(t) /\ UnregisteredOK(t) /\ SessionOK(t)
    BY <1>1, TaskPair DEF ServerInv, StateType, TaskOK
  <2>2. Kind(t)' = Kind(t) /\ t[2] \in DOMAIN sent'[t[1]]
    BY <1>2, <2>1 DEF Kind
  <2>3. TaskOK(t)'
    BY <1>1, <1>R, <2>1, <2>2 DEF TaskOK
  <2>4. UnregisteredOK(t)'
    BY <1>1, <2>1 DEF UnregisteredOK
  <2>5. SessionOK(t)'
    <3> SUFFICES ASSUME tasks[t].phase = "calling"
                 PROVE  GoodSession(t, tasks[t].session)'
      BY <1>1 DEF SessionOK
    <3> DEFINE s == tasks[t].session
    <3>1. GoodSession(t, s)
      BY <2>1 DEF SessionOK
    <3>2. s[2] \in DOMAIN sent'[t[1]] /\ Kind(s)' = Kind(s)
      <4>1. s[1] = t[1] /\ s[2] \in DOMAIN sent[t[1]]
        BY <3>1 DEF GoodSession
      <4>2. s[2] \in DOMAIN sent'[t[1]] /\ sent'[t[1]][s[2]] = sent[t[1]][s[2]]
        BY <1>2, <2>1, <4>1
      <4>3. UNCHANGED s
        BY <1>1
      <4> HIDE DEF s
      <4> QED
        BY <4>1, <4>2, <4>3 DEF Kind
    <3>3. ASSUME t[1] \in Waiting, NEW n \in (s[2] + 1)..(t[2] - 1)
          PROVE  Kind(<<t[1], n>>)' = Kind(<<t[1], n>>)
      <4>1. n \in DOMAIN sent[t[1]]
        <5>1. DOMAIN sent[t[1]] = 1..Len(sent[t[1]]) /\ Len(sent[t[1]]) \in Nat
          BY <1>1, <2>1, SentFacts
        <5> QED
          BY <2>1, <3>1, <5>1 DEF GoodSession
      <4> QED
        BY <1>2, <2>1, <4>1 DEF Kind
    <3> QED
      BY <1>1, <3>1, <3>2, <3>3 DEF GoodSession
  <2> QED
    BY <2>3, <2>4, <2>5
<1>9. ASSUME NEW d \in Waiting
      PROVE  WaitingOK(d)'
  <2>1. d \in Connections /\ WaitingOK(d)
    BY WebsocketAssumption DEF ServerInv
  <2>2. CASE d # c
    BY <1>1, <1>2, <2>1, <2>2 DEF WaitingOK, Registered
  <2>3. CASE d = c
    <3>1. Len(sent[c]) = Len(replies[c]) /\ Len(replies[c]) \in Nat
      <4>1. \A n \in DOMAIN sent[c] : n \in Replied(c)
        BY <2>3 DEF Send
      <4>2. Replied(c) = 1..Len(replies[c]) /\ Len(replies[c]) \in Nat
        BY <2>3, WaitingFacts
      <4> QED
        <5>1. Len(sent[c]) \in {Len(replies[c]), Len(replies[c]) + 1}
          BY <2>1, <2>3 DEF WaitingOK
        <5>2. \A n \in 1..Len(sent[c]) : n \in 1..Len(replies[c])
          BY <1>1, <4>1, <4>2
        <5>3. Len(sent[c]) # Len(replies[c]) + 1
          <6> SUFFICES ASSUME Len(sent[c]) = Len(replies[c]) + 1
                       PROVE  FALSE
            OBVIOUS
          <6>1. Len(replies[c]) + 1 \in 1..Len(sent[c])
            BY <1>1, <4>2
          <6> QED
            BY <4>2, <5>2, <6>1
        <5> QED
          BY <5>1, <5>3, <4>2
    <3>2. Len(sent'[c]) = Len(replies'[c]) + 1
      BY <1>0, <1>1, <1>2, <3>1
    <3>3. ~Registered(c, m)'
      <4>1. UNCHANGED <<replies, tasks>> /\ ~(m <= Len(replies[c]))
        BY <1>0, <1>1, <3>1
      <4> QED
        BY <1>5, <4>1 DEF Registered
    <3>4. \A n \in DOMAIN sent[c] : Registered(c, n)' => Registered(c, n)
      BY <1>1, <1>2 DEF Registered
    <3> QED
      <4>1. /\ UNCHANGED <<replies, clients>>
            /\ \A i \in DOMAIN replies[c] : replies[c][i][1] = i
            /\ c \in DOMAIN clients => \A n \in DOMAIN sent[c] :
                  Registered(c, n) => clients[c] # NoSession /\ n <= clients[c][2]
        BY <1>1, <2>1, <2>3 DEF WaitingOK
      <4>2. c \in DOMAIN clients' => \A n \in DOMAIN sent'[c] :
               Registered(c, n)' => clients'[c] # NoSession /\ n <= clients'[c][2]
        BY <1>2, <3>3, <3>4, <4>1
      <4> QED
        BY <2>3, <3>2, <4>1, <4>2 DEF WaitingOK
  <2> QED
    BY <2>2, <2>3
<1>10. RegisteredIsServed' /\ NoTaskOutlivesServer'
  BY <1>1 DEF ServerInv, RegisteredIsServed, NoTaskOutlivesServer
<1> QED
  BY <1>6, <1>7, <1>8, <1>9, <1>10 DEF ServerInv

\* The first message of an inbox is taken from it.
LEMMA TakeMessage ==
    ASSUME ServerInv, NEW c \in Connections, inbox[c] # <<>>
    PROVE  LET n == Head(inbox[c])
               rest == [inbox EXCEPT ![c] = Tail(@)]
           IN  /\ n \in DOMAIN sent[c] /\ n \in 1..MaxMessages
               /\ n \notin Replied(c) /\ <<c, n>> \notin DOMAIN tasks
               /\ rest \in [Connections -> Seq(1..MaxMessages)]
               /\ \A d \in Connections : d # c => rest[d] = inbox[d]
               /\ \A i \in DOMAIN rest[c] : /\ i + 1 \in DOMAIN inbox[c]
                                            /\ rest[c][i] = inbox[c][i + 1]
                                            /\ rest[c][i] # n
               /\ \A i, j \in DOMAIN rest[c] : rest[c][i] = rest[c][j] => i = j
<1> DEFINE q == inbox[c]
           n == Head(q)
           rest == [inbox EXCEPT ![c] = Tail(q)]
<1>1. q \in Seq(1..MaxMessages) /\ inbox \in [Connections -> Seq(1..MaxMessages)] /\ InboxOK(c)
  BY DEF ServerInv, StateType
<1>2. /\ Tail(q) \in Seq(1..MaxMessages) /\ n = q[1] /\ 1 \in DOMAIN q
      /\ \A i \in DOMAIN Tail(q) : i \in Nat \ {0} /\ i + 1 \in DOMAIN q /\ Tail(q)[i] = q[i + 1]
  BY <1>1
<1>3. \A i, j \in DOMAIN q : q[i] = q[j] => i = j
  BY <1>1 DEF InboxOK
<1>4. \A i \in DOMAIN q : q[i] \in DOMAIN sent[c] /\ q[i] \notin Replied(c) /\ <<c, q[i]>> \notin DOMAIN tasks
  BY <1>1 DEF InboxOK
<1>5. /\ rest \in [Connections -> Seq(1..MaxMessages)] /\ rest[c] = Tail(q)
      /\ \A d \in Connections : d # c => rest[d] = inbox[d]
  BY <1>1, <1>2
<1>6. n \in 1..MaxMessages
  BY <1>1, HeadTailProperties
<1> HIDE DEF q, n, rest
<1>7. \A i \in DOMAIN rest[c] : i + 1 \in DOMAIN q /\ rest[c][i] = q[i + 1] /\ rest[c][i] # n
  <2> SUFFICES ASSUME NEW i \in DOMAIN rest[c]
               PROVE  i + 1 \in DOMAIN q /\ rest[c][i] = q[i + 1] /\ rest[c][i] # n
    OBVIOUS
  <2>1. i \in Nat \ {0} /\ i + 1 \in DOMAIN q /\ rest[c][i] = q[i + 1]
    BY <1>2, <1>5
  <2>2. i + 1 # 1
    BY <2>1
  <2> QED
    BY <1>2, <1>3, <2>1, <2>2
<1>8. \A i, j \in DOMAIN rest[c] : rest[c][i] = rest[c][j] => i = j
  <2> SUFFICES ASSUME NEW i \in DOMAIN rest[c], NEW j \in DOMAIN rest[c], rest[c][i] = rest[c][j]
               PROVE  i = j
    OBVIOUS
  <2>1. i \in Nat /\ j \in Nat /\ i + 1 = j + 1
    BY <1>2, <1>3, <1>5
  <2> QED
    BY <2>1
<1>9. /\ n \in DOMAIN sent[c] /\ n \in 1..MaxMessages
      /\ n \notin Replied(c) /\ <<c, n>> \notin DOMAIN tasks
  BY <1>2, <1>4, <1>6
<1> QED
  BY <1>5, <1>7, <1>8, <1>9 DEF q, n, rest

\* A message that cannot be read is answered at once.
LEMMA MalformedStep ==
    ASSUME ServerInv, NEW c \in Connections, inbox[c] # <<>>, Up,
           Reply(c, Head(inbox[c]), "error"), inbox' = [inbox EXCEPT ![c] = Tail(@)],
           UNCHANGED <<conn, clients, sent, tasks, server>>,
           sent[c][Head(inbox[c])] = "malformed"
    PROVE  ServerInv'
<1>0. PICK n : n = Head(inbox[c])
  OBVIOUS
<1>1. /\ n \in DOMAIN sent[c] /\ n \in 1..MaxMessages
      /\ n \notin Replied(c) /\ <<c, n>> \notin DOMAIN tasks
      /\ inbox' \in [Connections -> Seq(1..MaxMessages)]
      /\ \A d \in Connections : d # c => inbox'[d] = inbox[d]
      /\ \A i \in DOMAIN inbox'[c] : /\ i + 1 \in DOMAIN inbox[c]
                                     /\ inbox'[c][i] = inbox[c][i + 1]
                                     /\ inbox'[c][i] # n
      /\ \A i, j \in DOMAIN inbox'[c] : inbox'[c][i] = inbox'[c][j] => i = j
  BY <1>0, TakeMessage
<1>2. Reply(c, n, "error") /\ "error" \in ReplyKinds /\ StateType
  BY <1>0, ResponseFacts DEF ServerInv
<1>3. /\ replies' \in [Connections -> Seq((1..MaxMessages) \X ReplyKinds)]
      /\ \A d \in Connections : d # c => replies'[d] = replies[d] /\ Replied(d)' = Replied(d)
      /\ Len(replies'[c]) = Len(replies[c]) + 1 /\ Replied(c)' = Replied(c) \cup {n}
  BY <1>1, <1>2, ReplyEffect
<1>4. /\ \A d \in Connections : RepliesOK(d)'
      /\ RegisteredIsServed'
      /\ \A d \in Waiting : /\ \A i \in DOMAIN replies'[d] : replies'[d][i][1] = i
                            /\ Len(sent'[d]) \in {Len(replies'[d]), Len(replies'[d]) + 1}
  BY <1>1, <1>2, RepliesAfter
<1>5. StateType'
  BY <1>1, <1>3 DEF ServerInv, StateType, Listed
<1>6. ASSUME NEW d \in Connections
      PROVE  InboxOK(d)' /\ ClientOK(d)'
  <2>1. ClientOK(d)'
    BY DEF ServerInv, ClientOK
  <2>2. InboxOK(d) /\ InboxOK(c)
    BY DEF ServerInv
  <2>3. CASE d # c
    <3>1. inbox'[d] = inbox[d] /\ Replied(d)' = Replied(d)
      BY <1>1, <1>3, <2>3
    <3> QED
      BY <2>1, <2>2, <3>1 DEF InboxOK
  <2>4. CASE d = c
    <3>1. \A i \in DOMAIN inbox'[c] : /\ inbox'[c][i] \in DOMAIN sent[c]
                                      /\ inbox'[c][i] \notin Replied(c)'
                                      /\ <<c, inbox'[c][i]>> \notin DOMAIN tasks
      BY <1>1, <1>3, <2>2 DEF InboxOK
    <3>2. \A i, j \in DOMAIN inbox'[c] : inbox'[c][i] = inbox'[c][j] => i = j
      BY <1>1
    <3>3. conn'[c] = "new" => Len(sent'[c]) = 0
      BY <2>2 DEF InboxOK
    <3> QED
      BY <2>1, <2>4, <3>1, <3>2, <3>3 DEF InboxOK
  <2> QED
    BY <2>1, <2>3, <2>4
<1>7. ASSUME NEW u \in DOMAIN tasks'
      PROVE  TaskOK(u)' /\ UnregisteredOK(u)' /\ SessionOK(u)'
  <2>0. /\ u \in DOMAIN tasks /\ u = <<u[1], u[2]>> /\ u[1] \in Connections
        /\ TaskOK(u) /\ UnregisteredOK(u) /\ SessionOK(u)
    BY TaskPair DEF ServerInv, StateType
  <2>1. u[2] \in Replied(u[1])' => u[2] \in Replied(u[1])
    <3>1. u[1] = c => u[2] # n
      <4>1. u # <<c, n>>
        BY <1>1, <2>0
      <4> QED
        BY <2>0, <4>1, Zenon
    <3> QED
      BY <1>3, <2>0, <3>1
  <2>2. TaskOK(u)'
    BY <2>0, <2>1 DEF TaskOK, Kind
  <2>3. UnregisteredOK(u)'
    <3>1. CASE u[1] # c
      BY <1>3, <2>0, <3>1 DEF UnregisteredOK
    <3>2. CASE u[1] = c /\ c \in Waiting
      <4>1. u[2] # n /\ u[2] \in DOMAIN sent[c]
        BY <1>1, <2>0, <3>2 DEF TaskOK
      <4>2. u[2] \in Replied(c)
        BY <1>1, <3>2, <4>1, WaitingFacts
      <4> QED
        BY <2>0, <3>2, <4>2 DEF TaskOK, UnregisteredOK
    <3>3. CASE u[1] = c /\ c \notin Waiting
      BY <3>3 DEF UnregisteredOK
    <3> QED
      BY <3>1, <3>2, <3>3
  <2>4. SessionOK(u)'
    BY <2>0 DEF SessionOK, GoodSession, Kind
  <2> QED
    BY <2>2, <2>3, <2>4
<1>8. ASSUME NEW d \in Waiting
      PROVE  WaitingOK(d)'
  <2>0. d \in Connections /\ WaitingOK(d)
    BY WebsocketAssumption DEF ServerInv
  <2>1. ASSUME NEW i \in DOMAIN sent[d], Registered(d, i)'
        PROVE  Registered(d, i)
    <3>1. CASE d # c
      BY <1>3, <2>0, <2>1, <3>1 DEF Registered
    <3>2. CASE d = c /\ i # n
      <4>1. n = Len(replies[c]) + 1 /\ Len(replies[c]) \in Nat /\ i \in Nat
        BY <1>1, <1>2, <3>2, WaitingFacts, SentFacts
      <4> QED
        BY <1>3, <2>1, <3>2, <4>1 DEF Registered
    <3>3. CASE d = c /\ i = n
      BY <1>0, <2>1, <3>3 DEF Registered
    <3> QED
      BY <3>1, <3>2, <3>3
  <2> QED
    BY <1>4, <2>0, <2>1 DEF WaitingOK
<1>9. NoTaskOutlivesServer'
  BY DEF NoTaskOutlivesServer, Up
<1> QED
  BY <1>4, <1>5, <1>6, <1>7, <1>8, <1>9 DEF ServerInv

\* A task is scheduled for a message.
LEMMA ScheduleStep ==
    ASSUME ServerInv, NEW c \in Connections, inbox[c] # <<>>, Up, conn[c] = "open",
           tasks' = With(tasks, <<c, Head(inbox[c])>>, [phase |-> "scheduled", session |-> NoSession]),
           inbox' = [inbox EXCEPT ![c] = Tail(@)],
           UNCHANGED <<conn, clients, sent, replies, server>>,
           sent[c][Head(inbox[c])] \notin {"kill", "malformed"}
    PROVE  ServerInv'
<1>0. PICK n : n = Head(inbox[c])
  OBVIOUS
<1>1. /\ n \in DOMAIN sent[c] /\ n \in 1..MaxMessages
      /\ n \notin Replied(c) /\ <<c, n>> \notin DOMAIN tasks
      /\ inbox' \in [Connections -> Seq(1..MaxMessages)]
      /\ \A d \in Connections : d # c => inbox'[d] = inbox[d]
      /\ \A i \in DOMAIN inbox'[c] : /\ i + 1 \in DOMAIN inbox[c]
                                     /\ inbox'[c][i] = inbox[c][i + 1]
                                     /\ inbox'[c][i] # n
      /\ \A i, j \in DOMAIN inbox'[c] : inbox'[c][i] = inbox'[c][j] => i = j
  BY <1>0, TakeMessage
<1>t. PICK t : t = <<c, n>>
  OBVIOUS
<1>2. /\ t \in AllTasks /\ t[1] = c /\ t[2] = n /\ t \notin DOMAIN tasks
  BY <1>1, <1>t, TaskPair
<1>3. /\ DOMAIN tasks' = DOMAIN tasks \cup {t} /\ tasks'[t].phase = "scheduled"
      /\ tasks' \in [DOMAIN tasks' -> [phase : Phases, session : Sessions]]
      /\ \A u \in DOMAIN tasks : tasks'[u] = tasks[u]
  <2> DEFINE v == [phase |-> "scheduled", session |-> NoSession]
  <2>1. v \in [phase : Phases, session : Sessions] /\ v.phase = "scheduled"
    BY DEF Phases, Sessions
  <2>2. tasks' = [u \in DOMAIN tasks \cup {t} |-> IF u = t THEN v ELSE tasks[u]]
    BY <1>0, <1>t DEF With
  <2> HIDE DEF v
  <2>3. tasks \in [DOMAIN tasks -> [phase : Phases, session : Sessions]]
    BY DEF ServerInv, StateType
  <2> QED
    BY <1>2, <2>1, <2>2, <2>3
<1>R. \A d : Replied(d)' = Replied(d)
  BY DEF Replied
<1>4. StateType'
  <2>1. DOMAIN tasks' \subseteq AllTasks
    BY <1>2, <1>3 DEF ServerInv, StateType
  <2>2. UNCHANGED Listed
    BY DEF Listed
  <2> QED
    BY <1>1, <1>3, <2>1, <2>2 DEF ServerInv, StateType
<1>5. ASSUME NEW d \in Connections
      PROVE  InboxOK(d)' /\ RepliesOK(d)' /\ ClientOK(d)'
  <2>1. RepliesOK(d)' /\ ClientOK(d)'
    BY DEF ServerInv, RepliesOK, ClientOK
  <2>2. InboxOK(d) /\ InboxOK(c)
    BY DEF ServerInv
  <2>3. CASE d # c
    <3>1. \A i \in DOMAIN inbox[d] : <<d, inbox[d][i]>> # t
      BY <1>t, <2>3
    <3>2. inbox'[d] = inbox[d]
      BY <1>1, <2>3
    <3>3. \A i \in DOMAIN inbox[d] : <<d, inbox[d][i]>> \notin DOMAIN tasks'
      BY <1>3, <2>2, <3>1 DEF InboxOK
    <3> QED
      BY <1>R, <2>1, <2>2, <3>2, <3>3 DEF InboxOK
  <2>4. CASE d = c
    <3>1. \A i \in DOMAIN inbox'[c] : /\ inbox'[c][i] \in DOMAIN sent[c]
                                      /\ inbox'[c][i] \notin Replied(c)
                                      /\ <<c, inbox'[c][i]>> \notin DOMAIN tasks
                                      /\ <<c, inbox'[c][i]>> # t
      BY <1>1, <1>t, <2>2 DEF InboxOK
    <3>2. \A i \in DOMAIN inbox'[c] : <<c, inbox'[c][i]>> \notin DOMAIN tasks'
      BY <1>3, <3>1
    <3>3. \A i, j \in DOMAIN inbox'[c] : inbox'[c][i] = inbox'[c][j] => i = j
      BY <1>1
    <3>4. conn'[c] = "new" => Len(sent'[c]) = 0
      BY <2>2 DEF InboxOK
    <3> QED
      BY <1>R, <2>1, <2>4, <3>1, <3>2, <3>3, <3>4 DEF InboxOK
  <2> QED
    BY <2>1, <2>3, <2>4
<1>6. ASSUME NEW u \in DOMAIN tasks'
      PROVE  TaskOK(u)' /\ UnregisteredOK(u)' /\ SessionOK(u)'
  <2>1. CASE u = t
    <3>1. Kind(t)' \in DOMAIN ResponseTo
      <4>1. sent[c][n] \in Kinds
        BY <1>1, SentFacts DEF ServerInv
      <4> QED
        BY <1>0, <1>2, <4>1, KindsAssumption DEF Kind
    <3> QED
      BY <1>1, <1>2, <1>3, <1>R, <2>1, <3>1 DEF TaskOK, UnregisteredOK, SessionOK
  <2>2. CASE u \in DOMAIN tasks
    <3>1. tasks'[u] = tasks[u] /\ TaskOK(u) /\ UnregisteredOK(u) /\ SessionOK(u)
      BY <1>3, <2>2 DEF ServerInv
    <3>2. TaskOK(u)'
      BY <1>R, <3>1 DEF TaskOK, Kind
    <3>3. UnregisteredOK(u)' /\ SessionOK(u)'
      BY <3>1 DEF UnregisteredOK, SessionOK, GoodSession, Kind
    <3> QED
      BY <3>2, <3>3
  <2> QED
    BY <1>3, <2>1, <2>2
<1>7. ASSUME NEW d \in Waiting
      PROVE  WaitingOK(d)'
  <2>1. \A i \in DOMAIN sent[d] : Registered(d, i)' => Registered(d, i)
    BY <1>3 DEF Registered
  <2> QED
    BY <2>1 DEF ServerInv, WaitingOK
<1>8. RegisteredIsServed' /\ NoTaskOutlivesServer'
  BY DEF ServerInv, RegisteredIsServed, NoTaskOutlivesServer, Up
<1> QED
  BY <1>4, <1>5, <1>6, <1>7, <1>8 DEF ServerInv

\* A handler of the connections runs.
LEMMA OnMessageStep ==
    ASSUME ServerInv, NEW c \in Connections, on_message(c)
    PROVE  ServerInv'
<1> DEFINE kind == sent[c][Head(inbox[c])]
<1>1. Up /\ conn[c] = "open" /\ inbox[c] # <<>> /\ UNCHANGED <<clients, sent>>
  BY DEF on_message
<1>2. CASE kind = "kill"
  <2>1. /\ server' = "killed" /\ UNCHANGED <<tasks, replies>>
        /\ conn' = [d \in Connections |-> IF d \in KilledConnections THEN "closed" ELSE conn[d]]
        /\ inbox' = [d \in Connections |-> <<>>]
    BY <1>2 DEF on_message
  <2>2. /\ conn' \in [Connections -> {"new", "open", "closed", "gone"}]
        /\ \A d \in Connections : /\ conn'[d] = "open" => conn[d] \in {"new", "open"}
                                  /\ conn'[d] = "new" => conn[d] = "new"
    BY <2>1 DEF ServerInv, StateType
  <2>3. /\ inbox' \in [Connections -> Seq(1..MaxMessages)]
        /\ \A d \in Connections : inbox'[d] = inbox[d] \/ inbox'[d] = <<>>
    BY <2>1
  <2>4. Listed' = Listed
    BY <2>1 DEF Listed, KilledConnections
  <2>5. clients' \in [Listed' -> Sessions]
    BY <1>1, <2>4 DEF ServerInv, StateType
  <2> QED
    BY <1>1, <2>1, <2>2, <2>3, <2>4, <2>5, ConnectionsChange
<1>3. CASE kind = "malformed"
  <2>1. /\ Reply(c, Head(inbox[c]), "error") /\ inbox' = [inbox EXCEPT ![c] = Tail(@)]
        /\ UNCHANGED <<conn, tasks, server>>
    BY <1>3 DEF on_message
  <2> QED
    BY <1>1, <1>3, <2>1, MalformedStep
<1>4. CASE kind \notin {"kill", "malformed"}
  <2>1. /\ tasks' = With(tasks, <<c, Head(inbox[c])>>,
                         [phase |-> "scheduled", session |-> NoSession])
        /\ inbox' = [inbox EXCEPT ![c] = Tail(@)] /\ UNCHANGED <<conn, replies, server>>
    BY <1>4 DEF on_message
  <2> QED
    BY <1>1, <1>4, <2>1, ScheduleStep
<1> QED
  BY <1>2, <1>3, <1>4

\* A connection opens, closes or ends.
LEMMA ConnectionStep ==
    ASSUME ServerInv, NEW c \in Connections, Leave(c) \/ on_open(c) \/ on_close(c)
    PROVE  ServerInv'
<1>1. StateType /\ UNCHANGED <<sent, tasks, replies, server>> /\ server' \in {"running", "killed"}
  BY DEF ServerInv, Leave, on_open, on_close, Up
<1>2. /\ conn' \in [Connections -> {"new", "open", "closed", "gone"}]
      /\ \A d \in Connections : /\ conn'[d] = "open" => conn[d] \in {"new", "open"}
                                /\ conn'[d] = "new" => conn[d] = "new"
  BY <1>1 DEF StateType, Leave, on_open, on_close
<1>3. /\ inbox' \in [Connections -> Seq(1..MaxMessages)]
      /\ \A d \in Connections : inbox'[d] = inbox[d] \/ inbox'[d] = <<>>
  <2>1. CASE Leave(c)
    BY <1>1, <2>1 DEF StateType, Leave
  <2>2. CASE on_open(c) \/ on_close(c)
    BY <1>1, <2>2 DEF StateType, on_open, on_close
  <2> QED
    BY <2>1, <2>2
<1>4. /\ clients' \in [Listed' -> Sessions]
      /\ \A d \in Listed' : \/ d \in Listed /\ clients'[d] = clients[d]
                            \/ conn[d] = "new" /\ clients'[d] = NoSession
  <2>1. CASE Leave(c)
    <3>1. Listed' = Listed /\ UNCHANGED clients
      BY <1>1, <2>1 DEF Leave, Listed, StateType
    <3> QED
      BY <1>1, <3>1 DEF StateType
  <2>2. CASE on_open(c)
    <3>1. /\ Listed' = Listed \cup {c} /\ conn[c] = "new" /\ c \notin Listed
          /\ clients' = With(clients, c, NoSession)
      BY <1>1, <2>2 DEF on_open, Listed, StateType
    <3>2. NoSession \in Sessions
      BY DEF Sessions
    <3>3. clients' = [d \in Listed' |-> IF d = c THEN NoSession ELSE clients[d]]
      BY <1>1, <3>1 DEF With, StateType
    <3> QED
      BY <1>1, <3>1, <3>2, <3>3 DEF StateType
  <2>3. CASE on_close(c)
    <3>1. Listed' = Listed \ {c} /\ clients' = Without(clients, c)
      BY <1>1, <2>3 DEF on_close, Listed, StateType
    <3>2. clients' = [d \in Listed' |-> clients[d]]
      BY <1>1, <3>1 DEF Without, StateType
    <3> QED
      BY <1>1, <3>1, <3>2 DEF StateType
  <2> QED
    BY <2>1, <2>2, <2>3
<1> QED
  BY <1>1, <1>2, <1>3, <1>4, ConnectionsChange

-----------------------------------------------------------------------------
(* The invariant holds, and with it the properties.                        *)

\* The invariant holds initially.
LEMMA InitInv == Init => ServerInv
<1> SUFFICES ASSUME Init
             PROVE  ServerInv
  OBVIOUS
<1> USE DEF Init
<1>1. DOMAIN tasks = {} /\ DOMAIN clients = {} /\ Listed = {}
  BY DEF Listed
<1>2. StateType
  <2>1. clients \in [Listed -> Sessions]
    BY <1>1
  <2>2. tasks \in [DOMAIN tasks -> [phase : Phases, session : Sessions]]
    BY <1>1
  <2> QED
    BY <1>1, <2>1, <2>2, WebsocketAssumption DEF StateType
<1>3. \A c \in Connections : DOMAIN inbox[c] = {} /\ DOMAIN replies[c] = {} /\ DOMAIN sent[c] = {}
  OBVIOUS
<1>4. \A c \in Connections : InboxOK(c) /\ RepliesOK(c) /\ ClientOK(c)
  BY <1>1, <1>3 DEF InboxOK, RepliesOK, ClientOK
<1>5. \A c \in Waiting : WaitingOK(c)
  BY <1>1, <1>3, WebsocketAssumption DEF WaitingOK
<1>6. RegisteredIsServed /\ NoTaskOutlivesServer
  BY <1>1, <1>3, WebsocketAssumption DEF RegisteredIsServed, NoTaskOutlivesServer
<1> QED
  BY <1>1, <1>2, <1>4, <1>5, <1>6 DEF ServerInv

\* Every step keeps the invariant.
LEMMA NextInv == ServerInv /\ [Next]_vars => ServerInv'
<1> SUFFICES ASSUME ServerInv, [Next]_vars
             PROVE  ServerInv'
  OBVIOUS
<1>1. ASSUME NEW c \in Connections, NEW kind \in Kinds, Send(c, kind)
      PROVE  ServerInv'
  BY <1>1, SendStep
<1>2. ASSUME NEW c \in Connections, Leave(c) \/ on_open(c) \/ on_close(c) \/ on_message(c)
      PROVE  ServerInv'
  BY <1>2, ConnectionStep, OnMessageStep
<1>3. ASSUME NEW t \in DOMAIN tasks, RunTask(t)
      PROVE  ServerInv'
  BY <1>3, RunTaskStep
<1>4. CASE run_returns
  BY <1>4, ServerEnds DEF run_returns
<1>5. CASE UNCHANGED vars
  <2>1. UNCHANGED <<conn, clients, inbox, sent, tasks, replies, server>>
    BY <1>5 DEF vars, server_vars, client_vars, request_vars, task_vars, reply_vars
  <2> QED
    BY <2>1 DEF ServerInv, StateType, Listed, InboxOK, RepliesOK, ClientOK, TaskOK,
                UnregisteredOK, SessionOK, GoodSession, Kind, Replied, WaitingOK,
                Registered, RegisteredIsServed, NoTaskOutlivesServer
<1> QED
  BY <1>1, <1>2, <1>3, <1>4, <1>5 DEF Next

\* A client has as many replies as requests that have one.
LEMMA RepliesCounted ==
    ASSUME ServerInv, NEW c \in Connections
    PROVE  Cardinality(Replied(c)) = Len(replies[c])
<1> DEFINE N == 1..Len(replies[c])
           f == [i \in N |-> replies[c][i][1]]
<1>1. Len(replies[c]) \in Nat /\ DOMAIN replies[c] = N
  BY SentFacts DEF ServerInv
<1>2. \A i, j \in N : replies[c][i][1] = replies[c][j][1] => i = j
  BY <1>1 DEF ServerInv, RepliesOK
<1>3. Replied(c) = {replies[c][i][1] : i \in N}
  BY <1>1 DEF Replied
<1>4. f \in Bijection(N, Replied(c))
  <2>1. f \in [N -> Replied(c)] /\ \A i \in N : f[i] = replies[c][i][1]
    BY <1>3
  <2>2. f \in Injection(N, Replied(c))
    BY <1>2, <2>1 DEF Injection, IsInjective
  <2>3. f \in Surjection(N, Replied(c))
    BY <1>3, <2>1 DEF Surjection
  <2> QED
    BY <2>2, <2>3 DEF Bijection
<1>5. ExistsBijection(N, Replied(c))
  BY <1>4 DEF ExistsBijection
<1>6. IsFiniteSet(N) /\ Cardinality(N) = Len(replies[c])
  BY <1>1, FS_Interval
<1> QED
  BY <1>5, <1>6, FS_Bijection

\* The invariant implies that clients are kept apart.
LEMMA KeptApart == ServerInv => ClientsKeptApart
<1> SUFFICES ASSUME ServerInv
             PROVE  ClientsKeptApart
  OBVIOUS
<1>1. WebsocketTypeOK
  <2>1. ASSUME NEW c \in Connections
        PROVE  sent[c] \in BoundedSeq(Kinds, MaxMessages)
    <3>1. sent[c] \in Seq(Kinds) /\ Len(sent[c]) \in 0..MaxMessages
      BY SentFacts, WebsocketAssumption DEF ServerInv, StateType
    <3>2. sent[c] \in [1..Len(sent[c]) -> Kinds]
      BY <3>1
    <3> QED
      BY <3>1, <3>2 DEF BoundedSeq, SeqOf
  <2> QED
    BY <2>1 DEF ServerInv, StateType, Listed, WebsocketTypeOK
<1>2. RepliesMatch
  BY RepliesCounted DEF ServerInv, RepliesOK, RepliesMatch
<1>3. SessionOfClient
  BY DEF ServerInv, SessionOK, GoodSession, SessionOfClient
<1> QED
  BY <1>1, <1>2, <1>3 DEF ServerInv, ClientsKeptApart

\* Whichever tasks run, fail and outlive their connections: every client gets
\* replies to its own requests, one to each, of their kinds; its calls are made
\* with a session that it registered, and once its registration is acknowledged
\* it is not told that it has none; and no task runs when run() has returned.
THEOREM ClientsAreKeptApart == Spec => []ClientsKeptApart
BY InitInv, NextInv, KeptApart, PTL DEF Spec

-----------------------------------------------------------------------------
(* The server implements RequestReply.                                     *)

\* Initially no request was sent, and no connection is over.
LEMMA AbstractInit == Init => Abstract!Init
<1> SUFFICES ASSUME Init
             PROVE  Abstract!Init
  OBVIOUS
<1>1. \A t \in AllTasks : DOMAIN sent[t[1]] = {} /\ Replied(t[1]) = {}
  BY TaskPair DEF Init, Replied
<1>2. \A c \in Connections : ~(conn[c] \in {"closed", "gone"} \/ ~Up)
  BY DEF Init, Up
<1> QED
  BY <1>1, <1>2 DEF Abstract!Init

\* A step that leaves the messages, the replies and the ends of connections alone
\* is a stutter.
LEMMA AbstractStutter ==
    ASSUME ServerInv, UNCHANGED <<sent, replies>>,
           \A c \in Connections :
              (conn'[c] \in {"closed", "gone"} \/ ~Up') <=> (conn[c] \in {"closed", "gone"} \/ ~Up)
    PROVE  UNCHANGED Abstract!vars
<1>1. \A c : Replied(c)' = Replied(c)
  BY DEF Replied
<1> QED
  BY <1>1 DEF Abstract!vars

\* A reply is an answer to a request of a connection that is not over.
LEMMA AbstractAnswer ==
    ASSUME ServerInv, NEW c \in Connections, NEW n \in DOMAIN sent[c], n \notin Replied(c),
           Up, conn[c] = "open", NEW k \in ReplyKinds, Reply(c, n, k),
           UNCHANGED <<sent, conn, server>>
    PROVE  Abstract!Next
<1>0. PICK r : r = <<c, n>>
  OBVIOUS
<1>1. n \in 1..MaxMessages /\ r \in AllTasks /\ r[1] = c /\ r[2] = n
  BY <1>0, SentFacts, TaskPair DEF ServerInv
<1>2. /\ \A d \in Connections : d # c => Replied(d)' = Replied(d)
      /\ Replied(c)' = Replied(c) \cup {n}
  BY <1>1, ReplyEffect DEF ServerInv
<1> DEFINE A == {t \in AllTasks : t[2] \in DOMAIN sent[t[1]]}
           B == {t \in AllTasks : t[2] \in Replied(t[1])}
           O == {d \in Connections : conn[d] \in {"closed", "gone"} \/ ~Up}
<1>3. r \in A \ B /\ r[1] \notin O
  BY <1>1
<1>4. B' = B \cup {r}
  <2>1. ASSUME NEW t \in AllTasks
        PROVE  t[2] \in Replied(t[1])' <=> t[2] \in Replied(t[1]) \/ t = r
    <3>1. t = <<t[1], t[2]>> /\ t[1] \in Connections
      BY TaskPair
    <3>2. CASE t[1] # c
      BY <1>1, <1>2, <3>1, <3>2
    <3>3. CASE t[1] = c
      <4>1. t = r <=> t[2] = n
        BY <1>0, <1>1, <3>1, <3>3
      <4> QED
        BY <1>2, <3>3, <4>1
    <3> QED
      BY <3>2, <3>3
  <2> QED
    BY <1>1, <2>1
<1>5. A' = A /\ O' = O
  BY DEF Up
<1> HIDE DEF A, B, O
<1>6. Abstract!Answer(r)
  BY <1>3, <1>4, <1>5 DEF Abstract!Answer, A, B, O
<1>7. r \in Abstract!Requests
  BY <1>1 DEF Abstract!Requests, AllTasks
<1> QED
  BY <1>6, <1>7 DEF Abstract!Next

\* Connections end.
LEMMA AbstractEnd ==
    ASSUME ServerInv, UNCHANGED <<sent, replies>>,
           \A c \in Connections : (conn[c] \in {"closed", "gone"} \/ ~Up)
                                     => (conn'[c] \in {"closed", "gone"} \/ ~Up')
    PROVE  Abstract!Next
<1> DEFINE O == {d \in Connections : conn[d] \in {"closed", "gone"} \/ ~Up}
<1>0. PICK E : E = O'
  OBVIOUS
<1>1. \A c : Replied(c)' = Replied(c)
  BY DEF Replied
<1>2. O' = O \cup E /\ E \in SUBSET Connections
  BY <1>0
<1>3. Abstract!End(E)
  BY <1>1, <1>2 DEF Abstract!End
<1> QED
  BY <1>2, <1>3 DEF Abstract!Next

\* A message that is sent is a request.
LEMMA AbstractAsk ==
    ASSUME ServerInv, NEW c \in Connections, NEW kind \in Kinds, Send(c, kind)
    PROVE  Abstract!Next
<1>0. PICK r : r = <<c, Len(sent[c]) + 1>>
  OBVIOUS
<1> DEFINE A == {t \in AllTasks : t[2] \in DOMAIN sent[t[1]]}
           B == {t \in AllTasks : t[2] \in Replied(t[1])}
           O == {d \in Connections : conn[d] \in {"closed", "gone"} \/ ~Up}
<1>1. /\ StateType /\ Len(sent[c]) \in Nat /\ DOMAIN sent[c] = 1..Len(sent[c])
      /\ Len(sent[c]) + 1 \in 1..MaxMessages /\ conn[c] = "open" /\ Up
      /\ UNCHANGED <<conn, replies, server>>
  BY SentFacts, WebsocketAssumption DEF ServerInv, Send
<1>2. r \in AllTasks /\ r[1] = c /\ r[2] = Len(sent[c]) + 1
  BY <1>0, <1>1, TaskPair
<1>3. /\ DOMAIN sent'[c] = DOMAIN sent[c] \cup {r[2]}
      /\ \A d \in Connections : d # c => sent'[d] = sent[d]
  BY <1>1, <1>2 DEF Send, StateType
<1>4. r \notin A /\ r[1] \notin O
  BY <1>1, <1>2
<1>5. A' = A \cup {r}
  <2>1. ASSUME NEW t \in AllTasks
        PROVE  t[2] \in DOMAIN sent'[t[1]] <=> t[2] \in DOMAIN sent[t[1]] \/ t = r
    <3>1. t = <<t[1], t[2]>> /\ t[1] \in Connections
      BY TaskPair
    <3>2. CASE t[1] # c
      BY <1>2, <1>3, <3>1, <3>2
    <3>3. CASE t[1] = c
      <4>1. t = r <=> t[2] = r[2]
        BY <1>0, <1>2, <3>1, <3>3
      <4> QED
        BY <1>3, <3>3, <4>1
    <3> QED
      BY <3>2, <3>3
  <2> QED
    BY <1>2, <2>1
<1>6. B' = B /\ O' = O
  BY <1>1 DEF Up, Replied
<1> HIDE DEF A, B, O
<1>7. Abstract!Ask(r)
  BY <1>4, <1>5, <1>6 DEF Abstract!Ask, A, B, O
<1>8. r \in Abstract!Requests
  BY <1>2 DEF Abstract!Requests, AllTasks
<1> QED
  BY <1>7, <1>8 DEF Abstract!Next

\* Every step of the server is a step of RequestReply, or leaves its variables alone.
LEMMA AbstractNext == ServerInv /\ [Next]_vars => [Abstract!Next]_(Abstract!vars)
<1> SUFFICES ASSUME ServerInv, [Next]_vars
             PROVE  Abstract!Next \/ UNCHANGED Abstract!vars
  OBVIOUS
<1>1. ASSUME NEW c \in Connections, NEW kind \in Kinds, Send(c, kind)
      PROVE  Abstract!Next
  BY <1>1, AbstractAsk
<1>2. ASSUME NEW c \in Connections, Leave(c)
      PROVE  Abstract!Next
  BY <1>2, AbstractEnd DEF Leave, Up, ServerInv, StateType
<1>3. ASSUME NEW c \in Connections, on_open(c) \/ on_close(c)
      PROVE  UNCHANGED Abstract!vars
  BY <1>3, AbstractStutter DEF on_open, on_close, Up, ServerInv, StateType
<1>4. ASSUME NEW c \in Connections, on_message(c)
      PROVE  Abstract!Next \/ UNCHANGED Abstract!vars
  <2> DEFINE kind == sent[c][Head(inbox[c])]
  <2>1. Up /\ conn[c] = "open" /\ inbox[c] # <<>> /\ UNCHANGED sent
    BY <1>4 DEF on_message
  <2>2. CASE kind = "kill"
    <3>1. /\ server' = "killed" /\ UNCHANGED replies
          /\ conn' = [d \in Connections |-> IF d \in KilledConnections THEN "closed" ELSE conn[d]]
      BY <1>4, <2>2 DEF on_message
    <3>2. \A d \in Connections : (conn[d] \in {"closed", "gone"} \/ ~Up)
                                    => (conn'[d] \in {"closed", "gone"} \/ ~Up')
      BY <2>1, <3>1
    <3> QED
      BY <2>1, <3>1, <3>2, AbstractEnd
  <2>3. CASE kind = "malformed"
    <3>1. Reply(c, Head(inbox[c]), "error") /\ UNCHANGED <<conn, server>>
      BY <1>4, <2>3 DEF on_message
    <3>2. Head(inbox[c]) \in DOMAIN sent[c] /\ Head(inbox[c]) \notin Replied(c)
      BY <2>1, TakeMessage
    <3>3. "error" \in ReplyKinds
      BY ResponseFacts
    <3> QED
      BY <2>1, <3>1, <3>2, <3>3, AbstractAnswer
  <2>4. CASE kind \notin {"kill", "malformed"}
    <3>1. UNCHANGED <<conn, replies, server>>
      BY <1>4, <2>4 DEF on_message
    <3> QED
      BY <2>1, <3>1, AbstractStutter DEF Up
  <2> QED
    BY <2>2, <2>3, <2>4
<1>5. ASSUME NEW t \in DOMAIN tasks, RunTask(t)
      PROVE  Abstract!Next \/ UNCHANGED Abstract!vars
  <2>1. /\ t[1] \in Connections /\ t[2] \in DOMAIN sent[t[1]] /\ Kind(t) \in DOMAIN ResponseTo
        /\ t[2] \in Replied(t[1]) => tasks[t].phase = "done"
    BY TaskPair DEF ServerInv, StateType, TaskOK
  <2>2. Up /\ UNCHANGED <<conn, sent>>
    BY <1>5 DEF RunTask
  <2>3. CASE send_response(t) /\ UNCHANGED server /\ conn[t[1]] = "open"
    <3> DEFINE k == IF tasks[t].phase = "unregistered" THEN "unregistered_client"
                    ELSE ResponseTo[Kind(t)]
    <3>1. Reply(t[1], t[2], k) /\ tasks[t].phase # "done"
      BY <2>3 DEF send_response
    <3>2. k \in ReplyKinds
      BY <2>1, ResponseFacts
    <3> HIDE DEF k
    <3> QED
      BY <2>1, <2>2, <2>3, <3>1, <3>2, AbstractAnswer
  <2>4. CASE catch_clause(t) /\ conn[t[1]] = "open"
    <3>1. Reply(t[1], t[2], "error") /\ tasks[t].phase # "done" /\ UNCHANGED server
      BY <2>4 DEF catch_clause
    <3> QED
      BY <2>1, <2>2, <2>4, <3>1, ResponseFacts, AbstractAnswer
  <2>5. CASE catch_clause(t) /\ conn[t[1]] # "open"
    BY <2>2, <2>5, AbstractEnd DEF catch_clause, Up
  <2>6. CASE UNCHANGED <<replies, server>>
    BY <2>2, <2>6, AbstractStutter DEF Up
  <2> QED
    BY <1>5, <2>3, <2>4, <2>5, <2>6
       DEF RunTask, TaskStep, process_message, update_client, process_at_once,
           make_thinknode_request_context, call_returns, call_throws, send_response, Throws
<1>6. CASE run_returns
  BY <1>6, AbstractEnd DEF run_returns, Up
<1>7. CASE UNCHANGED vars
  BY <1>7, AbstractStutter
     DEF vars, server_vars, client_vars, request_vars, task_vars, reply_vars, Up
<1> QED
  BY <1>1, <1>2, <1>3, <1>4, <1>5, <1>6, <1>7 DEF Next

\* The server implements RequestReply, but for its fairness: a reply is sent only to a
\* request, once, and to no connection that is over, which no connection ceases to be.
THEOREM ServerImplementsRequestReply ==
    Spec => Abstract!Init /\ [][Abstract!Next]_(Abstract!vars)
BY AbstractInit, AbstractNext, InitInv, NextInv, PTL DEF Spec

-----------------------------------------------------------------------------
(* No request is lost: the part of ServesRequests and of KillEnds that needs *)
(* no fairness.                                                             *)

Queued(c, n) == \E i \in DOMAIN inbox[c] : inbox[c][i] = n

InTask(c, n) == <<c, n>> \in DOMAIN tasks /\ tasks[<<c, n>>].phase # "done"

\* A request on an open connection is in the inbox, has a task that has not ended,
\* or was answered.
RequestsHeld ==
    \A c \in Connections : conn[c] = "open" =>
        \A n \in DOMAIN sent[c] : n \in Replied(c) \/ Queued(c, n) \/ InTask(c, n)

\* The kill leaves no connection open, and none is opened after it.
KilledIsClosed ==
    server \in {"killed", "stopped"} => \A c \in Connections : conn[c] # "open"

HeldInv == ServerInv /\ RequestsHeld /\ KilledIsClosed

\* Each kind of message with a response has its case in process_message().
LEMMA CasesCover == DOMAIN ResponseTo \subseteq Immediate \cup Calls
<1>1. DOMAIN ResponseTo =
        {"registration", "test", "cache_insert", "cache_query", "iss_object",
         "resolve_iss_object", "iss_object_metadata", "post_iss_object", "copy_iss_object",
         "copy_calculation", "post_calculation", "resolve_meta_chain", "calculation_request",
         "calculation_diff", "calculation_search", "iss_diff", "perform_local_calc",
         "results_api_query", "local_results_api_query", "introspection_control",
         "introspection_status_query", "resolve_request"}
  BY Zenon DEF ResponseTo
<1> QED
  BY <1>1 DEF Immediate, Calls, IssCalls, CalculationCalls, QueryCalls

\* A message that is taken from an inbox leaves the others there.
LEMMA OthersStayQueued ==
    ASSUME StateType, NEW c \in Connections, inbox[c] # <<>>,
           inbox' = [inbox EXCEPT ![c] = Tail(@)],
           NEW d \in Connections, NEW n, Queued(d, n)
    PROVE  Queued(d, n)' \/ (d = c /\ n = Head(inbox[c]))
<1>1. inbox \in [Connections -> Seq(1..MaxMessages)]
  BY DEF StateType
<1>2. CASE d # c
  BY <1>1, <1>2 DEF Queued
<1>3. CASE d = c
  <2>1. PICK q \in Seq(1..MaxMessages) : q = inbox[c]
    BY <1>1
  <2>2. PICK i \in DOMAIN q : q[i] = n
    BY <1>3, <2>1 DEF Queued
  <2>3. inbox'[c] = Tail(q)
    BY <1>1, <2>1
  <2>4. i \in 1..Len(q) /\ Len(q) \in Nat /\ Len(q) > 0
    BY <2>1, <2>2
  <2>5. CASE i = 1
    BY <1>3, <2>1, <2>2, <2>5
  <2>6. CASE i # 1
    <3>1. i - 1 \in DOMAIN Tail(q) /\ Tail(q)[i - 1] = q[i]
      BY <2>1, <2>4, <2>6
    <3> QED
      BY <1>3, <2>2, <2>3, <3>1 DEF Queued
  <2> QED
    BY <2>5, <2>6
<1> QED
  BY <1>2, <1>3

\* A message that is sent is in the inbox.
LEMMA SendHolds ==
    ASSUME HeldInv, NEW c \in Connections, NEW kind \in Kinds, Send(c, kind)
    PROVE  RequestsHeld'
<1>1. /\ StateType /\ Len(sent[c]) \in Nat /\ DOMAIN sent[c] = 1..Len(sent[c])
      /\ inbox \in [Connections -> Seq(1..MaxMessages)]
      /\ sent \in [Connections -> Seq(Kinds)]
  BY SentFacts DEF HeldInv, ServerInv, StateType
<1>2. PICK q : q = inbox[c]
  OBVIOUS
<1>3. PICK m : m = Len(sent[c]) + 1
  OBVIOUS
<1>4. m \in 1..MaxMessages /\ q \in Seq(1..MaxMessages)
  BY <1>1, <1>2, <1>3, WebsocketAssumption DEF Send
<1>5. /\ \A d \in Connections : d # c => sent'[d] = sent[d] /\ inbox'[d] = inbox[d]
      /\ inbox'[c] = Append(q, m) /\ DOMAIN sent'[c] = DOMAIN sent[c] \cup {m}
      /\ UNCHANGED <<conn, tasks, replies>>
  BY <1>1, <1>2, <1>3 DEF Send
<1>6. /\ \A i \in DOMAIN q : i \in DOMAIN inbox'[c] /\ inbox'[c][i] = q[i]
      /\ Len(q) + 1 \in DOMAIN inbox'[c] /\ inbox'[c][Len(q) + 1] = m
  BY <1>4, <1>5
<1>7. \A d \in Connections : \A n : Queued(d, n) => Queued(d, n)'
  BY <1>2, <1>5, <1>6 DEF Queued
<1>8. Queued(c, m)'
  BY <1>6 DEF Queued
<1>9. \A d, n : (Replied(d)' = Replied(d)) /\ (InTask(d, n)' <=> InTask(d, n))
  BY <1>5 DEF Replied, InTask
<1> QED
  BY <1>5, <1>7, <1>8, <1>9 DEF HeldInv, RequestsHeld

\* Other connections open, close and end.
LEMMA ConnectionHolds ==
    ASSUME HeldInv, NEW c \in Connections, Leave(c) \/ on_open(c) \/ on_close(c)
    PROVE  RequestsHeld'
<1>1. UNCHANGED <<sent, tasks, replies>>
  BY DEF Leave, on_open, on_close
<1>2. ASSUME NEW d \in Connections, conn'[d] = "open"
      PROVE  \/ conn[d] = "open" /\ inbox'[d] = inbox[d]
             \/ DOMAIN sent[d] = {}
  <2>1. StateType /\ InboxOK(d)
    BY DEF HeldInv, ServerInv
  <2>2. conn[d] = "new" => DOMAIN sent[d] = {}
    BY <2>1, SentFacts DEF InboxOK
  <2>3. CASE Leave(c)
    BY <1>2, <2>1, <2>3 DEF Leave, StateType
  <2>4. CASE on_open(c)
    BY <1>2, <2>1, <2>2, <2>4 DEF on_open, StateType
  <2>5. CASE on_close(c)
    BY <1>2, <2>1, <2>5 DEF on_close, StateType
  <2> QED
    BY <2>3, <2>4, <2>5
<1>3. \A d, n : (Replied(d)' = Replied(d)) /\ (InTask(d, n)' <=> InTask(d, n))
  BY <1>1 DEF Replied, InTask
<1> QED
  BY <1>1, <1>2, <1>3 DEF HeldInv, RequestsHeld, Queued

\* The message that on_message() takes from the inbox is answered, gets a task, or
\* closes all connections.
LEMMA OnMessageHolds ==
    ASSUME HeldInv, NEW c \in Connections, on_message(c)
    PROVE  RequestsHeld'
<1>0. PICK m : m = Head(inbox[c])
  OBVIOUS
<1>1. /\ StateType /\ inbox[c] # <<>> /\ UNCHANGED <<clients, sent>>
      /\ m \in 1..MaxMessages /\ <<c, m>> \notin DOMAIN tasks
  BY <1>0, TakeMessage DEF HeldInv, ServerInv, on_message
<1>2. CASE sent[c][m] = "kill"
  <2>1. conn' = [d \in Connections |-> IF d \in KilledConnections THEN "closed" ELSE conn[d]]
    BY <1>0, <1>2 DEF on_message
  <2>2. \A d \in Connections : conn[d] = "open" => d \in KilledConnections
    BY <1>1 DEF KilledConnections, StateType, Listed
  <2>3. \A d \in Connections : conn'[d] # "open"
    BY <2>1, <2>2
  <2> QED
    BY <2>3 DEF RequestsHeld
<1>3. CASE sent[c][m] = "malformed"
  <2>1. /\ Reply(c, m, "error") /\ inbox' = [inbox EXCEPT ![c] = Tail(@)]
        /\ UNCHANGED <<conn, tasks>>
    BY <1>0, <1>3 DEF on_message
  <2>2. \A d \in Connections : d # c => Replied(d)' = Replied(d)
    BY <1>1, <2>1, ReplyEffect, ResponseFacts
  <2>3. Replied(c)' = Replied(c) \cup {m}
    BY <1>1, <2>1, ReplyEffect, ResponseFacts
  <2>4. ASSUME NEW d \in Connections, conn'[d] = "open", NEW n \in DOMAIN sent'[d]
        PROVE  n \in Replied(d)' \/ Queued(d, n)' \/ InTask(d, n)'
    <3>1. n \in Replied(d) \/ Queued(d, n) \/ InTask(d, n)
      BY <1>1, <2>1, <2>4 DEF HeldInv, RequestsHeld
    <3>2. CASE n \in Replied(d)
      BY <2>2, <2>3, <3>2
    <3>3. CASE Queued(d, n)
      BY <1>0, <1>1, <2>1, <2>3, <3>3, OthersStayQueued
    <3>4. CASE InTask(d, n)
      BY <2>1, <3>4 DEF InTask
    <3> QED
      BY <3>1, <3>2, <3>3, <3>4
  <2> QED
    BY <2>4 DEF RequestsHeld
<1>4. CASE sent[c][m] \notin {"kill", "malformed"}
  <2>1. /\ tasks' = With(tasks, <<c, m>>, [phase |-> "scheduled", session |-> NoSession])
        /\ inbox' = [inbox EXCEPT ![c] = Tail(@)]
        /\ UNCHANGED <<conn, replies>>
    BY <1>0, <1>4 DEF on_message
  <2>2. \A d : Replied(d)' = Replied(d)
    BY <2>1 DEF Replied
  <2>3. InTask(c, m)'
    BY <2>1 DEF InTask, With
  <2>4. \A d, n : InTask(d, n) => InTask(d, n)'
    BY <1>1, <2>1 DEF InTask, With
  <2>5. ASSUME NEW d \in Connections, conn'[d] = "open", NEW n \in DOMAIN sent'[d]
        PROVE  n \in Replied(d)' \/ Queued(d, n)' \/ InTask(d, n)'
    <3>1. n \in Replied(d) \/ Queued(d, n) \/ InTask(d, n)
      BY <1>1, <2>1, <2>5 DEF HeldInv, RequestsHeld
    <3>2. CASE n \in Replied(d) \/ InTask(d, n)
      BY <2>2, <2>4, <3>2
    <3>3. CASE Queued(d, n)
      BY <1>0, <1>1, <2>1, <2>3, <3>3, OthersStayQueued
    <3> QED
      BY <3>1, <3>2, <3>3
  <2> QED
    BY <2>5 DEF RequestsHeld
<1> QED
  BY <1>2, <1>3, <1>4

\* A task ends only with its reply.
LEMMA TaskHolds ==
    ASSUME HeldInv, NEW t \in DOMAIN tasks, RunTask(t)
    PROVE  RequestsHeld'
<1>1. /\ StateType /\ t = <<t[1], t[2]>> /\ t[1] \in Connections /\ t[2] \in 1..MaxMessages
      /\ Kind(t) \in DOMAIN ResponseTo
  BY TaskPair DEF HeldInv, ServerInv, StateType, TaskOK
<1>2. UNCHANGED <<conn, inbox, sent>>
  BY DEF RunTask
<1>3. ASSUME NEW k \in ReplyKinds, Reply(t[1], t[2], k), Becomes(t, "done")
      PROVE  RequestsHeld'
  <2>1. \A d \in Connections : d # t[1] => Replied(d)' = Replied(d)
    BY <1>1, <1>3, ReplyEffect
  <2>2. Replied(t[1])' = Replied(t[1]) \cup {t[2]}
    BY <1>1, <1>3, ReplyEffect
  <2>3. /\ DOMAIN tasks' = DOMAIN tasks
        /\ \A u \in DOMAIN tasks : u # t => tasks'[u] = tasks[u]
    BY <1>3 DEF Becomes
  <2>4. ASSUME NEW d \in Connections, conn'[d] = "open", NEW n \in DOMAIN sent'[d]
        PROVE  n \in Replied(d)' \/ Queued(d, n)' \/ InTask(d, n)'
    <3>1. n \in Replied(d) \/ Queued(d, n) \/ InTask(d, n)
      BY <1>2, <2>4 DEF HeldInv, RequestsHeld
    <3>2. CASE n \in Replied(d) \/ Queued(d, n)
      BY <1>2, <2>1, <2>2, <3>2 DEF Queued
    <3>3. CASE InTask(d, n) /\ <<d, n>> # t
      BY <2>3, <3>3 DEF InTask
    <3>4. CASE <<d, n>> = t
      BY <2>2, <3>4
    <3> QED
      BY <3>1, <3>2, <3>3, <3>4
  <2> QED
    BY <2>4 DEF RequestsHeld
<1>4. ASSUME NEW p \in Phases, p # "done", NEW s \in Sessions, UNCHANGED replies,
             \/ tasks' = [tasks EXCEPT ![t] = [phase |-> p, session |-> s]]
             \/ Becomes(t, p) /\ s = tasks[t].session
      PROVE  RequestsHeld'
  <2>1. /\ DOMAIN tasks' = DOMAIN tasks /\ tasks'[t].phase = p
        /\ \A u \in DOMAIN tasks : u # t => tasks'[u] = tasks[u]
    BY <1>1, <1>4, TaskEffect
  <2>2. \A d, n : InTask(d, n) => InTask(d, n)'
    BY <1>4, <2>1 DEF InTask
  <2>3. \A d, n : (Replied(d)' = Replied(d)) /\ (Queued(d, n)' <=> Queued(d, n))
    BY <1>2, <1>4 DEF Replied, Queued
  <2> QED
    BY <1>2, <2>2, <2>3 DEF HeldInv, RequestsHeld
<1>5. ASSUME NEW p \in Phases, p # "done", Becomes(t, p), UNCHANGED replies
      PROVE  RequestsHeld'
  <2>1. tasks[t].session \in Sessions
    BY <1>1 DEF StateType
  <2> QED
    BY <1>4, <1>5, <2>1
<1>6. CASE process_message(t)
  BY <1>5, <1>6 DEF process_message, Throws, Phases
<1>7. CASE update_client(t) \/ process_at_once(t)
  BY <1>5, <1>7 DEF update_client, process_at_once, Throws, Phases
<1>8. CASE make_thinknode_request_context(t)
  <2>1. CASE t[1] \notin DOMAIN clients
    BY <1>5, <1>8, <2>1 DEF make_thinknode_request_context, Throws, Phases
  <2>2. CASE t[1] \in DOMAIN clients
    <3>1. clients[t[1]] \in Sessions
      BY <1>1, <2>2 DEF StateType
    <3> QED
      BY <1>4, <1>8, <2>2, <3>1 DEF make_thinknode_request_context, Phases
  <2> QED
    BY <2>1, <2>2
<1>9. CASE call_returns(t) \/ call_throws(t)
  BY <1>5, <1>9 DEF call_returns, call_throws, Throws, Phases
<1>10. CASE send_response(t)
  <2>1. CASE conn[t[1]] = "open"
    <3> DEFINE k == IF tasks[t].phase = "unregistered" THEN "unregistered_client"
                    ELSE ResponseTo[Kind(t)]
    <3>1. k \in ReplyKinds
      BY <1>1, ResponseFacts
    <3>2. Reply(t[1], t[2], k) /\ Becomes(t, "done")
      BY <1>10, <2>1 DEF send_response
    <3> HIDE DEF k
    <3> QED
      BY <1>3, <3>1, <3>2
  <2>2. CASE conn[t[1]] # "open"
    BY <1>5, <1>10, <2>2 DEF send_response, Throws, Phases
  <2> QED
    BY <2>1, <2>2
<1>11. CASE catch_clause(t)
  <2>1. CASE conn[t[1]] = "open"
    BY <1>3, <1>11, <2>1, ResponseFacts DEF catch_clause
  <2>2. CASE conn[t[1]] # "open"
    <3>1. UNCHANGED <<tasks, replies>>
      BY <1>11, <2>2 DEF catch_clause
    <3> QED
      BY <1>2, <3>1 DEF HeldInv, RequestsHeld, Replied, Queued, InTask
  <2> QED
    BY <2>1, <2>2
<1> QED
  BY <1>6, <1>7, <1>8, <1>9, <1>10, <1>11 DEF RunTask, TaskStep

\* No connection is open once the server is killed.
LEMMA KillCloses == HeldInv /\ [Next]_vars => KilledIsClosed'
<1> SUFFICES ASSUME HeldInv, [Next]_vars
             PROVE  KilledIsClosed'
  OBVIOUS
<1>0. StateType
  BY DEF HeldInv, ServerInv
<1>1. ASSUME server' = server, \A c \in Connections : conn'[c] = "open" =>
                                  (conn[c] = "open" \/ server = "running")
      PROVE  KilledIsClosed'
  BY <1>1 DEF HeldInv, KilledIsClosed
<1>2. ASSUME NEW c \in Connections, NEW kind \in Kinds, Send(c, kind)
      PROVE  KilledIsClosed'
  BY <1>1, <1>2 DEF Send
<1>3. ASSUME NEW c \in Connections, Leave(c) \/ on_open(c) \/ on_close(c)
      PROVE  KilledIsClosed'
  BY <1>0, <1>1, <1>3 DEF Leave, on_open, on_close, StateType
<1>4. ASSUME NEW c \in Connections, on_message(c)
      PROVE  KilledIsClosed'
  <2>1. CASE sent[c][Head(inbox[c])] = "kill"
    <3>1. conn' = [d \in Connections |-> IF d \in KilledConnections THEN "closed" ELSE conn[d]]
      BY <1>4, <2>1 DEF on_message
    <3>2. \A d \in Connections : conn[d] = "open" => d \in KilledConnections
      BY <1>0 DEF KilledConnections, StateType, Listed
    <3> QED
      BY <3>1, <3>2 DEF KilledIsClosed
  <2>2. CASE sent[c][Head(inbox[c])] # "kill"
    <3>1. UNCHANGED <<conn, server>>
      BY <1>4, <2>2 DEF on_message
    <3> QED
      BY <1>1, <3>1
  <2> QED
    BY <2>1, <2>2
<1>5. ASSUME NEW t \in DOMAIN tasks, RunTask(t)
      PROVE  KilledIsClosed'
  <2>1. UNCHANGED conn /\ server' \in {server, "crashed"}
    BY <1>5 DEF RunTask, TaskStep, catch_clause
  <2> QED
    BY <2>1 DEF HeldInv, KilledIsClosed
<1>6. CASE run_returns
  BY <1>6 DEF run_returns, HeldInv, KilledIsClosed
<1>7. CASE UNCHANGED vars
  BY <1>1, <1>7 DEF vars, server_vars
<1> QED
  BY <1>2, <1>3, <1>4, <1>5, <1>6, <1>7 DEF Next

\* The requests stay held, in every step.
LEMMA HeldInvariant == Spec => []HeldInv
<1>1. Init => HeldInv
  <2>1. Init => RequestsHeld /\ KilledIsClosed
    BY DEF Init, RequestsHeld, KilledIsClosed
  <2> QED
    BY <2>1, InitInv DEF HeldInv
<1>2. HeldInv /\ [Next]_vars => HeldInv'
  <2> SUFFICES ASSUME HeldInv, [Next]_vars
               PROVE  HeldInv'
    OBVIOUS
  <2>1. ServerInv' /\ KilledIsClosed'
    BY NextInv, KillCloses DEF HeldInv
  <2>2. RequestsHeld'
    <3>1. CASE \E c \in Connections, kind \in Kinds : Send(c, kind)
      BY <3>1, SendHolds
    <3>2. CASE \E c \in Connections : Leave(c) \/ on_open(c) \/ on_close(c) \/ on_message(c)
      BY <3>2, ConnectionHolds, OnMessageHolds
    <3>3. CASE \E t \in DOMAIN tasks : RunTask(t)
      BY <3>3, TaskHolds
    <3>4. CASE run_returns \/ UNCHANGED vars
      <4>1. UNCHANGED <<conn, inbox, sent, tasks, replies>>
        BY <3>4 DEF run_returns, vars, server_vars, client_vars, request_vars, task_vars,
                    reply_vars
      <4> QED
        BY <4>1 DEF HeldInv, RequestsHeld, Replied, Queued, InTask
    <3> QED
      BY <3>1, <3>2, <3>3, <3>4 DEF Next
  <2> QED
    BY <2>1, <2>2 DEF HeldInv
<1> QED
  BY <1>1, <1>2, PTL DEF Spec

\* The guards of a task's steps: it waits for nobody.
TaskReady(t) ==
    \/ tasks[t].phase \in {"scheduled", "unregistered", "calling", "responding", "failed"}
    \/ tasks[t].phase = "processing" /\ Kind(t) \in Immediate \cup Calls

\* While the server runs, a request that was not answered on an open connection is
\* in the inbox, for on_message(), or has a task that can take a step; after a kill, a
\* connection is still to be closed, a task can take a step, or run() can return.
NoRequestLost ==
    /\ \A c \in Connections : Up /\ conn[c] = "open" =>
          \A n \in DOMAIN sent[c] \ Replied(c) :
              Queued(c, n) \/ (<<c, n>> \in DOMAIN tasks /\ TaskReady(<<c, n>>))
    /\ server = "killed" =>
          \/ \E c \in Connections : conn[c] = "closed"
          \/ \E t \in DOMAIN tasks : TaskReady(t)
          \/ /\ \A c \in Connections : conn[c] \in {"new", "gone"}
             /\ \A t \in DOMAIN tasks : tasks[t].phase = "done"

\* A task that has not ended can take a step, whatever its client did.
LEMMA UnendedIsReady ==
    ASSUME ServerInv, NEW t \in DOMAIN tasks, tasks[t].phase # "done"
    PROVE  TaskReady(t)
<1>1. tasks[t].phase \in Phases /\ Kind(t) \in DOMAIN ResponseTo
  BY DEF ServerInv, StateType, TaskOK
<1> QED
  BY <1>1, CasesCover DEF Phases, TaskReady

\* No request is forgotten, whichever connections close, tasks fail and clients leave:
\* a request that was not answered is on its way as long as its connection is open.  And
\* a server that is killed never waits in vain for its connections and tasks.
THEOREM RequestsAreNotLost == Spec => []NoRequestLost
<1>1. HeldInv => NoRequestLost
  <2> SUFFICES ASSUME HeldInv
               PROVE  NoRequestLost
    OBVIOUS
  <2>1. ASSUME NEW c \in Connections, conn[c] = "open", NEW n \in DOMAIN sent[c] \ Replied(c)
        PROVE  Queued(c, n) \/ (<<c, n>> \in DOMAIN tasks /\ TaskReady(<<c, n>>))
    <3>1. Queued(c, n) \/ InTask(c, n)
      BY <2>1 DEF HeldInv, RequestsHeld
    <3>2. PICK t : t = <<c, n>>
      OBVIOUS
    <3> QED
      BY <3>1, <3>2, UnendedIsReady DEF HeldInv, InTask
  <2>2. ASSUME server = "killed", \A c \in Connections : conn[c] # "closed",
               \A t \in DOMAIN tasks : ~TaskReady(t)
        PROVE  /\ \A c \in Connections : conn[c] \in {"new", "gone"}
               /\ \A t \in DOMAIN tasks : tasks[t].phase = "done"
    <3>1. \A c \in Connections : conn[c] \in {"new", "gone"}
      BY <2>2 DEF HeldInv, KilledIsClosed, ServerInv, StateType
    <3>2. \A t \in DOMAIN tasks : tasks[t].phase = "done"
      BY <2>2, UnendedIsReady DEF HeldInv
    <3> QED
      BY <3>1, <3>2
  <2> QED
    BY <2>1, <2>2 DEF NoRequestLost
<1> QED
  BY <1>1, HeldInvariant, PTL
=============================================================================
