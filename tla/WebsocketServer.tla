--------------------------- MODULE WebsocketServer ---------------------------
(***************************************************************************)
(* The websocket server (websocket/server.cpp): one thread runs the         *)
(* handlers of the connections; each request is a task that a pool of       *)
(* threads processes, so the requests of a client run concurrently and are  *)
(* answered in any order, while clients come, leave or kill the server.     *)
(***************************************************************************)
EXTENDS Integers, Sequences, FiniteSets, SequencesExt

CONSTANTS
    Connections,    \* connections that clients make, each once
    Waiting,        \* those whose client awaits each reply before the next request
    Kinds,          \* the kinds of messages that clients send
    MaxMessages,    \* bound: messages on one connection
    NoSession       \* the session of a client that has not registered

ASSUME WebsocketAssumption ==
    /\ Waiting \subseteq Connections
    /\ MaxMessages \in Nat
    /\ NoSession \notin Connections \X (1..MaxMessages)

\* client_message_content, and the server_message_content that answers it
ResponseTo ==
    [registration |-> "registration_acknowledgement", test |-> "test",
     cache_insert |-> "cache_insert_acknowledgement", cache_query |-> "cache_response",
     iss_object |-> "iss_object_response", resolve_iss_object |-> "resolve_iss_object_response",
     iss_object_metadata |-> "iss_object_metadata_response",
     post_iss_object |-> "post_iss_object_response", copy_iss_object |-> "copy_iss_object_response",
     copy_calculation |-> "copy_calculation_response",
     post_calculation |-> "post_calculation_response",
     resolve_meta_chain |-> "resolve_meta_chain_response",
     calculation_request |-> "calculation_request_response",
     calculation_diff |-> "calculation_diff_response",
     calculation_search |-> "calculation_search_response", iss_diff |-> "iss_diff_response",
     perform_local_calc |-> "local_calc_result", results_api_query |-> "results_api_response",
     local_results_api_query |-> "local_results_api_response",
     introspection_control |-> "introspection_control_response",
     introspection_status_query |-> "introspection_status_response",
     resolve_request |-> "resolve_request_response"]

\* The messages that are processed at once
Immediate ==
    {"registration", "test", "cache_insert", "cache_query", "introspection_control",
     "introspection_status_query"}

\* All others make a request context, with the session of the client, and wait for calls:
\* to the ISS, for calculations, or to resolve a query or a request.
IssCalls ==
    {"iss_object", "resolve_iss_object", "iss_object_metadata", "post_iss_object",
     "copy_iss_object"}
CalculationCalls ==
    {"copy_calculation", "calculation_request", "post_calculation", "iss_diff",
     "calculation_search", "calculation_diff", "resolve_meta_chain", "perform_local_calc"}
QueryCalls == {"results_api_query", "local_results_api_query", "resolve_request"}
Calls == IssCalls \cup CalculationCalls \cup QueryCalls

ASSUME KindsAssumption == Kinds \subseteq DOMAIN ResponseTo \cup {"kill", "malformed"}

VARIABLES
    conn,           \* "new", "open", "closed" (no sends any more) or "gone" (on_close ran)
    clients,        \* client_connection_list: connection to its session
    inbox,          \* messages that were sent and not handled
    sent,           \* kinds of the messages that were sent, in order
    tasks,          \* the tasks of the pool: <<connection, number>> to task
    replies,        \* what a client was sent: <<number, kind>>
    server          \* "running", "killed", "stopped" or "crashed"

server_vars  == <<conn, server>>
client_vars  == <<clients>>
request_vars == <<inbox, sent>>
task_vars    == <<tasks>>
reply_vars   == <<replies>>
vars == <<server_vars, client_vars, request_vars, task_vars, reply_vars>>

Init ==
    /\ conn = [c \in Connections |-> "new"]
    /\ clients = <<>>
    /\ inbox = [c \in Connections |-> <<>>]
    /\ sent = [c \in Connections |-> <<>>]
    /\ tasks = <<>>
    /\ replies = [c \in Connections |-> <<>>]
    /\ server = "running"

Up == server \in {"running", "killed"}

Without(f, x) == [y \in DOMAIN f \ {x} |-> f[y]]
With(f, x, v) == [y \in DOMAIN f \cup {x} |-> IF y = x THEN v ELSE f[y]]

-----------------------------------------------------------------------------
(* The clients: websocket/client.cpp *)

Replied(c) == {replies[c][i][1] : i \in DOMAIN replies[c]}

\* websocket_client::send(): the number stands for the request ID.
Send(c, kind) ==
    /\ Up /\ conn[c] = "open" /\ Len(sent[c]) < MaxMessages
    /\ c \in Waiting => \A n \in DOMAIN sent[c] : n \in Replied(c)
    /\ sent' = [sent EXCEPT ![c] = Append(@, kind)]
    /\ inbox' = [inbox EXCEPT ![c] = Append(@, Len(sent[c]) + 1)]
    /\ UNCHANGED <<conn, clients, tasks, replies, server>>

\* websocket_client::close(), or the connection breaks: what was not read is lost.
Leave(c) ==
    /\ Up /\ conn[c] = "open"
    /\ conn' = [conn EXCEPT ![c] = "closed"]
    /\ inbox' = [inbox EXCEPT ![c] = <<>>]
    /\ UNCHANGED <<clients, sent, tasks, replies, server>>

-----------------------------------------------------------------------------
(* The thread of the connections *)

\* on_open(): add_client()
on_open(c) ==
    /\ server = "running" /\ conn[c] = "new"
    /\ conn' = [conn EXCEPT ![c] = "open"]
    /\ clients' = With(clients, c, NoSession)
    /\ UNCHANGED <<inbox, sent, tasks, replies, server>>

\* on_close(): remove_client()
on_close(c) ==
    /\ Up /\ conn[c] = "closed"
    /\ conn' = [conn EXCEPT ![c] = "gone"]
    /\ clients' = Without(clients, c)
    /\ UNCHANGED <<inbox, sent, tasks, replies, server>>

Reply(c, n, kind) == replies' = [replies EXCEPT ![c] = Append(@, <<n, kind>>)]

KilledConnections_none == {}

\* for_each_client() with ws.close()
KilledConnections == {d \in DOMAIN clients : conn[d] = "open"}

\* on_message(): a kill request stops the listening and closes all connections; a
\* message that cannot be read is answered at once; for any other a task is scheduled.
on_message(c) ==
    /\ Up /\ conn[c] = "open" /\ inbox[c] # <<>>
    /\ LET n == Head(inbox[c])
           kind == sent[c][n]
       IN CASE kind = "kill" ->
                  /\ server' = "killed"
                  /\ conn' = [d \in Connections |->
                                 IF d \in KilledConnections THEN "closed" ELSE conn[d]]
                  /\ inbox' = [d \in Connections |-> <<>>]
                  /\ UNCHANGED <<tasks, replies>>
            [] kind = "malformed" ->
                  /\ Reply(c, n, "error")
                  /\ inbox' = [inbox EXCEPT ![c] = Tail(@)]
                  /\ UNCHANGED <<conn, tasks, server>>
            [] OTHER ->
                  /\ tasks' = With(tasks, <<c, n>>, [phase |-> "scheduled", session |-> NoSession])
                  /\ inbox' = [inbox EXCEPT ![c] = Tail(@)]
                  /\ UNCHANGED <<conn, replies, server>>
    /\ UNCHANGED <<clients, sent>>

-----------------------------------------------------------------------------
(* The threads of the pool *)

Kind(t) == sent[t[1]][t[2]]

Becomes(t, phase) == tasks' = [tasks EXCEPT ![t].phase = phase]

\* An exception in process_message() is caught; the answer is an error.
Throws(t) == Becomes(t, "failed") /\ UNCHANGED <<clients, replies>>

\* process_message(), up to the switch: get_client() throws for one that is gone.
process_message(t) ==
    /\ tasks[t].phase = "scheduled"
    /\ IF t[1] \notin DOMAIN clients THEN Throws(t)
       ELSE /\ Becomes(t, IF clients[t[1]] = NoSession /\ Kind(t) # "registration"
                          THEN "unregistered" ELSE "processing")
            /\ UNCHANGED <<clients, replies>>

\* case REGISTRATION: the session is the one of this message.
update_client(t) ==
    /\ tasks[t].phase = "processing" /\ Kind(t) = "registration"
    /\ IF t[1] \notin DOMAIN clients THEN Throws(t)
       ELSE /\ clients' = [clients EXCEPT ![t[1]] = t]
            /\ Becomes(t, "responding")
            /\ UNCHANGED replies

\* cases TEST, which looks the client up again, CACHE_INSERT, CACHE_QUERY and the two of
\* the introspection: what they do to the cache and the tasklets is not shown here.
process_at_once(t) ==
    /\ tasks[t].phase = "processing" /\ Kind(t) \in Immediate \ {"registration"}
    /\ IF Kind(t) = "test" /\ t[1] \notin DOMAIN clients THEN Throws(t)
       ELSE Becomes(t, "responding") /\ UNCHANGED <<clients, replies>>

make_thinknode_request_context_any(t) ==
    /\ tasks[t].phase = "processing" /\ Kind(t) \in Calls
    /\ tasks' = [tasks EXCEPT ![t] = [phase |-> "calling",
                                      session |-> clients[CHOOSE c \in DOMAIN clients : TRUE]]]
    /\ UNCHANGED <<clients, replies>>

\* All other cases begin with a context, from the session that the client has now.
make_thinknode_request_context(t) ==
    /\ tasks[t].phase = "processing" /\ Kind(t) \in Calls
    /\ IF t[1] \notin DOMAIN clients THEN Throws(t)
       ELSE /\ tasks' = [tasks EXCEPT ![t] = [phase |-> "calling", session |-> clients[t[1]]]]
            /\ UNCHANGED <<clients, replies>>

\* The calls that the case makes come back, or one throws.
call_returns(t) ==
    /\ tasks[t].phase = "calling"
    /\ Becomes(t, "responding")
    /\ UNCHANGED <<clients, replies>>

call_throws(t) == tasks[t].phase = "calling" /\ Throws(t)

\* send_response() inside process_message(): sending to a connection that is not open
\* throws.
send_response(t) ==
    /\ tasks[t].phase \in {"responding", "unregistered"}
    /\ IF conn[t[1]] = "open"
       THEN /\ Reply(t[1], t[2], IF tasks[t].phase = "unregistered" THEN "unregistered_client"
                                 ELSE ResponseTo[Kind(t)])
            /\ Becomes(t, "done") /\ UNCHANGED clients
       ELSE Throws(t)

catch_clause_silent(t) ==
    /\ tasks[t].phase = "failed"
    /\ Becomes(t, "done")
    /\ UNCHANGED <<clients, replies, server>>

\* The handlers of process_message_with_error_handling() send an error.  If that throws,
\* the exception leaves a task that was spawned, and the program ends.
catch_clause(t) ==
    /\ tasks[t].phase = "failed"
    /\ IF conn[t[1]] = "open"
       THEN /\ Reply(t[1], t[2], "error")
            /\ Becomes(t, "done") /\ UNCHANGED <<clients, server>>
       ELSE server' = "crashed" /\ UNCHANGED <<clients, tasks, replies>>

TaskStep(t) ==
    \/ /\ \/ process_message(t) \/ update_client(t) \/ process_at_once(t)
          \/ make_thinknode_request_context(t) \/ call_returns(t) \/ call_throws(t)
          \/ send_response(t)
       /\ UNCHANGED server
    \/ catch_clause(t)

\* A thread of the pool takes a step in a task.
RunTask(t) == Up /\ t \in DOMAIN tasks /\ TaskStep(t) /\ UNCHANGED <<conn, inbox, sent>>

\* websocket_server::run(): after a kill, the handlers end when no connection is left,
\* and then the tasks are waited for.
run_returns ==
    /\ server = "killed"
    /\ \A c \in Connections : conn[c] \in {"new", "gone"}
    /\ \A t \in DOMAIN tasks : tasks[t].phase = "done"
    /\ server' = "stopped"
    /\ UNCHANGED <<conn, clients, inbox, sent, tasks, replies>>

-----------------------------------------------------------------------------
AllTasks == Connections \X (1..MaxMessages)

Next ==
    \/ \E c \in Connections, kind \in Kinds : Send(c, kind)
    \/ \E c \in Connections : Leave(c) \/ on_open(c) \/ on_close(c) \/ on_message(c)
    \/ \E t \in DOMAIN tasks : RunTask(t)
    \/ run_returns

\* The threads of the server keep running, and calls come back or time out.  Clients
\* need not do anything.
Fairness ==
    /\ \A c \in Connections : WF_vars(on_close(c)) /\ WF_vars(on_message(c))
    /\ \A t \in AllTasks : WF_vars(RunTask(t))
    /\ WF_vars(run_returns)

Spec == Init /\ [][Next]_vars /\ Fairness

-----------------------------------------------------------------------------
\* The connections, clients, messages and tasks are of their kinds.
WebsocketTypeOK ==
    /\ conn \in [Connections -> {"new", "open", "closed", "gone"}]
    /\ DOMAIN clients = {c \in Connections : conn[c] \in {"open", "closed"}}
    /\ \A c \in Connections : sent[c] \in BoundedSeq(Kinds, MaxMessages)
    /\ DOMAIN tasks \subseteq AllTasks
    /\ server \in {"running", "killed", "stopped", "crashed"}

\* send_response(): a client gets replies to its own requests only, one to each, and the
\* reply is of the kind that the request asks for or an error.
RepliesMatch ==
    \A c \in Connections :
        /\ Cardinality(Replied(c)) = Len(replies[c])
        /\ \A i \in DOMAIN replies[c] :
            LET n == replies[c][i][1]
                kind == replies[c][i][2]
            IN /\ n \in DOMAIN sent[c]
               /\ \/ kind \in {"error", "unregistered_client"}
                  \/ sent[c][n] \in DOMAIN ResponseTo /\ kind = ResponseTo[sent[c][n]]

\* A client that awaits each reply, and whose registration was acknowledged, is never
\* told that it has not registered, although requests run concurrently.
RegisteredIsServed ==
    \A c \in Waiting : \A i, j \in DOMAIN replies[c] :
        i < j /\ replies[c][i][2] = "registration_acknowledgement"
            => replies[c][j][2] # "unregistered_client"

\* Calls are made with a session that the same client registered; for a client that
\* awaits each reply it is the one of its last registration before the request.
SessionOfClient ==
    \A t \in DOMAIN tasks : tasks[t].phase = "calling" =>
        LET s == tasks[t].session
        IN /\ s # NoSession
           /\ s[1] = t[1] /\ Kind(s) = "registration"
           /\ t[1] \in Waiting =>
                s[2] < t[2] /\ \A n \in (s[2] + 1)..(t[2] - 1) : Kind(<<t[1], n>>) # "registration"

\* The server ends after a kill: the connections are closed and the tasks waited for.
KillEnds == (server = "killed") ~> (server \in {"stopped", "crashed"})

\* When run() has returned, no task is left that uses the server.
NoTaskOutlivesServer ==
    server = "stopped" => \A t \in DOMAIN tasks : tasks[t].phase = "done"

\* What the server keeps and sends for one client is not mixed up with that of
\* another, while tasks of several connections run, end and outlive their
\* connections.
ClientsKeptApart ==
    /\ WebsocketTypeOK
    /\ RepliesMatch /\ RegisteredIsServed /\ SessionOfClient /\ NoTaskOutlivesServer

\* The server as what it promises: connections that are closed, or all of them when the
\* program has ended, are over.
Abstract == INSTANCE RequestReply WITH
    RequestNumbers <- 1..MaxMessages,
    asked <- {t \in AllTasks : t[2] \in DOMAIN sent[t[1]]},
    answered <- {t \in AllTasks : t[2] \in Replied(t[1])},
    over <- {c \in Connections : conn[c] \in {"closed", "gone"} \/ ~Up}

\* The server implements RequestReply: every request is answered once, unless its
\* connection ends.
ServesRequests == Abstract!Spec
=============================================================================
