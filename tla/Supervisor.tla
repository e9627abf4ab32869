----------------------------- MODULE Supervisor -----------------------------
(***************************************************************************)
(* Local calculations: a thread's supervisor and its Docker providers      *)
(* (thinknode/supervisor.cpp, provider.cpp, ipc.cpp).                      *)
(*                                                                         *)
(* The calculation thread and the supervisor's message thread share the    *)
(* supervisor's data; a provider connects back over TCP, registers, and    *)
(* answers one function call at a time.  Providers may die at any moment   *)
(* and Docker may refuse to start one.                                     *)
(***************************************************************************)
EXTENDS Integers, Sequences

CONSTANTS
    ImageOf,    \* a sequence: the provider image of each calculation, in order
    MaxSpawns,  \* bound on the number of providers started
    MaxDeaths   \* bound on the failures of providers and of Docker

Jobs      == DOMAIN ImageOf
Providers == 1 .. MaxSpawns
Nobody    == 0

ASSUME BoundsAreNat ==
    /\ MaxSpawns \in Nat /\ MaxDeaths \in Nat
    /\ Len(ImageOf) \in Nat /\ Jobs = 1 .. Len(ImageOf)

VARIABLES
    state,     \* local_supervisor_state
    request,   \* active_request: the job, and whether its args were moved out
    active,    \* active_provider, or Nobody
    image,     \* image of each provider
    result,    \* cv_value: the produced results not consumed (at most one)
    socket,    \* provider at the other end of the supervisor's socket, or Nobody
    backlog,   \* providers that connected and were not accepted
    loop,      \* where the message thread is
    caller,    \* where the calculation thread is
    job,       \* the job it performs
    outcome,   \* Job -> what supervise_calculation did with it
    provider,  \* Provider -> what it does
    calls,     \* Provider -> function messages sent to it
    sent,      \* Provider -> messages it sent that were not read
    spawned,   \* number of providers started
    deaths     \* number of failures

info_vars       == <<active, image>>
supervisor_vars == <<state, request, socket, backlog, loop, caller, job>>
result_vars     == <<result, outcome>>
provider_vars   == <<provider, calls>>
queue_vars      == <<sent>>
svars == <<info_vars, supervisor_vars, result_vars, provider_vars, queue_vars, spawned, deaths>>

States == {"IDLE", "AWAITING_REGISTRATION", "AWAITING_RESULT", "TERMINATED"}
Callers == {"free", "checked", "transmitting", "writing", "respawning", "spawning",
            "pulling", "consuming", "ended"}
Loops == {"accepting", "reading", "writing", "producing", "failing", "idling", "leaving",
          "ended"}

\* What a function computes: it is known which job it was called for and
\* whether it got that job's arguments.
Requests == [job : Jobs, args : BOOLEAN]
NoRequest == [job |-> 0, args |-> FALSE]
Message(kind, call) == [kind |-> kind, call |-> call]
Kinds == {"registration", "progress", "result", "failure", "inconsistent", "docker_error",
          "pending"}
Messages == [kind : Kinds, call : Requests \cup {NoRequest}]

-----------------------------------------------------------------------------
\* The calculation thread

Alive(p) == p # Nobody /\ provider[p] # "dead"

\* The job ends with an outcome.
Finish(o) ==
    /\ outcome' = [outcome EXCEPT ![job] = o]
    /\ caller' = "free"

Unshared == UNCHANGED <<image, socket, backlog, loop, provider, calls, sent, spawned, deaths>>

\* supervise_calculation: a provider that is not idle or not the right one is
\* an error.
supervise(j) ==
    /\ caller = "free" /\ j = job + 1
    /\ job' = j
    /\ IF active # Nobody /\ (state # "IDLE" \/ image[active] # ImageOf[j])
         THEN /\ outcome' = [outcome EXCEPT ![j] = Message("inconsistent", NoRequest)]
              /\ UNCHANGED caller
         ELSE caller' = "checked" /\ UNCHANGED outcome
    /\ UNCHANGED <<state, request, active, result>> /\ Unshared

\* The request is stored and the last result reset.
store_request ==
    /\ caller = "checked"
    /\ request' = <<[job |-> job, args |-> TRUE]>>
    /\ result' = <<>>
    /\ caller' = IF active # Nobody THEN "transmitting" ELSE "spawning"
    /\ UNCHANGED <<state, active, job, outcome>> /\ Unshared

\* transmit_request by a thread: the new state is set and the arguments are
\* moved into the message before it is written.
begin_transmit == state' = "AWAITING_RESULT"

\* The message that is written takes the arguments with it.
MovedOut == <<[request[1] EXCEPT !.args = FALSE]>>

\* Writing to the socket: to a provider that died the write may still succeed.
WriteOutcomes == IF Alive(socket) THEN {TRUE}
                 ELSE IF socket # Nobody THEN BOOLEAN ELSE {FALSE}

transmit_to_active ==
    /\ caller = "transmitting"
    /\ begin_transmit
    /\ caller' = "writing"
    /\ UNCHANGED <<request, active, result, job, outcome>> /\ Unshared

\* The write, and the reset of active_request; a failed write stops the
\* provider.
write_to_active ==
    /\ caller = "writing"
    /\ \/ /\ TRUE \in WriteOutcomes
          /\ calls' = [calls EXCEPT ![socket] = Append(@, request[1])]
          /\ request' = <<>>
          /\ caller' = "consuming"
       \/ /\ FALSE \in WriteOutcomes
          /\ request' = MovedOut
          /\ caller' = "respawning"
          /\ UNCHANGED calls
    /\ UNCHANGED <<state, active, result, job, outcome, image, socket, backlog, loop,
                   provider, sent, spawned, deaths>>

\* Stopping a container ends the provider in it.
Stop(p) == provider' = [q \in Providers |-> IF q = p THEN "dead" ELSE provider[q]]

stop_provider ==
    /\ caller = "respawning"
    /\ Stop(active)
    /\ active' = Nobody
    /\ caller' = "spawning"
    /\ UNCHANGED <<state, request, image, result, socket, backlog, loop, job, outcome,
                   calls, sent, spawned, deaths>>

\* A registration is awaited from now on, before there is an active provider.
await_registration ==
    /\ caller = "spawning"
    /\ state' = "AWAITING_REGISTRATION"
    /\ caller' = "pulling"
    /\ UNCHANGED <<request, active, result, job, outcome>> /\ Unshared

\* active_provider is set; then pull_image and spawn_provider, which Docker may
\* refuse.
spawn_provider ==
    LET p == spawned + 1
    IN  /\ caller = "pulling" /\ spawned < MaxSpawns
        /\ active' = p
        /\ image' = [image EXCEPT ![p] = ImageOf[job]]
        /\ spawned' = p
        /\ \/ /\ provider' = [provider EXCEPT ![p] = "starting"]
              /\ caller' = "consuming"
              /\ UNCHANGED <<outcome, deaths>>
           \/ /\ deaths < MaxDeaths /\ deaths' = deaths + 1
              /\ Finish(Message("docker_error", NoRequest))
              /\ UNCHANGED provider
        /\ UNCHANGED <<state, request, result, socket, backlog, loop, job, calls, sent>>

\* consume, and what the result means.
consume ==
    /\ caller = "consuming" /\ result # <<>>
    /\ result' = <<>>
    /\ Finish(IF result[1].kind = "result" /\ state # "IDLE"
              THEN Message("inconsistent", NoRequest) ELSE result[1])
    /\ UNCHANGED <<state, request, active, job>> /\ Unshared

\* ~local_supervisor, when the thread ends.
terminate ==
    /\ caller = "free" /\ job = Len(ImageOf)
    /\ state' = "TERMINATED"
    /\ IF active # Nobody THEN Stop(active) ELSE UNCHANGED provider
    /\ active' = Nobody
    /\ caller' = "ended"
    /\ UNCHANGED <<request, image, result, socket, backlog, loop, job, outcome, calls, sent,
                   spawned, deaths>>

-----------------------------------------------------------------------------
\* process_messages: the message thread

Local == UNCHANGED <<active, image, caller, job, outcome, provider, spawned, deaths>>

accept ==
    /\ loop = "accepting" /\ backlog # <<>>
    /\ socket' = Head(backlog)
    /\ backlog' = Tail(backlog)
    /\ loop' = "reading"
    /\ UNCHANGED <<state, request, result, calls, sent>> /\ Local

\* Mutant: a registration is expected in the wrong state.
read_message_idle ==
    LET message == Head(sent[socket])
    IN  /\ loop = "reading" /\ sent[socket] # <<>>
        /\ message.kind \in {"registration", "progress"}
        /\ sent' = [sent EXCEPT ![socket] = Tail(@)]
        /\ IF message.kind = "registration" /\ state = "IDLE" /\ active = socket
             THEN begin_transmit /\ loop' = "writing"
             ELSE UNCHANGED <<state, loop>>
        /\ UNCHANGED <<request, result, calls, socket, backlog>> /\ Local

\* A message is read and handled.  A registration counts only while one is
\* awaited, and if it has the pid of the active provider.
read_message ==
    LET message == Head(sent[socket])
    IN  /\ loop = "reading" /\ sent[socket] # <<>>
        /\ message.kind \in {"registration", "progress"}
        /\ sent' = [sent EXCEPT ![socket] = Tail(@)]
        /\ IF message.kind = "registration" /\ state = "AWAITING_REGISTRATION" /\ active = socket
             THEN begin_transmit /\ loop' = "writing"
             ELSE UNCHANGED <<state, loop>>
        /\ UNCHANGED <<request, result, calls, socket, backlog>> /\ Local

\* Mutant: a progress message is taken for the end of the calculation.
read_result_or_progress ==
    /\ loop = "reading" /\ sent[socket] # <<>>
    /\ Head(sent[socket]).kind # "registration"
    /\ state' = "IDLE"
    /\ loop' = "producing"
    /\ UNCHANGED <<request, result, socket, backlog, calls, sent>> /\ Local

\* A result or failure is read: the supervisor is idle from now on, and the
\* result is produced.
read_result ==
    /\ loop = "reading" /\ sent[socket] # <<>>
    /\ Head(sent[socket]).kind \notin {"registration", "progress"}
    /\ state' = "IDLE"
    /\ loop' = "producing"
    /\ UNCHANGED <<request, result, socket, backlog, calls, sent>> /\ Local

produce ==
    /\ loop = "producing"
    /\ result' = <<Head(sent[socket])>>
    /\ sent' = [sent EXCEPT ![socket] = Tail(@)]
    /\ loop' = "reading"
    /\ UNCHANGED <<state, request, socket, backlog, calls>> /\ Local

\* The function call is written to the provider that has just registered.
write_to_registered ==
    /\ loop = "writing"
    /\ \/ /\ TRUE \in WriteOutcomes
          /\ calls' = [calls EXCEPT ![socket] = Append(@, request[1])]
          /\ request' = <<>>
          /\ loop' = "reading"
       \/ /\ FALSE \in WriteOutcomes
          /\ request' = MovedOut
          /\ loop' = "failing"
          /\ UNCHANGED calls
    /\ UNCHANGED <<state, result, socket, backlog, sent>> /\ Local

\* The connection is broken.
read_fails ==
    /\ loop = "reading" /\ sent[socket] = <<>> /\ ~Alive(socket)
    /\ loop' = "failing"
    /\ UNCHANGED <<state, request, result, socket, backlog, calls, sent>> /\ Local

\* The implicit failure is produced first, the state set after that.
produce_failure ==
    /\ loop = "failing"
    /\ IF state \notin {"IDLE", "TERMINATED"}
         THEN result' = <<Message("failure", NoRequest)>> /\ loop' = "idling"
         ELSE loop' = "leaving" /\ UNCHANGED result
    /\ UNCHANGED <<state, request, socket, backlog, calls, sent>> /\ Local

set_idle ==
    /\ loop = "idling"
    /\ state' = "IDLE"
    /\ loop' = "leaving"
    /\ UNCHANGED <<request, result, socket, backlog, calls, sent>> /\ Local

\* The outer loop: a new socket replaces the old one.
next_connection ==
    /\ loop = "leaving"
    /\ loop' = IF state = "TERMINATED" THEN "ended" ELSE "accepting"
    /\ socket' = IF state = "TERMINATED" THEN socket ELSE Nobody
    /\ UNCHANGED <<state, request, result, backlog, calls, sent>> /\ Local

-----------------------------------------------------------------------------
\* The providers (provide_calculations)

Elsewhere == UNCHANGED <<state, request, active, image, result, socket, loop, caller, job,
                         outcome, spawned>>

\* A started provider connects and registers.
register(p) ==
    /\ provider[p] = "starting"
    /\ provider' = [provider EXCEPT ![p] = "idle"]
    /\ backlog' = Append(backlog, p)
    /\ sent' = [sent EXCEPT ![p] = <<Message("registration", NoRequest)>>]
    /\ UNCHANGED <<calls, deaths>> /\ Elsewhere

\* dispatch_and_monitor_calculation: a thread performs the function.
dispatch(p) ==
    /\ provider[p] = "idle" /\ calls[p] # <<>>
    /\ provider' = [provider EXCEPT ![p] = "working"]
    /\ UNCHANGED <<backlog, calls, sent, deaths>> /\ Elsewhere

\* The reporter's progress messages are passed on.
report_progress(p) ==
    /\ provider[p] = "working"
    /\ provider' = [provider EXCEPT ![p] = "reported"]
    /\ sent' = [sent EXCEPT ![p] = Append(@, Message("progress", NoRequest))]
    /\ UNCHANGED <<backlog, calls, deaths>> /\ Elsewhere

\* The result, or the failure of the function, is sent.
perform_calculation(p) ==
    /\ provider[p] \in {"working", "reported"}
    /\ provider' = [provider EXCEPT ![p] = "idle"]
    /\ \E kind \in {"result", "failure"} :
          sent' = [sent EXCEPT ![p] = Append(@, Message(kind, Head(calls[p])))]
    /\ calls' = [calls EXCEPT ![p] = Tail(@)]
    /\ UNCHANGED <<backlog, deaths>> /\ Elsewhere

\* A provider dies.
die(p) ==
    /\ provider[p] \notin {"none", "dead"} /\ deaths < MaxDeaths
    /\ deaths' = deaths + 1
    /\ provider' = [provider EXCEPT ![p] = "dead"]
    /\ UNCHANGED <<backlog, calls, sent>> /\ Elsewhere

-----------------------------------------------------------------------------
SInit ==
    /\ state = "IDLE" /\ request = <<>> /\ active = Nobody
    /\ image = [p \in Providers |-> "none"]
    /\ result = <<>> /\ socket = Nobody /\ backlog = <<>>
    /\ loop = "accepting" /\ caller = "free" /\ job = 0
    /\ outcome = [j \in Jobs |-> Message("pending", NoRequest)]
    /\ provider = [p \in Providers |-> "none"]
    /\ calls = [p \in Providers |-> <<>>]
    /\ sent = [p \in Providers |-> <<>>]
    /\ spawned = 0 /\ deaths = 0

CallerSteps ==
    \/ store_request \/ transmit_to_active \/ write_to_active \/ stop_provider
    \/ await_registration \/ spawn_provider \/ consume

MessageSteps ==
    \/ accept \/ read_message \/ read_result \/ produce \/ write_to_registered
    \/ read_fails \/ produce_failure \/ set_idle \/ next_connection

ProviderSteps(p) == register(p) \/ dispatch(p) \/ perform_calculation(p)

SNext ==
    \/ CallerSteps \/ MessageSteps
    \/ \E j \in Jobs : supervise(j)
    \/ terminate
    \/ \E p \in Providers : ProviderSteps(p) \/ report_progress(p) \/ die(p)

\* Both threads and the providers keep running.
SSpec == /\ SInit /\ [][SNext]_svars
         /\ WF_svars(CallerSteps) /\ WF_svars(MessageSteps)
         /\ \A p \in Providers : WF_svars(ProviderSteps(p))

-----------------------------------------------------------------------------
\* Properties

\* The types of the variables.
SupervisorTypeOK ==
    /\ state \in States /\ caller \in Callers /\ loop \in Loops
    /\ request \in {<<>>} \cup {<<r>> : r \in Requests}
    /\ active \in 0 .. MaxSpawns /\ socket \in 0 .. MaxSpawns
    /\ result \in {<<>>} \cup {<<m>> : m \in Messages}
    /\ provider \in [Providers -> {"none", "starting", "idle", "working", "reported", "dead"}]
    /\ calls \in [Providers -> Seq(Requests)] /\ sent \in [Providers -> Seq(Messages)]
    /\ backlog \in Seq(Providers)
    /\ job \in 0 .. Len(ImageOf) /\ outcome \in [Jobs -> Messages]
    /\ spawned \in 0 .. MaxSpawns /\ deaths \in 0 .. MaxDeaths

\* The failure that stands for a broken connection.
ImplicitFailure == Message("failure", NoRequest)

\* A calculation returns what a provider computed for it.  The exception is a
\* late result of an earlier calculation: a connection broke while a request
\* was being transmitted, the failure went to the caller that had started
\* another provider, and that provider's result is produced after a later
\* calculation has reset the last one (supervisor.cpp: 422 sets IDLE before 423
\* produces), whose own result then comes late as well.  Without such a failure
\* no result is late; and no result is ever returned twice or out of order.
ResultOfThisJob ==
    \A j \in Jobs : outcome[j].kind = "result" =>
        LET i == outcome[j].call.job
        IN  /\ i = j \/ (i < j /\ \E f \in 1 .. i : outcome[f] = ImplicitFailure)
            /\ \A k \in 1 .. j - 1 : outcome[k].kind = "result" => outcome[k].call.job < i

\* No function call reaches a provider that is still working on one: "the
\* supervisor should prevent this from happening" (provider.cpp).
OneCallAtATime == \A p \in Providers : provider[p] # "dead" => Len(calls[p]) <= 1

\* As long as neither a provider nor Docker fails, every calculation ends.
CalculationEnds ==
    (caller = "consuming" /\ deaths = 0) ~> (caller # "consuming" \/ deaths > 0)
=============================================================================
