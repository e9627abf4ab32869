------------------------------ MODULE DeepCopy ------------------------------
(***************************************************************************)
(* Deep copies of Thinknode objects and calculations                       *)
(* (websocket/server.cpp, thinknode/iss.cpp, calc.cpp, caching.h).         *)
(*                                                                         *)
(* Every question of this part of the code is a cached task: fully_cached  *)
(* creates one shared task per key, all callers of that key await it, and  *)
(* its value stays cached.  The keys are "does this type contain           *)
(* references", "copy this object and what it refers to" and "copy this    *)
(* calculation and its arguments".  A task makes HTTP requests, which may  *)
(* fail, and awaits other tasks.  The process may be restarted: the tasks  *)
(* are gone, the values that reached the disk cache are not.               *)
(***************************************************************************)
EXTENDS Integers, FiniteSets, TLC

CONSTANTS
    Types,       \* the api types that occur
    Parts,       \* [Types -> SUBSET Types]: schemas a type is made of
    Objects,     \* ids of ISS objects and of calculations
    Calcs,       \* those that get_thinknode_service_id() says are calculations
    TypeOf,      \* [Objects -> Types]
    Refs,        \* [Objects -> SUBSET Objects]: references in the object's value
    Args,        \* [Calcs -> SUBSET Objects]: references in the calculation request
    Clients,     \* the websocket requests that ask for a copy
    Root,        \* [Clients -> Keys]: what each of them copies
    MaxTries,    \* bound on the number of times a client asks
    MaxFaults,   \* bound on the number of HTTP requests that fail
    MaxRestarts, \* bound on the number of restarts
    MaxLost      \* bound on the values a restart loses

TypeKeys   == {"type"} \X Types
ObjectKeys == {"object"} \X Objects
CalcKeys   == {"calc"} \X Objects
Keys       == TypeKeys \cup ObjectKeys \cup CalcKeys

\* HTTP requests a task has outstanding.
Https == {"post", "metadata", "status", "immutable", "retrieve",
          "at_destination", "at_source"} \X Objects

ReferenceType == "reference"

ASSUME InputsAreGraphs ==
    /\ Parts \in [Types -> SUBSET Types]
    /\ Parts[ReferenceType] = {}
    /\ Calcs \subseteq Objects
    /\ TypeOf \in [Objects -> Types]
    /\ Refs \in [Objects -> SUBSET Objects]
    /\ Args \in [Calcs -> SUBSET Objects]
    /\ Root \in [Clients -> ObjectKeys \cup CalcKeys]
    /\ Clients \cap Keys = {}

VARIABLES
    task,      \* Key -> where its shared task stands
    todo,      \* Key -> keys the task still has to call before it awaits them
    waits,     \* Key or client -> what it awaits
    hurt,      \* keys and clients of whose awaited tasks one threw
    found,     \* type keys one of whose parts has answered TRUE
    answer,    \* TypeKey -> the value of its task
    scope,     \* TypeKey -> object copy whose already_visited set it uses
    visited,   \* ObjectKey -> already_visited
    dest,      \* objects present in the destination context
    calc,      \* Calcs -> status of the calculation in Thinknode
    client,    \* Client -> how its request stands
    tries,     \* number of times a client has asked
    faults,    \* number of failed HTTP requests
    restarts,  \* number of restarts
    failedOnce,\* keys of the tasks that ever failed
    skipped    \* objects once copied without a scan for references

cached_vars == <<task, answer>>
shared_vars == <<waits, hurt>>
vars == <<cached_vars, shared_vars, todo, found, scope, visited, dest, calc, client,
          tries, faults, restarts, failedOnce, skipped>>

Phases == {"none", "calling", "awaiting", "copying", "typing", "resolving",
           "retrieving", "ready", "failed"}
CalcStatuses == {"calculating", "completed", "failed"}
Awaiters == Keys \cup Clients

-----------------------------------------------------------------------------
\* Reference definitions

\* Everything that can be reached from a set through a graph: what is in every
\* set around it that no edge leaves.
Closed(graph, C) == \A x \in C : graph[x] \subseteq C

Reached(graph, from) ==
    {x \in DOMAIN graph :
        \A C \in SUBSET DOMAIN graph : from \subseteq C /\ Closed(graph, C) => x \in C}

-----------------------------------------------------------------------------
\* Cached tasks

\* A task runs.
Running(k) == task[k] \notin {"none", "ready", "failed"}

Ready == {k \in Keys : task[k] = "ready"}

\* A caller of k creates a new task: there is none, or the last one failed.
NeedsTask(k) == task[k] \in {"none", "failed"}

\* Where a new task starts.
FirstPhase(k) ==
    CASE k[1] = "type"   -> "calling"
      [] k[1] = "object" -> "copying"
      [] k[1] = "calc"   -> IF k[2] \in Calcs THEN "resolving" ELSE "calling"

\* The HTTP requests it makes at once.
FirstHttps(k) ==
    CASE k[1] = "type"   -> {}
      [] k[1] = "object" -> {<<"post", k[2]>>, <<"metadata", k[2]>>}
      [] k[1] = "calc"   -> IF k[2] \in Calcs THEN {<<"at_destination", k[2]>>} ELSE {}

\* The keys it calls before it awaits them.  A calculation that is not one is
\* copied as an object.
FirstTodo(k) ==
    CASE k[1] = "type"   -> {"type"} \X Parts[k[2]]
      [] k[1] = "object" -> {}
      [] k[1] = "calc"   -> IF k[2] \in Calcs THEN {} ELSE {<<"object", k[2]>>}

\* Awaiter a calls fully_cached(k).  A new task is created if there is none or
\* the last one failed; a cached value is there at once.
fully_cached(a, k) ==
    /\ IF NeedsTask(k)
         THEN /\ task' = [task EXCEPT ![k] = FirstPhase(k)]
              /\ todo' = [todo EXCEPT ![k] = FirstTodo(k),
                                      ![a] = @ \ {k}]
              /\ waits' = [waits EXCEPT ![k] = FirstHttps(k), ![a] = @ \cup {k}]
              /\ hurt' = hurt \ {k}
         ELSE /\ UNCHANGED <<task, hurt>>
              /\ todo' = [todo EXCEPT ![a] = @ \ {k}]
              /\ waits' = IF task[k] = "ready" THEN waits
                          ELSE [waits EXCEPT ![a] = @ \cup {k}]

\* Mutant: visit_object_references does not rethrow either.
RethrowsToClients(a, k) == a \in Clients

\* Whether an exception in the task of key k leaves the await in awaiter a:
\* visit_calc_references uses when_all_ready, which does not rethrow.
Rethrows(a, k) == a \in Clients \/ ~(a[1] = "calc" /\ k[1] = "calc")

\* The task of key k ends; every awaiter is resumed with its outcome.
Ends(k, outcome) ==
    LET awaiting == {a \in Awaiters : k \in waits[a]}
    IN  /\ task' = [task EXCEPT ![k] = outcome]
        /\ waits' = [a \in Awaiters |-> IF a = k THEN {} ELSE waits[a] \ {k}]
        /\ todo' = [todo EXCEPT ![k] = {}]
        /\ hurt' = (hurt \ {k}) \cup
                     (IF outcome = "failed" THEN {a \in awaiting : Rethrows(a, k)}
                      ELSE {})
        /\ failedOnce' = IF outcome = "failed" THEN failedOnce \cup {k}
                         ELSE failedOnce

\* An await that ended with an exception ends the task.
fails(k) ==
    /\ Running(k)
    /\ todo[k] = {} /\ waits[k] = {}
    /\ k \in hurt
    /\ Ends(k, "failed")
    /\ UNCHANGED <<found, answer, scope, visited, dest, calc, client, tries, faults,
                   restarts, skipped>>

-----------------------------------------------------------------------------
\* type_contains_references

\* The task of a type calls for a part, unless this evaluation has seen it:
\* then the part counts as FALSE.
recurse(k, p) ==
    LET e == scope[k]
    IN  /\ k[1] = "type" /\ task[k] = "calling" /\ p \in todo[k]
        /\ IF p[2] \in visited[e]
             THEN /\ todo' = [todo EXCEPT ![k] = @ \ {p}]
                  /\ UNCHANGED <<task, waits, hurt, found, scope, visited>>
             ELSE /\ visited' = [visited EXCEPT ![e] = @ \cup {p[2]}]
                  /\ fully_cached(k, p)
                  /\ scope' = IF NeedsTask(p) THEN [scope EXCEPT ![p] = e] ELSE scope
                  /\ found' = IF task[p] = "ready" /\ answer[p]
                              THEN found \cup {k} ELSE found
        /\ UNCHANGED <<answer, dest, calc, client, tries, faults, restarts, failedOnce, skipped>>

\* All parts have answered: the type contains references if it is a reference
\* type or one of its parts does.
type_contains_references(k) ==
    LET value == k[2] = ReferenceType \/ k \in found
    IN  /\ k[1] = "type" /\ task[k] = "calling"
        /\ todo[k] = {} /\ waits[k] = {} /\ k \notin hurt
        /\ answer' = [answer EXCEPT ![k] = value]
        /\ found' = (found \ {k}) \cup
                      (IF value THEN {a \in TypeKeys : k \in waits[a]} ELSE {})
        /\ Ends(k, "ready")
        /\ UNCHANGED <<scope, visited, dest, calc, client, tries, faults, restarts, skipped>>

-----------------------------------------------------------------------------
\* HTTP requests.  async_http_request throws on any status other than 2xx.

\* A request of key k's task fails; the task sees it once nothing else of the
\* same when_all is outstanding.
http_fails(k, h) ==
    /\ h \in waits[k]
    /\ faults < MaxFaults
    /\ faults' = faults + 1
    /\ waits' = [waits EXCEPT ![k] = @ \ {h}]
    /\ hurt' = hurt \cup {k}
    /\ UNCHANGED <<task, todo, found, answer, scope, visited, dest, calc, client, tries,
                   restarts, failedOnce, skipped>>

\* Requests h of k's task is answered and the task goes on in phase p, with the
\* requests in more.
Answered(k, h, p, more) ==
    /\ h \in waits[k]
    /\ waits' = [waits EXCEPT ![k] = (@ \ {h}) \cup more]
    /\ task' = [task EXCEPT ![k] = p]
    /\ UNCHANGED <<found, answer, scope, visited, calc, client, tries, faults, restarts,
                   failedOnce, skipped>>

\* shallowly_copy_iss_object: the object is in the destination context.
shallowly_copy_iss_object(o) ==
    /\ Answered(<<"object", o>>, <<"post", o>>, "copying", {})
    /\ dest' = dest \cup {o}
    /\ UNCHANGED <<todo, hurt>>

\* What Thinknode answers about an object: 202 while it is the result of a
\* calculation that runs, 204 if that calculation failed.
StatusOf(o) ==
    IF o \notin Calcs \/ calc[o] = "completed" THEN 200
    ELSE IF calc[o] = "calculating" THEN 202 ELSE 204

\* The response to the request for the metadata, or for the id of the
\* immutable: 202 starts a long poll for the calculation.
resolve_iss_object(o, what) ==
    LET k == <<"object", o>> h == <<what, o>>
    IN  /\ \/ /\ StatusOf(o) = 200
              /\ IF what = "metadata"
                   THEN Answered(k, h, "copying", {})
                   ELSE Answered(k, h, "retrieving", {<<"retrieve", o>>})
              /\ UNCHANGED hurt
           \/ /\ StatusOf(o) = 202
              /\ Answered(k, h, task[k], {<<"status", o>>})
              /\ UNCHANGED hurt
           \/ /\ StatusOf(o) = 204
              /\ Answered(k, h, task[k], {})
              /\ hurt' = hurt \cup {k}
        /\ UNCHANGED <<todo, dest>>

\* Mutant: the poll does not end when the calculation has failed.
long_poll_for_completed(o) ==
    LET k == <<"object", o>>
        again == IF task[k] = "copying" THEN "metadata" ELSE "immutable"
    IN  /\ calc[o] = "completed"
        /\ Answered(k, <<"status", o>>, task[k], {<<again, o>>})
        /\ UNCHANGED <<todo, hurt, dest>>

\* A response to the long poll.  It ends when the calculation has completed or
\* failed, and the first request is made again.
long_poll_calculation_status(o) ==
    LET k == <<"object", o>>
        again == IF task[k] = "copying" THEN "metadata" ELSE "immutable"
    IN  /\ calc[o] \in {"completed", "failed"}
        /\ Answered(k, <<"status", o>>, task[k], {<<again, o>>})
        /\ UNCHANGED <<todo, hurt, dest>>

-----------------------------------------------------------------------------
\* deeply_copy_iss_object

\* The object is copied and its metadata there: ask whether its type contains
\* references, with an empty already_visited.
ask_type(o) ==
    LET k == <<"object", o>> t == <<"type", TypeOf[o]>>
    IN  /\ task[k] = "copying" /\ waits[k] = {} /\ k \notin hurt
        /\ IF NeedsTask(t)
             THEN /\ task' = [task EXCEPT ![k] = "typing", ![t] = FirstPhase(t)]
                  /\ todo' = [todo EXCEPT ![t] = FirstTodo(t)]
                  /\ waits' = [waits EXCEPT ![k] = {t}, ![t] = {}]
                  /\ hurt' = hurt \ {t}
                  /\ scope' = [scope EXCEPT ![t] = k]
             ELSE /\ task' = [task EXCEPT ![k] = "typing"]
                  /\ waits' = [waits EXCEPT ![k] = {t} \ Ready]
                  /\ UNCHANGED <<todo, hurt, scope>>
        /\ visited' = [visited EXCEPT ![k] = {TypeOf[o]}]
        /\ UNCHANGED <<found, answer, dest, calc, client, tries, faults, restarts,
                       failedOnce, skipped>>

\* Without references the copy is complete; otherwise the object is retrieved.
type_known(o) ==
    LET k == <<"object", o>>
    IN  /\ task[k] = "typing" /\ waits[k] = {} /\ k \notin hurt
        /\ IF answer[<<"type", TypeOf[o]>>]
             THEN /\ task' = [task EXCEPT ![k] = "resolving"]
                  /\ waits' = [waits EXCEPT ![k] = {<<"immutable", o>>}]
                  /\ UNCHANGED <<todo, hurt, failedOnce, skipped>>
             ELSE Ends(k, "ready") /\ skipped' = skipped \cup {o}
        /\ UNCHANGED <<found, answer, scope, visited, dest, calc, client, tries, faults,
                       restarts>>

\* The object has been retrieved: visit_object_references finds its references.
retrieve_immutable(o) ==
    LET k == <<"object", o>>
    IN  /\ Answered(k, <<"retrieve", o>>, "calling", {})
        /\ todo' = [todo EXCEPT ![k] = {"object"} \X Refs[o]]
        /\ UNCHANGED <<hurt, dest>>

\* The visitor copies one of the references.
visit(k, r) ==
    /\ k[1] # "type"
    /\ task[k] \in {"calling", "awaiting"} /\ r \in todo[k]
    /\ fully_cached(k, r)
    /\ UNCHANGED <<found, answer, scope, visited, dest, calc, client, tries, faults,
                   restarts, failedOnce, skipped>>

\* All references have been visited (when_all).
deeply_copy_iss_object(o) ==
    LET k == <<"object", o>>
    IN  /\ task[k] = "calling" /\ todo[k] = {} /\ waits[k] = {} /\ k \notin hurt
        /\ Ends(k, "ready")
        /\ UNCHANGED <<found, answer, scope, visited, dest, calc, client, tries, faults,
                       restarts, skipped>>

-----------------------------------------------------------------------------
\* deeply_copy_calculation

\* Mutant: the references of a request from the source are not visited.
retrieve_unvisited(o, where) ==
    /\ \/ /\ where = "at_destination" /\ o \notin dest
          /\ Answered(<<"calc", o>>, <<where, o>>, "resolving", {<<"at_source", o>>})
       \/ /\ where = "at_destination" /\ o \in dest
          /\ Answered(<<"calc", o>>, <<where, o>>, "awaiting", {})
       \/ /\ where = "at_source"
          /\ Answered(<<"calc", o>>, <<where, o>>, "calling", {})
    /\ UNCHANGED <<todo, hurt, dest>>

\* The calculation request is looked for in the destination context; on a 404
\* it is retrieved from the source, and the calculation must be copied.
retrieve_calculation_request(o, where) ==
    LET k == <<"calc", o>>
    IN  /\ \/ /\ where = "at_destination" /\ o \notin dest
              /\ Answered(k, <<where, o>>, "resolving", {<<"at_source", o>>})
              /\ UNCHANGED todo
           \/ /\ where = "at_destination" /\ o \in dest
              /\ Answered(k, <<where, o>>, "awaiting", {})
              /\ todo' = [todo EXCEPT ![k] = {"calc"} \X Args[o]]
           \/ /\ where = "at_source"
              /\ Answered(k, <<where, o>>, "calling", {})
              /\ todo' = [todo EXCEPT ![k] = {"calc"} \X Args[o]]
        /\ UNCHANGED <<hurt, dest>>

\* The references of the request have been visited: copy the calculation
\* itself if it must be.  (An ISS object is in phase "calling" at once.)
copy_needed(o) ==
    LET k == <<"calc", o>>
    IN  /\ o \in Calcs /\ task[k] = "calling"
        /\ todo[k] = {} /\ waits[k] = {} /\ k \notin hurt
        /\ task' = [task EXCEPT ![k] = "awaiting"]
        /\ todo' = [todo EXCEPT ![k] = {<<"object", o>>}]
        /\ UNCHANGED <<waits, hurt, found, answer, scope, visited, dest, calc, client,
                       tries, faults, restarts, failedOnce, skipped>>

\* Everything has been awaited.
deeply_copy_calculation(o) ==
    LET k == <<"calc", o>>
    IN  /\ task[k] = (IF o \in Calcs THEN "awaiting" ELSE "calling")
        /\ todo[k] = {} /\ waits[k] = {} /\ k \notin hurt
        /\ Ends(k, "ready")
        /\ UNCHANGED <<found, answer, scope, visited, dest, calc, client, tries, faults,
                       restarts, skipped>>

-----------------------------------------------------------------------------
\* The clients, Thinknode and the process

\* A client asks for a copy, the first time or after it failed.
ask(c) ==
    /\ client[c] \in {"idle", "failed"} /\ tries < MaxTries
    /\ client' = [client EXCEPT ![c] = "waiting"]
    /\ tries' = tries + 1
    /\ fully_cached(c, Root[c])
    /\ UNCHANGED <<found, answer, scope, visited, dest, calc, faults, restarts, failedOnce, skipped>>

\* Its request is answered.
reply(c) ==
    /\ client[c] = "waiting" /\ waits[c] = {}
    /\ client' = [client EXCEPT ![c] = IF c \in hurt THEN "failed" ELSE "done"]
    /\ hurt' = hurt \ {c}
    /\ UNCHANGED <<task, todo, waits, found, answer, scope, visited, dest, calc, tries,
                   faults, restarts, failedOnce, skipped>>

\* Thinknode finishes a calculation.
calculation_finishes(o) ==
    /\ calc[o] = "calculating"
    /\ \E s \in {"completed", "failed"} : calc' = [calc EXCEPT ![o] = s]
    /\ UNCHANGED <<task, todo, waits, hurt, found, answer, scope, visited, dest, client,
                   tries, faults, restarts, failedOnce, skipped>>

\* The process is restarted.  The values that were written to the disk cache
\* are still known, those in lost are not.
restart ==
    /\ restarts < MaxRestarts
    /\ restarts' = restarts + 1
    /\ \E lost \in {l \in SUBSET Ready : Cardinality(l) <= MaxLost} :
          task' = [k \in Keys |-> IF k \in Ready \ lost THEN "ready" ELSE "none"]
    /\ todo' = [a \in Awaiters |-> {}]
    /\ waits' = [a \in Awaiters |-> {}]
    /\ hurt' = {} /\ found' = {}
    /\ visited' = [k \in ObjectKeys |-> {}]
    /\ client' = [c \in Clients |-> IF client[c] = "waiting" THEN "failed" ELSE client[c]]
    /\ UNCHANGED <<answer, scope, dest, calc, tries, faults, failedOnce, skipped>>

-----------------------------------------------------------------------------
Init ==
    /\ task = [k \in Keys |-> "none"]
    /\ todo = [a \in Awaiters |-> {}]
    /\ waits = [a \in Awaiters |-> {}]
    /\ hurt = {} /\ found = {}
    /\ answer = [k \in TypeKeys |-> FALSE]
    /\ scope \in {[k \in TypeKeys |-> CHOOSE e \in ObjectKeys : TRUE]}
    /\ visited = [k \in ObjectKeys |-> {}]
    /\ dest = {}
    /\ calc = [o \in Calcs |-> "calculating"]
    /\ client = [c \in Clients |-> "idle"]
    /\ tries = 0
    /\ faults = 0 /\ restarts = 0 /\ failedOnce = {} /\ skipped = {}

Steps(k) ==
    \/ fails(k)
    \/ \E p \in todo[k] : recurse(k, p)
    \/ type_contains_references(k)
    \/ \E r \in todo[k] : visit(k, r)

CopySteps(o) ==
    \/ shallowly_copy_iss_object(o)
    \/ \E what \in {"metadata", "immutable"} : resolve_iss_object(o, what)
    \/ ask_type(o) \/ type_known(o) \/ retrieve_immutable(o)
    \/ deeply_copy_iss_object(o)
    \/ \E where \in {"at_destination", "at_source"} : retrieve_calculation_request(o, where)
    \/ copy_needed(o) \/ deeply_copy_calculation(o)

Progress ==
    \/ \E k \in Keys : Steps(k)
    \/ \E o \in Objects : CopySteps(o)
    \/ \E o \in Calcs : long_poll_calculation_status(o) \/ calculation_finishes(o)
    \/ \E c \in Clients : reply(c)

Next ==
    \/ Progress
    \/ \E k \in Keys : \E h \in waits[k] \cap Https : http_fails(k, h)
    \/ \E c \in Clients : ask(c)
    \/ restart

\* Coroutines that can go on are resumed, HTTP requests are answered and
\* Thinknode's calculations end; nothing forces a client to ask.
Spec == Init /\ [][Next]_vars /\ WF_vars(Progress)

-----------------------------------------------------------------------------
\* Properties

\* The types of the variables.
CopyTypeOK ==
    /\ task \in [Keys -> Phases]
    /\ todo \in [Awaiters -> SUBSET Keys]
    /\ waits \in [Awaiters -> SUBSET (Keys \cup Https)]
    /\ hurt \subseteq Awaiters /\ found \subseteq TypeKeys
    /\ answer \in [TypeKeys -> BOOLEAN] /\ scope \in [TypeKeys -> ObjectKeys]
    /\ visited \in [ObjectKeys -> SUBSET Types]
    /\ dest \subseteq Objects /\ failedOnce \subseteq Keys /\ skipped \subseteq Objects
    /\ calc \in [Calcs -> CalcStatuses]
    /\ client \in [Clients -> {"idle", "waiting", "done", "failed"}]
    /\ tries \in 0 .. MaxTries
    /\ faults \in 0 .. MaxFaults /\ restarts \in 0 .. MaxRestarts

\* The references a deep copy follows: those of the objects it scans.
Followed == [o \in Objects |-> IF o \in skipped THEN {} ELSE Refs[o]]

\* What a calculation is computed from: its arguments, and the arguments of
\* those that are calculations.
Arguments == [o \in Objects |-> IF o \in Calcs THEN Args[o] ELSE {}]
Inputs(o) == Reached(Arguments, {o})

\* Once deeply_copy_iss_object has reported an object as copied, everything it
\* refers to, directly or not, is in the destination context, as far as the
\* types were found to contain references: also after tasks failed and were
\* tried again, and after a restart that lost some of the cached answers.
CopiedIsComplete ==
    \A o \in Objects :
       task[<<"object", o>>] = "ready" => Reached(Followed, {o}) \subseteq dest

\* A calculation that is reported as copied is complete as well, unless a task
\* for one of its inputs failed (visit_calc_references does not pass that on):
\* the calculation, all its inputs, and what the objects among them refer to
\* are in the destination context.  What the results of the calculations refer
\* to is not part of it: a calculation that is found in the destination context
\* is not copied, even if the task that posted it never got to its references.
CalcCopiedUnlessFailed ==
    \A o \in Objects :
       task[<<"calc", o>>] = "ready" =>
          \/ \E f \in Inputs(o) : {<<"calc", f>>, <<"object", f>>} \cap failedOnce # {}
          \/ \A n \in Inputs(o) :
                n \in dest /\ (n \notin Calcs => Reached(Followed, {n}) \subseteq dest)

\* Every copy that is asked for is answered: the long polls end, the tasks
\* that several copies share are resumed and nobody waits for itself, unless
\* two copies enter a circle of types at different places.
CopyEnds == \A c \in Clients : client[c] = "waiting" ~> client[c] # "waiting"
=============================================================================
