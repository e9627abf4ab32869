----------------------------- MODULE RequestReply ----------------------------
(***************************************************************************)
(* What a server promises to the clients that are connected to it: every    *)
(* request is answered once, as long as the connection lasts.               *)
(***************************************************************************)
EXTENDS Naturals

CONSTANTS
    Connections,    \* the connections that clients make
    RequestNumbers  \* the numbers that a client gives its requests

VARIABLES
    asked,          \* the requests <<connection, number>> that were sent
    answered,       \* those that a reply was sent to
    over            \* the connections that have ended

vars == <<asked, answered, over>>

Requests == Connections \X RequestNumbers

Init == asked = {} /\ answered = {} /\ over = {}

Ask(r) ==
    /\ r[1] \notin over /\ r \notin asked
    /\ asked' = asked \cup {r}
    /\ UNCHANGED <<answered, over>>

Answer(r) ==
    /\ r \in asked \ answered /\ r[1] \notin over
    /\ answered' = answered \cup {r}
    /\ UNCHANGED <<asked, over>>

\* Connections end, one or many at once.
End(ended) ==
    /\ over' = over \cup ended
    /\ UNCHANGED <<asked, answered>>

Next ==
    \/ \E r \in Requests : Ask(r) \/ Answer(r)
    \/ \E ended \in SUBSET Connections : End(ended)

\* Unless its connection ends, a request is answered.
Fairness == \A r \in Requests : WF_vars(Answer(r))

Spec == Init /\ [][Next]_vars /\ Fairness
=============================================================================
