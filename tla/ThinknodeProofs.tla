--------------------------- MODULE ThinknodeProofs ---------------------------
(***************************************************************************)
(* Proofs about the Thinknode client: deep copies between contexts, and    *)
(* the supervisor of local calculations.  The two are independent: each    *)
(* theorem is about the specification of its own component.                *)
(***************************************************************************)
EXTENDS DeepCopy, Supervisor, TLAPS

-----------------------------------------------------------------------------
\* What can be reached through a graph

\* Reached is the least set around its start that no edge leaves.
LEMMA ReachedLeast ==
    ASSUME NEW S, NEW g \in [S -> SUBSET S], NEW x \in S
    PROVE  /\ x \in Reached(g, {x}) /\ Reached(g, {x}) \subseteq S
           /\ \A y \in Reached(g, {x}) : g[y] \subseteq Reached(g, {x})
           /\ \A C \in SUBSET S : (x \in C /\ Closed(g, C)) => Reached(g, {x}) \subseteq C
<1>1. DOMAIN g = S
  OBVIOUS
<1>2. x \in Reached(g, {x}) /\ Reached(g, {x}) \subseteq S
  BY <1>1 DEF Reached
<1>3. ASSUME NEW y \in Reached(g, {x}), NEW z \in g[y] PROVE z \in Reached(g, {x})
  <2>1. y \in S /\ z \in S
    BY <1>2, <1>3
  <2>2. ASSUME NEW C \in SUBSET S, {x} \subseteq C, Closed(g, C) PROVE z \in C
    <3>1. y \in C
      BY <1>1, <1>3, <2>2 DEF Reached
    <3> QED
      BY <3>1, <1>3, <2>2 DEF Closed
  <2> QED
    BY <1>1, <2>1, <2>2 DEF Reached
<1>4. ASSUME NEW C \in SUBSET S, x \in C, Closed(g, C) PROVE Reached(g, {x}) \subseteq C
  BY <1>1, <1>4 DEF Reached
<1> QED
  BY <1>2, <1>3, <1>4

\* What is reached from something reached is reached.
LEMMA ReachedFromReached ==
    ASSUME NEW S, NEW g \in [S -> SUBSET S], NEW x \in S, NEW y \in g[x]
    PROVE  y \in S /\ Reached(g, {y}) \subseteq Reached(g, {x})
<1>1. y \in S
  OBVIOUS
<1>2. /\ x \in Reached(g, {x}) /\ Reached(g, {x}) \subseteq S
      /\ \A z \in Reached(g, {x}) : g[z] \subseteq Reached(g, {x})
  BY ReachedLeast
<1>3. y \in Reached(g, {x}) /\ Closed(g, Reached(g, {x}))
  BY <1>2 DEF Closed
<1>4. \A C \in SUBSET S : (y \in C /\ Closed(g, C)) => Reached(g, {y}) \subseteq C
  BY <1>1, ReachedLeast
<1> QED
  BY <1>1, <1>2, <1>3, <1>4

\* A set that holds a node, and all that is reached from its successors, holds
\* all that is reached from the node.
LEMMA ReachedThroughSuccessors ==
    ASSUME NEW S, NEW g \in [S -> SUBSET S], NEW x \in S, NEW D, x \in D,
           \A y \in g[x] : Reached(g, {y}) \subseteq D
    PROVE  Reached(g, {x}) \subseteq D
<1> DEFINE C == {x} \cup UNION {Reached(g, {y}) : y \in g[x]}
<1>1. g[x] \subseteq S
  OBVIOUS
<1>2. \A y \in g[x] : /\ y \in Reached(g, {y}) /\ Reached(g, {y}) \subseteq S
                      /\ \A z \in Reached(g, {y}) : g[z] \subseteq Reached(g, {y})
  BY <1>1, ReachedLeast
<1>3. C \in SUBSET S /\ x \in C
  BY <1>2
<1>4. ASSUME NEW z \in C PROVE g[z] \subseteq C
  <2>1. CASE z = x
    BY <2>1, <1>2
  <2>2. ASSUME NEW y \in g[x], z \in Reached(g, {y}) PROVE g[z] \subseteq C
    BY <2>2, <1>2
  <2> QED
    BY <2>1, <2>2, <1>4
<1>5. Reached(g, {x}) \subseteq C
  <2>1. Closed(g, C)
    BY <1>4 DEF Closed
  <2>2. \A E \in SUBSET S : (x \in E /\ Closed(g, E)) => Reached(g, {x}) \subseteq E
    BY ReachedLeast
  <2> HIDE DEF C
  <2> QED
    BY <1>3, <2>1, <2>2
<1> QED
  BY <1>5

\* Fewer edges reach no more.
LEMMA ReachedShrinks ==
    ASSUME NEW S, NEW g \in [S -> SUBSET S], NEW h \in [S -> SUBSET S], NEW x \in S,
           \A y \in S : h[y] \subseteq g[y]
    PROVE  Reached(h, {x}) \subseteq Reached(g, {x})
<1>1. /\ x \in Reached(g, {x}) /\ Reached(g, {x}) \subseteq S
      /\ \A y \in Reached(g, {x}) : g[y] \subseteq Reached(g, {x})
  BY ReachedLeast
<1>2. \A C \in SUBSET S : (x \in C /\ Closed(h, C)) => Reached(h, {x}) \subseteq C
  BY ReachedLeast
<1>3. Closed(h, Reached(g, {x}))
  BY <1>1 DEF Closed
<1> QED
  BY <1>1, <1>2, <1>3

-----------------------------------------------------------------------------
\* The inductive invariant

\* The objects that are in the destination with all that the copies followed.
Complete == {o \in Objects : Reached(Followed, {o}) \subseteq dest}

\* What CalcCopiedUnlessFailed says of a calculation, for the sets of present,
\* complete and once failed things.
CopiedWith(o, present, complete, failed) ==
    \/ \E f \in Inputs(o) : {<<"calc", f>>, <<"object", f>>} \cap failed # {}
    \/ \A n \in Inputs(o) : n \in present /\ (n \notin Calcs => n \in complete)

Copied == {o \in Objects : CopiedWith(o, dest, Complete, failedOnce)}

\* What a task has yet to call or to await.
Pending(k) == todo[k] \cup waits[k]

\* The types the proof needs.
CopyShape ==
    /\ task \in [Keys -> Phases]
    /\ todo \in [Awaiters -> SUBSET Keys]
    /\ waits \in [Awaiters -> SUBSET (Keys \cup Https)]
    /\ hurt \subseteq Awaiters

\* The requests that the task of an object awaits fit its phase.
RequestsFit(o) ==
    LET k == <<"object", o>>
    IN  /\ <<"post", o>> \in waits[k] => task[k] = "copying"
        /\ <<"metadata", o>> \in waits[k] => task[k] = "copying"
        /\ <<"immutable", o>> \in waits[k] => task[k] = "resolving"
        /\ <<"retrieve", o>> \in waits[k] => task[k] = "retrieving"
        /\ <<"status", o>> \in waits[k] => /\ task[k] \in {"copying", "resolving"}
                                           /\ <<"immutable", o>> \notin waits[k]

\* The copy of an object: it is posted before it is scanned, and its references
\* are pending until they are complete or have failed.
ObjectOK(o) ==
    LET k == <<"object", o>>
    IN  /\ task[k] # "awaiting"
        /\ task[k] = "copying" => <<"post", o>> \in waits[k] \/ o \in dest \/ k \in hurt
        /\ task[k] \in {"typing", "resolving", "retrieving", "calling"} => o \in dest
        /\ task[k] = "calling" =>
              \A r \in Refs[o] : <<"object", r>> \in Pending(k) \/ r \in Complete \/ k \in hurt
        /\ task[k] = "ready" => o \in Complete

\* The copy of a calculation: its arguments are pending until they are copied
\* or have failed, and then the calculation is present or its copy pending.
CalcOK(o) ==
    LET k == <<"calc", o>>
    IN  /\ task[k] = "ready" => o \in Copied
        /\ o \notin Calcs /\ task[k] = "calling" =>
              <<"object", o>> \in Pending(k) \/ o \in Complete \/ k \in hurt
        /\ o \in Calcs /\ task[k] \in {"calling", "awaiting"} =>
              \A a \in Args[o] : \/ <<"calc", a>> \in Pending(k) \/ a \in Copied
                                 \/ <<"calc", a>> \in failedOnce
        /\ o \in Calcs /\ task[k] = "awaiting" =>
              o \in dest \/ <<"object", o>> \in Pending(k) \/ k \in hurt
        /\ <<"at_destination", o>> \in waits[k] => o \in Calcs
        /\ <<"at_source", o>> \in waits[k] => o \in Calcs

CopyInv ==
    /\ CopyShape
    /\ \A o \in Objects : RequestsFit(o) /\ ObjectOK(o) /\ CalcOK(o)

\* What every step does: nothing leaves the destination, an object that was
\* copied without a scan stays known as such, and so does a failure.
Grows ==
    dest \subseteq dest' /\ skipped \subseteq skipped' /\ failedOnce \subseteq failedOnce'

-----------------------------------------------------------------------------
\* What a step may do

\* The graphs are over the objects, in every state.
LEMMA GraphsOverObjects ==
    /\ Followed \in [Objects -> SUBSET Objects] /\ Followed' \in [Objects -> SUBSET Objects]
    /\ Arguments \in [Objects -> SUBSET Objects]
BY InputsAreGraphs DEF Followed, Arguments

\* What is complete or copied stays so.
LEMMA CompleteStays ==
    ASSUME Grows
    PROVE  Complete \subseteq Complete' /\ Copied \subseteq Copied'
<1>1. ASSUME NEW o \in Objects PROVE Reached(Followed', {o}) \subseteq Reached(Followed, {o})
  <2>1. \A y \in Objects : Followed'[y] \subseteq Followed[y]
    BY DEF Grows, Followed
  <2> QED
    BY <2>1, GraphsOverObjects, ReachedShrinks
<1>2. Complete \subseteq Complete'
  BY <1>1 DEF Complete, Grows
<1>3. ASSUME NEW o \in Objects, CopiedWith(o, dest, Complete, failedOnce)
      PROVE  CopiedWith(o, dest', Complete', failedOnce')
  BY <1>2, <1>3 DEF CopiedWith, Grows
<1> QED
  BY <1>2, <1>3 DEF Copied

\* An object in the destination all of whose followed references are complete
\* is complete.
LEMMA BecomesComplete ==
    ASSUME NEW o \in Objects, o \in dest',
           \A r \in Followed'[o] : r \in Complete'
    PROVE  o \in Complete'
<1>1. \A r \in Followed'[o] : Reached(Followed', {r}) \subseteq dest'
  BY DEF Complete
<1>2. Reached(Followed', {o}) \subseteq dest'
  BY <1>1, GraphsOverObjects, ReachedThroughSuccessors
<1> QED
  BY <1>2 DEF Complete

\* A complete object is in the destination.
LEMMA CompleteIsPresent ==
    (\A o \in Complete : o \in dest) /\ (\A o \in Complete' : o \in dest')
<1>1. \A o \in Objects : o \in Reached(Followed, {o}) /\ o \in Reached(Followed', {o})
  BY GraphsOverObjects, ReachedLeast
<1> QED
  BY <1>1 DEF Complete

\* A complete object that is no calculation counts as copied.
LEMMA ObjectBecomesCopied ==
    ASSUME NEW o \in Objects \ Calcs, o \in Complete'
    PROVE  o \in Copied'
<1>1. Arguments[o] = {}
  BY DEF Arguments
<1>2. Inputs(o) \subseteq {o}
  <2>1. \A y \in Arguments[o] : Reached(Arguments, {y}) \subseteq {o}
    BY <1>1
  <2> QED
    BY <2>1, GraphsOverObjects, ReachedThroughSuccessors DEF Inputs
<1>3. o \in dest'
  BY CompleteIsPresent
<1> QED
  BY <1>2, <1>3 DEF Copied, CopiedWith

\* A calculation in the destination all of whose arguments are copied, or
\* failed, is copied.
LEMMA CalcBecomesCopied ==
    ASSUME NEW o \in Calcs, o \in dest',
           \A a \in Args[o] : a \in Copied' \/ <<"calc", a>> \in failedOnce'
    PROVE  o \in Copied'
<1>0. o \in Objects /\ Arguments[o] = Args[o] /\ Args[o] \subseteq Objects
  BY InputsAreGraphs DEF Arguments
<1>1. \A a \in Args[o] : Inputs(a) \subseteq Inputs(o)
  BY <1>0, GraphsOverObjects, ReachedFromReached DEF Inputs
<1>2. \A a \in Args[o] : a \in Inputs(a)
  BY <1>0, GraphsOverObjects, ReachedLeast DEF Inputs
<1>3. CASE \E f \in Inputs(o) : {<<"calc", f>>, <<"object", f>>} \cap failedOnce' # {}
  BY <1>0, <1>3 DEF Copied, CopiedWith
<1>4. CASE ~\E f \in Inputs(o) : {<<"calc", f>>, <<"object", f>>} \cap failedOnce' # {}
  <2> DEFINE D == {n \in Objects : n \in dest' /\ (n \notin Calcs => n \in Complete')}
  <2>1. ASSUME NEW a \in Args[o] PROVE a \in Copied'
    <3>1. <<"calc", a>> \notin failedOnce'
      BY <1>1, <1>2, <1>4
    <3> QED
      BY <3>1
  <2>2. ASSUME NEW a \in Args[o] PROVE Inputs(a) \subseteq D
    <3>1. CopiedWith(a, dest', Complete', failedOnce')
      BY <2>1 DEF Copied
    <3>2. ~\E f \in Inputs(a) : {<<"calc", f>>, <<"object", f>>} \cap failedOnce' # {}
      BY <1>1, <1>4
    <3>3. Inputs(a) \subseteq Objects
      BY <1>0, GraphsOverObjects, ReachedLeast DEF Inputs
    <3> QED
      BY <3>1, <3>2, <3>3 DEF CopiedWith
  <2>3. o \in D
    BY <1>0
  <2>4. \A y \in Arguments[o] : Reached(Arguments, {y}) \subseteq D
    BY <2>2, <1>0 DEF Inputs
  <2> HIDE DEF D
  <2>5. Inputs(o) \subseteq D
    BY <1>0, <2>3, <2>4, GraphsOverObjects, ReachedThroughSuccessors DEF Inputs
  <2> QED
    BY <2>5, <1>0 DEF D, Copied, CopiedWith
<1> QED
  BY <1>3, <1>4

\* A step that leaves the phase of an object's task alone keeps what the
\* invariant says of it, if what is no longer pending is complete or hurt.
LEMMA ObjectKept ==
    ASSUME Grows, NEW o \in Objects, NEW k, k = <<"object", o>>,
           RequestsFit(o), ObjectOK(o),
           task'[k] = task[k], k \in hurt => k \in hurt',
           \A h \in Https : h \in waits'[k] <=> h \in waits[k],
           \A r \in Refs[o] : <<"object", r>> \in Pending(k) =>
              <<"object", r>> \in Pending(k)' \/ r \in Complete' \/ k \in hurt'
    PROVE  RequestsFit(o)' /\ ObjectOK(o)'
<1>1. \A w \in {"post", "metadata", "status", "immutable", "retrieve"} : <<w, o>> \in Https
  BY DEF Https
<1>2. Complete \subseteq Complete' /\ dest \subseteq dest'
  BY CompleteStays DEF Grows
<1>3. RequestsFit(o)'
  BY <1>1 DEF RequestsFit
<1>4. ObjectOK(o)'
  BY <1>1, <1>2 DEF ObjectOK
<1> QED
  BY <1>3, <1>4

\* The same for the task of a calculation.
LEMMA CalcKept ==
    ASSUME Grows, NEW o \in Objects, NEW k, k = <<"calc", o>>, CalcOK(o),
           task'[k] = task[k], k \in hurt => k \in hurt',
           \A h \in Https : h \in waits'[k] => h \in waits[k],
           <<"object", o>> \in Pending(k) =>
              <<"object", o>> \in Pending(k)' \/ o \in Complete' \/ k \in hurt',
           \A a \in Objects : <<"calc", a>> \in Pending(k) =>
              <<"calc", a>> \in Pending(k)' \/ a \in Copied' \/ <<"calc", a>> \in failedOnce'
    PROVE  CalcOK(o)'
<1>1. \A w \in {"at_destination", "at_source"} : <<w, o>> \in Https
  BY DEF Https
<1>2. /\ Complete \subseteq Complete' /\ dest \subseteq dest' /\ Copied \subseteq Copied'
      /\ failedOnce \subseteq failedOnce' /\ Complete' \subseteq dest'
  BY CompleteStays, CompleteIsPresent DEF Grows
<1>3. o \in Calcs => Args[o] \subseteq Objects
  BY InputsAreGraphs
<1>4. task'[k] = "ready" => o \in Copied'
  BY <1>2 DEF CalcOK
<1>5. o \notin Calcs /\ task'[k] = "calling" =>
              <<"object", o>> \in Pending(k)' \/ o \in Complete' \/ k \in hurt'
  BY <1>2 DEF CalcOK
<1>6. o \in Calcs /\ task'[k] \in {"calling", "awaiting"} =>
              \A a \in Args[o] : \/ <<"calc", a>> \in Pending(k)' \/ a \in Copied'
                                 \/ <<"calc", a>> \in failedOnce'
  BY <1>2, <1>3 DEF CalcOK
<1>7. o \in Calcs /\ task'[k] = "awaiting" =>
              o \in dest' \/ <<"object", o>> \in Pending(k)' \/ k \in hurt'
  BY <1>2 DEF CalcOK
<1>8. /\ <<"at_destination", o>> \in waits'[k] => o \in Calcs
      /\ <<"at_source", o>> \in waits'[k] => o \in Calcs
  BY <1>1 DEF CalcOK
<1> QED
  BY <1>4, <1>5, <1>6, <1>7, <1>8 DEF CalcOK
\* The keys of the tasks that copy.
CopyKeys == ObjectKeys \cup CalcKeys

\* A step that leaves the tasks of all these keys but k alone keeps what the
\* invariant says of them.
LEMMA OthersKept ==
    ASSUME CopyInv, Grows, NEW k, (hurt \cap CopyKeys) \ {k} \subseteq hurt',
           \A q \in CopyKeys \ {k} : /\ task'[q] = task[q] /\ todo'[q] = todo[q]
                                     /\ waits'[q] = waits[q]
    PROVE  \A o \in Objects :
              /\ <<"object", o>> # k => RequestsFit(o)' /\ ObjectOK(o)'
              /\ <<"calc", o>> # k => CalcOK(o)'
<1> TAKE o \in Objects
<1>1. <<"object", o>> \in CopyKeys /\ <<"calc", o>> \in CopyKeys
  BY DEF CopyKeys, ObjectKeys, CalcKeys
<1>2. RequestsFit(o) /\ ObjectOK(o) /\ CalcOK(o)
  BY DEF CopyInv
<1>3. ASSUME NEW q \in CopyKeys, q # k
      PROVE  task'[q] = task[q] /\ waits'[q] = waits[q] /\ Pending(q)' = Pending(q)
             /\ (q \in hurt => q \in hurt')
  BY <1>3 DEF Pending
<1>4. ASSUME <<"object", o>> # k PROVE RequestsFit(o)' /\ ObjectOK(o)'
  <2>1. PICK q : q = <<"object", o>>
    OBVIOUS
  <2>2. q \in CopyKeys /\ q # k
    BY <2>1, <1>1, <1>4
  <2>3. task'[q] = task[q] /\ waits'[q] = waits[q] /\ Pending(q)' = Pending(q)
        /\ (q \in hurt => q \in hurt')
    BY <2>2, <1>3
  <2> QED
    BY <2>1, <2>3, <1>2, ObjectKept
<1>5. ASSUME <<"calc", o>> # k PROVE CalcOK(o)'
  <2>1. PICK q : q = <<"calc", o>>
    OBVIOUS
  <2>2. q \in CopyKeys /\ q # k
    BY <2>1, <1>1, <1>5
  <2>3. task'[q] = task[q] /\ waits'[q] = waits[q] /\ Pending(q)' = Pending(q)
        /\ (q \in hurt => q \in hurt')
    BY <2>2, <1>3
  <2> QED
    BY <2>1, <2>3, <1>2, CalcKept
<1> QED
  BY <1>4, <1>5

\* The keys are told apart by their kind, and from the requests.
LEMMA KeysApart ==
    /\ \A o \in Objects : <<"object", o>> \in Keys /\ <<"calc", o>> \in Keys
    /\ \A t \in Types : <<"type", t>> \in Keys
    /\ \A o, p : <<"object", o>> # <<"calc", p>> /\ <<"object", o>> # <<"type", p>>
                 /\ <<"calc", o>> # <<"type", p>>
    /\ Keys \cap Https = {}
    /\ \A k \in Keys : \/ \E t \in Types : k = <<"type", t>>
                       \/ \E o \in Objects : k = <<"object", o>>
                       \/ \E o \in Objects : k = <<"calc", o>>
<1>1. /\ \A o \in Objects : <<"object", o>> \in Keys /\ <<"calc", o>> \in Keys
      /\ \A t \in Types : <<"type", t>> \in Keys
  BY DEF Keys, ObjectKeys, CalcKeys, TypeKeys
<1>2. \A o, p : <<"object", o>> # <<"calc", p>> /\ <<"object", o>> # <<"type", p>>
                 /\ <<"calc", o>> # <<"type", p>>
  OBVIOUS
<1>3. \A k \in Keys : \/ \E t \in Types : k = <<"type", t>>
                      \/ \E o \in Objects : k = <<"object", o>>
                      \/ \E o \in Objects : k = <<"calc", o>>
  <2> TAKE k \in Keys
  <2>1. k \in {"type"} \X Types \/ k \in {"object"} \X Objects \/ k \in {"calc"} \X Objects
    BY DEF Keys, ObjectKeys, CalcKeys, TypeKeys
  <2> QED
    BY <2>1
<1>4. Keys \cap Https = {}
  BY DEF Keys, ObjectKeys, CalcKeys, TypeKeys, Https
<1> QED
  BY <1>1, <1>2, <1>3, <1>4

\* How new tasks start.
LEMMA FirstSteps ==
    /\ \A k \in Keys : /\ FirstPhase(k) \in Phases /\ FirstTodo(k) \in SUBSET Keys
                       /\ FirstHttps(k) \in SUBSET Https
    /\ \A o \in Objects :
          /\ FirstPhase(<<"object", o>>) = "copying"
          /\ FirstHttps(<<"object", o>>) = {<<"post", o>>, <<"metadata", o>>}
    /\ \A o \in Calcs :
          /\ FirstPhase(<<"calc", o>>) = "resolving"
          /\ FirstHttps(<<"calc", o>>) = {<<"at_destination", o>>}
    /\ \A o \in Objects \ Calcs :
          /\ FirstPhase(<<"calc", o>>) = "calling"
          /\ FirstHttps(<<"calc", o>>) = {} /\ FirstTodo(<<"calc", o>>) = {<<"object", o>>}
<1>1. \A t \in Types : LET k == <<"type", t>> IN
         /\ FirstPhase(k) = "calling" /\ FirstHttps(k) = {} /\ FirstTodo(k) = {"type"} \X Parts[t]
  BY DEF FirstPhase, FirstHttps, FirstTodo
<1>2. \A o \in Objects : LET k == <<"object", o>> IN
         /\ FirstPhase(k) = "copying" /\ FirstTodo(k) = {}
         /\ FirstHttps(k) = {<<"post", o>>, <<"metadata", o>>}
  BY DEF FirstPhase, FirstHttps, FirstTodo
<1>3. \A o \in Calcs : LET k == <<"calc", o>> IN
         /\ FirstPhase(k) = "resolving" /\ FirstTodo(k) = {}
         /\ FirstHttps(k) = {<<"at_destination", o>>}
  BY DEF FirstPhase, FirstHttps, FirstTodo
<1>4. \A o \in Objects \ Calcs : LET k == <<"calc", o>> IN
         /\ FirstPhase(k) = "calling" /\ FirstTodo(k) = {<<"object", o>>}
         /\ FirstHttps(k) = {}
  BY DEF FirstPhase, FirstHttps, FirstTodo
<1>5. ASSUME NEW k \in Keys
      PROVE  /\ FirstPhase(k) \in Phases /\ FirstTodo(k) \in SUBSET Keys
             /\ FirstHttps(k) \in SUBSET Https
  <2>1. ASSUME NEW t \in Types, k = <<"type", t>>
        PROVE  /\ FirstPhase(k) \in Phases /\ FirstTodo(k) \in SUBSET Keys
               /\ FirstHttps(k) \in SUBSET Https
    <3>1. {"type"} \X Parts[t] \subseteq Keys
      BY InputsAreGraphs DEF Keys, TypeKeys
    <3> QED
      BY <3>1, <2>1, <1>1 DEF Phases
  <2>2. ASSUME NEW o \in Objects, k = <<"object", o>>
        PROVE  /\ FirstPhase(k) \in Phases /\ FirstTodo(k) \in SUBSET Keys
               /\ FirstHttps(k) \in SUBSET Https
    BY <2>2, <1>2 DEF Phases, Https
  <2>3. ASSUME NEW o \in Objects, k = <<"calc", o>>
        PROVE  /\ FirstPhase(k) \in Phases /\ FirstTodo(k) \in SUBSET Keys
               /\ FirstHttps(k) \in SUBSET Https
    <3>1. CASE o \in Calcs
      BY <3>1, <2>3, <1>3 DEF Phases, Https
    <3>2. CASE o \notin Calcs
      BY <3>2, <2>3, <1>4, KeysApart DEF Phases
    <3> QED
      BY <3>1, <3>2
  <2> QED
    BY <2>1, <2>2, <2>3, KeysApart
<1> QED
  BY <1>2, <1>3, <1>4, <1>5
\* A call of a cached task keeps the invariant.
LEMMA FullyCachedKeeps ==
    ASSUME CopyInv, NEW a \in Awaiters, NEW k \in Keys, fully_cached(a, k),
           a \in Keys => ~NeedsTask(a),
           UNCHANGED <<dest, skipped, failedOnce>>
    PROVE  CopyInv'
<1>1. Grows
  BY DEF Grows
<1>2. CopyShape /\ k \in Awaiters
  BY DEF CopyInv, Awaiters
<1>3. CopyShape'
  <2>1. CASE NeedsTask(k)
    BY <1>2, <2>1, FirstSteps DEF CopyShape, fully_cached
  <2>2. CASE ~NeedsTask(k)
    BY <1>2, <2>2 DEF CopyShape, fully_cached
  <2> QED
    BY <2>1, <2>2
<1>4. ASSUME NEW q \in Keys, q # k \/ ~NeedsTask(k)
      PROVE  /\ task'[q] = task[q] /\ (q \in hurt => q \in hurt')
             /\ \A h \in Https : h \in waits'[q] <=> h \in waits[q]
             /\ \A j \in Keys : j \in Pending(q) => j \in Pending(q)' \/ (j = k /\ task[k] = "ready")
  <2>1. q \in Awaiters /\ k \notin Https
    BY KeysApart DEF Awaiters
  <2>2. CASE NeedsTask(k)
    <3>1. task'[q] = task[q] /\ (q \in hurt => q \in hurt')
      BY <2>2, <1>4, <1>2 DEF CopyShape, fully_cached
    <3>2. waits'[q] = IF q = a THEN waits[q] \cup {k} ELSE waits[q]
      BY <2>1, <2>2, <1>4, <1>2 DEF CopyShape, fully_cached
    <3>3. todo'[q] = IF q = a THEN todo[q] \ {k} ELSE todo[q]
      BY <2>1, <2>2, <1>4, <1>2 DEF CopyShape, fully_cached
    <3> QED
      BY <3>1, <3>2, <3>3, <2>1 DEF Pending
  <2>3. CASE ~NeedsTask(k)
    <3>1. task'[q] = task[q] /\ (q \in hurt => q \in hurt')
      BY <2>3, <1>4, <1>2 DEF CopyShape, fully_cached
    <3>2. waits'[q] = IF q = a /\ task[k] # "ready" THEN waits[q] \cup {k} ELSE waits[q]
      BY <2>1, <2>3, <1>4, <1>2 DEF CopyShape, fully_cached
    <3>3. todo'[q] = IF q = a THEN todo[q] \ {k} ELSE todo[q]
      BY <2>1, <2>3, <1>4, <1>2 DEF CopyShape, fully_cached
    <3> QED
      BY <3>1, <3>2, <3>3, <2>1 DEF Pending
  <2> QED
    BY <2>2, <2>3
<1>5. ASSUME NeedsTask(k)
      PROVE  /\ task'[k] = FirstPhase(k) /\ waits'[k] = FirstHttps(k)
             /\ todo'[k] = FirstTodo(k)
  <2>1. k # a
    BY <1>5
  <2> QED
    BY <2>1, <1>5, <1>2 DEF CopyShape, fully_cached
<1>6. ASSUME NEW o \in Objects PROVE RequestsFit(o)' /\ ObjectOK(o)'
  <2>1. PICK q : q = <<"object", o>>
    OBVIOUS
  <2>2. q \in Keys /\ RequestsFit(o) /\ ObjectOK(o)
    BY <2>1, KeysApart DEF CopyInv
  <2>3. CASE q # k \/ ~NeedsTask(k)
    <3>1. ASSUME NEW r \in Refs[o], <<"object", r>> \in Pending(q)
          PROVE  <<"object", r>> \in Pending(q)' \/ r \in Complete'
      <4>1. r \in Objects /\ <<"object", r>> \in Keys
        BY InputsAreGraphs, KeysApart
      <4>2. task[<<"object", r>>] = "ready" => r \in Complete'
        BY <4>1, <1>1, CompleteStays DEF CopyInv, ObjectOK
      <4> QED
        BY <4>1, <4>2, <3>1, <1>4, <2>2, <2>3
    <3>2. /\ task'[q] = task[q] /\ (q \in hurt => q \in hurt')
          /\ \A h \in Https : h \in waits'[q] <=> h \in waits[q]
      BY <1>4, <2>2, <2>3
    <3> QED
      BY <3>1, <3>2, <2>1, <2>2, <1>1, ObjectKept
  <2>4. CASE q = k /\ NeedsTask(k)
    <3>1. task'[q] = "copying" /\ waits'[q] = {<<"post", o>>, <<"metadata", o>>}
      BY <2>1, <2>4, <1>5, FirstSteps
    <3> QED
      BY <3>1, <2>1 DEF RequestsFit, ObjectOK
  <2> QED
    BY <2>3, <2>4
<1>7. ASSUME NEW o \in Objects PROVE CalcOK(o)'
  <2>1. PICK q : q = <<"calc", o>>
    OBVIOUS
  <2>2. q \in Keys /\ CalcOK(o)
    BY <2>1, KeysApart DEF CopyInv
  <2>3. CASE q # k \/ ~NeedsTask(k)
    <3>1. ASSUME NEW r \in Objects, <<"calc", r>> \in Pending(q)
          PROVE  <<"calc", r>> \in Pending(q)' \/ r \in Copied'
      <4>1. <<"calc", r>> \in Keys
        BY KeysApart
      <4>2. task[<<"calc", r>>] = "ready" => r \in Copied'
        BY <4>1, <1>1, CompleteStays DEF CopyInv, CalcOK
      <4> QED
        BY <4>1, <4>2, <3>1, <1>4, <2>2, <2>3
    <3>2. <<"object", o>> \in Pending(q) => <<"object", o>> \in Pending(q)' \/ o \in Complete'
      <4>1. <<"object", o>> \in Keys
        BY KeysApart
      <4>2. task[<<"object", o>>] = "ready" => o \in Complete'
        BY <4>1, <1>1, CompleteStays DEF CopyInv, ObjectOK
      <4> QED
        BY <4>1, <4>2, <1>4, <2>2, <2>3
    <3>3. /\ task'[q] = task[q] /\ (q \in hurt => q \in hurt')
          /\ \A h \in Https : h \in waits'[q] <=> h \in waits[q]
      BY <1>4, <2>2, <2>3
    <3> QED
      BY <3>1, <3>2, <3>3, <2>1, <2>2, <1>1, CalcKept
  <2>4. CASE q = k /\ NeedsTask(k) /\ o \in Calcs
    <3>1. task'[q] = "resolving" /\ waits'[q] = {<<"at_destination", o>>}
      BY <2>1, <2>4, <1>5, FirstSteps
    <3> QED
      BY <3>1, <2>1, <2>4 DEF CalcOK
  <2>5. CASE q = k /\ NeedsTask(k) /\ o \notin Calcs
    <3>1. task'[q] = "calling" /\ waits'[q] = {} /\ todo'[q] = {<<"object", o>>}
      BY <2>1, <2>5, <1>5, FirstSteps
    <3> QED
      BY <3>1, <2>1, <2>5 DEF CalcOK, Pending
  <2> QED
    BY <2>3, <2>4, <2>5
<1> QED
  BY <1>3, <1>6, <1>7 DEF CopyInv

\* The end of a task keeps the invariant, if what was copied is complete.
LEMMA EndsKeeps ==
    ASSUME CopyInv, Grows, NEW k \in Keys, NEW out \in {"ready", "failed"}, Ends(k, out),
           \A o \in Objects : /\ k = <<"object", o>> /\ out = "ready" => o \in Complete'
                              /\ k = <<"calc", o>> /\ out = "ready" => o \in Copied'
    PROVE  CopyInv'
<1>1. CopyShape /\ k \in Awaiters /\ k \notin Https
  BY KeysApart DEF CopyInv, Awaiters
<1>2. CopyShape'
  BY <1>1 DEF CopyShape, Ends, Phases
<1>3. task'[k] = out /\ waits'[k] = {} /\ todo'[k] = {}
  BY <1>1 DEF CopyShape, Ends
<1>4. ASSUME NEW q \in Keys, q # k
      PROVE  /\ task'[q] = task[q] /\ (q \in hurt => q \in hurt')
             /\ \A h \in Https : h \in waits'[q] <=> h \in waits[q]
             /\ \A j \in Keys : j \in Pending(q) => j \in Pending(q)' \/ (j = k /\ k \in waits[q])
             /\ (k \in waits[q] /\ out = "failed" /\ Rethrows(q, k)) => q \in hurt'
  <2>1. q \in Awaiters
    BY DEF Awaiters
  <2>2. task'[q] = task[q] /\ (q \in hurt => q \in hurt')
    BY <1>4, <1>1 DEF CopyShape, Ends
  <2>3. waits'[q] = waits[q] \ {k} /\ todo'[q] = todo[q]
    BY <2>1, <1>4, <1>1 DEF CopyShape, Ends
  <2>4. (k \in waits[q] /\ out = "failed" /\ Rethrows(q, k)) => q \in hurt'
    BY <2>1 DEF Ends
  <2> QED
    BY <2>2, <2>3, <2>4, <1>1 DEF Pending
<1>5. ASSUME NEW o \in Objects PROVE RequestsFit(o)' /\ ObjectOK(o)'
  <2>1. PICK q : q = <<"object", o>>
    OBVIOUS
  <2>2. q \in Keys /\ RequestsFit(o) /\ ObjectOK(o)
    BY <2>1, KeysApart DEF CopyInv
  <2>3. CASE q # k
    <3>1. Rethrows(q, k)
      BY <2>1 DEF Rethrows
    <3>2. ASSUME NEW r \in Refs[o], <<"object", r>> \in Pending(q)
          PROVE  <<"object", r>> \in Pending(q)' \/ r \in Complete' \/ q \in hurt'
      <4>1. r \in Objects /\ <<"object", r>> \in Keys
        BY InputsAreGraphs, KeysApart
      <4> QED
        BY <4>1, <3>1, <3>2, <1>4, <2>2, <2>3
    <3>3. /\ task'[q] = task[q] /\ (q \in hurt => q \in hurt')
          /\ \A h \in Https : h \in waits'[q] <=> h \in waits[q]
      BY <1>4, <2>2, <2>3
    <3> QED
      BY <3>2, <3>3, <2>1, <2>2, ObjectKept
  <2>4. CASE q = k
    BY <2>1, <2>4, <1>3 DEF RequestsFit, ObjectOK
  <2> QED
    BY <2>3, <2>4
<1>6. ASSUME NEW o \in Objects PROVE CalcOK(o)'
  <2>1. PICK q : q = <<"calc", o>>
    OBVIOUS
  <2>2. q \in Keys /\ CalcOK(o)
    BY <2>1, KeysApart DEF CopyInv
  <2>3. CASE q # k
    <3>1. ASSUME NEW r \in Objects, <<"calc", r>> \in Pending(q)
          PROVE  <<"calc", r>> \in Pending(q)' \/ r \in Copied' \/ <<"calc", r>> \in failedOnce'
      <4>1. <<"calc", r>> \in Keys
        BY KeysApart
      <4>2. out = "failed" => k \in failedOnce'
        BY DEF Ends
      <4> QED
        BY <4>1, <4>2, <3>1, <1>4, <2>2, <2>3
    <3>2. <<"object", o>> \in Pending(q) =>
             <<"object", o>> \in Pending(q)' \/ o \in Complete' \/ q \in hurt'
      <4>1. <<"object", o>> \in Keys
        BY KeysApart
      <4>2. k = <<"object", o>> => Rethrows(q, k)
        BY <2>1 DEF Rethrows
      <4> QED
        BY <4>1, <4>2, <1>4, <2>2, <2>3
    <3>3. /\ task'[q] = task[q] /\ (q \in hurt => q \in hurt')
          /\ \A h \in Https : h \in waits'[q] <=> h \in waits[q]
      BY <1>4, <2>2, <2>3
    <3> QED
      BY <3>1, <3>2, <3>3, <2>1, <2>2, CalcKept
  <2>4. CASE q = k
    BY <2>1, <2>4, <1>3 DEF CalcOK
  <2> QED
    BY <2>3, <2>4
<1> QED
  BY <1>2, <1>5, <1>6 DEF CopyInv
\* A step of one object's task, which leaves all other tasks alone.
LEMMA ObjectStepKeeps ==
    ASSUME CopyInv, Grows, CopyShape', NEW o \in Objects, NEW k, k = <<"object", o>>,
           (hurt \cap CopyKeys) \ {k} \subseteq hurt',
           \A q \in CopyKeys \ {k} : /\ task'[q] = task[q] /\ todo'[q] = todo[q]
                                     /\ waits'[q] = waits[q],
           RequestsFit(o)', ObjectOK(o)'
    PROVE  CopyInv'
<1>1. k \in Keys /\ \A p \in Objects : <<"calc", p>> # k /\ (<<"object", p>> = k => p = o)
  BY KeysApart
<1>2. \A p \in Objects : /\ <<"object", p>> # k => RequestsFit(p)' /\ ObjectOK(p)'
                         /\ <<"calc", p>> # k => CalcOK(p)'
  BY <1>1, OthersKept
<1> QED
  BY <1>1, <1>2 DEF CopyInv

\* A step of one calculation's task, which leaves all other tasks alone.
LEMMA CalcStepKeeps ==
    ASSUME CopyInv, Grows, CopyShape', NEW o \in Objects, NEW k, k = <<"calc", o>>,
           (hurt \cap CopyKeys) \ {k} \subseteq hurt',
           \A q \in CopyKeys \ {k} : /\ task'[q] = task[q] /\ todo'[q] = todo[q]
                                     /\ waits'[q] = waits[q],
           CalcOK(o)'
    PROVE  CopyInv'
<1>1. k \in Keys /\ \A p \in Objects : <<"object", p>> # k /\ (<<"calc", p>> = k => p = o)
  BY KeysApart
<1>2. \A p \in Objects : /\ <<"object", p>> # k => RequestsFit(p)' /\ ObjectOK(p)'
                         /\ <<"calc", p>> # k => CalcOK(p)'
  BY <1>1, OthersKept
<1> QED
  BY <1>1, <1>2 DEF CopyInv

\* What an answered request changes.
LEMMA AnsweredChanges ==
    ASSUME CopyInv, NEW k \in Keys, NEW h, NEW p \in Phases, NEW more \in SUBSET Https,
           Answered(k, h, p, more)
    PROVE  /\ task' \in [Keys -> Phases]
           /\ waits' \in [Awaiters -> SUBSET (Keys \cup Https)]
           /\ task'[k] = p /\ waits'[k] = (waits[k] \ {h}) \cup more
           /\ \A q \in Keys \ {k} : task'[q] = task[q] /\ waits'[q] = waits[q]
           /\ h \in waits[k] /\ failedOnce' = failedOnce /\ skipped' = skipped
<1>1. CopyShape /\ k \in Awaiters /\ Keys \subseteq Awaiters
  BY DEF CopyInv, Awaiters
<1> QED
  BY <1>1 DEF CopyShape, Answered
\* A step that leaves the tasks that copy alone.
LEMMA NoCopyStepKeeps ==
    ASSUME CopyInv, Grows, CopyShape', hurt \cap CopyKeys \subseteq hurt',
           \A q \in CopyKeys : /\ task'[q] = task[q] /\ todo'[q] = todo[q]
                               /\ waits'[q] = waits[q]
    PROVE  CopyInv'
<1>1. PICK k : k \notin CopyKeys
  <2>1. <<"none", "none">> \notin CopyKeys
    BY DEF CopyKeys, ObjectKeys, CalcKeys
  <2> QED
    BY <2>1
<1>2. \A p \in Objects : <<"object", p>> \in CopyKeys /\ <<"calc", p>> \in CopyKeys
  BY DEF CopyKeys, ObjectKeys, CalcKeys
<1>3. \A p \in Objects : /\ <<"object", p>> # k => RequestsFit(p)' /\ ObjectOK(p)'
                         /\ <<"calc", p>> # k => CalcOK(p)'
  BY OthersKept
<1> QED
  BY <1>1, <1>2, <1>3 DEF CopyInv

-----------------------------------------------------------------------------
\* The actions

\* A task that fails.
LEMMA FailsKeeps ==
    ASSUME CopyInv, NEW k \in Keys, fails(k)
    PROVE  CopyInv'
<1>1. Grows
  BY DEF fails, Ends, Grows
<1>2. Ends(k, "failed")
  BY DEF fails
<1> QED
  BY <1>1, <1>2, EndsKeeps

\* The search of types for references leaves the copies alone.
LEMMA TypeStepsKeep ==
    ASSUME CopyInv, NEW k \in Keys,
           \/ \E p \in todo[k] : recurse(k, p)
           \/ type_contains_references(k)
    PROVE  CopyInv'
<1>0. CopyShape /\ k \in Awaiters
  BY DEF CopyInv, Awaiters
<1>1. ASSUME NEW p \in todo[k], recurse(k, p) PROVE CopyInv'
  <2>1. p \in Keys /\ ~NeedsTask(k) /\ k[1] = "type"
    BY <1>0, <1>1 DEF CopyShape, recurse, NeedsTask
  <2>2. CASE p[2] \in visited[scope[k]]
    <3>1. /\ UNCHANGED <<task, waits, hurt, dest, skipped, failedOnce>>
          /\ todo' = [todo EXCEPT ![k] = @ \ {p}]
      BY <1>1, <2>2 DEF recurse
    <3>2. k \notin CopyKeys
      BY <2>1 DEF CopyKeys, ObjectKeys, CalcKeys
    <3>3. CopyShape' /\ \A q \in CopyKeys : todo'[q] = todo[q]
      BY <3>1, <3>2, <1>0 DEF CopyShape
    <3> QED
      BY <3>1, <3>3, NoCopyStepKeeps DEF Grows
  <2>3. CASE p[2] \notin visited[scope[k]]
    BY <2>1, <2>3, <1>0, <1>1, FullyCachedKeeps DEF recurse
  <2> QED
    BY <2>2, <2>3
<1>2. ASSUME type_contains_references(k) PROVE CopyInv'
  <2>1. Ends(k, "ready") /\ k[1] = "type" /\ Grows
    BY <1>2 DEF type_contains_references, Ends, Grows
  <2>2. \A o : k # <<"object", o>> /\ k # <<"calc", o>>
    BY <2>1
  <2> QED
    BY <2>1, <2>2, EndsKeeps
<1> QED
  BY <1>1, <1>2

\* A visitor calls for one of the references.
LEMMA VisitKeeps ==
    ASSUME CopyInv, NEW k \in Keys, NEW r \in todo[k], visit(k, r)
    PROVE  CopyInv'
<1>1. r \in Keys /\ ~NeedsTask(k) /\ k \in Awaiters
  BY DEF CopyInv, CopyShape, visit, NeedsTask, Awaiters
<1> QED
  BY <1>1, FullyCachedKeeps DEF visit

\* The object is in the destination.
LEMMA ShallowCopyKeeps ==
    ASSUME CopyInv, NEW o \in Objects, shallowly_copy_iss_object(o)
    PROVE  CopyInv'
<1>1. PICK k : k = <<"object", o>>
  OBVIOUS
<1>2. k \in Keys /\ RequestsFit(o) /\ ObjectOK(o) /\ CopyShape
  BY <1>1, KeysApart DEF CopyInv
<1>3. /\ Answered(k, <<"post", o>>, "copying", {})
      /\ dest' = dest \cup {o} /\ UNCHANGED <<todo, hurt>>
  BY <1>1 DEF shallowly_copy_iss_object
<1>4. /\ task' \in [Keys -> Phases]
      /\ waits' \in [Awaiters -> SUBSET (Keys \cup Https)]
      /\ task'[k] = "copying" /\ waits'[k] = (waits[k] \ {<<"post", o>>}) \cup {}
      /\ \A q \in Keys \ {k} : task'[q] = task[q] /\ waits'[q] = waits[q]
      /\ <<"post", o>> \in waits[k] /\ failedOnce' = failedOnce /\ skipped' = skipped
  <2>1. "copying" \in Phases /\ {} \in SUBSET Https
    BY DEF Phases
  <2> QED
    BY <1>2, <1>3, <2>1, AnsweredChanges
<1>5. CopyShape' /\ Grows /\ CopyKeys \subseteq Keys
  BY <1>2, <1>3, <1>4 DEF CopyShape, Grows, CopyKeys, Keys
<1>6. task[k] = "copying"
  BY <1>1, <1>2, <1>4 DEF RequestsFit
<1>7. RequestsFit(o)' /\ ObjectOK(o)'
  BY <1>1, <1>2, <1>3, <1>4, <1>6 DEF RequestsFit, ObjectOK
<1> QED
  BY <1>1, <1>3, <1>4, <1>5, <1>7, ObjectStepKeeps

\* The answer about the metadata or the immutable.
LEMMA ResolveObjectKeeps ==
    ASSUME CopyInv, NEW o \in Objects, NEW what \in {"metadata", "immutable"},
           resolve_iss_object(o, what)
    PROVE  CopyInv'
<1>1. PICK k : k = <<"object", o>>
  OBVIOUS
<1>2. k \in Keys /\ RequestsFit(o) /\ ObjectOK(o) /\ CopyShape /\ task[k] \in Phases
  BY <1>1, KeysApart DEF CopyInv, CopyShape
<1>3. UNCHANGED <<todo, dest>>
  BY DEF resolve_iss_object
<1>4. ASSUME NEW p \in Phases, NEW more \in SUBSET Https, Answered(k, <<what, o>>, p, more),
             hurt \subseteq hurt', hurt' \subseteq Awaiters,
             \/ p = task[k] /\ more = {}
             \/ p = task[k] /\ more = {<<"status", o>>}
             \/ p = "retrieving" /\ more = {<<"retrieve", o>>} /\ what = "immutable"
      PROVE  CopyInv'
  <2>1. /\ task' \in [Keys -> Phases]
        /\ waits' \in [Awaiters -> SUBSET (Keys \cup Https)]
        /\ task'[k] = p /\ waits'[k] = (waits[k] \ {<<what, o>>}) \cup more
        /\ \A q \in Keys \ {k} : task'[q] = task[q] /\ waits'[q] = waits[q]
        /\ <<what, o>> \in waits[k] /\ failedOnce' = failedOnce /\ skipped' = skipped
    BY <1>2, <1>4, AnsweredChanges
  <2>2. CopyShape' /\ Grows /\ CopyKeys \subseteq Keys
    BY <1>2, <1>3, <1>4, <2>1 DEF CopyShape, Grows, CopyKeys, Keys
  <2>3. RequestsFit(o)'
    BY <1>1, <1>2, <1>4, <2>1 DEF RequestsFit
  <2>4. ObjectOK(o)'
    <3>1. Complete \subseteq Complete' /\ \A r : <<"object", r>> \in Pending(k) =>
                                             <<"object", r>> \in Pending(k)'
      BY <2>1, <2>2, <1>3, CompleteStays DEF Pending
    <3> QED
      BY <1>1, <1>2, <1>3, <1>4, <2>1, <3>1 DEF ObjectOK, RequestsFit
  <2> QED
    BY <1>1, <1>3, <1>4, <2>1, <2>2, <2>3, <2>4, ObjectStepKeeps
<1>5. /\ {} \in SUBSET Https /\ {<<"status", o>>} \in SUBSET Https
      /\ {<<"retrieve", o>>} \in SUBSET Https /\ hurt \subseteq Awaiters /\ k \in Awaiters
      /\ "retrieving" \in Phases /\ "copying" \in Phases
  BY <1>2 DEF Https, CopyShape, Awaiters, Phases
<1>6. CASE StatusOf(o) = 200 /\ what = "metadata" /\ Answered(k, <<what, o>>, "copying", {})
           /\ UNCHANGED hurt
  <2>1. task[k] = "copying"
    BY <1>1, <1>2, <1>6 DEF RequestsFit, Answered
  <2> QED
    BY <1>4, <1>5, <1>6, <2>1
<1>7. CASE what = "immutable" /\ Answered(k, <<what, o>>, "retrieving", {<<"retrieve", o>>})
           /\ UNCHANGED hurt
  BY <1>4, <1>5, <1>7
<1>8. CASE Answered(k, <<what, o>>, task[k], {<<"status", o>>}) /\ UNCHANGED hurt
  BY <1>2, <1>4, <1>5, <1>8
<1>9. CASE Answered(k, <<what, o>>, task[k], {}) /\ hurt' = hurt \cup {k}
  BY <1>2, <1>4, <1>5, <1>9
<1> QED
  BY <1>1, <1>6, <1>7, <1>8, <1>9 DEF resolve_iss_object
\* The long poll ends.
LEMMA LongPollKeeps ==
    ASSUME CopyInv, NEW o \in Calcs, long_poll_calculation_status(o)
    PROVE  CopyInv'
<1>0. o \in Objects
  BY InputsAreGraphs
<1>1. PICK k : k = <<"object", o>>
  OBVIOUS
<1>2. k \in Keys /\ RequestsFit(o) /\ ObjectOK(o) /\ CopyShape /\ task[k] \in Phases
  BY <1>0, <1>1, KeysApart DEF CopyInv, CopyShape
<1>3. PICK more : more = {<<IF task[k] = "copying" THEN "metadata" ELSE "immutable", o>>}
  OBVIOUS
<1>4. Answered(k, <<"status", o>>, task[k], more) /\ UNCHANGED <<todo, hurt, dest>>
  BY <1>1, <1>3 DEF long_poll_calculation_status
<1>5. /\ task' \in [Keys -> Phases]
      /\ waits' \in [Awaiters -> SUBSET (Keys \cup Https)]
      /\ task'[k] = task[k] /\ waits'[k] = (waits[k] \ {<<"status", o>>}) \cup more
      /\ \A q \in Keys \ {k} : task'[q] = task[q] /\ waits'[q] = waits[q]
      /\ <<"status", o>> \in waits[k] /\ failedOnce' = failedOnce /\ skipped' = skipped
  <2>1. more \in SUBSET Https
    BY <1>0, <1>3 DEF Https
  <2> QED
    BY <1>2, <1>4, <2>1, AnsweredChanges
<1>6. CopyShape' /\ Grows /\ CopyKeys \subseteq Keys
  BY <1>2, <1>4, <1>5 DEF CopyShape, Grows, CopyKeys, Keys
<1>7. RequestsFit(o)'
  BY <1>1, <1>2, <1>3, <1>5 DEF RequestsFit
<1>8. ObjectOK(o)'
  <2>1. Complete \subseteq Complete' /\ \A r : <<"object", r>> \in Pending(k) =>
                                           <<"object", r>> \in Pending(k)'
    BY <1>4, <1>5, <1>6, CompleteStays DEF Pending
  <2> QED
    BY <1>1, <1>2, <1>4, <1>5, <2>1 DEF ObjectOK, RequestsFit
<1> QED
  BY <1>0, <1>1, <1>4, <1>5, <1>6, <1>7, <1>8, ObjectStepKeeps

\* The type of the copied object is asked for.
LEMMA AskTypeKeeps ==
    ASSUME CopyInv, NEW o \in Objects, ask_type(o)
    PROVE  CopyInv'
<1>1. PICK k : k = <<"object", o>>
  OBVIOUS
<1>2. PICK t : t = <<"type", TypeOf[o]>>
  OBVIOUS
<1>3. /\ k \in Keys /\ t \in Keys /\ t # k /\ RequestsFit(o) /\ ObjectOK(o) /\ CopyShape
      /\ t \notin CopyKeys /\ CopyKeys \subseteq Keys /\ Keys \subseteq Awaiters
      /\ t \notin Https
  <2>1. TypeOf[o] \in Types
    BY InputsAreGraphs
  <2> QED
    BY <1>1, <1>2, <2>1, KeysApart DEF CopyInv, CopyKeys, ObjectKeys, CalcKeys, Keys, Awaiters
<1>4. /\ task[k] = "copying" /\ waits[k] = {} /\ k \notin hurt
      /\ UNCHANGED <<dest, failedOnce, skipped>>
      /\ NeedsTask(t) =>
            /\ task' = [task EXCEPT ![k] = "typing", ![t] = FirstPhase(t)]
            /\ todo' = [todo EXCEPT ![t] = FirstTodo(t)]
            /\ waits' = [waits EXCEPT ![k] = {t}, ![t] = {}]
            /\ hurt' = hurt \ {t}
      /\ ~NeedsTask(t) =>
            /\ task' = [task EXCEPT ![k] = "typing"]
            /\ waits' = [waits EXCEPT ![k] = {t} \ Ready]
            /\ UNCHANGED <<todo, hurt>>
  BY <1>1, <1>2 DEF ask_type
<1>5. CopyShape' /\ Grows
  <2>1. CASE NeedsTask(t)
    BY <2>1, <1>3, <1>4, FirstSteps DEF CopyShape, Grows, Phases
  <2>2. CASE ~NeedsTask(t)
    BY <2>2, <1>3, <1>4 DEF CopyShape, Grows, Phases
  <2> QED
    BY <2>1, <2>2
<1>6. /\ task'[k] = "typing" /\ waits'[k] \subseteq {t} /\ k \notin hurt'
      /\ hurt \cap CopyKeys \subseteq hurt'
      /\ \A q \in CopyKeys \ {k} : /\ task'[q] = task[q] /\ todo'[q] = todo[q]
                                   /\ waits'[q] = waits[q]
  <2>1. CASE NeedsTask(t)
    BY <2>1, <1>3, <1>4 DEF CopyShape
  <2>2. CASE ~NeedsTask(t)
    BY <2>2, <1>3, <1>4 DEF CopyShape
  <2> QED
    BY <2>1, <2>2
<1>7. RequestsFit(o)'
  <2>1. \A w \in {"post", "metadata", "status", "immutable", "retrieve"} :
           <<w, o>> \notin waits'[k]
    BY <1>2, <1>6
  <2> QED
    BY <1>1, <2>1 DEF RequestsFit
<1>8. ObjectOK(o)'
  BY <1>1, <1>3, <1>4, <1>6 DEF ObjectOK
<1> QED
  BY <1>1, <1>5, <1>6, <1>7, <1>8, ObjectStepKeeps

\* Without references the copy is complete; otherwise the object is retrieved.
LEMMA TypeKnownKeeps ==
    ASSUME CopyInv, NEW o \in Objects, type_known(o)
    PROVE  CopyInv'
<1>1. PICK k : k = <<"object", o>>
  OBVIOUS
<1>2. /\ k \in Keys /\ RequestsFit(o) /\ ObjectOK(o) /\ CopyShape
      /\ CopyKeys \subseteq Keys /\ Keys \subseteq Awaiters
  BY <1>1, KeysApart DEF CopyInv, CopyKeys, Keys, Awaiters
<1>3. task[k] = "typing" /\ waits[k] = {} /\ k \notin hurt /\ dest' = dest
  BY <1>1 DEF type_known
<1>4. CASE answer[<<"type", TypeOf[o]>>]
  <2>1. /\ task' = [task EXCEPT ![k] = "resolving"]
        /\ waits' = [waits EXCEPT ![k] = {<<"immutable", o>>}]
        /\ UNCHANGED <<todo, hurt, failedOnce, skipped, dest>>
    BY <1>1, <1>4 DEF type_known
  <2>2. <<"immutable", o>> \in Https
    BY DEF Https
  <2>3. CopyShape' /\ Grows
    BY <1>2, <2>1, <2>2 DEF CopyShape, Grows, Phases
  <2>4. /\ task'[k] = "resolving" /\ waits'[k] = {<<"immutable", o>>}
        /\ \A q \in CopyKeys \ {k} : /\ task'[q] = task[q] /\ todo'[q] = todo[q]
                                     /\ waits'[q] = waits[q]
    BY <1>2, <2>1 DEF CopyShape
  <2>5. RequestsFit(o)' /\ ObjectOK(o)'
    BY <1>1, <1>2, <1>3, <2>4 DEF RequestsFit, ObjectOK
  <2> QED
    BY <1>1, <2>1, <2>3, <2>4, <2>5, ObjectStepKeeps
<1>5. CASE ~answer[<<"type", TypeOf[o]>>]
  <2>1. Ends(k, "ready") /\ skipped' = skipped \cup {o} /\ Grows
    BY <1>1, <1>3, <1>5 DEF type_known, Grows, Ends
  <2>2. o \in dest'
    BY <1>1, <1>2, <1>3 DEF ObjectOK
  <2>3. Followed'[o] = {}
    BY <2>1 DEF Followed
  <2>4. o \in Complete'
    BY <2>2, <2>3, BecomesComplete
  <2>5. \A p \in Objects : (k = <<"object", p>> => p \in Complete') /\ k # <<"calc", p>>
    BY <1>1, <2>4
  <2> QED
    BY <1>2, <2>1, <2>5, EndsKeeps
<1> QED
  BY <1>4, <1>5

\* The references of the object are known.
LEMMA RetrieveKeeps ==
    ASSUME CopyInv, NEW o \in Objects, retrieve_immutable(o)
    PROVE  CopyInv'
<1>1. PICK k : k = <<"object", o>>
  OBVIOUS
<1>2. /\ k \in Keys /\ RequestsFit(o) /\ ObjectOK(o) /\ CopyShape
      /\ CopyKeys \subseteq Keys /\ Keys \subseteq Awaiters
  BY <1>1, KeysApart DEF CopyInv, CopyKeys, Keys, Awaiters
<1>3. /\ Answered(k, <<"retrieve", o>>, "calling", {})
      /\ todo' = [todo EXCEPT ![k] = {"object"} \X Refs[o]] /\ UNCHANGED <<hurt, dest>>
  BY <1>1 DEF retrieve_immutable
<1>4. /\ task' \in [Keys -> Phases]
      /\ waits' \in [Awaiters -> SUBSET (Keys \cup Https)]
      /\ task'[k] = "calling" /\ waits'[k] = (waits[k] \ {<<"retrieve", o>>}) \cup {}
      /\ \A q \in Keys \ {k} : task'[q] = task[q] /\ waits'[q] = waits[q]
      /\ <<"retrieve", o>> \in waits[k] /\ failedOnce' = failedOnce /\ skipped' = skipped
  <2>1. "calling" \in Phases /\ {} \in SUBSET Https
    BY DEF Phases
  <2> QED
    BY <1>2, <1>3, <2>1, AnsweredChanges
<1>5. /\ todo' \in [Awaiters -> SUBSET Keys] /\ todo'[k] = {"object"} \X Refs[o]
      /\ \A q \in CopyKeys \ {k} : todo'[q] = todo[q]
  <2>1. {"object"} \X Refs[o] \subseteq Keys
    BY InputsAreGraphs DEF Keys, ObjectKeys
  <2> QED
    BY <1>2, <1>3, <2>1 DEF CopyShape
<1>6. CopyShape' /\ Grows
  BY <1>2, <1>3, <1>4, <1>5 DEF CopyShape, Grows
<1>7. task[k] = "retrieving"
  BY <1>1, <1>2, <1>4 DEF RequestsFit
<1>8. RequestsFit(o)'
  BY <1>1, <1>2, <1>4, <1>7 DEF RequestsFit
<1>9. ObjectOK(o)'
  <2>1. \A r \in Refs[o] : <<"object", r>> \in Pending(k)'
    BY <1>5 DEF Pending
  <2>2. o \in dest'
    BY <1>1, <1>2, <1>3, <1>7 DEF ObjectOK
  <2> QED
    BY <1>1, <1>4, <2>1, <2>2 DEF ObjectOK
<1> QED
  BY <1>1, <1>2, <1>3, <1>4, <1>5, <1>6, <1>8, <1>9, ObjectStepKeeps

\* All references of an object have been visited.
LEMMA CopyObjectKeeps ==
    ASSUME CopyInv, NEW o \in Objects, deeply_copy_iss_object(o)
    PROVE  CopyInv'
<1>1. PICK k : k = <<"object", o>>
  OBVIOUS
<1>2. k \in Keys /\ ObjectOK(o)
  BY <1>1, KeysApart DEF CopyInv
<1>3. /\ task[k] = "calling" /\ todo[k] = {} /\ waits[k] = {} /\ k \notin hurt
      /\ Ends(k, "ready") /\ Grows /\ dest' = dest
  BY <1>1 DEF deeply_copy_iss_object, Grows, Ends
<1>4. o \in dest' /\ \A r \in Refs[o] : r \in Complete'
  BY <1>1, <1>2, <1>3, CompleteStays DEF ObjectOK, Pending
<1>5. o \in Complete'
  <2>1. Followed'[o] \subseteq Refs[o]
    BY InputsAreGraphs DEF Followed
  <2> QED
    BY <1>4, <2>1, BecomesComplete
<1>6. \A p \in Objects : (k = <<"object", p>> => p \in Complete') /\ k # <<"calc", p>>
  BY <1>1, <1>5
<1> QED
  BY <1>2, <1>3, <1>6, EndsKeeps

\* The request of a calculation is found in the destination or at the source.
LEMMA RetrieveRequestKeeps ==
    ASSUME CopyInv, NEW o \in Objects, NEW where \in {"at_destination", "at_source"},
           retrieve_calculation_request(o, where)
    PROVE  CopyInv'
<1>1. PICK k : k = <<"calc", o>>
  OBVIOUS
<1>2. /\ k \in Keys /\ CalcOK(o) /\ CopyShape
      /\ CopyKeys \subseteq Keys /\ Keys \subseteq Awaiters
  BY <1>1, KeysApart DEF CopyInv, CopyKeys, Keys, Awaiters
<1>3. UNCHANGED <<hurt, dest>>
  BY DEF retrieve_calculation_request
<1>4. <<where, o>> \in waits[k] /\ o \in Calcs
  BY <1>1, <1>2 DEF retrieve_calculation_request, Answered, CalcOK
<1>5. {"calc"} \X Args[o] \in SUBSET Keys
  BY <1>4, InputsAreGraphs DEF Keys, CalcKeys
<1>6. ASSUME NEW p \in Phases, NEW more \in SUBSET Https, Answered(k, <<where, o>>, p, more),
             \/ p = "resolving" /\ UNCHANGED todo
             \/ /\ p = "calling" \/ (p = "awaiting" /\ o \in dest)
                /\ todo' = [todo EXCEPT ![k] = {"calc"} \X Args[o]]
      PROVE  CopyInv'
  <2>1. /\ task' \in [Keys -> Phases]
        /\ waits' \in [Awaiters -> SUBSET (Keys \cup Https)]
        /\ task'[k] = p /\ waits'[k] = (waits[k] \ {<<where, o>>}) \cup more
        /\ \A q \in Keys \ {k} : task'[q] = task[q] /\ waits'[q] = waits[q]
        /\ <<where, o>> \in waits[k] /\ failedOnce' = failedOnce /\ skipped' = skipped
    BY <1>2, <1>6, AnsweredChanges
  <2>2. /\ todo' \in [Awaiters -> SUBSET Keys]
        /\ p # "resolving" => todo'[k] = {"calc"} \X Args[o]
        /\ \A q \in CopyKeys \ {k} : todo'[q] = todo[q]
    BY <1>2, <1>5, <1>6 DEF CopyShape
  <2>3. CopyShape' /\ Grows
    BY <1>2, <1>3, <2>1, <2>2 DEF CopyShape, Grows
  <2>4. p # "resolving" => \A a \in Args[o] : <<"calc", a>> \in Pending(k)'
    BY <2>2 DEF Pending
  <2>5. CalcOK(o)'
    BY <1>1, <1>3, <1>4, <1>6, <2>1, <2>4 DEF CalcOK
  <2> QED
    BY <1>1, <1>2, <1>3, <2>1, <2>2, <2>3, <2>5, CalcStepKeeps
<1>7. /\ "resolving" \in Phases /\ "awaiting" \in Phases /\ "calling" \in Phases
      /\ {} \in SUBSET Https /\ {<<"at_source", o>>} \in SUBSET Https
  BY DEF Phases, Https
<1>8. CASE /\ Answered(k, <<where, o>>, "resolving", {<<"at_source", o>>}) /\ UNCHANGED todo
  BY <1>6, <1>7, <1>8
<1>9. CASE /\ o \in dest /\ Answered(k, <<where, o>>, "awaiting", {})
           /\ todo' = [todo EXCEPT ![k] = {"calc"} \X Args[o]]
  BY <1>6, <1>7, <1>9
<1>10. CASE /\ Answered(k, <<where, o>>, "calling", {})
            /\ todo' = [todo EXCEPT ![k] = {"calc"} \X Args[o]]
  BY <1>6, <1>7, <1>10
<1> QED
  BY <1>1, <1>8, <1>9, <1>10 DEF retrieve_calculation_request

\* The calculation must be copied itself.
LEMMA CopyNeededKeeps ==
    ASSUME CopyInv, NEW o \in Objects, copy_needed(o)
    PROVE  CopyInv'
<1>1. PICK k : k = <<"calc", o>>
  OBVIOUS
<1>2. /\ k \in Keys /\ CalcOK(o) /\ CopyShape /\ <<"object", o>> \in Keys
      /\ CopyKeys \subseteq Keys /\ Keys \subseteq Awaiters
  BY <1>1, KeysApart DEF CopyInv, CopyKeys, Keys, Awaiters
<1>3. /\ o \in Calcs /\ task[k] = "calling" /\ todo[k] = {} /\ waits[k] = {} /\ k \notin hurt
      /\ task' = [task EXCEPT ![k] = "awaiting"]
      /\ todo' = [todo EXCEPT ![k] = {<<"object", o>>}]
      /\ UNCHANGED <<waits, hurt, dest, failedOnce, skipped>>
  BY <1>1 DEF copy_needed
<1>4. CopyShape' /\ Grows
  BY <1>2, <1>3 DEF CopyShape, Grows, Phases
<1>5. /\ task'[k] = "awaiting" /\ todo'[k] = {<<"object", o>>} /\ waits'[k] = {}
      /\ \A q \in CopyKeys \ {k} : /\ task'[q] = task[q] /\ todo'[q] = todo[q]
                                   /\ waits'[q] = waits[q]
  BY <1>2, <1>3 DEF CopyShape
<1>6. CalcOK(o)'
  <2>1. \A a \in Args[o] : a \in Copied' \/ <<"calc", a>> \in failedOnce'
    BY <1>1, <1>2, <1>3, <1>4, CompleteStays DEF CalcOK, Pending
  <2>2. <<"object", o>> \in Pending(k)'
    BY <1>5 DEF Pending
  <2> QED
    BY <1>1, <1>3, <1>5, <2>1, <2>2 DEF CalcOK
<1> QED
  BY <1>1, <1>3, <1>4, <1>5, <1>6, CalcStepKeeps

\* Everything the copy of a calculation awaited has ended.
LEMMA CopyCalcKeeps ==
    ASSUME CopyInv, NEW o \in Objects, deeply_copy_calculation(o)
    PROVE  CopyInv'
<1>1. PICK k : k = <<"calc", o>>
  OBVIOUS
<1>2. k \in Keys /\ CalcOK(o)
  BY <1>1, KeysApart DEF CopyInv
<1>3. /\ task[k] = (IF o \in Calcs THEN "awaiting" ELSE "calling")
      /\ todo[k] = {} /\ waits[k] = {} /\ k \notin hurt
      /\ Ends(k, "ready") /\ Grows /\ dest' = dest
  BY <1>1 DEF deeply_copy_calculation, Grows, Ends
<1>4. o \in Copied'
  <2>1. CASE o \in Calcs
    <3>1. o \in dest' /\ \A a \in Args[o] : a \in Copied' \/ <<"calc", a>> \in failedOnce'
      BY <1>1, <1>2, <1>3, <2>1, CompleteStays DEF CalcOK, Pending, Grows
    <3> QED
      BY <2>1, <3>1, CalcBecomesCopied
  <2>2. CASE o \notin Calcs
    <3>1. o \in Complete'
      BY <1>1, <1>2, <1>3, <2>2, CompleteStays DEF CalcOK, Pending
    <3> QED
      BY <2>2, <3>1, ObjectBecomesCopied
  <2> QED
    BY <2>1, <2>2
<1>5. \A p \in Objects : (k = <<"calc", p>> => p \in Copied') /\ k # <<"object", p>>
  BY <1>1, <1>4
<1> QED
  BY <1>2, <1>3, <1>5, EndsKeeps

\* A request fails.
LEMMA HttpFailsKeeps ==
    ASSUME CopyInv, NEW k \in Keys, NEW h \in Https, http_fails(k, h)
    PROVE  CopyInv'
<1>1. CopyShape /\ k \in Awaiters /\ CopyKeys \subseteq Awaiters /\ CopyKeys \subseteq Keys
  BY DEF CopyInv, Awaiters, CopyKeys, Keys
<1>2. /\ waits' = [waits EXCEPT ![k] = @ \ {h}] /\ hurt' = hurt \cup {k}
      /\ UNCHANGED <<task, todo, dest, failedOnce, skipped>>
  BY DEF http_fails
<1>3. CopyShape' /\ Grows /\ waits'[k] = waits[k] \ {h}
  BY <1>1, <1>2 DEF CopyShape, Grows
<1>4. \A q \in CopyKeys \ {k} : waits'[q] = waits[q]
  BY <1>1, <1>2 DEF CopyShape
<1>5. ASSUME NEW o \in Objects, k = <<"object", o>> PROVE CopyInv'
  <2>1. RequestsFit(o)' /\ ObjectOK(o)'
    <3>1. RequestsFit(o) /\ ObjectOK(o) /\ Complete \subseteq Complete'
      BY <1>3, CompleteStays DEF CopyInv
    <3> QED
      BY <1>2, <1>3, <1>5, <3>1 DEF RequestsFit, ObjectOK
  <2> QED
    BY <1>2, <1>3, <1>4, <1>5, <2>1, ObjectStepKeeps
<1>6. ASSUME NEW o \in Objects, k = <<"calc", o>> PROVE CopyInv'
  <2>1. CalcOK(o)'
    <3>1. CalcOK(o) /\ Complete \subseteq Complete' /\ Copied \subseteq Copied'
      BY <1>3, CompleteStays DEF CopyInv
    <3>2. \A j \in Keys : j \in Pending(k) => j \in Pending(k)'
      BY <1>2, <1>3, KeysApart DEF Pending
    <3>3. o \in Calcs => \A a \in Args[o] : <<"calc", a>> \in Keys
      BY InputsAreGraphs, KeysApart
    <3> QED
      BY <1>2, <1>3, <1>6, <3>1, <3>2, <3>3 DEF CalcOK
  <2> QED
    BY <1>2, <1>3, <1>4, <1>6, <2>1, CalcStepKeeps
<1>7. ASSUME NEW t \in Types, k = <<"type", t>> PROVE CopyInv'
  <2>1. k \notin CopyKeys
    BY <1>7 DEF CopyKeys, ObjectKeys, CalcKeys
  <2> QED
    BY <1>2, <1>3, <1>4, <2>1, NoCopyStepKeeps
<1> QED
  BY <1>5, <1>6, <1>7, KeysApart

\* The clients and Thinknode.
LEMMA SurroundingsKeep ==
    ASSUME CopyInv,
           \/ \E c \in Clients : ask(c) \/ reply(c)
           \/ \E o \in Calcs : calculation_finishes(o)
    PROVE  CopyInv'
<1>1. ASSUME NEW c \in Clients, ask(c) PROVE CopyInv'
  <2>1. Root[c] \in Keys /\ c \in Awaiters /\ c \notin Keys
    BY InputsAreGraphs DEF Keys, Awaiters
  <2> QED
    BY <2>1, <1>1, FullyCachedKeeps DEF ask
<1>2. ASSUME NEW c \in Clients, reply(c) PROVE CopyInv'
  <2>1. c \notin CopyKeys
    BY InputsAreGraphs DEF Keys, CopyKeys
  <2>2. hurt' = hurt \ {c} /\ UNCHANGED <<task, todo, waits, dest, failedOnce, skipped>>
    BY <1>2 DEF reply
  <2>3. CopyShape' /\ Grows
    BY <2>2 DEF CopyInv, CopyShape, Grows
  <2> QED
    BY <2>1, <2>2, <2>3, NoCopyStepKeeps
<1>3. ASSUME NEW o \in Calcs, calculation_finishes(o) PROVE CopyInv'
  <2>1. UNCHANGED <<task, todo, waits, hurt, dest, failedOnce, skipped>>
    BY <1>3 DEF calculation_finishes
  <2>2. CopyShape' /\ Grows
    BY <2>1 DEF CopyInv, CopyShape, Grows
  <2> QED
    BY <2>1, <2>2, NoCopyStepKeeps
<1> QED
  BY <1>1, <1>2, <1>3

\* A restart forgets the tasks and some of the answers.
LEMMA RestartKeeps ==
    ASSUME CopyInv, restart
    PROVE  CopyInv'
<1>1. /\ todo' = [a \in Awaiters |-> {}] /\ waits' = [a \in Awaiters |-> {}] /\ hurt' = {}
      /\ UNCHANGED <<dest, failedOnce, skipped>>
  BY DEF restart
<1>2. /\ task' \in [Keys -> Phases]
      /\ \A k \in Keys : task'[k] = "none" \/ (task'[k] = "ready" /\ task[k] = "ready")
  BY DEF restart, Ready, Phases
<1>3. CopyShape' /\ Grows
  BY <1>1, <1>2 DEF CopyShape, Grows
<1>4. \A k \in Keys : waits'[k] = {}
  BY <1>1 DEF Awaiters
<1>5. Complete \subseteq Complete' /\ Copied \subseteq Copied'
  BY <1>3, CompleteStays
<1>6. ASSUME NEW o \in Objects PROVE RequestsFit(o)' /\ ObjectOK(o)' /\ CalcOK(o)'
  <2>1. <<"object", o>> \in Keys /\ <<"calc", o>> \in Keys /\ ObjectOK(o) /\ CalcOK(o)
    BY KeysApart DEF CopyInv
  <2>2. RequestsFit(o)'
    BY <2>1, <1>4 DEF RequestsFit
  <2>3. ObjectOK(o)'
    BY <2>1, <1>2, <1>5 DEF ObjectOK
  <2>4. CalcOK(o)'
    BY <2>1, <1>2, <1>4, <1>5 DEF CalcOK
  <2> QED
    BY <2>2, <2>3, <2>4
<1> QED
  BY <1>3, <1>6 DEF CopyInv

\* A step that changes nothing.
LEMMA CopyStutterKeeps ==
    ASSUME CopyInv, UNCHANGED vars
    PROVE  CopyInv'
<1>1. UNCHANGED <<task, todo, waits, hurt, dest, failedOnce, skipped>>
  BY DEF vars, cached_vars, shared_vars
<1>2. CopyShape' /\ Grows
  BY <1>1 DEF CopyInv, CopyShape, Grows
<1> QED
  BY <1>1, <1>2, NoCopyStepKeeps

\* Nothing is copied at first.
LEMMA CopyInitially == Init => CopyInv
<1> SUFFICES ASSUME Init PROVE CopyInv
  OBVIOUS
<1>1. CopyShape
  BY DEF Init, CopyShape, Phases
<1>2. \A k \in Keys : task[k] = "none" /\ waits[k] = {}
  BY DEF Init, Awaiters
<1>3. ASSUME NEW o \in Objects PROVE RequestsFit(o) /\ ObjectOK(o) /\ CalcOK(o)
  <2>1. <<"object", o>> \in Keys /\ <<"calc", o>> \in Keys
    BY KeysApart
  <2> QED
    BY <2>1, <1>2 DEF RequestsFit, ObjectOK, CalcOK
<1> QED
  BY <1>1, <1>3 DEF CopyInv

\* Every step keeps the invariant.
LEMMA CopyStepKeeps == CopyInv /\ [Next]_vars => CopyInv'
<1> SUFFICES ASSUME CopyInv, [Next]_vars PROVE CopyInv'
  OBVIOUS
<1>1. ASSUME NEW k \in Keys, Steps(k) PROVE CopyInv'
  BY <1>1, FailsKeeps, TypeStepsKeep, VisitKeeps DEF Steps
<1>2. ASSUME NEW o \in Objects, CopySteps(o) PROVE CopyInv'
  BY <1>2, ShallowCopyKeeps, ResolveObjectKeeps, AskTypeKeeps, TypeKnownKeeps, RetrieveKeeps,
     CopyObjectKeeps, RetrieveRequestKeeps, CopyNeededKeeps, CopyCalcKeeps DEF CopySteps
<1>3. ASSUME NEW k \in Keys, NEW h \in waits[k] \cap Https, http_fails(k, h) PROVE CopyInv'
  BY <1>3, HttpFailsKeeps
<1> QED
  BY <1>1, <1>2, <1>3, LongPollKeeps, SurroundingsKeep, RestartKeeps, CopyStutterKeeps
     DEF Next, Progress

\* The invariant holds in every reachable state.
THEOREM CopyInvariant == Spec => []CopyInv
BY CopyInitially, CopyStepKeeps, PTL DEF Spec

\* An object that deeply_copy_iss_object reported as copied is in the
\* destination with everything the copy followed, through any number of failed
\* requests, retries and restarts.
THEOREM ReportedCopyIsComplete == Spec => []CopiedIsComplete
<1>1. CopyInv => CopiedIsComplete
  BY DEF CopyInv, ObjectOK, Complete, CopiedIsComplete
<1> QED
  BY <1>1, CopyInvariant, PTL

\* A calculation that deeply_copy_calculation reported as copied is in the
\* destination with all its inputs, unless a copy of one of those failed.
THEOREM ReportedCalcIsCopied == Spec => []CalcCopiedUnlessFailed
<1>1. CopyInv => CalcCopiedUnlessFailed
  <2> SUFFICES ASSUME CopyInv, NEW o \in Objects, task[<<"calc", o>>] = "ready",
                      ~\E f \in Inputs(o) :
                          {<<"calc", f>>, <<"object", f>>} \cap failedOnce # {},
                      NEW n \in Inputs(o)
               PROVE  n \in dest /\ (n \notin Calcs => Reached(Followed, {n}) \subseteq dest)
    BY DEF CalcCopiedUnlessFailed
  <2>1. o \in Copied
    BY DEF CopyInv, CalcOK
  <2>2. n \in dest /\ (n \notin Calcs => n \in Complete)
    BY <2>1 DEF Copied, CopiedWith
  <2> QED
    BY <2>2 DEF Complete
<1> QED
  BY <1>1, CopyInvariant, PTL

-----------------------------------------------------------------------------
\* Copies go on: the part of CopyEnds that needs no fairness

\* What an awaiter may await: the tasks its own one depends on, and its requests.
MayAwait(a) ==
    IF a \in Clients THEN {Root[a]}
    ELSE LET o == a[2]
         IN  CASE a[1] = "type"   -> {"type"} \X Parts[o]
               [] a[1] = "object" -> ({"post", "metadata", "immutable", "retrieve"} \X {o})
                                     \cup ({"status"} \X ({o} \cap Calcs))
                                     \cup {<<"type", TypeOf[o]>>} \cup ({"object"} \X Refs[o])
               [] a[1] = "calc"   -> ({"at_destination", "at_source"} \X ({o} \cap Calcs))
                                     \cup ({"calc"} \X Arguments[o]) \cup {<<"object", o>>}

\* Everybody awaits what it may, and only tasks that run.
AwaitsOK ==
    /\ \A a \in Awaiters : todo[a] \cup waits[a] \subseteq MayAwait(a)
    /\ \A a \in Awaiters : \A j \in waits[a] \cap Keys : Running(j)
    /\ \A k \in Keys : ~Running(k) => waits[k] = {}

\* The phases of a task.  It calls only where it visits references, it makes
\* requests only before, and when none is left it was answered or has failed.
PhasesOf(k) ==
    CASE k[1] = "type"   -> {"none", "calling", "ready", "failed"}
      [] k[1] = "object" -> Phases \ {"awaiting"}
      [] k[1] = "calc"   -> {"none", "calling", "ready", "failed"}
                            \cup (IF k[2] \in Calcs THEN {"resolving", "awaiting"} ELSE {})

PhaseOK(k) ==
    /\ task[k] \in PhasesOf(k)
    /\ todo[k] # {} => task[k] \in {"calling", "awaiting"}
    /\ k \notin TypeKeys => todo[k] \cap TypeKeys = {}
    /\ task[k] \in {"resolving", "retrieving"} =>
          /\ waits[k] # {} \/ k \in hurt
          /\ waits[k] \cap Keys = {} /\ \A g, h \in waits[k] : g = h
    /\ waits[k] \cap Https # {} => task[k] \in {"copying", "resolving", "retrieving"}

\* The types that the evaluation of object copy e examines.
Examined(e) == {p \in TypeKeys : Running(p) /\ scope[p] = e}

\* An evaluation: it is part of a copy that awaits the answer, it has the types
\* in its already_visited, and they await each other without a circle.
EvaluationOK(e) ==
    /\ \A p \in Examined(e) :
          /\ task[e] = "typing" /\ p[2] \in visited[e]
          /\ p \in waits[e] \/ \E q \in Examined(e) : p \in waits[q]
    /\ \A S \in SUBSET Examined(e) :
          S # {} => /\ \E p \in S : \A q \in S : p \notin waits[q]
                    /\ \E p \in S : waits[p] \cap S = {}

EvaluationsOK ==
    /\ scope = [p \in TypeKeys |-> scope[p]]
    /\ visited \in [ObjectKeys -> SUBSET Types]
    /\ \A p \in TypeKeys : Running(p) => scope[p] \in ObjectKeys
    /\ \A e \in ObjectKeys : EvaluationOK(e)

AwaitInv == AwaitsOK /\ \A k \in Keys : PhaseOK(k)

GoingInv == CopyInv /\ AwaitInv /\ EvaluationsOK

\* The task of k can go on: it calls the next task, it is told of a failure, it
\* has everything it awaited, or one of its requests is answered.
TaskReady(k) ==
    \/ task[k] \in {"calling", "awaiting"} /\ todo[k] # {}
    \/ Running(k) /\ todo[k] = {} /\ waits[k] = {}
       /\ (task[k] \in {"resolving", "retrieving"} => k \in hurt)
    \/ waits[k] \cap Https # {}

\* Types that await only each other.
InCircle(S) ==
    /\ S \subseteq TypeKeys /\ S # {}
    /\ \A k \in S : todo[k] = {} /\ waits[k] # {} /\ waits[k] \subseteq S

TypesInCircle ==
    \E S \in SUBSET TypeKeys : InCircle(S) /\ \E p, q \in S : scope[p] # scope[q]

\* While a client waits, its answer is there or some task can go on, unless
\* types that two copies examine await each other.
CopiesGoOn ==
    \A c \in Clients : client[c] = "waiting" =>
       waits[c] = {} \/ (\E k \in Keys : TaskReady(k)) \/ TypesInCircle

\* No circle leads through the graph: every set of its nodes has one from which
\* no edge leads back into the set.  Ids of objects and calculations are hashes
\* of what they stand for, so this is so for references and arguments; it is
\* not so for types, which may be recursive.
Acyclic(graph) ==
    \A S \in SUBSET DOMAIN graph : S # {} => \E x \in S : graph[x] \cap S = {}

\* The other types that a type is made of.
OtherParts == [t \in Types |-> Parts[t] \ {t}]
-----------------------------------------------------------------------------
\* Calling and awaiting

\* What each kind of task may await.
LEMMA MayAwaitOf ==
    /\ \A t \in Types : MayAwait(<<"type", t>>) = {"type"} \X Parts[t]
    /\ \A o \in Objects :
          MayAwait(<<"object", o>>) =
             ({"post", "metadata", "immutable", "retrieve"} \X {o})
             \cup ({"status"} \X ({o} \cap Calcs))
             \cup {<<"type", TypeOf[o]>>} \cup ({"object"} \X Refs[o])
    /\ \A o \in Objects :
          MayAwait(<<"calc", o>>) =
             ({"at_destination", "at_source"} \X ({o} \cap Calcs))
             \cup ({"calc"} \X Arguments[o]) \cup {<<"object", o>>}
    /\ \A c \in Clients : MayAwait(c) = {Root[c]}
<1>1. \A k \in Keys : k \notin Clients
  BY InputsAreGraphs
<1>2. ASSUME NEW t \in Types PROVE MayAwait(<<"type", t>>) = {"type"} \X Parts[t]
  <2>1. <<"type", t>> \notin Clients
    BY <1>1, KeysApart
  <2> QED
    BY <2>1 DEF MayAwait
<1>3. ASSUME NEW o \in Objects
      PROVE  MayAwait(<<"object", o>>) =
                ({"post", "metadata", "immutable", "retrieve"} \X {o})
                \cup ({"status"} \X ({o} \cap Calcs))
                \cup {<<"type", TypeOf[o]>>} \cup ({"object"} \X Refs[o])
  <2>1. <<"object", o>> \notin Clients
    BY <1>1, KeysApart
  <2> QED
    BY <2>1 DEF MayAwait
<1>4. ASSUME NEW o \in Objects
      PROVE  MayAwait(<<"calc", o>>) =
                ({"at_destination", "at_source"} \X ({o} \cap Calcs))
                \cup ({"calc"} \X Arguments[o]) \cup {<<"object", o>>}
  <2>1. <<"calc", o>> \notin Clients
    BY <1>1, KeysApart
  <2> QED
    BY <2>1 DEF MayAwait
<1>5. \A c \in Clients : MayAwait(c) = {Root[c]}
  BY DEF MayAwait
<1> QED
  BY <1>2, <1>3, <1>4, <1>5

\* The phases of each kind of task.
LEMMA PhasesOfKinds ==
    /\ \A t \in Types : PhasesOf(<<"type", t>>) = {"none", "calling", "ready", "failed"}
    /\ \A o \in Objects : PhasesOf(<<"object", o>>) = Phases \ {"awaiting"}
    /\ \A o \in Calcs : PhasesOf(<<"calc", o>>) =
                           {"none", "calling", "ready", "failed", "resolving", "awaiting"}
    /\ \A o \in Objects \ Calcs :
          PhasesOf(<<"calc", o>>) = {"none", "calling", "ready", "failed"}
    /\ \A k \in Keys : {"ready", "failed", "none"} \subseteq PhasesOf(k)
<1>1. \A t \in Types : PhasesOf(<<"type", t>>) = {"none", "calling", "ready", "failed"}
  BY DEF PhasesOf
<1>2. \A o \in Objects : PhasesOf(<<"object", o>>) = Phases \ {"awaiting"}
  BY DEF PhasesOf
<1>3. \A o \in Calcs : PhasesOf(<<"calc", o>>) =
                           {"none", "calling", "ready", "failed", "resolving", "awaiting"}
  BY DEF PhasesOf
<1>4. \A o \in Objects \ Calcs :
          PhasesOf(<<"calc", o>>) = {"none", "calling", "ready", "failed"}
  BY DEF PhasesOf
<1>5. \A k \in Keys : {"ready", "failed", "none"} \subseteq PhasesOf(k)
  BY <1>1, <1>2, <1>3, <1>4, KeysApart DEF Phases
<1> QED
  BY <1>1, <1>2, <1>3, <1>4, <1>5

\* A new task fits.
LEMMA FirstFits ==
    ASSUME NEW k \in Keys
    PROVE  /\ FirstTodo(k) \cup FirstHttps(k) \subseteq MayAwait(k)
           /\ FirstPhase(k) \in PhasesOf(k)
           /\ FirstPhase(k) \notin {"none", "ready", "failed", "typing", "retrieving"}
           /\ FirstTodo(k) # {} => FirstPhase(k) = "calling"
           /\ k \notin TypeKeys => FirstTodo(k) \cap TypeKeys = {}
           /\ FirstPhase(k) = "resolving" =>
                 FirstHttps(k) # {} /\ \A g, h \in FirstHttps(k) : g = h
           /\ FirstHttps(k) # {} => FirstPhase(k) \in {"copying", "resolving"}
           /\ FirstHttps(k) \cap Keys = {}
<1>0. FirstHttps(k) \cap Keys = {}
  BY FirstSteps, KeysApart
<1>1. ASSUME NEW t \in Types, k = <<"type", t>>
      PROVE  /\ FirstTodo(k) \subseteq MayAwait(k) /\ FirstHttps(k) = {}
             /\ FirstPhase(k) = "calling"
  BY <1>1, MayAwaitOf DEF FirstTodo, FirstHttps, FirstPhase
<1>2. ASSUME NEW o \in Objects, k = <<"object", o>>
      PROVE  /\ FirstTodo(k) = {} /\ FirstHttps(k) \subseteq MayAwait(k)
             /\ FirstPhase(k) = "copying"
  <2>1. FirstTodo(k) = {}
    BY <1>2 DEF FirstTodo
  <2> QED
    BY <2>1, <1>2, MayAwaitOf, FirstSteps
<1>3. ASSUME NEW o \in Calcs, k = <<"calc", o>>
      PROVE  /\ FirstTodo(k) = {} /\ FirstHttps(k) \subseteq MayAwait(k)
             /\ FirstPhase(k) = "resolving" /\ FirstHttps(k) = {<<"at_destination", o>>}
  <2>1. FirstTodo(k) = {} /\ o \in Objects
    BY <1>3, InputsAreGraphs DEF FirstTodo
  <2>2. FirstHttps(k) = {<<"at_destination", o>>} /\ FirstPhase(k) = "resolving"
    BY <1>3, FirstSteps
  <2>3. {"at_destination", "at_source"} \X ({o} \cap Calcs) \subseteq MayAwait(k)
    BY <2>1, <1>3, MayAwaitOf
  <2>4. <<"at_destination", o>> \in {"at_destination", "at_source"} \X ({o} \cap Calcs)
    BY <1>3
  <2> QED
    BY <2>1, <2>2, <2>3, <2>4
<1>4. ASSUME NEW o \in Objects \ Calcs, k = <<"calc", o>>
      PROVE  /\ FirstTodo(k) \subseteq MayAwait(k) /\ FirstHttps(k) = {}
             /\ FirstPhase(k) = "calling"
  BY <1>4, MayAwaitOf, FirstSteps
<1>5. CASE \E t \in Types : k = <<"type", t>>
  BY <1>0, <1>1, <1>5, PhasesOfKinds DEF TypeKeys
<1>6. CASE \E o \in Objects : k = <<"object", o>>
  BY <1>0, <1>2, <1>6, PhasesOfKinds DEF Phases
<1>7. CASE \E o \in Objects : k = <<"calc", o>>
  <2>1. \A o : <<"object", o>> \notin TypeKeys
    BY DEF TypeKeys
  <2>2. \A o \in Objects \ Calcs : FirstTodo(<<"calc", o>>) = {<<"object", o>>}
    BY FirstSteps
  <2>3. PICK o \in Objects : k = <<"calc", o>>
    BY <1>7
  <2>4. CASE o \in Calcs
    BY <2>3, <2>4, <1>0, <1>3, PhasesOfKinds
  <2>5. CASE o \notin Calcs
    BY <2>1, <2>2, <2>3, <2>5, <1>0, <1>4, PhasesOfKinds
  <2> QED
    BY <2>4, <2>5
<1> QED
  BY <1>5, <1>6, <1>7, KeysApart

\* What a step that changes only k, and k only so, leaves of the awaiting.
LEMMA AwaitsFrame ==
    ASSUME GoingInv, CopyShape', NEW k \in Keys, Running(k), Running(k)',
           \A q \in Keys \ {k} : task'[q] = task[q],
           \A a \in Awaiters \ {k} : todo'[a] = todo[a] /\ waits'[a] = waits[a],
           hurt \ {k} \subseteq hurt',
           todo'[k] \cup waits'[k] \subseteq MayAwait(k),
           \A j \in waits'[k] \cap Keys : Running(j)',
           PhaseOK(k)'
    PROVE  AwaitInv'
<1>1. AwaitsOK /\ \A q \in Keys : PhaseOK(q)
  BY DEF GoingInv, AwaitInv
<1>2. \A q \in Keys : Running(q)' <=> Running(q)
  BY DEF Running
<1>3. \A a \in Awaiters : todo'[a] \cup waits'[a] \subseteq MayAwait(a)
  BY <1>1 DEF AwaitsOK
<1>4. \A a \in Awaiters : \A j \in waits'[a] \cap Keys : Running(j)'
  BY <1>1, <1>2 DEF AwaitsOK
<1>5. \A q \in Keys : ~Running(q)' => waits'[q] = {}
  BY <1>1, <1>2 DEF AwaitsOK, Awaiters
<1>6. \A q \in Keys : PhaseOK(q)'
  <2> SUFFICES ASSUME NEW q \in Keys, q # k PROVE PhaseOK(q)'
    OBVIOUS
  <2>1. task'[q] = task[q] /\ todo'[q] = todo[q] /\ waits'[q] = waits[q] /\ (q \in hurt => q \in hurt')
    BY DEF Awaiters
  <2> QED
    BY <2>1, <1>1 DEF PhaseOK
<1> QED
  BY <1>3, <1>4, <1>5, <1>6 DEF AwaitsOK, AwaitInv

\* A call of a task that the caller may await.
LEMMA FullyCachedAwaits ==
    ASSUME GoingInv, CopyShape', NEW a \in Awaiters, NEW k \in Keys, k \in MayAwait(a),
           fully_cached(a, k), a \in Keys => task[a] \in {"calling", "awaiting"}
    PROVE  AwaitInv'
<1>1. AwaitsOK /\ (\A q \in Keys : PhaseOK(q)) /\ CopyShape
  BY DEF GoingInv, AwaitInv, CopyInv
<1>2. a \in Keys => Running(a)
  BY DEF Running
<1>3. CASE NeedsTask(k)
  <2>1. k \in Awaiters /\ a # k
    BY <1>3 DEF Awaiters, NeedsTask
  <2>2. /\ task'[k] = FirstPhase(k) /\ \A q \in Keys \ {k} : task'[q] = task[q]
        /\ todo'[k] = FirstTodo(k) /\ waits'[k] = FirstHttps(k)
        /\ todo'[a] = todo[a] \ {k} /\ waits'[a] = waits[a] \cup {k}
        /\ \A b \in Awaiters \ {a, k} : todo'[b] = todo[b] /\ waits'[b] = waits[b]
        /\ hurt' = hurt \ {k}
    BY <1>1, <1>3, <2>1 DEF fully_cached, CopyShape
  <2>3. /\ FirstTodo(k) \cup FirstHttps(k) \subseteq MayAwait(k)
        /\ FirstPhase(k) \in PhasesOf(k)
        /\ FirstPhase(k) \notin {"none", "ready", "failed"}
        /\ FirstTodo(k) # {} => FirstPhase(k) = "calling"
        /\ FirstPhase(k) = "resolving" =>
              FirstHttps(k) # {} /\ \A g, h \in FirstHttps(k) : g = h
        /\ FirstHttps(k) # {} => FirstPhase(k) \in {"copying", "resolving"}
        /\ k \notin TypeKeys => FirstTodo(k) \cap TypeKeys = {}
        /\ FirstPhase(k) # "retrieving"
        /\ FirstHttps(k) \cap Keys = {}
    BY FirstFits
  <2>4. Running(k)' /\ \A q \in Keys : Running(q) => Running(q)'
    BY <2>2, <2>3 DEF Running
  <2>5. \A b \in Awaiters : todo'[b] \cup waits'[b] \subseteq MayAwait(b)
    BY <1>1, <2>2, <2>3 DEF AwaitsOK
  <2>6. \A b \in Awaiters : \A j \in waits'[b] \cap Keys : Running(j)'
    BY <1>1, <2>2, <2>3, <2>4 DEF AwaitsOK
  <2>7. \A q \in Keys : ~Running(q)' => waits'[q] = {}
    BY <1>1, <1>2, <2>2, <2>4 DEF AwaitsOK, Awaiters
  <2>8. ASSUME NEW q \in Keys PROVE PhaseOK(q)'
    <3>1. CASE q = k
      BY <3>1, <2>2, <2>3 DEF PhaseOK
    <3>2. CASE q # k
      <4>1. /\ task'[q] = task[q] /\ todo'[q] \subseteq todo[q] /\ waits[q] \subseteq waits'[q]
            /\ (q \in hurt => q \in hurt')
            /\ task[q] \in {"resolving", "retrieving"} => waits'[q] = waits[q]
            /\ waits'[q] \cap Https = waits[q] \cap Https
        BY <3>2, <2>2, KeysApart DEF Awaiters
      <4> QED
        BY <4>1, <1>1 DEF PhaseOK
    <3> QED
      BY <3>1, <3>2
  <2> QED
    BY <2>5, <2>6, <2>7, <2>8 DEF AwaitsOK, AwaitInv
<1>4. CASE ~NeedsTask(k)
  <2>1. /\ task' = task /\ hurt' = hurt /\ todo'[a] = todo[a] \ {k}
        /\ \A b \in Awaiters \ {a} : todo'[b] = todo[b] /\ waits'[b] = waits[b]
        /\ \/ waits'[a] = waits[a]
           \/ Running(k) /\ waits'[a] = waits[a] \cup {k}
    BY <1>1, <1>4 DEF fully_cached, CopyShape, Running, NeedsTask
  <2>2. \A q \in Keys : Running(q)' <=> Running(q)
    BY <2>1 DEF Running
  <2>3. \A b \in Awaiters : todo'[b] \cup waits'[b] \subseteq MayAwait(b)
    BY <1>1, <2>1 DEF AwaitsOK
  <2>4. \A b \in Awaiters : \A j \in waits'[b] \cap Keys : Running(j)'
    BY <1>1, <2>1, <2>2 DEF AwaitsOK
  <2>5. \A q \in Keys : ~Running(q)' => waits'[q] = {}
    BY <1>1, <1>2, <2>1, <2>2 DEF AwaitsOK, Awaiters
  <2>6. ASSUME NEW q \in Keys PROVE PhaseOK(q)'
    <3>1. /\ task'[q] = task[q] /\ todo'[q] \subseteq todo[q] /\ waits[q] \subseteq waits'[q]
          /\ (q \in hurt => q \in hurt')
          /\ task[q] \in {"resolving", "retrieving"} => waits'[q] = waits[q]
          /\ waits'[q] \cap Https = waits[q] \cap Https
      BY <2>1, KeysApart DEF Awaiters
    <3> QED
      BY <3>1, <1>1 DEF PhaseOK
  <2> QED
    BY <2>3, <2>4, <2>5, <2>6 DEF AwaitsOK, AwaitInv
<1> QED
  BY <1>3, <1>4

\* A task that ends is awaited by nobody any more.
LEMMA EndsAwaits ==
    ASSUME GoingInv, NEW k \in Keys, NEW out \in {"ready", "failed"}, Ends(k, out), Running(k)
    PROVE  AwaitInv'
<1>1. AwaitsOK /\ (\A q \in Keys : PhaseOK(q)) /\ CopyShape /\ k \in Awaiters
  BY DEF GoingInv, AwaitInv, CopyInv, Awaiters
<1>2. /\ task'[k] = out /\ \A q \in Keys \ {k} : task'[q] = task[q]
      /\ todo'[k] = {} /\ waits'[k] = {}
      /\ \A b \in Awaiters \ {k} : todo'[b] = todo[b] /\ waits'[b] = waits[b] \ {k}
      /\ hurt \ {k} \subseteq hurt'
  BY <1>1 DEF Ends, CopyShape
<1>3. \A q \in Keys \ {k} : Running(q)' <=> Running(q)
  BY <1>2 DEF Running
<1>4. \A b \in Awaiters : todo'[b] \cup waits'[b] \subseteq MayAwait(b)
  BY <1>1, <1>2 DEF AwaitsOK
<1>5. \A b \in Awaiters : \A j \in waits'[b] \cap Keys : Running(j)'
  BY <1>1, <1>2, <1>3 DEF AwaitsOK
<1>6. \A q \in Keys : ~Running(q)' => waits'[q] = {}
  BY <1>1, <1>2, <1>3 DEF AwaitsOK, Awaiters
<1>7. ASSUME NEW q \in Keys PROVE PhaseOK(q)'
  <2>1. CASE q = k
    <3>1. {"ready", "failed"} \subseteq PhasesOf(q)
      BY PhasesOfKinds
    <3> QED
      BY <2>1, <3>1, <1>2 DEF PhaseOK
  <2>2. CASE q # k
    <3>1. task'[q] = task[q] /\ todo'[q] = todo[q] /\ waits'[q] = waits[q] \ {k}
          /\ (q \in hurt => q \in hurt')
      BY <2>2, <1>2 DEF Awaiters
    <3>2. task[q] \in {"resolving", "retrieving"} => waits[q] \cap Keys = {}
      BY <1>1 DEF PhaseOK
    <3>3. waits'[q] = {} /\ k \notin waits[q] => waits[q] = {}
      BY <3>1
    <3> QED
      BY <3>1, <3>2, <3>3, <1>1 DEF PhaseOK
  <2> QED
    BY <2>1, <2>2
<1> QED
  BY <1>4, <1>5, <1>6, <1>7 DEF AwaitsOK, AwaitInv

-----------------------------------------------------------------------------
\* The evaluations of types

\* Types are told apart from objects and calculations.
LEMMA TypesApart ==
    /\ TypeKeys \subseteq Keys /\ ObjectKeys \subseteq Keys /\ CalcKeys \subseteq Keys
    /\ Keys \subseteq Awaiters
    /\ TypeKeys \cap ObjectKeys = {} /\ TypeKeys \cap CalcKeys = {} /\ ObjectKeys \cap CalcKeys = {}
    /\ \A p \in TypeKeys : p[1] = "type" /\ p[2] \in Types /\ p = <<"type", p[2]>>
    /\ \A k \in Keys : k[1] = "type" => k \in TypeKeys
    /\ Clients \cap Keys = {}
BY InputsAreGraphs DEF TypeKeys, ObjectKeys, CalcKeys, Keys, Awaiters

\* A copy that awaits nothing has no evaluation.
LEMMA EvaluationOver ==
    ASSUME EvaluationsOK, NEW e \in ObjectKeys, task[e] # "typing" \/ waits[e] \cap TypeKeys = {}
    PROVE  Examined(e) = {}
<1> SUFFICES ASSUME Examined(e) # {} PROVE FALSE
  OBVIOUS
<1>1. EvaluationOK(e)
  BY DEF EvaluationsOK
<1>2. PICK p \in Examined(e) : \A q \in Examined(e) : p \notin waits[q]
  BY <1>1 DEF EvaluationOK
<1>3. task[e] = "typing" /\ p \in waits[e] /\ p \in TypeKeys
  BY <1>1, <1>2 DEF EvaluationOK, Examined
<1> QED
  BY <1>3

\* A step after which fewer types are examined, if each of them is still
\* awaited where it was.
LEMMA EvaluationShrinks ==
    ASSUME NEW e \in ObjectKeys, EvaluationOK(e), Examined(e)' \subseteq Examined(e),
           \A p \in Examined(e)' : waits'[p] \subseteq waits[p],
           Examined(e)' # {} => task'[e] = task[e] /\ visited'[e] = visited[e],
           \A p \in Examined(e)' : /\ p \in waits[e] => p \in waits'[e]
                                   /\ \A q \in Examined(e) : p \in waits[q] =>
                                         q \in Examined(e)' /\ p \in waits'[q]
    PROVE  EvaluationOK(e)'
<1>1. ASSUME NEW p \in Examined(e)'
      PROVE  /\ task'[e] = "typing" /\ p[2] \in visited'[e]
             /\ p \in waits'[e] \/ \E q \in Examined(e)' : p \in waits'[q]
  <2>1. /\ task[e] = "typing" /\ p[2] \in visited[e]
        /\ p \in waits[e] \/ \E q \in Examined(e) : p \in waits[q]
    BY <1>1 DEF EvaluationOK
  <2> QED
    BY <2>1, <1>1
<1>2. ASSUME NEW S \in SUBSET Examined(e)', S # {}
      PROVE  /\ \E p \in S : \A q \in S : p \notin waits'[q]
             /\ \E p \in S : waits'[p] \cap S = {}
  <2>1. /\ \E p \in S : \A q \in S : p \notin waits[q]
        /\ \E p \in S : waits[p] \cap S = {}
    BY <1>2 DEF EvaluationOK
  <2>2. \A p \in S : waits'[p] \subseteq waits[p]
    BY <1>2
  <2> QED
    BY <2>1, <2>2
<1> QED
  BY <1>1, <1>2 DEF EvaluationOK

\* A task that has everything it awaited ends.
LEMMA EndsEvaluations ==
    ASSUME GoingInv, NEW k \in Keys, NEW out \in {"ready", "failed"}, Ends(k, out), Running(k),
           waits[k] = {}, UNCHANGED <<scope, visited>>
    PROVE  EvaluationsOK'
<1>1. CopyShape /\ EvaluationsOK
  BY DEF GoingInv, CopyInv
<1>2. /\ task'[k] = out /\ \A q \in Keys \ {k} : task'[q] = task[q]
      /\ waits'[k] = {}
      /\ \A b \in Awaiters \ {k} : waits'[b] = waits[b] \ {k}
  BY <1>1, TypesApart DEF Ends, CopyShape
<1>3. ~Running(k)' /\ \A q \in Keys \ {k} : Running(q)' <=> Running(q)
  BY <1>2 DEF Running
<1>4. \A b \in Awaiters : waits'[b] = waits[b] \ {k}
  BY <1>2, TypesApart
<1>5. ASSUME NEW e \in ObjectKeys PROVE EvaluationOK(e)'
  <2>1. Examined(e)' = Examined(e) \ {k} /\ Examined(e) \subseteq TypeKeys
    BY <1>3, TypesApart DEF Examined
  <2>2. EvaluationOK(e) /\ e \in Keys /\ e \in Awaiters
    BY <1>1, TypesApart DEF EvaluationsOK
  <2>3. \A p \in Examined(e)' : waits'[p] \subseteq waits[p]
    BY <1>4, <2>1, TypesApart
  <2>4. e = k => Examined(e) = {}
    BY <1>1, EvaluationOver
  <2>5. Examined(e)' # {} => task'[e] = task[e] /\ visited'[e] = visited[e]
    BY <2>1, <2>2, <2>4, <1>2
  <2>6. ASSUME NEW p \in Examined(e)'
        PROVE  /\ p \in waits[e] => p \in waits'[e]
               /\ \A q \in Examined(e) : p \in waits[q] => q \in Examined(e)' /\ p \in waits'[q]
    BY <2>6, <2>1, <2>2, <1>4, TypesApart
  <2> QED
    BY <2>1, <2>2, <2>3, <2>5, <2>6, EvaluationShrinks
<1>6. \A p \in TypeKeys : Running(p)' => scope'[p] \in ObjectKeys
  BY <1>1, <1>3, TypesApart DEF EvaluationsOK
<1> QED
  BY <1>1, <1>5, <1>6 DEF EvaluationsOK

\* An evaluation that a step leaves alone.
LEMMA EvaluationLeft ==
    ASSUME NEW e \in ObjectKeys, EvaluationOK(e), Examined(e)' = Examined(e),
           \A p \in Examined(e) : waits'[p] = waits[p],
           Examined(e) # {} => task'[e] = task[e] /\ visited[e] \subseteq visited'[e]
                               /\ waits[e] \subseteq waits'[e]
    PROVE  EvaluationOK(e)'
<1>1. ASSUME NEW p \in Examined(e)
      PROVE  /\ task'[e] = "typing" /\ p[2] \in visited'[e]
             /\ p \in waits'[e] \/ \E q \in Examined(e) : p \in waits'[q]
  BY <1>1 DEF EvaluationOK
<1>2. ASSUME NEW S \in SUBSET Examined(e), S # {}
      PROVE  /\ \E p \in S : \A q \in S : p \notin waits'[q]
             /\ \E p \in S : waits'[p] \cap S = {}
  <2>1. /\ \E p \in S : \A q \in S : p \notin waits[q]
        /\ \E p \in S : waits[p] \cap S = {}
    BY <1>2 DEF EvaluationOK
  <2>2. \A p \in S : waits'[p] = waits[p]
    OBVIOUS
  <2> QED
    BY <2>1, <2>2
<1> QED
  BY <1>1, <1>2 DEF EvaluationOK

\* A step that leaves the types and their evaluations alone.
LEMMA EvaluationsFrame ==
    ASSUME EvaluationsOK, UNCHANGED <<scope, visited>>,
           \A p \in TypeKeys : task'[p] = task[p] /\ waits'[p] = waits[p],
           \A e \in ObjectKeys : Examined(e) # {} =>
              task'[e] = task[e] /\ waits[e] \subseteq waits'[e]
    PROVE  EvaluationsOK'
<1>1. \A p \in TypeKeys : Running(p)' <=> Running(p)
  BY DEF Running
<1>2. \A e : Examined(e)' = Examined(e)
  BY <1>1 DEF Examined
<1>3. ASSUME NEW e \in ObjectKeys PROVE EvaluationOK(e)'
  <2>1. EvaluationOK(e) /\ Examined(e) \subseteq TypeKeys
    BY DEF EvaluationsOK, Examined
  <2> QED
    BY <1>2, <2>1, EvaluationLeft
<1> QED
  BY <1>1, <1>3 DEF EvaluationsOK

\* A type calls for a part that its evaluation has not seen.
LEMMA RecurseEvaluations ==
    ASSUME GoingInv, NEW k \in Keys, NEW p \in todo[k], recurse(k, p),
           p[2] \notin visited[scope[k]]
    PROVE  EvaluationsOK'
<1>0. PICK e : e = scope[k]
  OBVIOUS
<1>1. CopyShape /\ EvaluationsOK /\ AwaitsOK
  BY DEF GoingInv, CopyInv, AwaitInv
<1>2. k \in TypeKeys /\ k \in Awaiters /\ task[k] = "calling" /\ Running(k)
  BY TypesApart DEF recurse, Running
<1>3. p \in TypeKeys
  <2>1. p \in MayAwait(k) /\ k = <<"type", k[2]>> /\ k[2] \in Types
    BY <1>1, <1>2, TypesApart DEF AwaitsOK
  <2>2. MayAwait(k) = {"type"} \X Parts[k[2]]
    BY <2>1, MayAwaitOf
  <2> QED
    BY <2>1, <2>2, InputsAreGraphs DEF TypeKeys
<1>4. e \in ObjectKeys /\ k \in Examined(e) /\ e \in Awaiters /\ e \in Keys /\ e \notin TypeKeys
  BY <1>0, <1>1, <1>2, TypesApart DEF EvaluationsOK, Examined
<1>5. p \notin Examined(e) /\ p # k
  BY <1>0, <1>1, <1>2, <1>4 DEF EvaluationsOK, EvaluationOK
<1>6. visited' = [visited EXCEPT ![e] = @ \cup {p[2]}] /\ fully_cached(k, p)
      /\ scope' = IF NeedsTask(p) THEN [scope EXCEPT ![p] = e] ELSE scope
  BY <1>0 DEF recurse
<1>7. /\ visited'[e] = visited[e] \cup {p[2]} /\ \A f \in ObjectKeys \ {e} : visited'[f] = visited[f]
      /\ visited' \in [ObjectKeys -> SUBSET Types]
  BY <1>1, <1>3, <1>4, <1>6, TypesApart DEF EvaluationsOK
<1>8. CASE NeedsTask(p)
  <2>1. /\ task'[p] = FirstPhase(p) /\ \A q \in Keys \ {p} : task'[q] = task[q]
        /\ waits'[p] = FirstHttps(p) /\ waits'[k] = waits[k] \cup {p}
        /\ \A b \in Awaiters \ {k, p} : waits'[b] = waits[b]
    BY <1>1, <1>2, <1>3, <1>5, <1>6, <1>8, TypesApart DEF fully_cached, CopyShape
  <2>2. FirstPhase(p) = "calling" /\ FirstHttps(p) = {}
    BY <1>3, TypesApart DEF FirstPhase, FirstHttps
  <2>3. scope'[p] = e /\ (\A q \in TypeKeys \ {p} : scope'[q] = scope[q])
        /\ scope' = [q \in TypeKeys |-> scope'[q]]
    BY <1>1, <1>3, <1>6, <1>8 DEF EvaluationsOK
  <2>4. ~Running(p) /\ Running(p)' /\ \A q \in Keys \ {p} : Running(q)' <=> Running(q)
    BY <2>1, <2>2, <1>8 DEF Running, NeedsTask
  <2>5. Examined(e)' = Examined(e) \cup {p}
    BY <2>3, <2>4, <1>3, TypesApart DEF Examined
  <2>6. ASSUME NEW f \in ObjectKeys, f # e PROVE EvaluationOK(f)'
    <3>1. Examined(f)' = Examined(f) /\ p \notin Examined(f) /\ k \notin Examined(f)
      BY <2>3, <2>4, <2>6, <1>0, <1>3, TypesApart DEF Examined
    <3>2. \A q \in Examined(f) : waits'[q] = waits[q]
      BY <3>1, <2>1, TypesApart DEF Examined
    <3>3. task'[f] = task[f] /\ visited'[f] = visited[f] /\ waits'[f] = waits[f]
      BY <2>1, <2>6, <1>2, <1>3, <1>7, TypesApart
    <3> QED
      BY <3>1, <3>2, <3>3, <1>1, EvaluationLeft DEF EvaluationsOK
  <2>7. EvaluationOK(e)'
    <3>1. EvaluationOK(e) /\ waits'[e] = waits[e] /\ task'[e] = task[e]
      BY <2>1, <1>1, <1>2, <1>3, <1>4 DEF EvaluationsOK
    <3>2. \A q \in Examined(e) : waits[q] \subseteq waits'[q] /\ waits'[q] \subseteq waits[q] \cup {p}
      BY <2>1, <1>5, TypesApart DEF Examined
    <3>3. ASSUME NEW q \in Examined(e)'
          PROVE  /\ task'[e] = "typing" /\ q[2] \in visited'[e]
                 /\ q \in waits'[e] \/ \E r \in Examined(e)' : q \in waits'[r]
      <4>1. CASE q = p
        BY <4>1, <3>1, <2>1, <2>5, <1>4, <1>7 DEF EvaluationOK
      <4>2. CASE q \in Examined(e)
        BY <4>2, <3>1, <3>2, <2>5, <1>7 DEF EvaluationOK
      <4> QED
        BY <3>3, <4>1, <4>2, <2>5
    <3>4. ASSUME NEW S \in SUBSET Examined(e)', S # {}
          PROVE  /\ \E q \in S : \A r \in S : q \notin waits'[r]
                 /\ \E q \in S : waits'[q] \cap S = {}
      <4>1. CASE S \subseteq Examined(e)
        <5>1. /\ \E q \in S : \A r \in S : q \notin waits[r]
              /\ \E q \in S : waits[q] \cap S = {}
          BY <4>1, <3>1, <3>4 DEF EvaluationOK
        <5>2. \A q \in S : waits'[q] \cap S = waits[q] \cap S /\ q # p
          BY <4>1, <3>2, <1>5
        <5> QED
          BY <5>1, <5>2
      <4>2. CASE p \in S
        <5>1. \E q \in S : waits'[q] \cap S = {}
          BY <4>2, <2>1, <2>2
        <5>2. CASE S = {p}
          BY <5>1, <5>2, <2>1, <2>2
        <5>3. CASE S # {p}
          <6>1. S \ {p} \in SUBSET Examined(e) /\ S \ {p} # {}
            BY <5>3, <4>2, <3>4, <2>5
          <6>2. PICK q \in S \ {p} : \A r \in S \ {p} : q \notin waits[r]
            BY <6>1, <3>1 DEF EvaluationOK
          <6>3. \A r \in S : q \notin waits'[r]
            BY <6>1, <6>2, <3>2, <2>1, <2>2
          <6> QED
            BY <5>1, <6>2, <6>3
        <5> QED
          BY <5>2, <5>3
      <4> QED
        BY <3>4, <4>1, <4>2, <2>5
    <3> QED
      BY <3>3, <3>4 DEF EvaluationOK
  <2>8. \A q \in TypeKeys : Running(q)' => scope'[q] \in ObjectKeys
    BY <2>3, <2>4, <1>1, <1>4, TypesApart DEF EvaluationsOK
  <2> QED
    BY <2>3, <2>6, <2>7, <2>8, <1>7 DEF EvaluationsOK
<1>9. CASE ~NeedsTask(p)
  <2>1. /\ task' = task /\ scope' = scope
        /\ \A b \in Awaiters \ {k} : waits'[b] = waits[b]
        /\ waits'[k] = waits[k] \/ waits'[k] = waits[k] \cup {p}
    BY <1>1, <1>2, <1>6, <1>9 DEF fully_cached, CopyShape
  <2>2. (\A q \in TypeKeys : Running(q)' <=> Running(q)) /\ \A f : Examined(f)' = Examined(f)
    BY <2>1 DEF Running, Examined
  <2>3. ASSUME NEW f \in ObjectKeys, f # e PROVE EvaluationOK(f)'
    <3>1. k \notin Examined(f)
      BY <2>3, <1>0 DEF Examined
    <3>2. \A q \in Examined(f) : waits'[q] = waits[q]
      BY <3>1, <2>1, TypesApart DEF Examined
    <3>3. task'[f] = task[f] /\ visited'[f] = visited[f] /\ waits'[f] = waits[f]
      BY <2>1, <2>3, <1>2, <1>7, TypesApart
    <3> QED
      BY <2>2, <3>2, <3>3, <1>1, EvaluationLeft DEF EvaluationsOK
  <2>4. EvaluationOK(e)'
    <3>1. EvaluationOK(e) /\ waits'[e] = waits[e] /\ task'[e] = task[e]
      BY <2>1, <1>1, <1>2, <1>4 DEF EvaluationsOK
    <3>2. \A q \in Examined(e) : waits[q] \subseteq waits'[q] /\ waits'[q] \subseteq waits[q] \cup {p}
      BY <2>1, TypesApart DEF Examined
    <3>3. \A q \in Examined(e) :
             /\ task'[e] = "typing" /\ q[2] \in visited'[e]
             /\ q \in waits'[e] \/ \E r \in Examined(e) : q \in waits'[r]
      BY <3>1, <3>2, <1>7 DEF EvaluationOK
    <3>4. ASSUME NEW S \in SUBSET Examined(e), S # {}
          PROVE  /\ \E q \in S : \A r \in S : q \notin waits'[r]
                 /\ \E q \in S : waits'[q] \cap S = {}
      <4>1. /\ \E q \in S : \A r \in S : q \notin waits[r]
            /\ \E q \in S : waits[q] \cap S = {}
        BY <3>1, <3>4 DEF EvaluationOK
      <4>2. \A q \in S : waits'[q] \cap S = waits[q] \cap S /\ q # p
        BY <3>2, <1>5
      <4> QED
        BY <4>1, <4>2
    <3> QED
      BY <2>2, <3>3, <3>4 DEF EvaluationOK
  <2> QED
    BY <2>1, <2>2, <2>3, <2>4, <1>1, <1>7 DEF EvaluationsOK
<1> QED
  BY <1>8, <1>9

\* A copy asks for its type and begins an evaluation.
LEMMA AskTypeEvaluations ==
    ASSUME GoingInv, NEW o \in Objects, ask_type(o)
    PROVE  EvaluationsOK'
<1> DEFINE k == <<"object", o>>
           t == <<"type", TypeOf[o]>>
<1>1. CopyShape /\ EvaluationsOK
  BY DEF GoingInv, CopyInv
<1>2. k \in ObjectKeys /\ k \in Keys /\ k \in Awaiters /\ t \in TypeKeys /\ t \in Keys
      /\ t \in Awaiters /\ k # t /\ t[2] = TypeOf[o] /\ TypeOf[o] \in Types
  BY TypesApart, InputsAreGraphs DEF ObjectKeys, TypeKeys
<1>3. task[k] = "copying" /\ visited' = [visited EXCEPT ![k] = {TypeOf[o]}]
  BY DEF ask_type
<1>4. Examined(k) = {}
  BY <1>1, <1>2, <1>3, EvaluationOver
<1>5. /\ visited'[k] = {TypeOf[o]} /\ \A f \in ObjectKeys \ {k} : visited'[f] = visited[f]
      /\ visited' \in [ObjectKeys -> SUBSET Types]
  BY <1>1, <1>2, <1>3 DEF EvaluationsOK
<1>6. CASE NeedsTask(t)
  <2>1. /\ task'[k] = "typing" /\ task'[t] = FirstPhase(t)
        /\ \A q \in Keys \ {k, t} : task'[q] = task[q]
        /\ waits'[k] = {t} /\ waits'[t] = {}
        /\ \A b \in Awaiters \ {k, t} : waits'[b] = waits[b]
    BY <1>1, <1>2, <1>6 DEF ask_type, CopyShape
  <2>2. scope'[t] = k /\ (\A q \in TypeKeys \ {t} : scope'[q] = scope[q])
        /\ scope' = [q \in TypeKeys |-> scope'[q]]
    BY <1>1, <1>2, <1>6 DEF ask_type, EvaluationsOK
  <2>3. FirstPhase(t) = "calling"
    BY DEF FirstPhase
  <2>4. ~Running(t) /\ Running(t)' /\ \A q \in TypeKeys \ {t} : Running(q)' <=> Running(q)
    BY <2>1, <2>3, <1>2, <1>6, TypesApart DEF Running, NeedsTask
  <2>5. Examined(k)' = {t}
    BY <2>2, <2>4, <1>2, <1>4 DEF Examined
  <2>6. ASSUME NEW f \in ObjectKeys, f # k PROVE EvaluationOK(f)'
    <3>1. Examined(f)' = Examined(f) /\ t \notin Examined(f)
      BY <2>2, <2>4, <2>6, <1>2 DEF Examined
    <3>2. \A q \in Examined(f) : waits'[q] = waits[q]
      BY <3>1, <2>1, <1>2, TypesApart DEF Examined
    <3>3. task'[f] = task[f] /\ visited'[f] = visited[f] /\ waits'[f] = waits[f]
      BY <2>1, <2>6, <1>2, <1>5, TypesApart
    <3> QED
      BY <3>1, <3>2, <3>3, <1>1, EvaluationLeft DEF EvaluationsOK
  <2>7. EvaluationOK(k)'
    <3>1. \A p \in {t} : /\ task'[k] = "typing" /\ p[2] \in visited'[k]
                         /\ p \in waits'[k] \/ \E q \in {t} : p \in waits'[q]
      BY <2>1, <1>2, <1>5
    <3>2. \A S \in SUBSET {t} : S # {} => /\ \E p \in S : \A q \in S : p \notin waits'[q]
                                          /\ \E p \in S : waits'[p] \cap S = {}
      BY <2>1
    <3> QED
      BY <3>1, <3>2, <2>5 DEF EvaluationOK
  <2>8. \A q \in TypeKeys : Running(q)' => scope'[q] \in ObjectKeys
    BY <2>2, <2>4, <1>1, <1>2 DEF EvaluationsOK
  <2> QED
    BY <2>2, <2>6, <2>7, <2>8, <1>5 DEF EvaluationsOK
<1>7. CASE ~NeedsTask(t)
  <2>1. /\ \A q \in Keys \ {k} : task'[q] = task[q]
        /\ \A b \in Awaiters \ {k} : waits'[b] = waits[b]
        /\ scope' = scope
    BY <1>1, <1>2, <1>7 DEF ask_type, CopyShape
  <2>2. \A q \in TypeKeys : q \in Keys /\ q # k /\ (Running(q)' <=> Running(q))
    BY <2>1, <1>2, TypesApart DEF Running
  <2>3. \A f : Examined(f)' = Examined(f)
    BY <2>1, <2>2 DEF Examined
  <2>4. ASSUME NEW f \in ObjectKeys PROVE EvaluationOK(f)'
    <3>1. \A q \in Examined(f) : waits'[q] = waits[q]
      BY <2>1, <2>2, TypesApart DEF Examined
    <3>2. f # k => task'[f] = task[f] /\ visited'[f] = visited[f] /\ waits'[f] = waits[f]
      BY <2>1, <1>5, TypesApart
    <3> QED
      BY <2>3, <3>1, <3>2, <1>1, <1>4, EvaluationLeft DEF EvaluationsOK
  <2> QED
    BY <2>1, <2>2, <2>4, <1>1, <1>5 DEF EvaluationsOK
<1> QED
  BY <1>6, <1>7

-----------------------------------------------------------------------------
\* The actions and the awaiting

\* A step that leaves the tasks alone.
LEMMA TasksLeft ==
    ASSUME GoingInv, CopyInv', UNCHANGED <<task, todo, waits, scope, visited>>,
           hurt \cap Keys \subseteq hurt'
    PROVE  GoingInv'
<1>1. AwaitsOK /\ (\A q \in Keys : PhaseOK(q)) /\ EvaluationsOK
  BY DEF GoingInv, AwaitInv
<1>2. AwaitsOK'
  BY <1>1 DEF AwaitsOK, Running
<1>3. \A q \in Keys : PhaseOK(q)'
  BY <1>1 DEF PhaseOK
<1>4. EvaluationsOK'
  BY <1>1, EvaluationsFrame
<1> QED
  BY <1>2, <1>3, <1>4 DEF GoingInv, AwaitInv

\* A task that has everything it awaited ends.
LEMMA EndsGoes ==
    ASSUME GoingInv, CopyInv', NEW k \in Keys, NEW out \in {"ready", "failed"}, Ends(k, out),
           Running(k), waits[k] = {}, UNCHANGED <<scope, visited>>
    PROVE  GoingInv'
BY EndsAwaits, EndsEvaluations DEF GoingInv

\* The steps that end a task.
LEMMA EndingsGo ==
    ASSUME GoingInv, CopyInv'
    PROVE  /\ \A k \in Keys : fails(k) \/ type_contains_references(k) => GoingInv'
           /\ \A o \in Objects : deeply_copy_iss_object(o) \/ deeply_copy_calculation(o) => GoingInv'
<1>1. ASSUME NEW k \in Keys, fails(k) PROVE GoingInv'
  BY <1>1, EndsGoes DEF fails
<1>2. ASSUME NEW k \in Keys, type_contains_references(k) PROVE GoingInv'
  BY <1>2, EndsGoes DEF type_contains_references, Running
<1>3. ASSUME NEW o \in Objects, deeply_copy_iss_object(o) PROVE GoingInv'
  BY <1>3, EndsGoes, KeysApart DEF deeply_copy_iss_object, Running
<1>4. ASSUME NEW o \in Objects, deeply_copy_calculation(o) PROVE GoingInv'
  BY <1>4, EndsGoes, KeysApart DEF deeply_copy_calculation, Running
<1> QED
  BY <1>1, <1>2, <1>3, <1>4

\* A type calls for a part.
LEMMA RecurseGoes ==
    ASSUME GoingInv, CopyInv', NEW k \in Keys, NEW p \in todo[k], recurse(k, p)
    PROVE  GoingInv'
<1>1. CopyShape /\ CopyShape' /\ AwaitsOK /\ PhaseOK(k) /\ EvaluationsOK /\ k \in Awaiters
  BY TypesApart DEF GoingInv, CopyInv, AwaitInv
<1>2. p \in Keys /\ p \in MayAwait(k) /\ task[k] = "calling" /\ k \in TypeKeys
  BY <1>1, TypesApart DEF CopyShape, AwaitsOK, recurse
<1>3. CASE p[2] \in visited[scope[k]]
  <2>1. /\ UNCHANGED <<task, waits, hurt, scope, visited>>
        /\ todo'[k] = todo[k] \ {p} /\ \A a \in Awaiters \ {k} : todo'[a] = todo[a]
    BY <1>1, <1>3 DEF recurse, CopyShape
  <2>2. Running(k) /\ Running(k)' /\ PhaseOK(k)'
    BY <2>1, <1>1, <1>2 DEF Running, PhaseOK
  <2>3. \A j \in waits'[k] \cap Keys : Running(j)'
    BY <2>1, <1>1 DEF AwaitsOK, Running
  <2>4. todo'[k] \cup waits'[k] \subseteq MayAwait(k)
    BY <2>1, <1>1 DEF AwaitsOK
  <2>5. AwaitInv'
    BY <2>1, <2>2, <2>3, <2>4, <1>1, AwaitsFrame
  <2>6. EvaluationsOK'
    BY <2>1, <1>1, EvaluationsFrame
  <2> QED
    BY <2>5, <2>6 DEF GoingInv
<1>4. CASE p[2] \notin visited[scope[k]]
  <2>1. fully_cached(k, p)
    BY <1>4 DEF recurse
  <2>2. AwaitInv'
    BY <2>1, <1>1, <1>2, FullyCachedAwaits
  <2> QED
    BY <2>2, <1>4, RecurseEvaluations DEF GoingInv
<1> QED
  BY <1>3, <1>4

\* A client or a task calls for a copy.
LEMMA CallGoes ==
    ASSUME GoingInv, CopyInv', NEW a \in Awaiters \ TypeKeys, NEW r \in Keys \ TypeKeys,
           r \in MayAwait(a), fully_cached(a, r),
           a \in Keys => task[a] \in {"calling", "awaiting"}, UNCHANGED <<scope, visited>>
    PROVE  GoingInv'
<1>1. CopyShape /\ CopyShape' /\ AwaitsOK /\ EvaluationsOK /\ r \in Awaiters
  BY TypesApart DEF GoingInv, CopyInv, AwaitInv
<1>2. AwaitInv'
  BY <1>1, FullyCachedAwaits
<1>3. /\ \A q \in Keys : task'[q] = task[q] \/ (q = r /\ NeedsTask(r))
      /\ \A q \in Keys \ {r} : waits[q] \subseteq waits'[q]
      /\ ~NeedsTask(r) => waits[r] \subseteq waits'[r]
      /\ \A p \in TypeKeys : task'[p] = task[p] /\ waits'[p] = waits[p]
  BY <1>1, TypesApart DEF fully_cached, CopyShape
<1>4. \A e \in ObjectKeys : Examined(e) # {} =>
         task'[e] = task[e] /\ waits[e] \subseteq waits'[e]
  <2> TAKE e \in ObjectKeys
  <2>1. Examined(e) = {} \/ task[e] = "typing"
    BY <1>1, EvaluationOver
  <2> QED
    BY <2>1, <1>3, TypesApart DEF NeedsTask
<1>5. EvaluationsOK'
  BY <1>1, <1>3, <1>4, EvaluationsFrame
<1> QED
  BY <1>2, <1>5 DEF GoingInv

\* The calls of visitors and clients.
LEMMA CallsGo ==
    ASSUME GoingInv, CopyInv'
    PROVE  /\ \A k \in Keys : \A r \in todo[k] : visit(k, r) => GoingInv'
           /\ \A c \in Clients : ask(c) => GoingInv'
<1>1. ASSUME NEW k \in Keys, NEW r \in todo[k], visit(k, r) PROVE GoingInv'
  <2>1. k \in Awaiters \ TypeKeys /\ task[k] \in {"calling", "awaiting"}
    BY <1>1, TypesApart DEF visit
  <2>2. r \in Keys /\ r \in MayAwait(k)
    BY <2>1, <1>1 DEF GoingInv, AwaitInv, AwaitsOK, CopyInv, CopyShape
  <2>3. r \notin TypeKeys
    BY <2>1, <1>1 DEF GoingInv, AwaitInv, PhaseOK
  <2> QED
    BY <2>1, <2>2, <2>3, <1>1, CallGoes DEF visit
<1>2. ASSUME NEW c \in Clients, ask(c) PROVE GoingInv'
  <2>1. c \in Awaiters \ TypeKeys /\ c \notin Keys
    BY TypesApart DEF Awaiters
  <2>2. Root[c] \in Keys \ TypeKeys /\ Root[c] \in MayAwait(c)
    BY MayAwaitOf, TypesApart, InputsAreGraphs
  <2> QED
    BY <2>1, <2>2, <1>2, CallGoes DEF ask
<1> QED
  BY <1>1, <1>2

\* A request of k's task is answered, and the task goes on.
LEMMA AnsweredGoes ==
    ASSUME GoingInv, CopyInv', NEW k \in Keys \ TypeKeys, NEW h \in Https, NEW p \in PhasesOf(k),
           NEW more \in SUBSET (Https \cap MayAwait(k)), Answered(k, h, p, more),
           NEW asked \in SUBSET (Keys \cap MayAwait(k)), asked \cap TypeKeys = {},
           \/ UNCHANGED todo
           \/ todo' = [todo EXCEPT ![k] = asked] /\ p \in {"calling", "awaiting"},
           hurt \subseteq hurt', \A g, i \in more : g = i,
           p \in {"copying", "resolving", "retrieving", "calling", "awaiting"},
           p = "copying" => task[k] = "copying",
           p # "copying" => task[k] \in {"resolving", "retrieving"},
           p \in {"resolving", "retrieving"} => more # {} \/ k \in hurt',
           p \in {"calling", "awaiting"} => more = {}
    PROVE  GoingInv'
<1>1. CopyShape /\ CopyShape' /\ AwaitsOK /\ PhaseOK(k) /\ EvaluationsOK /\ k \in Awaiters
  BY TypesApart DEF GoingInv, CopyInv, AwaitInv
<1>2. /\ h \in waits[k] /\ waits'[k] = (waits[k] \ {h}) \cup more /\ task'[k] = p
      /\ \A q \in Keys \ {k} : task'[q] = task[q]
      /\ \A a \in Awaiters \ {k} : waits'[a] = waits[a]
      /\ UNCHANGED <<scope, visited>>
  BY <1>1 DEF Answered, CopyShape
<1>3. /\ todo'[k] = todo[k] \/ (todo'[k] = asked /\ p \in {"calling", "awaiting"})
      /\ \A a \in Awaiters \ {k} : todo'[a] = todo[a]
  BY <1>1 DEF CopyShape
<1>4. Running(k) /\ Running(k)'
  BY <1>2 DEF Running
<1>5. todo[k] = {}
  BY <1>1 DEF PhaseOK
<1>6. \A q \in Keys : Running(q)' <=> Running(q)
  BY <1>2, <1>4 DEF Running
<1>7. todo'[k] \cup waits'[k] \subseteq MayAwait(k)
  BY <1>1, <1>2, <1>3 DEF AwaitsOK
<1>8. \A j \in waits'[k] \cap Keys : Running(j)'
  BY <1>1, <1>2, <1>6, KeysApart DEF AwaitsOK
<1>9. PhaseOK(k)'
  <2>1. CASE p = "copying"
    BY <2>1, <1>2, <1>3, <1>5 DEF PhaseOK
  <2>2. CASE p \in {"resolving", "retrieving"}
    <3>1. waits[k] \cap Keys = {} /\ waits[k] = {h}
      BY <2>2, <1>1, <1>2 DEF PhaseOK
    <3>2. waits'[k] = more
      BY <3>1, <1>2
    <3> QED
      BY <2>2, <3>2, <1>2, <1>3, <1>5, KeysApart DEF PhaseOK
  <2>3. CASE p \in {"calling", "awaiting"}
    <3>1. waits[k] \cap Keys = {} /\ waits[k] = {h}
      BY <2>3, <1>1, <1>2 DEF PhaseOK
    <3>2. waits'[k] = {}
      BY <2>3, <3>1, <1>2
    <3> QED
      BY <2>3, <3>2, <1>2, <1>3, <1>5 DEF PhaseOK
  <2> QED
    BY <2>1, <2>2, <2>3
<1>10. AwaitInv'
  BY <1>1, <1>2, <1>3, <1>4, <1>7, <1>8, <1>9, AwaitsFrame
<1>11. \A e \in ObjectKeys : Examined(e) # {} =>
         task'[e] = task[e] /\ waits[e] \subseteq waits'[e]
  <2> TAKE e \in ObjectKeys
  <2>1. Examined(e) = {} \/ task[e] = "typing"
    BY <1>1, EvaluationOver
  <2> QED
    BY <2>1, <1>2, TypesApart
<1>12. EvaluationsOK'
  BY <1>1, <1>2, <1>11, TypesApart, EvaluationsFrame
<1> QED
  BY <1>10, <1>12 DEF GoingInv

\* The task makes another request, or has lost one, in a phase of requests.
LEMMA RequestGoes ==
    ASSUME GoingInv, CopyInv', NEW k \in Keys \ TypeKeys, NEW h \in Https, NEW g \in Https, g \in MayAwait(k),
           NEW p \in PhasesOf(k), UNCHANGED todo, hurt \subseteq hurt',
           \/ p = "copying" /\ task[k] = "copying"
           \/ p \in {"resolving", "retrieving"} /\ task[k] \in {"resolving", "retrieving"},
           \/ Answered(k, h, p, {g})
           \/ Answered(k, h, p, {}) /\ (k \in hurt' \/ p = "copying")
    PROVE  GoingInv'
<1>1. PICK none : none = {}
  OBVIOUS
<1>2. none \in SUBSET (Keys \cap MayAwait(k)) /\ none \cap TypeKeys = {}
  BY <1>1
<1>3. ASSUME NEW more \in {{g}, {}}, Answered(k, h, p, more), more # {} \/ k \in hurt' \/ p = "copying"
      PROVE  GoingInv'
  <2>1. more \in SUBSET (Https \cap MayAwait(k)) /\ \A x, y \in more : x = y
    BY <1>3
  <2>2. /\ p \in {"copying", "resolving", "retrieving", "calling", "awaiting"}
        /\ p = "copying" => task[k] = "copying"
        /\ p # "copying" => task[k] \in {"resolving", "retrieving"}
        /\ p \in {"resolving", "retrieving"} => more # {} \/ k \in hurt'
        /\ p \in {"calling", "awaiting"} => more = {}
    BY <1>3
  <2> QED
    BY <2>1, <2>2, <1>2, <1>3, AnsweredGoes
<1> QED
  BY <1>3

\* The requests of copies of objects.
LEMMA ObjectRequestsGo ==
    ASSUME GoingInv, CopyInv', NEW o \in Objects
    PROVE  /\ shallowly_copy_iss_object(o) => GoingInv'
           /\ \A what \in {"metadata", "immutable"} : resolve_iss_object(o, what) => GoingInv'
           /\ retrieve_immutable(o) => GoingInv'
           /\ o \in Calcs /\ long_poll_calculation_status(o) => GoingInv'
<1> DEFINE k == <<"object", o>>
<1>1. k \in Keys \ TypeKeys /\ PhasesOf(k) = Phases \ {"awaiting"}
  BY KeysApart, PhasesOfKinds DEF TypeKeys
<1>2. /\ {"post", "metadata", "immutable", "retrieve"} \X {o} \subseteq Https \cap MayAwait(k)
      /\ o \in Calcs => <<"status", o>> \in Https \cap MayAwait(k)
      /\ <<"status", o>> \in Https
      /\ {"object"} \X Refs[o] \subseteq Keys \cap MayAwait(k)
      /\ ({"object"} \X Refs[o]) \cap TypeKeys = {}
  <2>1. MayAwait(k) = ({"post", "metadata", "immutable", "retrieve"} \X {o})
                      \cup ({"status"} \X ({o} \cap Calcs))
                      \cup {<<"type", TypeOf[o]>>} \cup ({"object"} \X Refs[o])
    BY MayAwaitOf
  <2>2. {"post", "metadata", "immutable", "retrieve"} \X {o} \subseteq Https /\ <<"status", o>> \in Https
    BY DEF Https
  <2>3. o \in Calcs => <<"status", o>> \in {"status"} \X ({o} \cap Calcs)
    OBVIOUS
  <2>4. {"object"} \X Refs[o] \subseteq Keys /\ ({"object"} \X Refs[o]) \cap TypeKeys = {}
    BY InputsAreGraphs DEF Keys, ObjectKeys, TypeKeys
  <2> QED
    BY <2>1, <2>2, <2>3, <2>4
<1>3. RequestsFit(o) /\ PhaseOK(k)
  BY <1>1 DEF GoingInv, CopyInv, AwaitInv
<1>4. /\ \A x \in {"post", "metadata", "immutable", "retrieve"} :
            <<x, o>> \in Https /\ <<x, o>> \in MayAwait(k)
      /\ o \in Calcs => <<"status", o>> \in Https /\ <<"status", o>> \in MayAwait(k)
      /\ {} \in SUBSET (Https \cap MayAwait(k)) /\ {} \in SUBSET (Keys \cap MayAwait(k))
      /\ {"copying", "resolving", "retrieving", "calling"} \subseteq PhasesOf(k)
  <2>1. \A x \in {"post", "metadata", "immutable", "retrieve"} :
           <<x, o>> \in {"post", "metadata", "immutable", "retrieve"} \X {o}
    OBVIOUS
  <2> QED
    BY <2>1, <1>1, <1>2 DEF Phases
<1>5. ASSUME shallowly_copy_iss_object(o) PROVE GoingInv'
  <2>1. /\ Answered(k, <<"post", o>>, "copying", {}) /\ UNCHANGED <<todo, hurt>>
        /\ task[k] = "copying"
    BY <1>5, <1>3 DEF shallowly_copy_iss_object, RequestsFit, Answered
  <2> QED
    BY <2>1, <1>1, <1>4, RequestGoes
<1>6. ASSUME NEW what \in {"metadata", "immutable"}, resolve_iss_object(o, what) PROVE GoingInv'
  <2>1. <<what, o>> \in waits[k] /\ UNCHANGED todo
    BY <1>6 DEF resolve_iss_object, Answered
  <2>2. task[k] = (IF what = "metadata" THEN "copying" ELSE "resolving")
    BY <2>1, <1>3 DEF RequestsFit
  <2>3. CASE StatusOf(o) = 200 /\ what = "metadata"
    <3>1. Answered(k, <<what, o>>, "copying", {}) /\ UNCHANGED hurt
      BY <2>3, <1>6 DEF resolve_iss_object
    <3>2. PICK h \in Https : h = <<what, o>> /\ h \in MayAwait(k)
      BY <1>4
    <3>3. /\ Answered(k, h, "copying", {}) /\ hurt \subseteq hurt' /\ task[k] = "copying"
          /\ "copying" \in PhasesOf(k)
      BY <3>1, <3>2, <2>2, <2>3, <1>4
    <3> QED
      BY <3>2, <3>3, <2>1, <1>1, RequestGoes
  <2>4. CASE StatusOf(o) = 200 /\ what = "immutable"
    <3>1. Answered(k, <<what, o>>, "retrieving", {<<"retrieve", o>>}) /\ UNCHANGED hurt
      BY <2>4, <1>6 DEF resolve_iss_object
    <3> QED
      BY <3>1, <2>1, <2>2, <2>4, <1>1, <1>4, RequestGoes
  <2>5. CASE StatusOf(o) = 202
    <3>1. Answered(k, <<what, o>>, task[k], {<<"status", o>>}) /\ UNCHANGED hurt
      BY <2>5, <1>6 DEF resolve_iss_object
    <3>2. o \in Calcs
      BY <2>5 DEF StatusOf
    <3> QED
      BY <3>1, <3>2, <2>1, <2>2, <1>1, <1>4, RequestGoes
  <2>6. CASE StatusOf(o) = 204
    <3>1. Answered(k, <<what, o>>, task[k], {}) /\ hurt' = hurt \cup {k}
      BY <2>6, <1>6 DEF resolve_iss_object
    <3> QED
      BY <3>1, <2>1, <2>2, <1>1, <1>4, RequestGoes
  <2> QED
    BY <1>6, <2>3, <2>4, <2>5, <2>6 DEF resolve_iss_object
<1>7. ASSUME retrieve_immutable(o) PROVE GoingInv'
  <2>1. /\ Answered(k, <<"retrieve", o>>, "calling", {}) /\ UNCHANGED hurt
        /\ todo' = [todo EXCEPT ![k] = {"object"} \X Refs[o]]
        /\ task[k] = "retrieving"
    BY <1>7, <1>3 DEF retrieve_immutable, RequestsFit, Answered
  <2> QED
    BY <2>1, <1>1, <1>2, <1>4, AnsweredGoes
<1>8. ASSUME o \in Calcs, long_poll_calculation_status(o) PROVE GoingInv'
  <2>1. <<"status", o>> \in waits[k] /\ UNCHANGED <<todo, hurt>>
    BY <1>8 DEF long_poll_calculation_status, Answered
  <2>2. task[k] \in {"copying", "resolving"}
    BY <2>1, <1>3 DEF RequestsFit
  <2>3. CASE task[k] = "copying"
    <3>1. Answered(k, <<"status", o>>, "copying", {<<"metadata", o>>})
      BY <2>3, <1>8 DEF long_poll_calculation_status
    <3> QED
      BY <3>1, <2>1, <2>3, <1>1, <1>2, <1>4, RequestGoes
  <2>4. CASE task[k] = "resolving"
    <3>1. Answered(k, <<"status", o>>, "resolving", {<<"immutable", o>>})
      BY <2>4, <1>8 DEF long_poll_calculation_status
    <3> QED
      BY <3>1, <2>1, <2>4, <1>1, <1>2, <1>4, RequestGoes
  <2> QED
    BY <2>2, <2>3, <2>4
<1> QED
  BY <1>5, <1>6, <1>7, <1>8

\* The requests of copies of calculations.
LEMMA CalcRequestsGo ==
    ASSUME GoingInv, CopyInv', NEW o \in Objects, NEW where \in {"at_destination", "at_source"},
           retrieve_calculation_request(o, where)
    PROVE  GoingInv'
<1> DEFINE k == <<"calc", o>>
<1>1. k \in Keys \ TypeKeys /\ <<where, o>> \in waits[k] /\ hurt' = hurt
  BY KeysApart DEF TypeKeys, retrieve_calculation_request, Answered
<1>2. <<where, o>> \in Https /\ <<"at_source", o>> \in Https
  BY DEF Https
<1>3. o \in Calcs /\ PhaseOK(k)
  BY <1>1 DEF GoingInv, CopyInv, AwaitInv, CalcOK
<1>4. PhasesOf(k) = {"none", "calling", "ready", "failed", "resolving", "awaiting"}
  BY <1>3, PhasesOfKinds
<1>5. task[k] = "resolving"
  BY <1>1, <1>2, <1>3, <1>4 DEF PhaseOK
<1>6. MayAwait(k) = ({"at_destination", "at_source"} \X ({o} \cap Calcs))
                    \cup ({"calc"} \X Arguments[o]) \cup {<<"object", o>>}
  BY MayAwaitOf
<1>7. {"calc"} \X Args[o] \in SUBSET (Keys \cap MayAwait(k)) /\ ({"calc"} \X Args[o]) \cap TypeKeys = {}
  <2>1. Args[o] = Arguments[o] /\ Args[o] \subseteq Objects
    BY <1>3, InputsAreGraphs DEF Arguments
  <2> QED
    BY <2>1, <1>6 DEF Keys, CalcKeys, TypeKeys
<1>8. <<"at_source", o>> \in MayAwait(k)
  <2>1. <<"at_source", o>> \in {"at_destination", "at_source"} \X ({o} \cap Calcs)
    BY <1>3
  <2> QED
    BY <2>1, <1>2, <1>6
<1>9. CASE Answered(k, <<where, o>>, "resolving", {<<"at_source", o>>}) /\ UNCHANGED todo
  BY <1>9, <1>1, <1>2, <1>4, <1>5, <1>8, RequestGoes
<1>10. ASSUME NEW p \in {"calling", "awaiting"}, Answered(k, <<where, o>>, p, {}),
              todo' = [todo EXCEPT ![k] = {"calc"} \X Args[o]]
       PROVE  GoingInv'
  <2>1. PICK more : more = {}
    OBVIOUS
  <2>2. more \in SUBSET (Https \cap MayAwait(k)) /\ (\A x, y \in more : x = y)
        /\ Answered(k, <<where, o>>, p, more)
    BY <2>1, <1>10
  <2>3. PICK arguments : arguments = {"calc"} \X Args[o]
    OBVIOUS
  <2>4. arguments \in SUBSET (Keys \cap MayAwait(k)) /\ arguments \cap TypeKeys = {}
        /\ todo' = [todo EXCEPT ![k] = arguments]
    BY <2>3, <1>7, <1>10
  <2> QED
    BY <2>1, <2>2, <2>4, <1>1, <1>2, <1>4, <1>5, AnsweredGoes
<1> QED
  BY <1>9, <1>10 DEF retrieve_calculation_request

\* A request fails.
LEMMA RequestFails ==
    ASSUME GoingInv, CopyInv', NEW k \in Keys, NEW h \in waits[k] \cap Https, http_fails(k, h)
    PROVE  GoingInv'
<1>1. CopyShape /\ CopyShape' /\ AwaitsOK /\ PhaseOK(k) /\ EvaluationsOK /\ k \in Awaiters
  BY TypesApart DEF GoingInv, CopyInv, AwaitInv
<1>2. /\ waits'[k] = waits[k] \ {h} /\ \A a \in Awaiters \ {k} : waits'[a] = waits[a]
      /\ hurt' = hurt \cup {k} /\ UNCHANGED <<task, todo, scope, visited>>
  BY <1>1 DEF http_fails, CopyShape
<1>3. task[k] \in {"copying", "resolving", "retrieving"}
  BY <1>1 DEF PhaseOK
<1>4. k \notin TypeKeys
  <2>1. \A p \in TypeKeys : PhasesOf(p) = {"none", "calling", "ready", "failed"}
    BY TypesApart, PhasesOfKinds
  <2> QED
    BY <2>1, <1>1, <1>3 DEF PhaseOK
<1>5. Running(k) /\ Running(k)' /\ PhaseOK(k)'
  BY <1>1, <1>2, <1>3 DEF Running, PhaseOK
<1>6. todo'[k] \cup waits'[k] \subseteq MayAwait(k) /\ \A j \in waits'[k] \cap Keys : Running(j)'
  BY <1>1, <1>2 DEF AwaitsOK, Running
<1>7. AwaitInv'
  BY <1>1, <1>2, <1>5, <1>6, AwaitsFrame
<1>8. \A e \in ObjectKeys : Examined(e) # {} =>
         task'[e] = task[e] /\ waits[e] \subseteq waits'[e]
  <2> TAKE e \in ObjectKeys
  <2>1. Examined(e) = {} \/ task[e] = "typing"
    BY <1>1, EvaluationOver
  <2> QED
    BY <2>1, <1>2, <1>3, TypesApart
<1>9. EvaluationsOK'
  BY <1>1, <1>2, <1>4, <1>8, TypesApart, EvaluationsFrame
<1> QED
  BY <1>7, <1>9 DEF GoingInv

\* The references of a calculation have been visited.
LEMMA CopyNeededGoes ==
    ASSUME GoingInv, CopyInv', NEW o \in Objects, copy_needed(o)
    PROVE  GoingInv'
<1> DEFINE k == <<"calc", o>>
<1>1. CopyShape /\ CopyShape' /\ AwaitsOK /\ EvaluationsOK /\ k \in Awaiters /\ k \in Keys
      /\ PhaseOK(k)
  BY TypesApart, KeysApart DEF GoingInv, CopyInv, AwaitInv
<1>2. k \notin TypeKeys /\ k \notin ObjectKeys /\ <<"object", o>> \notin TypeKeys
  BY DEF TypeKeys, ObjectKeys
<1>3. /\ o \in Calcs /\ task[k] = "calling" /\ waits[k] = {} /\ task'[k] = "awaiting"
      /\ todo'[k] = {<<"object", o>>} /\ UNCHANGED <<waits, hurt, scope, visited>>
      /\ \A q \in Keys \ {k} : task'[q] = task[q]
      /\ \A a \in Awaiters \ {k} : todo'[a] = todo[a]
  BY <1>1 DEF copy_needed, CopyShape
<1>4. "awaiting" \in PhasesOf(k) /\ <<"object", o>> \in MayAwait(k)
  BY <1>3, PhasesOfKinds, MayAwaitOf
<1>5. Running(k) /\ Running(k)' /\ PhaseOK(k)'
  BY <1>2, <1>3, <1>4 DEF Running, PhaseOK
<1>6. AwaitInv'
  BY <1>1, <1>3, <1>4, <1>5, AwaitsFrame
<1>7. EvaluationsOK'
  BY <1>1, <1>2, <1>3, TypesApart, EvaluationsFrame
<1> QED
  BY <1>6, <1>7 DEF GoingInv

\* The type of an object is known.
LEMMA TypeKnownGoes ==
    ASSUME GoingInv, CopyInv', NEW o \in Objects, type_known(o)
    PROVE  GoingInv'
<1> DEFINE k == <<"object", o>>
<1>1. CopyShape /\ CopyShape' /\ AwaitsOK /\ EvaluationsOK /\ k \in Awaiters /\ k \in Keys
      /\ PhaseOK(k)
  BY TypesApart, KeysApart DEF GoingInv, CopyInv, AwaitInv
<1>2. k \notin TypeKeys /\ k \in ObjectKeys
  BY DEF TypeKeys, ObjectKeys
<1>3. task[k] = "typing" /\ waits[k] = {} /\ Running(k) /\ UNCHANGED <<scope, visited>>
  BY DEF type_known, Running
<1>4. CASE Ends(k, "ready")
  BY <1>1, <1>3, <1>4, EndsGoes
<1>5. CASE ~Ends(k, "ready")
  <2>1. /\ task'[k] = "resolving" /\ waits'[k] = {<<"immutable", o>>} /\ UNCHANGED <<todo, hurt>>
        /\ \A q \in Keys \ {k} : task'[q] = task[q]
        /\ \A a \in Awaiters \ {k} : waits'[a] = waits[a]
    BY <1>1, <1>5 DEF type_known, CopyShape
  <2>2. "resolving" \in PhasesOf(k) /\ <<"immutable", o>> \in MayAwait(k)
        /\ <<"immutable", o>> \in Https
    <3>1. <<"immutable", o>> \in {"post", "metadata", "immutable", "retrieve"} \X {o}
      OBVIOUS
    <3> QED
      BY <3>1, PhasesOfKinds, MayAwaitOf DEF Phases, Https
  <2>3. todo[k] = {}
    BY <1>1, <1>3 DEF PhaseOK
  <2>4. Running(k)' /\ PhaseOK(k)' /\ waits'[k] \cap Keys = {}
    BY <2>1, <2>2, <2>3, KeysApart DEF Running, PhaseOK
  <2>5. AwaitInv'
    BY <2>1, <2>2, <2>3, <2>4, <1>1, <1>3, AwaitsFrame
  <2>6. Examined(k) = {}
    BY <1>1, <1>2, <1>3, EvaluationOver
  <2>7. \A e \in ObjectKeys : Examined(e) # {} =>
           task'[e] = task[e] /\ waits[e] \subseteq waits'[e]
    BY <2>1, <2>6, TypesApart
  <2>8. EvaluationsOK'
    BY <2>1, <2>7, <1>1, <1>2, <1>3, TypesApart, EvaluationsFrame
  <2> QED
    BY <2>5, <2>8 DEF GoingInv
<1> QED
  BY <1>4, <1>5

\* A copy asks whether its type contains references.
LEMMA AskTypeGoes ==
    ASSUME GoingInv, CopyInv', NEW o \in Objects, ask_type(o)
    PROVE  GoingInv'
<1> DEFINE k == <<"object", o>>
           t == <<"type", TypeOf[o]>>
<1>1. CopyShape /\ CopyShape' /\ AwaitsOK /\ (\A q \in Keys : PhaseOK(q))
  BY DEF GoingInv, CopyInv, AwaitInv
<1>2. k \in Keys /\ k \in Awaiters /\ t \in TypeKeys /\ t \in Keys /\ t \in Awaiters /\ k # t
      /\ k \notin TypeKeys
  BY TypesApart, KeysApart, InputsAreGraphs DEF TypeKeys
<1>3. task[k] = "copying" /\ waits[k] = {} /\ todo[k] = {}
  BY <1>1, <1>2 DEF ask_type, PhaseOK
<1>4. t \in MayAwait(k) /\ "typing" \in PhasesOf(k) /\ t \notin Https
  BY <1>2, MayAwaitOf, PhasesOfKinds, KeysApart DEF Phases
<1>5. CASE NeedsTask(t)
  <2>1. /\ task'[k] = "typing" /\ task'[t] = FirstPhase(t)
        /\ \A q \in Keys \ {k, t} : task'[q] = task[q]
        /\ waits'[k] = {t} /\ waits'[t] = {}
        /\ \A b \in Awaiters \ {k, t} : waits'[b] = waits[b]
        /\ todo'[t] = FirstTodo(t) /\ \A b \in Awaiters \ {t} : todo'[b] = todo[b]
        /\ hurt' = hurt \ {t}
    BY <1>1, <1>2, <1>5 DEF ask_type, CopyShape
  <2>2. FirstPhase(t) = "calling" /\ FirstPhase(t) \in PhasesOf(t) /\ FirstTodo(t) \subseteq MayAwait(t)
    BY <1>2, FirstFits DEF FirstPhase
  <2>3. Running(k)' /\ Running(t)' /\ Running(k) /\ \A q \in Keys \ {t} : Running(q)' <=> Running(q)
    BY <2>1, <2>2, <1>2, <1>3 DEF Running
  <2>4. \A b \in Awaiters : todo'[b] \cup waits'[b] \subseteq MayAwait(b)
    BY <2>1, <2>2, <1>1, <1>3, <1>4 DEF AwaitsOK
  <2>5. \A b \in Awaiters : \A j \in waits'[b] \cap Keys : Running(j)'
    BY <2>1, <2>3, <1>1 DEF AwaitsOK
  <2>6. \A q \in Keys : ~Running(q)' => waits'[q] = {}
    BY <2>1, <2>3, <1>1, TypesApart DEF AwaitsOK
  <2>7. ASSUME NEW q \in Keys PROVE PhaseOK(q)'
    <3>1. CASE q = k
      BY <3>1, <2>1, <1>2, <1>3, <1>4 DEF PhaseOK
    <3>2. CASE q = t
      BY <3>2, <2>1, <2>2, <1>2 DEF PhaseOK
    <3>3. CASE q # k /\ q # t
      <4>1. /\ task'[q] = task[q] /\ todo'[q] = todo[q] /\ waits'[q] = waits[q]
            /\ (q \in hurt => q \in hurt')
        BY <3>3, <2>1, TypesApart
      <4> QED
        BY <4>1, <1>1 DEF PhaseOK
    <3> QED
      BY <3>1, <3>2, <3>3
  <2> QED
    BY <2>4, <2>5, <2>6, <2>7, AskTypeEvaluations DEF GoingInv, AwaitInv, AwaitsOK
<1>6. CASE ~NeedsTask(t)
  <2>1. /\ task'[k] = "typing" /\ waits'[k] = {t} \ Ready /\ UNCHANGED <<todo, hurt>>
        /\ \A q \in Keys \ {k} : task'[q] = task[q]
        /\ \A b \in Awaiters \ {k} : waits'[b] = waits[b]
    BY <1>1, <1>2, <1>6 DEF ask_type, CopyShape
  <2>2. Running(k) /\ Running(k)' /\ (Running(t) \/ t \in Ready) /\ (Running(t)' <=> Running(t))
    BY <2>1, <1>2, <1>3, <1>6 DEF Running, Ready, NeedsTask
  <2>3. \A j \in waits'[k] \cap Keys : Running(j)'
    BY <2>1, <2>2
  <2>4. PhaseOK(k)'
    BY <2>1, <1>2, <1>3, <1>4 DEF PhaseOK
  <2>5. AwaitInv'
    BY <2>1, <2>2, <2>3, <2>4, <1>1, <1>2, <1>3, <1>4, AwaitsFrame
  <2> QED
    BY <2>5, AskTypeEvaluations DEF GoingInv
<1> QED
  BY <1>5, <1>6

\* The process is restarted.
LEMMA RestartGoes ==
    ASSUME GoingInv, CopyInv', restart
    PROVE  GoingInv'
<1>1. /\ \A k \in Keys : task'[k] \in {"ready", "none"}
      /\ \A a \in Awaiters : todo'[a] = {} /\ waits'[a] = {}
      /\ visited' = [k \in ObjectKeys |-> {}] /\ scope' = scope
  BY DEF restart
<1>2. \A k \in Keys : ~Running(k)'
  BY <1>1 DEF Running
<1>3. AwaitsOK'
  BY <1>1, TypesApart DEF AwaitsOK
<1>4. \A k \in Keys : PhaseOK(k)'
  BY <1>1, TypesApart, PhasesOfKinds DEF PhaseOK
<1>5. \A e : Examined(e)' = {}
  BY <1>2, TypesApart DEF Examined
<1>6. \A e \in ObjectKeys : EvaluationOK(e)'
  BY <1>5 DEF EvaluationOK
<1>7. EvaluationsOK'
  BY <1>1, <1>2, <1>6, TypesApart DEF EvaluationsOK, GoingInv
<1> QED
  BY <1>3, <1>4, <1>7 DEF GoingInv, AwaitInv

\* Nothing is awaited at first.
LEMMA GoingInitially == Init => GoingInv
<1> SUFFICES ASSUME Init PROVE GoingInv
  OBVIOUS
<1>1. /\ \A k \in Keys : task[k] = "none"
      /\ \A a \in Awaiters : todo[a] = {} /\ waits[a] = {}
      /\ visited = [k \in ObjectKeys |-> {}]
      /\ scope = [k \in TypeKeys |-> CHOOSE e \in ObjectKeys : TRUE]
  BY DEF Init
<1>2. \A k \in Keys : ~Running(k)
  BY <1>1 DEF Running
<1>3. AwaitsOK
  BY <1>1, TypesApart DEF AwaitsOK
<1>4. \A k \in Keys : PhaseOK(k)
  BY <1>1, TypesApart, PhasesOfKinds DEF PhaseOK
<1>5. \A e : Examined(e) = {}
  BY <1>2, TypesApart DEF Examined
<1>6. \A e \in ObjectKeys : EvaluationOK(e)
  BY <1>5 DEF EvaluationOK
<1>7. EvaluationsOK
  BY <1>1, <1>2, <1>6, TypesApart DEF EvaluationsOK
<1> QED
  BY <1>3, <1>4, <1>7, CopyInitially DEF GoingInv, AwaitInv

\* Every step keeps the invariant.
LEMMA GoingStepKeeps == GoingInv /\ [Next]_vars => GoingInv'
<1> SUFFICES ASSUME GoingInv, [Next]_vars PROVE GoingInv'
  OBVIOUS
<1>0. CopyInv'
  BY CopyStepKeeps DEF GoingInv
<1>1. ASSUME NEW k \in Keys, Steps(k) PROVE GoingInv'
  BY <1>0, <1>1, EndingsGo, RecurseGoes, CallsGo DEF Steps
<1>2. ASSUME NEW o \in Objects, CopySteps(o) PROVE GoingInv'
  BY <1>0, <1>2, ObjectRequestsGo, AskTypeGoes, TypeKnownGoes, EndingsGo, CalcRequestsGo,
     CopyNeededGoes DEF CopySteps
<1>3. ASSUME NEW o \in Calcs, long_poll_calculation_status(o) PROVE GoingInv'
  <2>1. o \in Objects
    BY InputsAreGraphs
  <2> QED
    BY <2>1, <1>0, <1>3, ObjectRequestsGo
<1>4. ASSUME NEW o \in Calcs, calculation_finishes(o) PROVE GoingInv'
  BY <1>0, <1>4, TasksLeft DEF calculation_finishes
<1>5. ASSUME NEW c \in Clients, reply(c) PROVE GoingInv'
  <2>1. hurt \cap Keys \subseteq hurt'
    BY <1>5, TypesApart DEF reply
  <2> QED
    BY <2>1, <1>0, <1>5, TasksLeft DEF reply
<1>6. ASSUME NEW k \in Keys, NEW h \in waits[k] \cap Https, http_fails(k, h) PROVE GoingInv'
  BY <1>0, <1>6, RequestFails
<1>7. ASSUME NEW c \in Clients, ask(c) PROVE GoingInv'
  BY <1>0, <1>7, CallsGo
<1>8. ASSUME UNCHANGED vars PROVE GoingInv'
  BY <1>0, <1>8, TasksLeft DEF vars, cached_vars, shared_vars
<1> QED
  BY <1>0, <1>1, <1>2, <1>3, <1>4, <1>5, <1>6, <1>7, <1>8, RestartGoes DEF Next, Progress

\* The invariant holds in every reachable state.
THEOREM GoingInvariant == Spec => []GoingInv
BY GoingInitially, GoingStepKeeps, PTL DEF Spec

-----------------------------------------------------------------------------
\* Nobody waits for itself

\* A task that runs and cannot go on awaits another one that runs.
LEMMA BlockedAwaits ==
    ASSUME GoingInv, NEW k \in Keys, Running(k), ~TaskReady(k)
    PROVE  /\ todo[k] = {} /\ waits[k] # {} /\ waits[k] \subseteq Keys
           /\ \A j \in waits[k] : Running(j) /\ j \in MayAwait(k)
<1>1. CopyShape /\ AwaitsOK /\ PhaseOK(k) /\ k \in Awaiters
  BY TypesApart DEF GoingInv, CopyInv, AwaitInv
<1>2. todo[k] = {} /\ waits[k] \cap Https = {}
  BY <1>1 DEF TaskReady, PhaseOK
<1>3. waits[k] # {}
  BY <1>1, <1>2 DEF TaskReady, PhaseOK
<1>4. waits[k] \subseteq Keys
  BY <1>1, <1>2 DEF CopyShape
<1> QED
  BY <1>1, <1>2, <1>3, <1>4 DEF AwaitsOK

\* While a client waits, its answer is there, some task can go on or will be
\* told by Thinknode, or types that two evaluations examine at the same time
\* await each other: the tasks that copies share cannot block them otherwise.
THEOREM CopiesHaveNoDeadlock ==
    ASSUME Acyclic(Refs), Acyclic(Arguments)
    PROVE  Spec => []CopiesGoOn
<1>1. GoingInv => CopiesGoOn
  <2> SUFFICES ASSUME GoingInv, NEW c \in Clients, waits[c] # {}, \A k \in Keys : ~TaskReady(k)
               PROVE  TypesInCircle
    BY DEF CopiesGoOn
  <2> DEFINE S == {p \in TypeKeys : Running(p)}
             O == {o \in Objects : Running(<<"object", o>>)}
             C == {o \in Objects : Running(<<"calc", o>>)}
  <2>1. \A k \in Keys : Running(k) => \E j \in waits[k] : j \in Keys /\ Running(j) /\ j \in MayAwait(k)
    BY BlockedAwaits
  <2>2. ASSUME S = {} PROVE O = {}
    <3> SUFFICES ASSUME O # {} PROVE FALSE
      OBVIOUS
    <3>1. O \in SUBSET DOMAIN Refs
      BY InputsAreGraphs
    <3>2. PICK o \in O : Refs[o] \cap O = {}
      BY <3>1 DEF Acyclic
    <3>3. <<"object", o>> \in Keys
      BY KeysApart
    <3>4. PICK j \in Keys : Running(j) /\ j \in MayAwait(<<"object", o>>)
      BY <3>3, <2>1
    <3>5. j \notin TypeKeys /\ j \notin Https
      BY <3>4, <2>2, KeysApart
    <3>6. \/ j \in {"post", "metadata", "immutable", "retrieve"} \X {o}
          \/ j \in {"status"} \X ({o} \cap Calcs)
          \/ j = <<"type", TypeOf[o]>> \/ j \in {"object"} \X Refs[o]
      BY <3>4, MayAwaitOf
    <3>7. j \in {"object"} \X Refs[o]
      BY <3>5, <3>6, InputsAreGraphs DEF Https, TypeKeys
    <3>8. PICK r \in Refs[o] : j = <<"object", r>>
      BY <3>7
    <3>9. r \in Objects
      BY InputsAreGraphs
    <3> QED
      BY <3>2, <3>4, <3>8, <3>9
  <2>3. ASSUME O = {} PROVE C = {}
    <3> SUFFICES ASSUME C # {} PROVE FALSE
      OBVIOUS
    <3>1. C \in SUBSET DOMAIN Arguments
      BY GraphsOverObjects
    <3>2. PICK o \in C : Arguments[o] \cap C = {}
      BY <3>1 DEF Acyclic
    <3>3. <<"calc", o>> \in Keys
      BY KeysApart
    <3>4. PICK j \in Keys : Running(j) /\ j \in MayAwait(<<"calc", o>>)
      BY <3>3, <2>1
    <3>5. j \notin Https
      BY KeysApart
    <3>6. \/ j \in {"at_destination", "at_source"} \X ({o} \cap Calcs)
          \/ j \in {"calc"} \X Arguments[o] \/ j = <<"object", o>>
      BY <3>4, MayAwaitOf
    <3>7. j # <<"object", o>>
      BY <3>4, <2>3
    <3>8. j \in {"calc"} \X Arguments[o]
      BY <3>5, <3>6, <3>7 DEF Https
    <3>9. PICK r \in Arguments[o] : j = <<"calc", r>>
      BY <3>8
    <3>10. r \in Objects
      BY GraphsOverObjects
    <3> QED
      BY <3>2, <3>4, <3>9, <3>10
  <2>4. S # {}
    <3> SUFFICES ASSUME S = {} PROVE FALSE
      OBVIOUS
    <3>1. O = {} /\ C = {}
      BY <2>2, <2>3
    <3>2. c \in Awaiters /\ waits[c] \subseteq {Root[c]} /\ Root[c] \in ObjectKeys \cup CalcKeys
      BY MayAwaitOf, InputsAreGraphs DEF GoingInv, AwaitInv, AwaitsOK, Awaiters
    <3>3. Root[c] \in waits[c] /\ Root[c] \in Keys
      BY <3>2, TypesApart
    <3>4. Running(Root[c])
      BY <3>2, <3>3 DEF GoingInv, AwaitInv, AwaitsOK
    <3>5. \E o \in Objects : Root[c] = <<"object", o>> \/ Root[c] = <<"calc", o>>
      BY <3>2 DEF ObjectKeys, CalcKeys
    <3> QED
      BY <3>1, <3>4, <3>5
  <2>5. InCircle(S)
    <3> SUFFICES ASSUME NEW k \in S PROVE todo[k] = {} /\ waits[k] # {} /\ waits[k] \subseteq S
      BY <2>4 DEF InCircle
    <3>1. k \in Keys /\ k = <<"type", k[2]>> /\ k[2] \in Types
      BY TypesApart
    <3>2. MayAwait(k) \subseteq TypeKeys
      <4>1. MayAwait(k) = {"type"} \X Parts[k[2]]
        BY <3>1, MayAwaitOf
      <4> QED
        BY <4>1, <3>1, InputsAreGraphs DEF TypeKeys
    <3> QED
      BY <3>1, <3>2, BlockedAwaits
  <2>6. \E p, q \in S : scope[p] # scope[q]
    <3> SUFFICES ASSUME \A p, q \in S : scope[p] = scope[q] PROVE FALSE
      OBVIOUS
    <3>1. PICK p \in S : TRUE
      BY <2>4
    <3>2. scope[p] \in ObjectKeys /\ S \in SUBSET Examined(scope[p])
      BY <3>1 DEF GoingInv, EvaluationsOK, Examined
    <3>3. \E q \in S : waits[q] \cap S = {}
      BY <3>2, <2>4 DEF GoingInv, EvaluationsOK, EvaluationOK
    <3> QED
      BY <3>3, <2>5 DEF InCircle
  <2> QED
    BY <2>5, <2>6 DEF TypesInCircle
<1> QED
  BY <1>1, GoingInvariant, PTL

\* Types that are recursive only in themselves never await each other in a
\* circle: with the theorem above, nothing then blocks a copy.
THEOREM PlainTypesHaveNoCircle ==
    ASSUME Acyclic(OtherParts)
    PROVE  Spec => []~TypesInCircle
<1>1. GoingInv => ~TypesInCircle
  <2> SUFFICES ASSUME GoingInv, NEW S \in SUBSET TypeKeys, InCircle(S)
               PROVE  FALSE
    BY DEF TypesInCircle
  <2> DEFINE T == {t \in Types : <<"type", t>> \in S}
  <2>1. T # {} /\ T \in SUBSET DOMAIN OtherParts
    BY TypesApart DEF InCircle, OtherParts
  <2>2. PICK t \in T : OtherParts[t] \cap T = {}
    BY <2>1 DEF Acyclic
  <2>3. PICK k \in S : k = <<"type", t>>
    BY <2>2
  <2>4. k \in TypeKeys /\ k \in Keys /\ k \in Awaiters
    BY <2>3, TypesApart
  <2>5. PICK j \in waits[k] : j \in S
    BY <2>3 DEF InCircle
  <2>6. j \in MayAwait(k) /\ MayAwait(k) = {"type"} \X Parts[t]
    BY <2>3, <2>4, <2>5, MayAwaitOf DEF GoingInv, AwaitInv, AwaitsOK
  <2>7. PICK p \in Parts[t] : j = <<"type", p>>
    BY <2>6
  <2>8. p \in T
    BY <2>5, <2>7, TypesApart
  <2>9. p = t
    BY <2>2, <2>7, <2>8 DEF OtherParts
  <2>10. k \in waits[k] /\ Running(k)
    BY <2>3, <2>4, <2>5, <2>7, <2>9 DEF GoingInv, AwaitInv, AwaitsOK
  <2>11. scope[k] \in ObjectKeys /\ {k} \in SUBSET Examined(scope[k])
    BY <2>4, <2>10 DEF GoingInv, EvaluationsOK, Examined
  <2>12. \A q \in {k} : \E x \in {k} : x \in waits[q]
    BY <2>10
  <2>13. \E q \in {k} : waits[q] \cap {k} = {}
    BY <2>11 DEF GoingInv, EvaluationsOK, EvaluationOK
  <2> QED
    BY <2>12, <2>13
<1> QED
  BY <1>1, GoingInvariant, PTL

-----------------------------------------------------------------------------
\* The supervisor: messages in a queue

\* A message that ends a calculation.
IsResult(m) == m.kind \notin {"registration", "progress"}

\* Where these are in a queue of messages.
ResultsIn(s) == {i \in 1 .. Len(s) : IsResult(s[i])}

\* The first message of a queue is removed.
LEMMA ResultsAfterTail ==
    ASSUME NEW s \in Seq(Messages), s # <<>>
    PROVE  /\ Head(s) = s[1] /\ Head(s) \in Messages /\ Tail(s) \in Seq(Messages)
           /\ ResultsIn(s) \subseteq Nat /\ (1 \in ResultsIn(s) <=> IsResult(Head(s)))
           /\ \A i \in ResultsIn(s) : i >= 1 /\ s[i] \in Messages
           /\ \A i \in ResultsIn(Tail(s)) : /\ i \in Nat /\ i >= 1 /\ i + 1 \in ResultsIn(s)
                                            /\ Tail(s)[i] = s[i + 1]
<1>1. /\ Len(s) \in Nat /\ Len(s) >= 1 /\ Head(s) = s[1] /\ Tail(s) \in Seq(Messages)
      /\ Len(Tail(s)) = Len(s) - 1 /\ \A i \in 1 .. Len(s) : s[i] \in Messages
      /\ \A i \in 1 .. Len(Tail(s)) : Tail(s)[i] = s[i + 1]
  OBVIOUS
<1>2. ASSUME NEW i \in ResultsIn(Tail(s))
      PROVE  i \in Nat /\ i >= 1 /\ i + 1 \in ResultsIn(s) /\ Tail(s)[i] = s[i + 1]
  <2>1. i \in 1 .. Len(Tail(s)) /\ IsResult(Tail(s)[i])
    BY DEF ResultsIn
  <2>2. i + 1 \in 1 .. Len(s) /\ Tail(s)[i] = s[i + 1]
    BY <1>1, <2>1
  <2> QED
    BY <2>1, <2>2 DEF ResultsIn
<1>3. ResultsIn(s) \subseteq Nat /\ (1 \in ResultsIn(s) <=> IsResult(Head(s)))
  BY <1>1 DEF ResultsIn
<1>4. \A i \in ResultsIn(s) : i >= 1 /\ s[i] \in Messages
  BY <1>1 DEF ResultsIn
<1>5. Head(s) \in Messages
  BY <1>1
<1> QED
  BY <1>1, <1>2, <1>3, <1>4, <1>5

\* A message is added to a queue.
LEMMA ResultsAfterAppend ==
    ASSUME NEW s \in Seq(Messages), NEW m \in Messages
    PROVE  /\ Append(s, m) \in Seq(Messages) /\ Append(s, m) # <<>>
           /\ ResultsIn(s) \subseteq Nat /\ Len(s) + 1 \in Nat
           /\ \A i \in ResultsIn(s) : /\ i \in ResultsIn(Append(s, m)) /\ i < Len(s) + 1
                                      /\ Append(s, m)[i] = s[i]
           /\ \A i \in ResultsIn(Append(s, m)) :
                 \/ i \in ResultsIn(s)
                 \/ i = Len(s) + 1 /\ Append(s, m)[i] = m /\ IsResult(m)
           /\ s # <<>> => Head(Append(s, m)) = Head(s)
           /\ 1 \in ResultsIn(Append(s, m)) => s = <<>> \/ 1 \in ResultsIn(s)
<1>1. /\ Len(s) \in Nat /\ Append(s, m) \in Seq(Messages) /\ Len(Append(s, m)) = Len(s) + 1
      /\ \A i \in 1 .. Len(s) : Append(s, m)[i] = s[i]
      /\ Append(s, m)[Len(s) + 1] = m /\ Append(s, m) # <<>>
  OBVIOUS
<1>2. \A i \in ResultsIn(s) : i \in 1 .. Len(s) /\ IsResult(s[i])
  BY DEF ResultsIn
<1>3. \A i \in ResultsIn(s) : i \in ResultsIn(Append(s, m)) /\ i < Len(s) + 1
                              /\ Append(s, m)[i] = s[i]
  BY <1>1, <1>2 DEF ResultsIn
<1>4. \A i \in ResultsIn(Append(s, m)) :
                 \/ i \in ResultsIn(s)
                 \/ i = Len(s) + 1 /\ Append(s, m)[i] = m /\ IsResult(m)
  BY <1>1 DEF ResultsIn
<1>5. s # <<>> => Head(Append(s, m)) = Head(s) /\ Len(s) >= 1
  OBVIOUS
<1>6. 1 \in ResultsIn(Append(s, m)) => s = <<>> \/ 1 \in ResultsIn(s)
  BY <1>1, <1>4, <1>5
<1> QED
  BY <1>1, <1>2, <1>3, <1>4, <1>5, <1>6

-----------------------------------------------------------------------------
\* The inductive invariant of the supervisor

\* A provider runs.
Runs(p) == provider[p] \notin {"none", "dead"}

Results(p) == ResultsIn(sent[p])

\* The results in a provider's queue the message thread has not read; the one
\* it is about to produce it has read.
Unread(p) == Results(p) \ (IF loop = "producing" /\ socket = p THEN {1} ELSE {})

\* What is in the queues and in the result slot.
MessagesOK ==
    /\ \A p \in Providers : \A i \in Results(p) : /\ sent[p][i].kind \in {"result", "failure"}
                                                  /\ sent[p][i].call \in Requests
    /\ result # <<>> => /\ result[1].kind \in {"result", "failure"}
                        /\ result[1].call \in Requests \/ result[1] = ImplicitFailure

\* Only the active provider runs.
OnlyActiveRuns == \A p \in Providers : Runs(p) => p = active

\* A provider that has not registered has no connection and no messages.
Unregistered(p) ==
    p # socket /\ (\A i \in 1 .. Len(backlog) : backlog[i] # p) /\ sent[p] = <<>> /\ calls[p] = <<>>

ProvidersFit ==
    \A p \in Providers :
       /\ p > spawned => provider[p] = "none"
       /\ provider[p] \in {"none", "starting"} => Unregistered(p)
       /\ provider[p] \in {"working", "reported"} => calls[p] # <<>>

\* The connections that were accepted and are served, or wait to be accepted;
\* and those among them that are not of the active provider.
Served == {"reading", "producing", "writing", "failing", "idling"}
Connections == {backlog[i] : i \in 1 .. Len(backlog)} \cup (IF loop \in Served THEN {socket} ELSE {})
Others == Connections \ {active}

\* Connections wait in the order in which the providers were started, and those
\* that wait were never called.
BacklogFits ==
    /\ \A i \in 1 .. Len(backlog) : /\ socket < backlog[i] /\ backlog[i] <= spawned
                                    /\ calls[backlog[i]] = <<>> /\ Results(backlog[i]) = {}
    /\ \A i, j \in 1 .. Len(backlog) : i < j => backlog[i] < backlog[j]
    /\ socket <= spawned

\* Where the calculation thread is tells about the provider, the state and the
\* request.
CallerFits ==
    /\ active \in {Nobody, spawned}
    /\ caller \in {"spawning", "pulling"} => active = Nobody
    /\ caller \in {"transmitting", "writing", "respawning", "consuming"} => active # Nobody
    /\ caller = "free" /\ active = Nobody => state = "IDLE"
    /\ caller \in {"checked", "transmitting"} => state = "IDLE"
    /\ caller \in {"writing", "respawning"} /\ state # "AWAITING_RESULT" =>
          state = "IDLE" /\ Connections = {} /\ ~Runs(active)
    /\ caller \in {"transmitting", "writing", "respawning", "spawning", "pulling"} =>
          request # <<>> /\ request[1].job = job
    /\ state = "AWAITING_REGISTRATION" =>
          caller \in {"pulling", "consuming", "free"} /\ request # <<>>
    /\ caller = "ended" => active = Nobody
    /\ state = "TERMINATED" => caller = "ended"

\* And so does where the message thread is.
LoopFits ==
    /\ loop \notin {"reading", "producing", "writing"} => ~Alive(socket)
    /\ loop \in Served => socket # Nobody
    /\ loop = "producing" => sent[socket] # <<>> /\ 1 \in Results(socket)
    /\ loop = "writing" => /\ state \in {"AWAITING_RESULT", "TERMINATED"} /\ request # <<>>
                           /\ caller \in {"consuming", "free", "ended"}
                           /\ active = socket \/ (caller = "ended" /\ ~Alive(socket))

\* At most one connection is of a provider that was given up, none if the
\* supervisor is idle or about to write to the active one; its results were read.
OthersFit ==
    caller # "ended" =>
       /\ state = "IDLE" => Others = {}
       /\ caller \in {"checked", "transmitting", "writing", "respawning"} => Others = {}
       /\ \A p, q \in Others : p = q
       /\ \A q \in Others : Unread(q) = {}

\* While the active provider has a call, or a result that was not read, a
\* result is awaited and nobody writes to it.
BusyFits ==
    (active # Nobody /\ ((Runs(active) /\ calls[active] # <<>>) \/ Unread(active) # {})) =>
       /\ state = "AWAITING_RESULT" /\ socket = active /\ loop \in {"reading", "producing"}
       /\ caller \in {"consuming", "free"}

\* It has one or the other, and one only.
OneEach ==
    active # Nobody =>
       /\ Runs(active) => Len(calls[active]) <= 1
       /\ Runs(active) /\ calls[active] # <<>> => Unread(active) = {}
       /\ \A i, j \in Unread(active) : i = j

\* The jobs are performed one after the other.
Done(i) == outcome[i].kind # "pending"

JobsOK ==
    /\ \A i \in Jobs : (i < job => Done(i)) /\ (i > job => ~Done(i))
    /\ job # 0 => (Done(job) <=> caller \in {"free", "ended"})
    /\ job = 0 => caller \in {"free", "ended"}

\* The jobs whose results were returned, are in the slot, are in the queue of
\* the connected provider, whose calls it has, and whose request is stored.
Returned == {outcome[j].call.job : j \in {k \in Jobs : outcome[k].kind = "result"}}
InSlot   == IF result # <<>> /\ result[1] # ImplicitFailure THEN {result[1].call.job} ELSE {}
InQueue  == IF socket = Nobody THEN {} ELSE {sent[socket][i].call.job : i \in Results(socket)}
Called   == IF Alive(socket) THEN {calls[socket][i].job : i \in 1 .. Len(calls[socket])}
            ELSE {}
Stored   == IF request # <<>> THEN {request[1].job} ELSE {}

\* Every job in one set comes before every job in the other.
Before(A, B) == \A a \in A, b \in B : a < b

\* Jobs move through these places in order.
InOrder ==
    /\ Before(Returned, InSlot) /\ Before(Returned, InQueue) /\ Before(Returned, Called)
    /\ Before(Returned, Stored) /\ Before(InSlot, InQueue) /\ Before(InSlot, Called)
    /\ Before(InSlot, Stored) /\ Before(InQueue, Called) /\ Before(InQueue, Stored)
    /\ Before(Called, Stored)

QueueInOrder ==
    socket # Nobody =>
       \A i, j \in Results(socket) : i < j => sent[socket][i].call.job < sent[socket][j].call.job

\* Only jobs that were begun are anywhere.
Begun ==
    /\ \A i \in Returned \cup InSlot \cup InQueue \cup Called \cup Stored : i \in Jobs /\ i <= job
    /\ caller = "checked" => job \notin InSlot \cup InQueue \cup Called \cup Stored

\* A job that is done and whose result may still come was preceded by a broken
\* connection, or was one itself.
Excused(i) == Done(i) => \E f \in 1 .. i : outcome[f] = ImplicitFailure

LateOnesExcused ==
    /\ \A i \in InSlot \cup InQueue \cup Called : Excused(i)
    /\ active # Nobody /\ provider[active] # "none" => \A i \in Stored : Excused(i)

\* A job that returned a result returned its own, or a late one.
ReturnedOK ==
    \A j \in Jobs : outcome[j].kind = "result" =>
       /\ outcome[j].call \in Requests
       /\ \/ outcome[j].call.job = j
          \/ /\ outcome[j].call.job < j
             /\ \E f \in 1 .. outcome[j].call.job : outcome[f] = ImplicitFailure
       /\ \A k \in 1 .. j - 1 : outcome[k].kind = "result" =>
             outcome[k].call.job < outcome[j].call.job

ProvidersOK == MessagesOK /\ OnlyActiveRuns /\ ProvidersFit /\ BacklogFits
ThreadsOK == CallerFits /\ LoopFits /\ OthersFit /\ BusyFits /\ OneEach
OrderOK == JobsOK /\ InOrder /\ QueueInOrder /\ Begun /\ LateOnesExcused /\ ReturnedOK

SupervisorInv == SupervisorTypeOK /\ ProvidersOK /\ ThreadsOK /\ OrderOK

-----------------------------------------------------------------------------
\* What a step of the supervisor may leave alone

\* A step that leaves the providers and their queues alone.
LEMMA ProvidersKept ==
    ASSUME SupervisorInv, UNCHANGED <<active, provider, spawned, socket, backlog, calls, sent>>,
           result' \in {result, <<>>, <<ImplicitFailure>>}
    PROVE  ProvidersOK'
<1>1. \A p : Results(p)' = Results(p) /\ Runs(p)' = Runs(p)
  BY DEF Results, Runs
<1>2. ProvidersOK
  BY DEF SupervisorInv
<1>3. MessagesOK'
  <2>1. result' # <<>> => /\ result'[1].kind \in {"result", "failure"}
                          /\ result'[1].call \in Requests \/ result'[1] = ImplicitFailure
    BY <1>2 DEF ProvidersOK, MessagesOK, ImplicitFailure, Message
  <2> QED
    BY <1>1, <1>2, <2>1 DEF ProvidersOK, MessagesOK
<1>4. OnlyActiveRuns'
  BY <1>1, <1>2 DEF ProvidersOK, OnlyActiveRuns
<1>5. ProvidersFit'
  BY <1>2 DEF ProvidersOK, ProvidersFit, Unregistered
<1>6. BacklogFits'
  BY <1>1, <1>2 DEF ProvidersOK, BacklogFits
<1> QED
  BY <1>3, <1>4, <1>5, <1>6 DEF ProvidersOK

\* A step that leaves the messages and the connection alone, and does not begin
\* or end the production of a result.
LEMMA UnreadKept ==
    ASSUME UNCHANGED <<socket, sent>>, loop' = "producing" <=> loop = "producing"
    PROVE  \A p : Unread(p)' = Unread(p) /\ Results(p)' = Results(p)
BY DEF Unread, Results

\* A step that leaves everything that is in the places alone.
LEMMA PlacesKept ==
    ASSUME UNCHANGED <<outcome, result, request, socket, sent, calls, provider>>
    PROVE  /\ Returned' = Returned /\ InSlot' = InSlot /\ InQueue' = InQueue
           /\ Called' = Called /\ Stored' = Stored
           /\ QueueInOrder' <=> QueueInOrder
BY DEF Returned, InSlot, InQueue, Called, Stored, QueueInOrder, Results, Alive

\* Jobs that leave a place disturb nothing.
LEMMA OrderKept ==
    ASSUME SupervisorInv, UNCHANGED <<outcome, job>>,
           caller' \in {"free", "ended"} <=> caller \in {"free", "ended"},
           job # 0 \/ caller' \in {"free", "ended"},
           caller' = "checked" => caller = "checked",
           InSlot' \subseteq InSlot, InQueue' \subseteq InQueue, Called' \subseteq Called,
           Stored' \subseteq Stored, QueueInOrder',
           (active' # Nobody /\ provider'[active'] # "none") =>
              \/ active # Nobody /\ provider[active] # "none"
              \/ \A i \in Stored : ~Done(i)
    PROVE  OrderOK'
<1>1. OrderOK
  BY DEF SupervisorInv
<1>2. Returned' = Returned /\ \A i : Done(i)' = Done(i) /\ Excused(i)' = Excused(i)
  BY DEF Returned, Done, Excused
<1>3. JobsOK'
  BY <1>1, <1>2 DEF OrderOK, JobsOK
<1>4. InOrder'
  BY <1>1, <1>2 DEF OrderOK, InOrder, Before
<1>5. Begun'
  BY <1>1, <1>2 DEF OrderOK, Begun
<1>6. LateOnesExcused'
  <2>1. \A i \in InSlot \cup InQueue \cup Called : Excused(i)
    BY <1>1 DEF OrderOK, LateOnesExcused
  <2>2. active # Nobody /\ provider[active] # "none" => \A i \in Stored : Excused(i)
    BY <1>1 DEF OrderOK, LateOnesExcused
  <2>3. \A i : ~Done(i) => Excused(i)
    BY DEF Excused
  <2> QED
    BY <1>2, <2>1, <2>2, <2>3 DEF LateOnesExcused
<1>7. ReturnedOK'
  BY <1>1 DEF OrderOK, ReturnedOK
<1> QED
  BY <1>3, <1>4, <1>5, <1>6, <1>7 DEF OrderOK

\* What the invariant says of the jobs at hand.
LEMMA JobFacts ==
    ASSUME SupervisorInv
    PROVE  /\ job \in Nat /\ Jobs \subseteq Nat \ {0} /\ Jobs = 1 .. Len(ImageOf)
           /\ caller \notin {"free", "ended"} => job \in Jobs /\ ~Done(job)
           /\ outcome \in [Jobs -> Messages]
<1>1. /\ job \in 0 .. Len(ImageOf) /\ outcome \in [Jobs -> Messages]
      /\ Len(ImageOf) \in Nat /\ Jobs = 1 .. Len(ImageOf)
  BY BoundsAreNat DEF SupervisorInv, SupervisorTypeOK
<1>2. JobsOK
  BY DEF SupervisorInv, OrderOK
<1>3. job \in Nat /\ Jobs \subseteq Nat \ {0}
  BY <1>1
<1>4. caller \notin {"free", "ended"} => job \in Jobs /\ ~Done(job)
  <2> SUFFICES ASSUME caller \notin {"free", "ended"} PROVE job \in Jobs /\ ~Done(job)
    OBVIOUS
  <2>1. job # 0
    BY <1>2 DEF JobsOK
  <2>2. ~Done(job)
    BY <1>2, <2>1 DEF JobsOK
  <2> QED
    BY <1>1, <2>1, <2>2
<1> QED
  BY <1>1, <1>3, <1>4

-----------------------------------------------------------------------------
\* The steps of the calculation thread

\* supervise_calculation begins.
LEMMA SuperviseKeeps ==
    ASSUME SupervisorInv, NEW j \in Jobs, supervise(j)
    PROVE  SupervisorInv'
<1>1. /\ SupervisorTypeOK /\ ProvidersOK /\ CallerFits /\ LoopFits /\ OthersFit /\ BusyFits
      /\ OneEach /\ OrderOK
  BY DEF SupervisorInv, ThreadsOK
<1>2. /\ caller = "free" /\ j = job + 1 /\ job' = j
      /\ UNCHANGED <<state, request, active, result, socket, backlog, loop, provider, calls,
                     sent, spawned, deaths>>
      /\ \/ /\ active # Nobody /\ caller' = caller
            /\ outcome' = [outcome EXCEPT ![j] = Message("inconsistent", NoRequest)]
         \/ /\ ~(active # Nobody /\ state # "IDLE")
            /\ caller' = "checked" /\ outcome' = outcome
  BY DEF supervise, Unshared
<1>3. /\ job \in Nat /\ Jobs \subseteq Nat \ {0} /\ Jobs = 1 .. Len(ImageOf)
      /\ outcome \in [Jobs -> Messages]
  BY JobFacts
<1>4. Message("inconsistent", NoRequest) \in Messages
  BY DEF Message, Messages, Kinds
<1>5. SupervisorTypeOK'
  <2>1. job' \in 0 .. Len(ImageOf)
    BY <1>2, <1>3
  <2>2. outcome' \in [Jobs -> Messages]
    BY <1>2, <1>3, <1>4
  <2>3. caller' \in Callers
    BY <1>2 DEF Callers
  <2> QED
    BY <1>1, <1>2, <2>1, <2>2, <2>3 DEF SupervisorTypeOK
<1>6. ProvidersOK'
  BY <1>2, ProvidersKept
<1>7. \A p : Unread(p)' = Unread(p) /\ Results(p)' = Results(p) /\ Runs(p)' = Runs(p)
  BY <1>2, UnreadKept DEF Runs
<1>8. /\ caller' = "checked" => state = "IDLE"
      /\ Others' = Others /\ Connections' = Connections
  BY <1>1, <1>2 DEF CallerFits, Others, Connections
<1>9. CallerFits'
  BY <1>1, <1>2, <1>8 DEF CallerFits
<1>10. LoopFits'
  <2>1. loop = "writing" => caller' = caller
    BY <1>1, <1>2, <1>8 DEF LoopFits
  <2> QED
    BY <1>1, <1>2, <1>7, <2>1 DEF LoopFits, Alive
<1>11. OthersFit'
  BY <1>1, <1>2, <1>7, <1>8 DEF OthersFit
<1>12. BusyFits'
  BY <1>1, <1>2, <1>7, <1>8 DEF BusyFits
<1>13. OneEach'
  BY <1>1, <1>2, <1>7 DEF OneEach
<1>14. /\ InSlot' = InSlot /\ InQueue' = InQueue /\ Called' = Called /\ Stored' = Stored
       /\ QueueInOrder'
  <2>1. QueueInOrder
    BY <1>1 DEF OrderOK
  <2> QED
    BY <1>2, <2>1 DEF InSlot, InQueue, Called, Stored, QueueInOrder, Results, Alive
<1>15. /\ \A i \in Jobs \ {j} : outcome'[i] = outcome[i]
       /\ outcome[j].kind = "pending" /\ outcome'[j].kind \in {"pending", "inconsistent"}
       /\ outcome'[j].kind = "pending" <=> caller' = "checked"
       /\ caller' \in {"free", "checked"} /\ outcome' \in [Jobs -> Messages]
  <2>1. outcome[j].kind = "pending"
    BY <1>1, <1>2, <1>3 DEF OrderOK, JobsOK, Done
  <2>2. outcome' \in [Jobs -> Messages]
    BY <1>5 DEF SupervisorTypeOK
  <2>3. CASE caller' = "checked" /\ outcome' = outcome
    BY <2>1, <2>2, <2>3
  <2>4. CASE caller' = caller /\ outcome' = [outcome EXCEPT ![j] = Message("inconsistent", NoRequest)]
    BY <2>1, <2>2, <2>4, <1>2, <1>3 DEF Message
  <2> QED
    BY <1>2, <2>3, <2>4
<1> QED
  <2>1. JobsOK'
    BY <1>1, <1>2, <1>3, <1>15 DEF OrderOK, JobsOK, Done
  <2>2. Returned' = Returned
    BY <1>15 DEF Returned
  <2>3. InOrder'
    BY <1>1, <1>14, <2>2 DEF OrderOK, InOrder, Before
  <2>4. \A i \in Returned \cup InSlot \cup InQueue \cup Called \cup Stored : i \in Jobs /\ i <= job
    BY <1>1 DEF OrderOK, Begun
  <2>5. Begun'
    BY <2>2, <2>4, <1>2, <1>3, <1>14 DEF Begun
  <2>6. ASSUME NEW i \in Jobs, i <= job, Excused(i) PROVE Excused(i)'
    <3>1. i # j /\ \A f \in 1 .. i : f \in Jobs /\ f # j
      BY <1>2, <1>3, <2>6
    <3> QED
      BY <1>15, <2>6, <3>1 DEF Excused, Done
  <2>7. LateOnesExcused'
    BY <1>1, <1>2, <1>14, <2>4, <2>6 DEF OrderOK, LateOnesExcused
  <2>8. ReturnedOK'
    <3>1. ASSUME NEW k \in Jobs, outcome'[k].kind = "result"
          PROVE  /\ k # j /\ outcome'[k] = outcome[k] /\ outcome[k].call.job \in Jobs
                 /\ outcome[k].call.job <= job
      <4>1. k # j /\ outcome'[k] = outcome[k]
        BY <1>15, <3>1
      <4>2. outcome[k].call.job \in Returned
        BY <4>1, <3>1 DEF Returned
      <4> QED
        BY <4>1, <4>2, <2>4
    <3>2. ASSUME NEW k \in Jobs, outcome'[k].kind = "result",
                 NEW f \in 1 .. outcome[k].call.job, outcome[f] = ImplicitFailure
          PROVE  outcome'[f] = ImplicitFailure
      <4>1. f \in Jobs /\ f # j
        BY <1>2, <1>3, <3>1, <3>2
      <4> QED
        BY <4>1, <3>2, <1>15
    <3>3. ASSUME NEW k \in Jobs, outcome'[k].kind = "result",
                 NEW l \in 1 .. k - 1, outcome'[l].kind = "result"
          PROVE  outcome'[l].call.job < outcome'[k].call.job
      <4>1. l \in Jobs
        BY <1>3
      <4> QED
        BY <4>1, <3>1, <3>3, <1>1 DEF OrderOK, ReturnedOK
    <3> QED
      BY <3>1, <3>2, <3>3, <1>1 DEF OrderOK, ReturnedOK
  <2>9. OrderOK'
    BY <2>1, <2>3, <2>5, <2>7, <2>8, <1>14 DEF OrderOK
  <2> QED
    BY <1>5, <1>6, <1>9, <1>10, <1>11, <1>12, <1>13, <2>9 DEF SupervisorInv, ThreadsOK

\* What the invariant consists of, and the types the steps need.
LEMMA InvParts ==
    ASSUME SupervisorInv
    PROVE  /\ SupervisorTypeOK /\ MessagesOK /\ OnlyActiveRuns /\ ProvidersFit /\ BacklogFits
           /\ CallerFits /\ LoopFits /\ OthersFit /\ BusyFits /\ OneEach
           /\ JobsOK /\ InOrder /\ QueueInOrder /\ Begun /\ LateOnesExcused /\ ReturnedOK
BY DEF SupervisorInv, ProvidersOK, ThreadsOK, OrderOK

\* The numbers of providers.
LEMMA ProviderNumbers ==
    ASSUME SupervisorInv
    PROVE  /\ active \in Nat /\ socket \in Nat /\ spawned \in Nat /\ Nobody = 0
           /\ active <= MaxSpawns /\ socket <= MaxSpawns /\ spawned <= MaxSpawns
           /\ Providers = 1 .. MaxSpawns /\ MaxSpawns \in Nat /\ Providers \subseteq Nat \ {0}
           /\ (active # Nobody => active \in Providers) /\ (socket # Nobody => socket \in Providers)
           /\ backlog \in Seq(Providers) /\ Len(backlog) \in Nat
           /\ \A i \in 1 .. Len(backlog) : backlog[i] \in Providers
<1>1. /\ active \in 0 .. MaxSpawns /\ socket \in 0 .. MaxSpawns /\ spawned \in 0 .. MaxSpawns
      /\ backlog \in Seq(Providers) /\ MaxSpawns \in Nat
  BY BoundsAreNat DEF SupervisorInv, SupervisorTypeOK
<1>2. Nobody = 0 /\ Providers = 1 .. MaxSpawns
  BY DEF Nobody, Providers
<1>3. Len(backlog) \in Nat /\ \A i \in 1 .. Len(backlog) : backlog[i] \in Providers
  BY <1>1
<1> QED
  BY <1>1, <1>2, <1>3

\* A provider that is served was started and has registered; if it is alive it
\* is the active one and nobody waits behind it.
LEMMA ServedProvider ==
    ASSUME SupervisorInv
    PROVE  /\ Alive(socket) => Runs(socket) /\ socket = active
           /\ Nobody \notin Connections /\ Connections \subseteq Providers
           /\ socket = active /\ active # Nobody => Len(backlog) = 0
<1>1. /\ OnlyActiveRuns /\ ProvidersFit /\ LoopFits /\ CallerFits /\ BacklogFits
  BY InvParts
<1>2. /\ (socket # Nobody => socket \in Providers) /\ Nobody \notin Providers
      /\ \A i \in 1 .. Len(backlog) : backlog[i] \in Providers
      /\ Len(backlog) \in Nat /\ spawned \in Nat /\ Providers \subseteq Nat
  BY ProviderNumbers
<1>3. ASSUME Alive(socket) PROVE Runs(socket) /\ socket = active
  <2>1. socket \in Providers /\ provider[socket] # "dead"
    BY <1>2, <1>3 DEF Alive
  <2>2. provider[socket] # "none"
    BY <1>1, <2>1 DEF ProvidersFit, Unregistered
  <2> QED
    BY <1>1, <2>1, <2>2 DEF Runs, OnlyActiveRuns
<1>4. Connections \subseteq Providers
  BY <1>1, <1>2 DEF Connections, LoopFits
<1>5. ASSUME socket = active, active # Nobody, Len(backlog) # 0 PROVE FALSE
  <2>1. socket < backlog[1] /\ backlog[1] <= spawned /\ socket = spawned
    BY <1>1, <1>2, <1>5 DEF BacklogFits, CallerFits
  <2>2. backlog[1] \in Nat
    <3>1. 1 \in 1 .. Len(backlog)
      BY <1>2, <1>5
    <3> QED
      BY <3>1, <1>2
  <2> QED
    BY <2>1, <2>2, <1>2
<1> QED
  BY <1>2, <1>3, <1>4, <1>5

\* A step that leaves the types of what it changes alone.
LEMMA RequestTypes ==
    ASSUME SupervisorInv
    PROVE  /\ request # <<>> => /\ request = <<request[1]>> /\ request[1] \in Requests
                                /\ request[1].job \in Jobs /\ Stored = {request[1].job}
                                /\ MovedOut \in {<<r>> : r \in Requests}
                                /\ MovedOut # <<>> /\ MovedOut[1].job = request[1].job
           /\ request = <<>> => Stored = {}
           /\ result # <<>> => result = <<result[1]>> /\ result[1] \in Messages
<1>1. /\ request \in {<<>>} \cup {<<r>> : r \in Requests}
      /\ result \in {<<>>} \cup {<<m>> : m \in Messages}
  BY DEF SupervisorInv, SupervisorTypeOK
<1>2. ASSUME request # <<>>
      PROVE  /\ request = <<request[1]>> /\ request[1] \in Requests
             /\ request[1].job \in Jobs /\ Stored = {request[1].job}
             /\ MovedOut \in {<<r>> : r \in Requests}
             /\ MovedOut # <<>> /\ MovedOut[1].job = request[1].job
  <2>1. PICK r \in Requests : request = <<r>>
    BY <1>1, <1>2
  <2>2. [r EXCEPT !.args = FALSE] \in Requests /\ [r EXCEPT !.args = FALSE].job = r.job
        /\ r.job \in Jobs
    BY DEF Requests
  <2>3. MovedOut = <<[r EXCEPT !.args = FALSE]>>
    BY <2>1 DEF MovedOut
  <2> QED
    BY <2>1, <2>2, <2>3 DEF Stored
<1> QED
  BY <1>1, <1>2 DEF Stored

\* The request is stored.
LEMMA StoreKeeps ==
    ASSUME SupervisorInv, store_request
    PROVE  SupervisorInv'
<1>1. /\ SupervisorTypeOK /\ CallerFits /\ LoopFits /\ OthersFit /\ BusyFits /\ OneEach
      /\ JobsOK /\ InOrder /\ QueueInOrder /\ Begun /\ LateOnesExcused /\ ReturnedOK
  BY InvParts
<1>2. /\ caller = "checked" /\ request' = <<[job |-> job, args |-> TRUE]>> /\ result' = <<>>
      /\ caller' \in {"transmitting", "spawning"} /\ (caller' = "transmitting" <=> active # Nobody)
      /\ UNCHANGED <<state, active, job, outcome, socket, backlog, loop, provider, calls,
                     sent, spawned, deaths>>
  BY DEF store_request, Unshared
<1>3. /\ job \in Nat /\ Jobs \subseteq Nat \ {0} /\ job \in Jobs /\ ~Done(job)
  BY <1>2, JobFacts
<1>4. /\ request' # <<>> /\ request'[1].job = job /\ Stored' = {job}
      /\ request' \in {<<r>> : r \in Requests}
  <2>1. [job |-> job, args |-> TRUE] \in Requests
    BY <1>3 DEF Requests
  <2> QED
    BY <1>2, <2>1 DEF Stored
<1>5. SupervisorTypeOK'
  BY <1>1, <1>2, <1>4 DEF SupervisorTypeOK, Callers
<1>6. ProvidersOK'
  BY <1>2, ProvidersKept
<1>7. \A p : Unread(p)' = Unread(p) /\ Results(p)' = Results(p) /\ Runs(p)' = Runs(p)
  BY <1>2, UnreadKept DEF Runs
<1>8. /\ Others' = Others /\ Connections' = Connections /\ state = "IDLE" /\ loop # "writing"
  BY <1>1, <1>2 DEF CallerFits, LoopFits, Others, Connections
<1>9. CallerFits'
  BY <1>1, <1>2, <1>4, <1>8 DEF CallerFits
<1>10. LoopFits'
  BY <1>1, <1>2, <1>7, <1>8 DEF LoopFits, Alive
<1>11. OthersFit'
  BY <1>1, <1>2, <1>7, <1>8 DEF OthersFit
<1>12. BusyFits'
  BY <1>1, <1>2, <1>7, <1>8 DEF BusyFits
<1>13. OneEach'
  BY <1>1, <1>2, <1>7 DEF OneEach
<1>14. /\ Returned' = Returned /\ InSlot' = {} /\ InQueue' = InQueue /\ Called' = Called
       /\ QueueInOrder'
  BY <1>1, <1>2 DEF Returned, InSlot, InQueue, Called, QueueInOrder, Results, Alive
<1>15. \A i : Done(i)' = Done(i) /\ Excused(i)' = Excused(i)
  BY <1>2 DEF Done, Excused
<1>16. OrderOK'
  <2>1. JobsOK'
    BY <1>1, <1>2, <1>3, <1>15 DEF JobsOK
  <2>2. ASSUME NEW i \in InQueue \cup Called PROVE i < job
    <3>1. i \in Jobs /\ i <= job /\ i # job
      BY <1>1, <1>2 DEF Begun
    <3>2. i \in Nat
      BY <3>1, <1>3
    <3> QED
      BY <3>1, <3>2, <1>3
  <2>3. ASSUME NEW i \in Returned PROVE i < job
    <3>1. PICK k \in Jobs : outcome[k].kind = "result" /\ i = outcome[k].call.job
      BY DEF Returned
    <3>2. k < job
      BY <1>1, <1>3, <3>1 DEF JobsOK, Done
    <3>3. i \in Jobs /\ (i = k \/ i < k)
      BY <1>1, <3>1 DEF ReturnedOK, Begun
    <3> QED
      BY <3>2, <3>3, <1>3
  <2>4. InOrder'
    BY <1>1, <1>4, <1>14, <2>2, <2>3 DEF InOrder, Before
  <2>5. Begun'
    BY <1>1, <1>2, <1>3, <1>4, <1>14 DEF Begun
  <2>6. LateOnesExcused'
    BY <1>1, <1>2, <1>3, <1>4, <1>14, <1>15 DEF LateOnesExcused, Excused
  <2>7. ReturnedOK'
    BY <1>1, <1>2 DEF ReturnedOK
  <2> QED
    BY <2>1, <2>4, <2>5, <2>6, <2>7, <1>14 DEF OrderOK
<1> QED
  BY <1>5, <1>6, <1>9, <1>10, <1>11, <1>12, <1>13, <1>16 DEF SupervisorInv, ThreadsOK

\* The request is about to be written to the provider at hand.
LEMMA TransmitKeeps ==
    ASSUME SupervisorInv, transmit_to_active
    PROVE  SupervisorInv'
<1>1. /\ SupervisorTypeOK /\ CallerFits /\ LoopFits /\ OthersFit /\ BusyFits /\ OneEach
      /\ QueueInOrder
  BY InvParts
<1>2. /\ caller = "transmitting" /\ state' = "AWAITING_RESULT" /\ caller' = "writing"
      /\ UNCHANGED <<request, active, result, job, outcome, socket, backlog, loop, provider,
                     calls, sent, spawned, deaths>>
  BY DEF transmit_to_active, begin_transmit, Unshared
<1>3. SupervisorTypeOK'
  BY <1>1, <1>2 DEF SupervisorTypeOK, Callers, States
<1>4. ProvidersOK'
  BY <1>2, ProvidersKept
<1>5. \A p : Unread(p)' = Unread(p) /\ Results(p)' = Results(p) /\ Runs(p)' = Runs(p)
  BY <1>2, UnreadKept DEF Runs
<1>6. /\ Others' = Others /\ Connections' = Connections /\ state = "IDLE" /\ loop # "writing"
  BY <1>1, <1>2 DEF CallerFits, LoopFits, Others, Connections
<1>7. CallerFits'
  BY <1>1, <1>2, <1>6 DEF CallerFits
<1>8. LoopFits'
  BY <1>1, <1>2, <1>5, <1>6 DEF LoopFits, Alive
<1>9. OthersFit'
  BY <1>1, <1>2, <1>5, <1>6 DEF OthersFit
<1>10. BusyFits'
  BY <1>1, <1>2, <1>5, <1>6 DEF BusyFits
<1>11. OneEach'
  BY <1>1, <1>2, <1>5 DEF OneEach
<1>12. OrderOK'
  <2>1. job # 0
    BY <1>2, JobFacts
  <2> QED
    BY <1>1, <1>2, <2>1, PlacesKept, OrderKept
<1> QED
  BY <1>3, <1>4, <1>7, <1>8, <1>9, <1>10, <1>11, <1>12 DEF SupervisorInv, ThreadsOK

\* A registration is awaited.
LEMMA AwaitKeeps ==
    ASSUME SupervisorInv, await_registration
    PROVE  SupervisorInv'
<1>1. /\ SupervisorTypeOK /\ CallerFits /\ LoopFits /\ OthersFit /\ QueueInOrder
  BY InvParts
<1>2. /\ caller = "spawning" /\ state' = "AWAITING_REGISTRATION" /\ caller' = "pulling"
      /\ UNCHANGED <<request, active, result, job, outcome, socket, backlog, loop, provider,
                     calls, sent, spawned, deaths>>
  BY DEF await_registration, Unshared
<1>3. SupervisorTypeOK'
  BY <1>1, <1>2 DEF SupervisorTypeOK, Callers, States
<1>4. ProvidersOK'
  BY <1>2, ProvidersKept
<1>5. \A p : Unread(p)' = Unread(p) /\ Results(p)' = Results(p) /\ Runs(p)' = Runs(p)
  BY <1>2, UnreadKept DEF Runs
<1>6. /\ Others' = Others /\ Connections' = Connections /\ active = Nobody /\ loop # "writing"
  BY <1>1, <1>2 DEF CallerFits, LoopFits, Others, Connections
<1>7. CallerFits'
  BY <1>1, <1>2, <1>6 DEF CallerFits
<1>8. LoopFits'
  BY <1>1, <1>2, <1>5, <1>6 DEF LoopFits, Alive
<1>9. OthersFit'
  BY <1>1, <1>2, <1>5, <1>6 DEF OthersFit
<1>10. BusyFits' /\ OneEach'
  BY <1>2, <1>6 DEF BusyFits, OneEach
<1>11. OrderOK'
  <2>1. job # 0
    BY <1>2, JobFacts
  <2> QED
    BY <1>1, <1>2, <2>1, PlacesKept, OrderKept
<1> QED
  BY <1>3, <1>4, <1>7, <1>8, <1>9, <1>10, <1>11 DEF SupervisorInv, ThreadsOK

\* A request is written: what is stored becomes a call, if the provider that is
\* connected is alive to take it.
LEMMA WriteKeepsOrder ==
    ASSUME SupervisorInv, UNCHANGED <<active, result, job, outcome, socket, provider, sent>>,
           caller' \in {"free", "ended"} <=> caller \in {"free", "ended"},
           job # 0 \/ caller' \in {"free", "ended"}, caller' # "checked",
           request # <<>>, socket # Nobody,
           Alive(socket) => calls[socket] = <<>>,
           calls' = [calls EXCEPT ![socket] = Append(@, request[1])], request' = <<>>
    PROVE  OrderOK'
<1>1. /\ JobsOK /\ InOrder /\ QueueInOrder /\ Begun /\ LateOnesExcused /\ ReturnedOK
      /\ SupervisorTypeOK /\ socket \in Providers
  BY InvParts, ProviderNumbers
<1>2. /\ Returned' = Returned /\ InSlot' = InSlot /\ InQueue' = InQueue /\ Stored' = {}
      /\ QueueInOrder'
  BY <1>1 DEF Returned, InSlot, InQueue, Stored, QueueInOrder, Results
<1>3. \A i : Done(i)' = Done(i) /\ Excused(i)' = Excused(i)
  BY DEF Done, Excused
<1>4. ASSUME NEW c \in Called' PROVE Alive(socket) /\ c \in Stored
  <2>1. Alive(socket)
    BY <1>4 DEF Called, Alive
  <2>2. request[1] \in Requests /\ Stored = {request[1].job}
    BY RequestTypes
  <2>3. calls'[socket] = <<request[1]>>
    BY <1>1, <2>1, <2>2 DEF SupervisorTypeOK
  <2>4. Called' = {<<request[1]>>[i].job : i \in 1 .. Len(<<request[1]>>)}
    BY <2>1, <2>3 DEF Called, Alive
  <2>5. Len(<<request[1]>>) = 1 /\ <<request[1]>>[1] = request[1]
    OBVIOUS
  <2> QED
    BY <1>4, <2>1, <2>2, <2>4, <2>5
<1>5. ASSUME NEW c \in Called' PROVE Excused(c)
  <2>1. Runs(socket) /\ socket = active
    BY <1>4, ServedProvider
  <2> QED
    BY <1>1, <1>4, <2>1 DEF LateOnesExcused, Runs
<1>6. JobsOK'
  BY <1>1, <1>3 DEF JobsOK
<1>7. InOrder'
  BY <1>1, <1>2, <1>4 DEF InOrder, Before
<1>8. Begun'
  BY <1>1, <1>2, <1>4 DEF Begun
<1>9. LateOnesExcused'
  BY <1>1, <1>2, <1>3, <1>5 DEF LateOnesExcused
<1>10. ReturnedOK'
  BY <1>1 DEF ReturnedOK
<1> QED
  BY <1>2, <1>6, <1>7, <1>8, <1>9, <1>10 DEF OrderOK

\* The same for the providers: only the one at the other end of the socket has
\* another call.
LEMMA WriteKeepsProviders ==
    ASSUME SupervisorInv, UNCHANGED <<active, result, socket, backlog, provider, sent, spawned>>,
           request # <<>>, socket # Nobody,
           calls' = [calls EXCEPT ![socket] = Append(@, request[1])]
    PROVE  /\ ProvidersOK' /\ calls' \in [Providers -> Seq(Requests)]
           /\ calls'[socket] = Append(calls[socket], request[1])
           /\ calls'[socket] # <<>>
           /\ calls[socket] = <<>> => Len(calls'[socket]) = 1
           /\ \A p \in Providers : p # socket => calls'[p] = calls[p]
<1>1. /\ MessagesOK /\ OnlyActiveRuns /\ ProvidersFit /\ BacklogFits /\ SupervisorTypeOK
  BY InvParts
<1>2. /\ socket \in Providers /\ socket \in Nat /\ Len(backlog) \in Nat
      /\ \A i \in 1 .. Len(backlog) : backlog[i] \in Providers
      /\ Providers \subseteq Nat
  BY ProviderNumbers
<1>3. calls \in [Providers -> Seq(Requests)] /\ request[1] \in Requests
  BY <1>1, RequestTypes DEF SupervisorTypeOK
<1>4. /\ calls' \in [Providers -> Seq(Requests)] /\ calls'[socket] = Append(calls[socket], request[1])
      /\ \A p \in Providers : p # socket => calls'[p] = calls[p]
  BY <1>2, <1>3
<1>5. calls'[socket] # <<>> /\ (calls[socket] = <<>> => Len(calls'[socket]) = 1)
  BY <1>2, <1>3, <1>4
<1>6. \A p : Results(p)' = Results(p) /\ Runs(p)' = Runs(p)
  BY DEF Results, Runs
<1>7. MessagesOK' /\ OnlyActiveRuns'
  BY <1>1, <1>6 DEF MessagesOK, OnlyActiveRuns
<1>8. ProvidersFit'
  BY <1>1, <1>2, <1>4, <1>5 DEF ProvidersFit, Unregistered
<1>9. BacklogFits'
  <2>1. ASSUME NEW i \in 1 .. Len(backlog) PROVE backlog[i] \in Providers /\ backlog[i] # socket
    BY <1>1, <1>2 DEF BacklogFits
  <2> QED
    BY <1>1, <1>4, <1>6, <2>1 DEF BacklogFits
<1> QED
  BY <1>4, <1>5, <1>7, <1>8, <1>9 DEF ProvidersOK

\* The write to the provider at hand.
LEMMA WriteKeeps ==
    ASSUME SupervisorInv, write_to_active
    PROVE  SupervisorInv'
<1>1. /\ SupervisorTypeOK /\ CallerFits /\ LoopFits /\ OthersFit /\ BusyFits /\ OneEach
      /\ QueueInOrder
  BY InvParts
<1>2. /\ caller = "writing"
      /\ UNCHANGED <<state, active, result, job, outcome, socket, backlog, loop,
                     provider, sent, spawned, deaths>>
      /\ \/ /\ socket # Nobody /\ request' = <<>> /\ caller' = "consuming"
            /\ calls' = [calls EXCEPT ![socket] = Append(@, request[1])]
         \/ /\ ~Alive(socket) /\ request' = MovedOut /\ caller' = "respawning" /\ calls' = calls
  BY DEF write_to_active, WriteOutcomes, Alive
<1>3. \A p : Unread(p)' = Unread(p) /\ Results(p)' = Results(p) /\ Runs(p)' = Runs(p)
  BY <1>2, UnreadKept DEF Runs
<1>4. /\ Others' = Others /\ Connections' = Connections /\ active # Nobody /\ loop # "writing"
      /\ request # <<>> /\ job # 0
  BY <1>1, <1>2, JobFacts DEF CallerFits, LoopFits, Others, Connections
<1>5. /\ Unread(active) = {} /\ (Runs(active) => calls[active] = <<>> /\ state = "AWAITING_RESULT")
  BY <1>1, <1>2, <1>4 DEF BusyFits, CallerFits
<1>6. LoopFits'
  BY <1>1, <1>2, <1>3, <1>4 DEF LoopFits, Alive
<1>7. OthersFit'
  BY <1>1, <1>2, <1>3, <1>4 DEF OthersFit
<1>8. CASE /\ socket # Nobody /\ request' = <<>> /\ caller' = "consuming"
           /\ calls' = [calls EXCEPT ![socket] = Append(@, request[1])]
  <2>1. /\ ProvidersOK' /\ calls' \in [Providers -> Seq(Requests)]
        /\ calls[socket] = <<>> => Len(calls'[socket]) = 1
        /\ \A p \in Providers : p # socket => calls'[p] = calls[p]
    BY <1>2, <1>4, <1>8, WriteKeepsProviders
  <2>2. Alive(socket) => socket = active /\ Runs(active)
    BY ServedProvider
  <2>3. OrderOK'
    BY <1>2, <1>4, <1>5, <1>8, <2>2, WriteKeepsOrder
  <2>4. SupervisorTypeOK'
    BY <1>1, <1>2, <1>8, <2>1 DEF SupervisorTypeOK, Callers
  <2>5. CallerFits'
    BY <1>1, <1>2, <1>3, <1>4, <1>8 DEF CallerFits
  <2>6. active \in Providers
    BY <1>4, ProviderNumbers
  <2>7. BusyFits'
    <3> SUFFICES ASSUME Runs(active), calls'[active] # <<>>
                 PROVE  state = "AWAITING_RESULT" /\ socket = active /\ loop \in {"reading", "producing"}
      BY <1>2, <1>3, <1>5, <1>8 DEF BusyFits
    <3>1. socket = active
      BY <1>5, <2>1, <2>6
    <3>2. Alive(socket)
      BY <1>8, <3>1 DEF Alive, Runs
    <3> QED
      BY <1>1, <1>4, <1>5, <3>1, <3>2 DEF LoopFits
  <2>8. OneEach'
    <3>1. ASSUME Runs(active) PROVE Len(calls'[active]) <= 1
      <4>1. CASE socket = active
        <5>1. calls[socket] = <<>>
          BY <1>5, <3>1, <4>1
        <5>2. Len(calls'[socket]) = 1
          BY <2>1, <5>1
        <5> QED
          BY <4>1, <5>2
      <4>2. CASE socket # active
        BY <1>1, <1>4, <2>1, <2>6, <3>1, <4>2 DEF OneEach
      <4> QED
        BY <4>1, <4>2
    <3> QED
      BY <1>2, <1>3, <1>5, <3>1 DEF OneEach
  <2> QED
    BY <1>6, <1>7, <2>1, <2>3, <2>4, <2>5, <2>7, <2>8 DEF SupervisorInv, ThreadsOK
<1>9. CASE /\ ~Alive(socket) /\ request' = MovedOut /\ caller' = "respawning" /\ calls' = calls
  <2>1. /\ request' \in {<<r>> : r \in Requests} /\ request' # <<>> /\ request'[1].job = request[1].job
        /\ Stored = {request[1].job}
    BY <1>4, <1>9, RequestTypes
  <2>2. SupervisorTypeOK'
    BY <1>1, <1>2, <1>9, <2>1 DEF SupervisorTypeOK, Callers
  <2>3. ProvidersOK'
    BY <1>2, <1>9, ProvidersKept
  <2>4. CallerFits'
    BY <1>1, <1>2, <1>3, <1>4, <1>9, <2>1 DEF CallerFits
  <2>5. BusyFits' /\ OneEach'
    BY <1>1, <1>2, <1>3, <1>5, <1>9 DEF BusyFits, OneEach
  <2>6. OrderOK'
    <3>1. /\ InSlot' = InSlot /\ InQueue' = InQueue /\ Called' = Called /\ Stored' = Stored
          /\ QueueInOrder'
      BY <1>1, <1>2, <1>9, <2>1 DEF InSlot, InQueue, Called, Stored, QueueInOrder, Results, Alive
    <3> QED
      BY <1>2, <1>4, <1>9, <3>1, OrderKept
  <2> QED
    BY <1>6, <1>7, <2>2, <2>3, <2>4, <2>5, <2>6 DEF SupervisorInv, ThreadsOK
<1> QED
  BY <1>2, <1>8, <1>9

\* The active provider is stopped: no provider runs.
LEMMA StopKeepsProviders ==
    ASSUME SupervisorInv,
           \/ active # Nobody /\ Stop(active)
           \/ active = Nobody /\ provider' = provider,
           UNCHANGED <<result, socket, backlog, calls, sent, spawned>>, active' = Nobody
    PROVE  /\ ProvidersOK' /\ (Alive(socket)' => Alive(socket)) /\ Called' \subseteq Called
           /\ (socket = active => ~Alive(socket)')
           /\ provider' \in [Providers -> {"none", "starting", "idle", "working", "reported", "dead"}]
<1>1. /\ MessagesOK /\ OnlyActiveRuns /\ ProvidersFit /\ BacklogFits /\ SupervisorTypeOK /\ CallerFits
  BY InvParts
<1>2. /\ socket # Nobody => socket \in Providers
      /\ Nobody \notin Providers /\ spawned \in Nat /\ Providers \subseteq Nat
  BY ProviderNumbers
<1>3. /\ provider' \in [Providers -> {"none", "starting", "idle", "working", "reported", "dead"}]
      /\ \A p \in Providers : provider'[p] = IF p = active THEN "dead" ELSE provider[p]
  BY <1>1, <1>2 DEF Stop, SupervisorTypeOK
<1>4. \A p : Results(p)' = Results(p)
  BY DEF Results
<1>5. \A p \in Providers : ~Runs(p)'
  BY <1>1, <1>3 DEF Runs, OnlyActiveRuns
<1>6. (Alive(socket)' => Alive(socket)) /\ (socket = active => ~Alive(socket)')
  BY <1>2, <1>3 DEF Alive
<1>7. MessagesOK'
  BY <1>1, <1>4 DEF MessagesOK
<1>8. OnlyActiveRuns'
  BY <1>5 DEF OnlyActiveRuns
<1>9. ProvidersFit'
  <2>1. ASSUME NEW p \in Providers, p > spawned PROVE p # active
    BY <1>1, <1>2, <2>1 DEF CallerFits
  <2> QED
    BY <1>1, <1>3, <2>1 DEF ProvidersFit, Unregistered
<1>10. BacklogFits'
  BY <1>1, <1>4 DEF BacklogFits
<1>11. Called' \subseteq Called
  BY <1>6 DEF Called
<1> QED
  BY <1>3, <1>6, <1>7, <1>8, <1>9, <1>10, <1>11 DEF ProvidersOK

\* The provider that did not take the request is stopped.
LEMMA StopKeeps ==
    ASSUME SupervisorInv, stop_provider
    PROVE  SupervisorInv'
<1>1. /\ SupervisorTypeOK /\ CallerFits /\ LoopFits /\ OthersFit /\ BusyFits /\ QueueInOrder
  BY InvParts
<1>2. /\ caller = "respawning" /\ Stop(active) /\ active' = Nobody /\ caller' = "spawning"
      /\ UNCHANGED <<state, request, result, socket, backlog, loop, job, outcome, calls, sent,
                     spawned, deaths>>
  BY DEF stop_provider
<1>3. active # Nobody /\ loop # "writing" /\ Connections' = Connections /\ job # 0
  BY <1>1, <1>2, JobFacts DEF CallerFits, LoopFits, Connections
<1>4. /\ ProvidersOK' /\ (Alive(socket)' => Alive(socket)) /\ Called' \subseteq Called
      /\ provider' \in [Providers -> {"none", "starting", "idle", "working", "reported", "dead"}]
  BY <1>2, <1>3, StopKeepsProviders
<1>5. SupervisorTypeOK'
  <2>1. active' \in 0 .. MaxSpawns
    BY <1>2, BoundsAreNat DEF Nobody
  <2> QED
    BY <1>1, <1>2, <1>4, <2>1 DEF SupervisorTypeOK, Callers
<1>6. \A p : Unread(p)' = Unread(p) /\ Results(p)' = Results(p)
  BY <1>2, UnreadKept
<1>7. CallerFits'
  BY <1>1, <1>2, <1>3 DEF CallerFits
<1>8. LoopFits'
  BY <1>1, <1>2, <1>3, <1>4, <1>6 DEF LoopFits
<1>9. OthersFit'
  <2>1. Others = {} /\ Unread(active) = {} /\ (state = "IDLE" => Connections = {})
    BY <1>1, <1>2, <1>3 DEF OthersFit, BusyFits, CallerFits
  <2>2. Others' \subseteq {active} /\ (Connections = {} => Others' = {})
    BY <1>2, <1>3, <2>1 DEF Others
  <2> QED
    BY <1>2, <1>6, <2>1, <2>2 DEF OthersFit
<1>10. BusyFits' /\ OneEach'
  BY <1>2 DEF BusyFits, OneEach
<1>11. OrderOK'
  <2>1. InSlot' = InSlot /\ InQueue' = InQueue /\ Stored' = Stored /\ QueueInOrder'
    BY <1>1, <1>2 DEF InSlot, InQueue, Stored, QueueInOrder, Results
  <2> QED
    BY <1>2, <1>3, <1>4, <2>1, OrderKept
<1> QED
  BY <1>4, <1>5, <1>7, <1>8, <1>9, <1>10, <1>11 DEF SupervisorInv, ThreadsOK

\* The thread ends.
LEMMA TerminateKeeps ==
    ASSUME SupervisorInv, terminate
    PROVE  SupervisorInv'
<1>1. /\ SupervisorTypeOK /\ CallerFits /\ LoopFits /\ QueueInOrder
  BY InvParts
<1>2. /\ caller = "free" /\ state' = "TERMINATED" /\ active' = Nobody /\ caller' = "ended"
      /\ \/ active # Nobody /\ Stop(active)
         \/ active = Nobody /\ provider' = provider
      /\ UNCHANGED <<request, result, socket, backlog, loop, job, outcome, calls, sent,
                     spawned, deaths>>
  BY DEF terminate
<1>3. /\ ProvidersOK' /\ (Alive(socket)' => Alive(socket)) /\ Called' \subseteq Called
      /\ (socket = active => ~Alive(socket)')
      /\ provider' \in [Providers -> {"none", "starting", "idle", "working", "reported", "dead"}]
  BY <1>2, StopKeepsProviders
<1>4. SupervisorTypeOK'
  <2>1. active' \in 0 .. MaxSpawns
    BY <1>2, BoundsAreNat DEF Nobody
  <2> QED
    BY <1>1, <1>2, <1>3, <2>1 DEF SupervisorTypeOK, Callers, States
<1>5. \A p : Results(p)' = Results(p)
  BY <1>2 DEF Results
<1>6. CallerFits'
  BY <1>2 DEF CallerFits
<1>7. LoopFits'
  BY <1>1, <1>2, <1>3, <1>5 DEF LoopFits
<1>8. OthersFit' /\ BusyFits' /\ OneEach'
  BY <1>2 DEF OthersFit, BusyFits, OneEach
<1>9. OrderOK'
  <2>1. InSlot' = InSlot /\ InQueue' = InQueue /\ Stored' = Stored /\ QueueInOrder'
    BY <1>1, <1>2 DEF InSlot, InQueue, Stored, QueueInOrder, Results
  <2> QED
    BY <1>2, <1>3, <2>1, OrderKept
<1> QED
  BY <1>3, <1>4, <1>6, <1>7, <1>8, <1>9 DEF SupervisorInv, ThreadsOK

\* The job at hand ends with an outcome: those before it keep theirs.
LEMMA JobEnds ==
    ASSUME SupervisorInv, caller \notin {"free", "ended"}, UNCHANGED job, caller' = "free",
           NEW m \in Messages, m.kind # "pending", outcome' = [outcome EXCEPT ![job] = m]
    PROVE  /\ JobsOK' /\ outcome' \in [Jobs -> Messages] /\ outcome'[job] = m
           /\ job \in Jobs /\ Jobs \subseteq Nat \ {0} /\ Jobs = 1 .. Len(ImageOf)
           /\ \A i \in Jobs : i # job => outcome'[i] = outcome[i]
           /\ \A i \in Jobs : outcome[i].kind # "pending" => i < job
           /\ \A i \in Jobs : i < job /\ Excused(i) => Excused(i)'
           /\ \A i \in Jobs : i < job /\ Excused(i) => \E f \in 1 .. i : outcome'[f] = ImplicitFailure
<1>1. /\ job \in Nat /\ Jobs \subseteq Nat \ {0} /\ Jobs = 1 .. Len(ImageOf) /\ job \in Jobs
      /\ ~Done(job) /\ outcome \in [Jobs -> Messages] /\ JobsOK
  BY JobFacts, InvParts
<1>2. /\ outcome' \in [Jobs -> Messages] /\ outcome'[job] = m
      /\ \A i \in Jobs : i # job => outcome'[i] = outcome[i]
  BY <1>1
<1>3. ASSUME NEW i \in Jobs, outcome[i].kind # "pending" PROVE i < job
  <2>1. Done(i)
    BY <1>3 DEF Done
  <2>2. i # job /\ ~(i > job)
    BY <1>1, <2>1 DEF JobsOK
  <2> QED
    BY <1>1, <2>2
<1>4. JobsOK'
  <2>1. Done(job)'
    BY <1>2 DEF Done
  <2>2. \A i \in Jobs : i # job => (Done(i)' <=> Done(i))
    BY <1>2 DEF Done
  <2> QED
    BY <1>1, <2>1, <2>2 DEF JobsOK
<1>5. ASSUME NEW i \in Jobs, i < job, Excused(i)
      PROVE  \E f \in 1 .. i : outcome'[f] = ImplicitFailure
  <2>1. Done(i)
    BY <1>1, <1>5 DEF JobsOK
  <2>2. PICK f \in 1 .. i : outcome[f] = ImplicitFailure
    BY <1>5, <2>1 DEF Excused
  <2>3. f \in Jobs /\ f # job
    BY <1>1, <1>5
  <2>4. outcome'[f] = ImplicitFailure
    BY <1>2, <2>2, <2>3
  <2> QED
    BY <2>4
<1>6. ASSUME NEW i \in Jobs, i < job, Excused(i) PROVE Excused(i)'
  BY <1>5, <1>6 DEF Excused
<1> QED
  BY <1>1, <1>2, <1>3, <1>4, <1>5, <1>6

\* The results returned before stay what they were.
LEMMA ReturnedStays ==
    ASSUME SupervisorInv, caller \notin {"free", "ended"}, UNCHANGED job, caller' = "free",
           NEW m \in Messages, m.kind # "pending", outcome' = [outcome EXCEPT ![job] = m],
           NEW j \in Jobs, j # job, outcome'[j].kind = "result"
    PROVE  /\ outcome'[j].call \in Requests
           /\ \/ outcome'[j].call.job = j
              \/ /\ outcome'[j].call.job < j
                 /\ \E f \in 1 .. outcome'[j].call.job : outcome'[f] = ImplicitFailure
           /\ \A k \in 1 .. j - 1 : outcome'[k].kind = "result" =>
                 outcome'[k].call.job < outcome'[j].call.job
<1>1. /\ job \in Jobs /\ Jobs \subseteq Nat \ {0} /\ Jobs = 1 .. Len(ImageOf)
      /\ \A i \in Jobs : i # job => outcome'[i] = outcome[i]
      /\ \A i \in Jobs : outcome[i].kind # "pending" => i < job
  BY JobEnds
<1>2. ReturnedOK
  BY InvParts
<1>3. outcome'[j] = outcome[j] /\ outcome[j].kind = "result" /\ j < job
  BY <1>1
<1>4. \A k \in 1 .. j - 1 : k \in Jobs /\ outcome'[k] = outcome[k]
  BY <1>1, <1>3
<1>5. /\ outcome[j].call \in Requests
      /\ \/ outcome[j].call.job = j
         \/ /\ outcome[j].call.job < j
            /\ \E f \in 1 .. outcome[j].call.job : outcome[f] = ImplicitFailure
      /\ \A k \in 1 .. j - 1 : outcome[k].kind = "result" =>
             outcome[k].call.job < outcome[j].call.job
  BY <1>2, <1>3 DEF ReturnedOK
<1>6. ASSUME outcome[j].call.job < j, NEW f \in 1 .. outcome[j].call.job,
             outcome[f] = ImplicitFailure
      PROVE  outcome'[f] = ImplicitFailure
  <2>1. outcome[j].call.job \in Jobs
    BY <1>5 DEF Requests
  <2>2. f \in 1 .. j - 1
    BY <1>1, <1>6, <2>1
  <2> QED
    BY <1>4, <1>6, <2>2
<1> QED
  BY <1>3, <1>4, <1>5, <1>6

\* A provider is started, or Docker refuses to.
LEMMA SpawnKeeps ==
    ASSUME SupervisorInv, spawn_provider
    PROVE  SupervisorInv'
<1>1. /\ SupervisorTypeOK /\ MessagesOK /\ OnlyActiveRuns /\ ProvidersFit /\ BacklogFits
      /\ CallerFits /\ LoopFits /\ OthersFit
      /\ JobsOK /\ InOrder /\ QueueInOrder /\ Begun /\ LateOnesExcused /\ ReturnedOK
  BY InvParts
<1>2. PICK p : p = spawned + 1
  OBVIOUS
<1>3. /\ caller = "pulling" /\ spawned < MaxSpawns /\ active' = p /\ spawned' = p
      /\ UNCHANGED <<state, request, result, socket, backlog, loop, job, calls, sent>>
      /\ \/ /\ provider' = [provider EXCEPT ![p] = "starting"] /\ caller' = "consuming"
            /\ outcome' = outcome /\ deaths' = deaths
         \/ /\ deaths < MaxDeaths /\ deaths' = deaths + 1 /\ provider' = provider
            /\ outcome' = [outcome EXCEPT ![job] = Message("docker_error", NoRequest)]
            /\ caller' = "free"
  BY <1>2 DEF spawn_provider, Finish
<1>4. /\ p \in Providers /\ p \in 0 .. MaxSpawns /\ p > spawned /\ p # Nobody /\ spawned \in Nat
      /\ Providers \subseteq Nat \ {0} /\ Nobody = 0 /\ Len(backlog) \in Nat
      /\ \A i \in 1 .. Len(backlog) : backlog[i] \in Providers
      /\ p \in Nat
  BY <1>2, <1>3, ProviderNumbers
<1>5. active = Nobody /\ loop # "writing" /\ request # <<>> /\ request[1].job = job /\ job # 0
  BY <1>1, <1>3, JobFacts DEF CallerFits, LoopFits
<1>6. provider[p] = "none" /\ Unregistered(p) /\ Results(p) = {}
  <2>1. provider[p] = "none" /\ Unregistered(p)
    BY <1>1, <1>4 DEF ProvidersFit
  <2> QED
    BY <2>1 DEF Unregistered, Results, ResultsIn
<1>7. /\ provider' \in [Providers -> {"none", "starting", "idle", "working", "reported", "dead"}]
      /\ \A q \in Providers : q # p => provider'[q] = provider[q]
      /\ provider'[p] \in {"none", "starting"}
      /\ provider'[p] = "starting" => caller' = "consuming" /\ outcome' = outcome
  BY <1>1, <1>3, <1>4, <1>6 DEF SupervisorTypeOK
<1>8. \A q : Unread(q)' = Unread(q) /\ Results(q)' = Results(q)
  BY <1>3, UnreadKept
<1>9. ProvidersOK'
  <2>1. \A q \in Providers : q # p => ~Runs(q)'
    BY <1>1, <1>4, <1>5, <1>7 DEF OnlyActiveRuns, Runs
  <2>2. MessagesOK' /\ OnlyActiveRuns'
    BY <1>1, <1>3, <1>8, <2>1 DEF MessagesOK, OnlyActiveRuns
  <2>3. ProvidersFit'
    <3>1. Unregistered(p)' /\ \A q \in Providers : Unregistered(q)' = Unregistered(q)
      BY <1>3, <1>6 DEF Unregistered
    <3>2. \A q \in Providers : q > p => q > spawned /\ q # p
      BY <1>4
    <3> QED
      BY <1>1, <1>3, <1>7, <3>1, <3>2 DEF ProvidersFit
  <2>4. BacklogFits'
    <3>1. socket \in Nat /\ socket <= p
      BY <1>1, <1>4, ProviderNumbers DEF BacklogFits
    <3>2. ASSUME NEW i \in 1 .. Len(backlog) PROVE backlog[i] <= p
      <4>1. backlog[i] \in Nat /\ backlog[i] <= spawned
        BY <1>1, <1>4 DEF BacklogFits
      <4> QED
        BY <1>4, <4>1
    <3> QED
      BY <1>1, <1>3, <1>8, <3>1, <3>2 DEF BacklogFits
  <2> QED
    BY <2>2, <2>3, <2>4 DEF ProvidersOK
<1>10. CallerFits'
  BY <1>1, <1>3, <1>4, <1>5 DEF CallerFits
<1>11. Alive(socket)' <=> Alive(socket)
  BY <1>3, <1>6, <1>7, ProviderNumbers DEF Alive, Unregistered
<1>12. LoopFits'
  BY <1>1, <1>3, <1>5, <1>8, <1>11 DEF LoopFits
<1>13. OthersFit'
  <2>1. Others' \subseteq Others
    BY <1>3, <1>5, ServedProvider DEF Others, Connections
  <2>2. Others' = {} \/ state # "IDLE"
    BY <1>1, <1>3, <2>1 DEF OthersFit
  <2> QED
    BY <1>1, <1>3, <1>8, <2>1, <2>2 DEF OthersFit
<1>14. /\ calls[p] = <<>> /\ Unread(p) = {} /\ Len(calls[p]) = 0
  BY <1>6 DEF Unregistered, Unread
<1>15. BusyFits' /\ OneEach'
  BY <1>3, <1>8, <1>14 DEF BusyFits, OneEach
<1>16. /\ InSlot' = InSlot /\ InQueue' = InQueue /\ Stored' = Stored /\ QueueInOrder'
       /\ Called' = Called /\ Stored = {job}
  <2>1. InSlot' = InSlot /\ InQueue' = InQueue /\ Stored' = Stored /\ QueueInOrder'
    BY <1>1, <1>3 DEF InSlot, InQueue, Stored, QueueInOrder, Results
  <2>2. Called' = Called
    BY <1>3, <1>11 DEF Called
  <2> QED
    BY <2>1, <2>2, <1>5 DEF Stored
<1>17. CASE caller' = "consuming" /\ outcome' = outcome /\ deaths' = deaths
  <2>1. SupervisorTypeOK'
    BY <1>1, <1>3, <1>4, <1>7, <1>17 DEF SupervisorTypeOK, Callers
  <2>2. OrderOK'
    <3>1. \A i \in Stored : ~Done(i)
      BY <1>3, <1>16, JobFacts
    <3> QED
      BY <1>3, <1>5, <1>16, <1>17, <3>1, OrderKept
  <2> QED
    BY <1>9, <1>10, <1>12, <1>13, <1>15, <2>1, <2>2 DEF SupervisorInv, ThreadsOK
<1>18. CASE /\ deaths < MaxDeaths /\ deaths' = deaths + 1 /\ provider' = provider
            /\ outcome' = [outcome EXCEPT ![job] = Message("docker_error", NoRequest)]
            /\ caller' = "free"
  <2>1. PICK m : m = Message("docker_error", NoRequest)
    OBVIOUS
  <2>2. m \in Messages /\ m.kind = "docker_error"
    BY <2>1 DEF Message, Messages, Kinds
  <2>3. /\ JobsOK' /\ outcome' \in [Jobs -> Messages] /\ outcome'[job] = m
        /\ job \in Jobs /\ Jobs \subseteq Nat \ {0}
        /\ \A i \in Jobs : i # job => outcome'[i] = outcome[i]
        /\ \A i \in Jobs : outcome[i].kind # "pending" => i < job
        /\ \A i \in Jobs : i < job /\ Excused(i) => Excused(i)'
    BY <1>3, <1>18, <2>1, <2>2, JobEnds
  <2>4. SupervisorTypeOK'
    <3>1. deaths' \in 0 .. MaxDeaths
      BY <1>1, <1>18, BoundsAreNat DEF SupervisorTypeOK
    <3> QED
      BY <1>1, <1>3, <1>4, <1>7, <1>18, <2>3, <3>1 DEF SupervisorTypeOK, Callers
  <2>5. Returned' = Returned
    <3>1. \A k \in Jobs : outcome'[k].kind = "result" <=> outcome[k].kind = "result"
      <4>1. outcome[job].kind = "pending"
        BY <1>3, JobFacts DEF Done
      <4> QED
        BY <2>2, <2>3, <4>1
    <3>2. \A k \in Jobs : outcome[k].kind = "result" => outcome'[k] = outcome[k]
      BY <2>2, <2>3, <3>1
    <3> QED
      BY <3>1, <3>2 DEF Returned
  <2>6. InOrder'
    BY <1>1, <1>16, <2>5 DEF InOrder
  <2>7. Begun'
    BY <1>1, <1>3, <1>16, <1>18, <2>5 DEF Begun
  <2>8. LateOnesExcused'
    <3>1. ASSUME NEW i \in InSlot \cup InQueue \cup Called PROVE i \in Jobs /\ i < job /\ Excused(i)
      BY <1>1, <1>16 DEF InOrder, Before, Begun, LateOnesExcused
    <3>2. provider'[active'] = "none"
      BY <1>3, <1>6, <1>18
    <3> QED
      BY <1>16, <2>3, <3>1, <3>2 DEF LateOnesExcused
  <2>9. ReturnedOK'
    <3>1. ASSUME NEW j \in Jobs, outcome'[j].kind = "result" PROVE j # job
      BY <2>2, <2>3, <3>1
    <3> QED
      BY <1>3, <1>18, <2>1, <2>2, <3>1, ReturnedStays DEF ReturnedOK
  <2>10. OrderOK'
    BY <1>16, <2>3, <2>6, <2>7, <2>8, <2>9 DEF OrderOK
  <2> QED
    BY <1>9, <1>10, <1>12, <1>13, <1>15, <2>4, <2>10 DEF SupervisorInv, ThreadsOK
<1> QED
  BY <1>3, <1>17, <1>18

\* The result is consumed and the job ends with it.
LEMMA ConsumeKeeps ==
    ASSUME SupervisorInv, consume
    PROVE  SupervisorInv'
<1>1. /\ SupervisorTypeOK /\ MessagesOK /\ CallerFits /\ LoopFits /\ OthersFit /\ BusyFits
      /\ OneEach /\ JobsOK /\ InOrder /\ QueueInOrder /\ Begun /\ LateOnesExcused /\ ReturnedOK
  BY InvParts
<1>2. PICK m : m = IF result[1].kind = "result" /\ state # "IDLE"
                   THEN Message("inconsistent", NoRequest) ELSE result[1]
  OBVIOUS
<1>3. /\ caller = "consuming" /\ result # <<>> /\ result' = <<>> /\ caller' = "free"
      /\ outcome' = [outcome EXCEPT ![job] = m]
      /\ UNCHANGED <<state, request, active, job, socket, backlog, loop, provider, calls, sent,
                     spawned, deaths>>
  BY <1>2 DEF consume, Finish, Unshared
<1>4. /\ m \in Messages /\ m.kind \in {"inconsistent", "result", "failure"}
      /\ m.kind = "result" => m = result[1]
      /\ m.kind = "inconsistent" => result[1].kind = "result"
      /\ m.kind = "failure" => m = result[1]
      /\ result[1].call \in Requests \/ result[1] = ImplicitFailure
  <2>1. result[1] \in Messages /\ result[1].kind \in {"result", "failure"}
        /\ (result[1].call \in Requests \/ result[1] = ImplicitFailure)
    BY <1>1, <1>3, RequestTypes DEF MessagesOK
  <2>2. Message("inconsistent", NoRequest) \in Messages
        /\ Message("inconsistent", NoRequest).kind = "inconsistent"
    BY DEF Message, Messages, Kinds
  <2> QED
    BY <1>2, <2>1, <2>2
<1>5. /\ JobsOK' /\ outcome' \in [Jobs -> Messages] /\ outcome'[job] = m
      /\ job \in Jobs /\ Jobs \subseteq Nat \ {0} /\ Jobs = 1 .. Len(ImageOf)
      /\ \A i \in Jobs : i # job => outcome'[i] = outcome[i]
      /\ \A i \in Jobs : outcome[i].kind # "pending" => i < job
      /\ \A i \in Jobs : i < job /\ Excused(i) => Excused(i)'
      /\ \A i \in Jobs : i < job /\ Excused(i) => \E f \in 1 .. i : outcome'[f] = ImplicitFailure
  BY <1>3, <1>4, JobEnds
<1>6. SupervisorTypeOK'
  BY <1>1, <1>3, <1>5 DEF SupervisorTypeOK, Callers
<1>7. ProvidersOK'
  BY <1>3, ProvidersKept
<1>8. \A p : Unread(p)' = Unread(p) /\ Results(p)' = Results(p) /\ Runs(p)' = Runs(p)
  BY <1>3, UnreadKept DEF Runs
<1>9. Others' = Others /\ Connections' = Connections /\ active # Nobody
  BY <1>1, <1>3 DEF CallerFits, Others, Connections
<1>10. CallerFits'
  BY <1>1, <1>3, <1>9 DEF CallerFits
<1>11. LoopFits'
  BY <1>1, <1>3, <1>8 DEF LoopFits, Alive
<1>12. OthersFit'
  BY <1>1, <1>3, <1>8, <1>9 DEF OthersFit
<1>13. BusyFits' /\ OneEach'
  BY <1>1, <1>3, <1>8 DEF BusyFits, OneEach
<1>14. /\ InSlot' = {} /\ InQueue' = InQueue /\ Stored' = Stored /\ Called' = Called
       /\ QueueInOrder'
  BY <1>1, <1>3 DEF InSlot, InQueue, Called, Stored, QueueInOrder, Results, Alive
\* What is in the slot, unless it is the failure of a connection.
<1>15. ASSUME result[1] # ImplicitFailure
       PROVE  /\ InSlot = {result[1].call.job} /\ result[1].call.job \in Jobs
              /\ result[1].call.job <= job /\ result[1].call \in Requests
              /\ result[1].call.job = job \/ \E f \in 1 .. result[1].call.job : outcome'[f] = ImplicitFailure
  <2>1. InSlot = {result[1].call.job}
    BY <1>3, <1>15 DEF InSlot
  <2>2. result[1].call.job \in Jobs /\ result[1].call.job <= job /\ Excused(result[1].call.job)
    BY <1>1, <2>1 DEF Begun, LateOnesExcused
  <2>3. result[1].call.job = job \/ result[1].call.job < job
    BY <1>5, <2>2
  <2> QED
    BY <1>4, <1>5, <1>15, <2>1, <2>2, <2>3
<1>16. m.kind = "result" => result[1] # ImplicitFailure
  BY <1>4 DEF ImplicitFailure, Message
<1>17. ASSUME NEW i \in Returned' PROVE i \in Returned \cup InSlot
  <2>1. PICK k \in Jobs : outcome'[k].kind = "result" /\ i = outcome'[k].call.job
    BY DEF Returned
  <2>2. CASE k = job
    BY <1>4, <1>5, <1>15, <1>16, <2>1, <2>2
  <2>3. CASE k # job
    BY <1>5, <2>1, <2>3 DEF Returned
  <2> QED
    BY <2>2, <2>3
<1>18. InOrder'
  BY <1>1, <1>14, <1>17 DEF InOrder, Before
<1>19. Begun'
  BY <1>1, <1>3, <1>14, <1>17 DEF Begun
<1>20. ASSUME NEW i \in InQueue \cup Called \cup Stored, Excused(i) PROVE Excused(i)'
  <2>1. i \in Jobs /\ i <= job
    BY <1>1 DEF Begun
  <2>2. CASE i # job
    <3>1. i < job
      BY <1>5, <2>1, <2>2
    <3> QED
      BY <1>5, <1>20, <2>1, <3>1
  <2>3. CASE i = job
    <3>1. CASE result[1] = ImplicitFailure
      <4>1. m = ImplicitFailure
        BY <1>2, <3>1 DEF ImplicitFailure, Message
      <4>2. job \in 1 .. job
        BY <1>5
      <4> QED
        BY <1>5, <2>3, <4>1, <4>2 DEF Excused
    <3>2. CASE result[1] # ImplicitFailure
      <4>1. result[1].call.job < job /\ result[1].call.job \in Jobs
        BY <1>1, <1>15, <2>3, <3>2 DEF InOrder, Before
      <4>2. PICK f \in 1 .. result[1].call.job : outcome'[f] = ImplicitFailure
        BY <1>5, <1>15, <3>2, <4>1
      <4>3. f \in 1 .. job
        BY <1>5, <4>1
      <4> QED
        BY <2>3, <4>2, <4>3 DEF Excused
    <3> QED
      BY <3>1, <3>2
  <2> QED
    BY <2>2, <2>3
<1>21. LateOnesExcused'
  BY <1>1, <1>3, <1>14, <1>20 DEF LateOnesExcused
<1>22. ReturnedOK'
  <2>1. ASSUME NEW j \in Jobs, outcome'[j].kind = "result"
        PROVE  /\ outcome'[j].call \in Requests
               /\ \/ outcome'[j].call.job = j
                  \/ /\ outcome'[j].call.job < j
                     /\ \E f \in 1 .. outcome'[j].call.job : outcome'[f] = ImplicitFailure
               /\ \A k \in 1 .. j - 1 : outcome'[k].kind = "result" =>
                     outcome'[k].call.job < outcome'[j].call.job
    <3>1. CASE j # job
      BY <1>3, <1>4, <2>1, <3>1, ReturnedStays
    <3>2. CASE j = job
      <4>1. outcome'[j] = result[1] /\ result[1] # ImplicitFailure
        BY <1>4, <1>5, <1>16, <2>1, <3>2
      <4>2. result[1].call.job = job \/ result[1].call.job < job
        BY <1>5, <1>15, <4>1
      <4>3. ASSUME NEW k \in 1 .. j - 1, outcome'[k].kind = "result"
            PROVE  outcome'[k].call.job < result[1].call.job
        <5>1. k \in Jobs /\ k # job
          BY <1>5, <3>2
        <5>2. outcome'[k].call.job \in Returned
          BY <1>5, <4>3, <5>1 DEF Returned
        <5> QED
          BY <1>1, <1>15, <4>1, <5>2 DEF InOrder, Before
      <4> QED
        BY <1>15, <3>2, <4>1, <4>2, <4>3
    <3> QED
      BY <3>1, <3>2
  <2> QED
    BY <2>1 DEF ReturnedOK
<1>23. OrderOK'
  BY <1>5, <1>14, <1>18, <1>19, <1>21, <1>22 DEF OrderOK
<1> QED
  BY <1>6, <1>7, <1>10, <1>11, <1>12, <1>13, <1>23 DEF SupervisorInv, ThreadsOK

-----------------------------------------------------------------------------
\* The steps of the message thread

\* A connection is accepted: that of a provider which was never called.
LEMMA AcceptKeeps ==
    ASSUME SupervisorInv, accept
    PROVE  SupervisorInv'
<1>1. /\ SupervisorTypeOK /\ MessagesOK /\ OnlyActiveRuns /\ ProvidersFit /\ BacklogFits
      /\ CallerFits /\ LoopFits /\ OthersFit /\ BusyFits /\ OneEach
  BY InvParts
<1>2. /\ loop = "accepting" /\ backlog # <<>> /\ socket' = Head(backlog)
      /\ backlog' = Tail(backlog) /\ loop' = "reading"
      /\ UNCHANGED <<state, request, result, calls, sent, active, caller, job, outcome, provider,
                     spawned, deaths>>
  BY DEF accept, Local
<1>3. /\ backlog \in Seq(Providers) /\ Providers \subseteq Nat \ {0} /\ Nobody = 0
      /\ Providers = 1 .. MaxSpawns /\ MaxSpawns \in Nat /\ spawned \in Nat
  BY ProviderNumbers
<1>4. /\ Len(backlog) \in Nat /\ Len(backlog) >= 1 /\ socket' = backlog[1]
      /\ backlog' \in Seq(Providers) /\ Len(backlog') = Len(backlog) - 1
      /\ \A i \in 1 .. Len(backlog) : backlog[i] \in Providers
      /\ \A i \in 1 .. Len(backlog') : backlog'[i] = backlog[i + 1]
  BY <1>2, <1>3
<1>5. 1 \in 1 .. Len(backlog) /\ \A i \in 1 .. Len(backlog') : i + 1 \in 1 .. Len(backlog)
  BY <1>4
<1>6. /\ socket' \in Providers /\ calls[socket'] = <<>> /\ Results(socket') = {}
      /\ socket' <= spawned /\ socket' # Nobody
  BY <1>1, <1>3, <1>4, <1>5 DEF BacklogFits
<1>7. \A p : Results(p)' = Results(p) /\ Runs(p)' = Runs(p) /\ Unread(p)' = Unread(p)
  BY <1>2 DEF Results, Runs, Unread
<1>8. SupervisorTypeOK'
  <2>1. socket' \in 0 .. MaxSpawns
    BY <1>3, <1>6
  <2> QED
    BY <1>1, <1>2, <1>4, <2>1 DEF SupervisorTypeOK, Loops
<1>9. ProvidersOK'
  <2>1. MessagesOK' /\ OnlyActiveRuns'
    BY <1>1, <1>2, <1>7 DEF MessagesOK, OnlyActiveRuns
  <2>2. ASSUME NEW p, Unregistered(p) PROVE Unregistered(p)'
    BY <1>2, <1>4, <1>5, <2>2 DEF Unregistered
  <2>3. ProvidersFit'
    BY <1>1, <1>2, <2>2 DEF ProvidersFit
  <2>4. BacklogFits'
    <3>1. ASSUME NEW i \in 1 .. Len(backlog')
          PROVE  /\ socket' < backlog'[i] /\ backlog'[i] <= spawned
                 /\ calls[backlog'[i]] = <<>> /\ Results(backlog'[i]) = {}
      <4>1. i + 1 \in 1 .. Len(backlog) /\ backlog'[i] = backlog[i + 1] /\ 1 < i + 1
        BY <1>4, <1>5
      <4> QED
        BY <1>1, <1>4, <1>5, <4>1 DEF BacklogFits
    <3>2. ASSUME NEW i \in 1 .. Len(backlog'), NEW j \in 1 .. Len(backlog'), i < j
          PROVE  backlog'[i] < backlog'[j]
      <4>1. i + 1 < j + 1
        BY <3>2, <1>4
      <4> QED
        BY <1>1, <1>4, <1>5, <4>1 DEF BacklogFits
    <3> QED
      BY <1>2, <1>6, <1>7, <3>1, <3>2 DEF BacklogFits
  <2> QED
    BY <2>1, <2>3, <2>4 DEF ProvidersOK
<1>10. Connections' = Connections /\ Others' = Others
  <2>1. Connections = {backlog[i] : i \in 1 .. Len(backlog)}
    BY <1>2 DEF Connections, Served
  <2>2. Connections' = {backlog'[i] : i \in 1 .. Len(backlog')} \cup {backlog[1]}
    BY <1>2, <1>4 DEF Connections, Served
  <2>3. ASSUME NEW i \in 1 .. Len(backlog) PROVE backlog[i] \in Connections'
    <3>1. CASE i = 1
      BY <2>2, <3>1
    <3>2. CASE i # 1
      <4>1. i - 1 \in 1 .. Len(backlog') /\ (i - 1) + 1 = i
        BY <1>4, <3>2
      <4> QED
        BY <1>4, <2>2, <4>1
    <3> QED
      BY <3>1, <3>2
  <2>4. ASSUME NEW q \in Connections' PROVE q \in Connections
    BY <1>4, <1>5, <2>1, <2>2
  <2> QED
    BY <1>2, <2>1, <2>3, <2>4 DEF Others
<1>11. CallerFits'
  BY <1>1, <1>2, <1>7, <1>10 DEF CallerFits
<1>12. LoopFits'
  BY <1>2, <1>6 DEF LoopFits
<1>13. OthersFit'
  BY <1>1, <1>2, <1>7, <1>10 DEF OthersFit
<1>14. BusyFits' /\ OneEach'
  BY <1>1, <1>2, <1>7 DEF BusyFits, OneEach
<1>15. /\ InSlot' = InSlot /\ Stored' = Stored /\ InQueue' = {} /\ Called' = {} /\ QueueInOrder'
  <2>1. InQueue' = {} /\ QueueInOrder'
    BY <1>6, <1>7 DEF InQueue, QueueInOrder
  <2>2. Called' = {}
    BY <1>2, <1>6 DEF Called
  <2> QED
    BY <1>2, <2>1, <2>2 DEF InSlot, Stored
<1>16. OrderOK'
  <2>1. job # 0 \/ caller' \in {"free", "ended"}
    BY <1>2, JobFacts
  <2> QED
    BY <1>2, <1>15, <2>1, OrderKept
<1> QED
  BY <1>8, <1>9, <1>11, <1>12, <1>13, <1>14, <1>16 DEF SupervisorInv, ThreadsOK

\* The first message of the connected provider is taken from its queue.
LEMMA TakeMessage ==
    ASSUME SupervisorInv, socket # Nobody, sent[socket] # <<>>,
           sent' = [sent EXCEPT ![socket] = Tail(@)], loop' # "producing",
           loop = "reading" => ~IsResult(Head(sent[socket])), loop \in {"reading", "producing"},
           UNCHANGED <<active, socket, backlog, calls, provider, spawned>>
    PROVE  /\ OnlyActiveRuns' /\ ProvidersFit' /\ BacklogFits'
           /\ sent' \in [Providers -> Seq(Messages)]
           /\ \A p \in Providers : \A i \in Results(p)' :
                 /\ sent'[p][i].kind \in {"result", "failure"} /\ sent'[p][i].call \in Requests
           /\ InQueue' \subseteq InQueue /\ QueueInOrder'
           /\ loop = "producing" => \A i \in Results(socket)' :
                 Head(sent[socket]).call.job < sent'[socket][i].call.job
           /\ \A p \in Providers : p # socket => Unread(p)' = Unread(p)
           /\ \A i \in Unread(socket)' : i \in Nat /\ i + 1 \in Unread(socket)
           /\ \A p : Runs(p)' = Runs(p)
<1>1. /\ SupervisorTypeOK /\ MessagesOK /\ OnlyActiveRuns /\ ProvidersFit /\ BacklogFits
      /\ LoopFits /\ QueueInOrder
  BY InvParts
<1>2. /\ socket \in Providers /\ socket \in Nat /\ Providers \subseteq Nat /\ Len(backlog) \in Nat
      /\ \A i \in 1 .. Len(backlog) : backlog[i] \in Providers
  BY ProviderNumbers
<1>3. sent \in [Providers -> Seq(Messages)]
  BY <1>1 DEF SupervisorTypeOK
<1>4. PICK s \in Seq(Messages) : s = sent[socket] /\ s # <<>>
  BY <1>2, <1>3
<1>5. /\ sent' \in [Providers -> Seq(Messages)] /\ sent'[socket] = Tail(s)
      /\ \A p \in Providers : p # socket => sent'[p] = sent[p]
  BY <1>2, <1>3, <1>4
<1>6. /\ Head(s) = s[1] /\ ResultsIn(s) \subseteq Nat /\ (1 \in ResultsIn(s) <=> IsResult(Head(s)))
      /\ \A i \in ResultsIn(Tail(s)) : /\ i \in Nat /\ i >= 1 /\ i + 1 \in ResultsIn(s)
                                       /\ Tail(s)[i] = s[i + 1]
  BY <1>4, ResultsAfterTail
<1>7. /\ Results(socket) = ResultsIn(s) /\ Results(socket)' = ResultsIn(Tail(s))
      /\ \A p \in Providers : p # socket => Results(p)' = Results(p)
  BY <1>4, <1>5 DEF Results
<1>8. /\ \A i \in Results(socket)' : /\ i \in Nat /\ i >= 1 /\ i + 1 \in Results(socket)
                                     /\ sent'[socket][i] = sent[socket][i + 1]
  BY <1>4, <1>5, <1>6, <1>7
<1>9. \A p : Runs(p)' = Runs(p)
  BY DEF Runs
<1>10. OnlyActiveRuns'
  BY <1>1, <1>9 DEF OnlyActiveRuns
<1>11. ProvidersFit'
  BY <1>1, <1>5 DEF ProvidersFit, Unregistered
<1>12. BacklogFits'
  <2>1. ASSUME NEW i \in 1 .. Len(backlog) PROVE backlog[i] \in Providers /\ backlog[i] # socket
    BY <1>1, <1>2 DEF BacklogFits
  <2> QED
    BY <1>1, <1>7, <2>1 DEF BacklogFits
<1>13. ASSUME NEW p \in Providers, NEW i \in Results(p)'
       PROVE  sent'[p][i].kind \in {"result", "failure"} /\ sent'[p][i].call \in Requests
  <2>1. CASE p = socket
    BY <1>1, <1>2, <1>8, <2>1 DEF MessagesOK
  <2>2. CASE p # socket
    BY <1>1, <1>5, <1>7, <2>2 DEF MessagesOK
  <2> QED
    BY <2>1, <2>2
<1>14. ASSUME NEW c \in InQueue' PROVE c \in InQueue
  <2>1. PICK i \in Results(socket)' : c = sent'[socket][i].call.job
    BY <1>14 DEF InQueue
  <2>2. i + 1 \in Results(socket) /\ c = sent[socket][i + 1].call.job
    BY <1>8, <2>1
  <2> QED
    BY <2>2 DEF InQueue
<1>15. QueueInOrder'
  <2>1. ASSUME NEW i \in Results(socket)', NEW j \in Results(socket)', i < j
        PROVE  sent'[socket][i].call.job < sent'[socket][j].call.job
    <3>1. i + 1 < j + 1 /\ i + 1 \in Results(socket) /\ j + 1 \in Results(socket)
      BY <1>8, <2>1
    <3> QED
      BY <1>1, <1>8, <3>1 DEF QueueInOrder
  <2> QED
    BY <2>1 DEF QueueInOrder
<1>16. ASSUME loop = "producing", NEW i \in Results(socket)'
       PROVE  Head(sent[socket]).call.job < sent'[socket][i].call.job
  <2>1. 1 \in Results(socket) /\ Head(sent[socket]) = sent[socket][1]
    BY <1>1, <1>4, <1>6, <1>16 DEF LoopFits
  <2>2. 1 < i + 1 /\ i + 1 \in Results(socket)
    BY <1>8
  <2> QED
    BY <1>1, <1>8, <2>1, <2>2 DEF QueueInOrder
<1>17. \A p \in Providers : p # socket => Unread(p)' = Unread(p)
  BY <1>7 DEF Unread
<1>18. ASSUME NEW i \in Unread(socket)' PROVE i \in Nat /\ i + 1 \in Unread(socket)
  <2>1. i \in Results(socket)'
    BY DEF Unread
  <2>2. i + 1 # 1 /\ i + 1 \in Results(socket) /\ i \in Nat
    BY <1>8, <2>1
  <2> QED
    BY <2>2 DEF Unread
<1> QED
  BY <1>5, <1>9, <1>10, <1>11, <1>12, <1>13, <1>14, <1>15, <1>16, <1>17, <1>18

\* What this means for the results that were not read.
LEMMA TakenFits ==
    ASSUME SupervisorInv, socket # Nobody, UNCHANGED <<active, socket, calls>>,
           caller' = caller, Others' \subseteq Others,
           state' = state \/ state' = "AWAITING_RESULT",
           \A p \in Providers : p # socket => Unread(p)' = Unread(p),
           \A i \in Unread(socket)' : i \in Nat /\ i + 1 \in Unread(socket),
           \A p : Runs(p)' = Runs(p)
    PROVE  /\ OthersFit' /\ OneEach'
           /\ (active # Nobody /\ Unread(active)' # {}) => Unread(active) # {}
<1>1. OthersFit /\ OneEach
  BY InvParts
<1>2. Connections \subseteq Providers /\ (active # Nobody => active \in Providers)
  BY ServedProvider, ProviderNumbers
<1>3. ASSUME NEW p \in Providers, Unread(p) = {} PROVE Unread(p)' = {}
  BY <1>3
<1>4. OthersFit'
  <2>1. \A q \in Others : q \in Providers
    BY <1>2 DEF Others
  <2>2. \A q \in Others' : Unread(q) = {} => Unread(q)' = {}
    BY <1>3, <2>1
  <2> QED
    BY <1>1, <2>2 DEF OthersFit
<1>5. ASSUME active # Nobody, NEW i \in Unread(active)', NEW j \in Unread(active)'
      PROVE  i = j
  <2>1. CASE active = socket
    <3>1. i \in Nat /\ j \in Nat /\ i + 1 \in Unread(active) /\ j + 1 \in Unread(active)
      BY <1>5, <2>1
    <3>2. i + 1 = j + 1
      BY <1>1, <1>5, <3>1 DEF OneEach
    <3> QED
      BY <3>1, <3>2
  <2>2. CASE active # socket
    BY <1>1, <1>2, <1>5, <2>2 DEF OneEach
  <2> QED
    BY <2>1, <2>2
<1>6. (active # Nobody /\ Unread(active)' # {}) => Unread(active) # {}
  BY <1>2, <1>3
<1>7. OneEach'
  BY <1>1, <1>3, <1>2, <1>5 DEF OneEach
<1> QED
  BY <1>4, <1>6, <1>7

\* A registration or a progress message is read.
LEMMA ReadMessageKeeps ==
    ASSUME SupervisorInv, read_message
    PROVE  SupervisorInv'
<1>1. /\ SupervisorTypeOK /\ MessagesOK /\ CallerFits /\ LoopFits /\ BusyFits
  BY InvParts
<1>2. /\ loop = "reading" /\ sent[socket] # <<>> /\ ~IsResult(Head(sent[socket]))
      /\ sent' = [sent EXCEPT ![socket] = Tail(@)]
      /\ UNCHANGED <<request, result, calls, socket, backlog, active, caller, job, outcome,
                     provider, spawned, deaths>>
      /\ \/ /\ state = "AWAITING_REGISTRATION" /\ active = socket
            /\ state' = "AWAITING_RESULT" /\ loop' = "writing"
         \/ state' = state /\ loop' = loop
  BY DEF read_message, begin_transmit, Local, IsResult
<1>3. socket # Nobody
  BY <1>1, <1>2 DEF LoopFits, Served
<1>4. /\ OnlyActiveRuns' /\ ProvidersFit' /\ BacklogFits'
      /\ sent' \in [Providers -> Seq(Messages)]
      /\ \A p \in Providers : \A i \in Results(p)' :
            /\ sent'[p][i].kind \in {"result", "failure"} /\ sent'[p][i].call \in Requests
      /\ InQueue' \subseteq InQueue /\ QueueInOrder'
      /\ \A p \in Providers : p # socket => Unread(p)' = Unread(p)
      /\ \A i \in Unread(socket)' : i \in Nat /\ i + 1 \in Unread(socket)
      /\ \A p : Runs(p)' = Runs(p)
  BY <1>2, <1>3, TakeMessage
<1>5. SupervisorTypeOK'
  BY <1>1, <1>2, <1>4 DEF SupervisorTypeOK, States, Loops
<1>6. ProvidersOK'
  BY <1>1, <1>2, <1>4 DEF ProvidersOK, MessagesOK
<1>7. Connections' = Connections /\ Others' = Others
  BY <1>2 DEF Connections, Others, Served
<1>8. /\ OthersFit' /\ OneEach'
      /\ (active # Nobody /\ Unread(active)' # {}) => Unread(active) # {}
  BY <1>2, <1>3, <1>4, <1>7, TakenFits
<1>9. CallerFits'
  BY <1>1, <1>2, <1>3, <1>4, <1>7 DEF CallerFits
<1>10. LoopFits'
  <2>1. state = "AWAITING_REGISTRATION" /\ active = socket =>
           request # <<>> /\ caller \in {"consuming", "free"}
    BY <1>1, <1>3 DEF CallerFits
  <2> QED
    BY <1>2, <1>3, <2>1 DEF LoopFits
<1>11. BusyFits'
  BY <1>1, <1>2, <1>4, <1>8 DEF BusyFits
<1>12. OrderOK'
  <2>1. job # 0 \/ caller' \in {"free", "ended"}
    BY <1>2, JobFacts
  <2>2. InSlot' = InSlot /\ Called' = Called /\ Stored' = Stored
    BY <1>2 DEF InSlot, Called, Stored, Alive
  <2> QED
    BY <1>2, <1>4, <2>1, <2>2, OrderKept
<1> QED
  BY <1>5, <1>6, <1>8, <1>9, <1>10, <1>11, <1>12 DEF SupervisorInv, ThreadsOK

\* A result is read; it is that of the active provider unless the thread ended.
LEMMA ReadResultKeeps ==
    ASSUME SupervisorInv, read_result
    PROVE  SupervisorInv'
<1>1. /\ SupervisorTypeOK /\ CallerFits /\ LoopFits /\ OthersFit /\ BusyFits /\ OneEach
      /\ QueueInOrder
  BY InvParts
<1>2. /\ loop = "reading" /\ sent[socket] # <<>> /\ IsResult(Head(sent[socket]))
      /\ state' = "IDLE" /\ loop' = "producing"
      /\ UNCHANGED <<request, result, calls, sent, socket, backlog, active, caller, job, outcome,
                     provider, spawned, deaths>>
  BY DEF read_result, Local, IsResult
<1>3. socket # Nobody /\ socket \in Providers
  BY <1>1, <1>2, ProviderNumbers DEF LoopFits, Served
<1>4. 1 \in Results(socket) /\ 1 \in Unread(socket)
  <2>1. 1 \in Results(socket)
    BY <1>1, <1>2, <1>3, ResultsAfterTail DEF SupervisorTypeOK, Results
  <2> QED
    BY <1>2, <2>1 DEF Unread
<1>5. /\ \A p : Results(p)' = Results(p) /\ Runs(p)' = Runs(p)
      /\ \A p : p # socket => Unread(p)' = Unread(p)
      /\ Unread(socket)' = Results(socket) \ {1}
  BY <1>2 DEF Results, Runs, Unread
<1>6. Connections' = Connections /\ Others' = Others
  BY <1>2 DEF Connections, Others, Served
<1>7. caller # "ended" => socket = active /\ active # Nobody
  <2>1. socket \in Connections
    BY <1>2 DEF Connections, Served
  <2> QED
    BY <1>1, <1>3, <1>4, <2>1 DEF OthersFit, Others
<1>8. caller # "ended" =>
         /\ state = "AWAITING_RESULT" /\ caller \in {"consuming", "free"}
         /\ Unread(active)' = {} /\ ~(Runs(active) /\ calls[active] # <<>>)
         /\ Others = {}
  <2> SUFFICES ASSUME caller # "ended"
               PROVE  /\ state = "AWAITING_RESULT" /\ caller \in {"consuming", "free"}
                      /\ Unread(active)' = {} /\ ~(Runs(active) /\ calls[active] # <<>>)
                      /\ Others = {}
    OBVIOUS
  <2>1. socket = active /\ active # Nobody /\ 1 \in Unread(active)
    BY <1>4, <1>7
  <2>2. state = "AWAITING_RESULT" /\ caller \in {"consuming", "free"}
    BY <1>1, <2>1 DEF BusyFits
  <2>3. ~(Runs(active) /\ calls[active] # <<>>) /\ \A i \in Unread(active) : i = 1
    BY <1>1, <2>1 DEF OneEach
  <2>4. Unread(active) = Results(active)
    BY <1>2 DEF Unread
  <2>5. Unread(active)' = {}
    BY <1>2, <1>5, <2>1, <2>3, <2>4
  <2>6. Len(backlog) = 0
    BY <2>1, ServedProvider
  <2>7. Others = {}
    BY <1>2, <2>1, <2>6 DEF Others, Connections
  <2> QED
    BY <2>2, <2>3, <2>5, <2>7
<1>9. SupervisorTypeOK'
  BY <1>1, <1>2 DEF SupervisorTypeOK, States, Loops
<1>10. ProvidersOK'
  BY <1>2, ProvidersKept
<1>11. CallerFits'
  BY <1>1, <1>2, <1>8 DEF CallerFits
<1>12. LoopFits'
  BY <1>2, <1>3, <1>4, <1>5 DEF LoopFits
<1>13. OthersFit'
  BY <1>2, <1>6, <1>8 DEF OthersFit
<1>14. BusyFits' /\ OneEach'
  <2>1. CASE caller = "ended"
    BY <1>1, <1>2, <2>1 DEF CallerFits, BusyFits, OneEach
  <2>2. CASE caller # "ended"
    BY <1>1, <1>2, <1>5, <1>8, <2>2 DEF BusyFits, OneEach
  <2> QED
    BY <2>1, <2>2
<1>15. OrderOK'
  <2>1. job # 0 \/ caller' \in {"free", "ended"}
    BY <1>2, JobFacts
  <2> QED
    BY <1>1, <1>2, <2>1, PlacesKept, OrderKept
<1> QED
  BY <1>9, <1>10, <1>11, <1>12, <1>13, <1>14, <1>15 DEF SupervisorInv, ThreadsOK

\* The result that was read is produced.
LEMMA ProduceKeeps ==
    ASSUME SupervisorInv, produce
    PROVE  SupervisorInv'
<1>1. /\ SupervisorTypeOK /\ MessagesOK /\ CallerFits /\ LoopFits /\ BusyFits
      /\ JobsOK /\ InOrder /\ QueueInOrder /\ Begun /\ LateOnesExcused /\ ReturnedOK
  BY InvParts
<1>2. /\ loop = "producing" /\ loop' = "reading"
      /\ sent' = [sent EXCEPT ![socket] = Tail(@)] /\ result' = <<Head(sent[socket])>>
      /\ UNCHANGED <<state, request, calls, socket, backlog, active, caller, job, outcome,
                     provider, spawned, deaths>>
  BY DEF produce, Local
<1>3. socket # Nobody /\ sent[socket] # <<>> /\ 1 \in Results(socket) /\ socket \in Providers
  BY <1>1, <1>2, ProviderNumbers DEF LoopFits, Served
<1>4. /\ OnlyActiveRuns' /\ ProvidersFit' /\ BacklogFits'
      /\ sent' \in [Providers -> Seq(Messages)]
      /\ \A p \in Providers : \A i \in Results(p)' :
            /\ sent'[p][i].kind \in {"result", "failure"} /\ sent'[p][i].call \in Requests
      /\ InQueue' \subseteq InQueue /\ QueueInOrder'
      /\ \A i \in Results(socket)' : Head(sent[socket]).call.job < sent'[socket][i].call.job
      /\ \A p \in Providers : p # socket => Unread(p)' = Unread(p)
      /\ \A i \in Unread(socket)' : i \in Nat /\ i + 1 \in Unread(socket)
      /\ \A p : Runs(p)' = Runs(p)
  BY <1>2, <1>3, TakeMessage
<1>5. PICK m : m = Head(sent[socket])
  OBVIOUS
<1>6. /\ m \in Messages /\ m = sent[socket][1] /\ m.kind \in {"result", "failure"}
      /\ m.call \in Requests /\ m.call.job \in InQueue /\ result' = <<m>> /\ result' # <<>>
      /\ result'[1] = m
  <2>1. m \in Messages /\ m = sent[socket][1]
    BY <1>1, <1>3, <1>5, ResultsAfterTail DEF SupervisorTypeOK
  <2>2. m.kind \in {"result", "failure"} /\ m.call \in Requests
    BY <1>1, <1>3, <2>1 DEF MessagesOK
  <2>3. m.call.job \in InQueue
    BY <1>3, <2>1 DEF InQueue
  <2> QED
    BY <1>2, <1>5, <2>1, <2>2, <2>3
<1>7. SupervisorTypeOK'
  BY <1>1, <1>2, <1>4, <1>6 DEF SupervisorTypeOK, Loops
<1>8. ProvidersOK'
  BY <1>4, <1>6 DEF ProvidersOK, MessagesOK
<1>9. Connections' = Connections /\ Others' = Others
  BY <1>2 DEF Connections, Others, Served
<1>10. /\ OthersFit' /\ OneEach'
       /\ (active # Nobody /\ Unread(active)' # {}) => Unread(active) # {}
  BY <1>2, <1>3, <1>4, <1>9, TakenFits
<1>11. CallerFits'
  BY <1>1, <1>2, <1>4, <1>9 DEF CallerFits
<1>12. LoopFits'
  BY <1>2, <1>3 DEF LoopFits
<1>13. BusyFits'
  BY <1>1, <1>2, <1>4, <1>10 DEF BusyFits
<1>14. /\ InSlot' \subseteq {m.call.job} /\ Called' = Called /\ Stored' = Stored /\ Returned' = Returned
  BY <1>2, <1>6 DEF InSlot, Called, Stored, Alive, Returned
<1>15. \A i : Done(i)' = Done(i) /\ Excused(i)' = Excused(i)
  BY <1>2 DEF Done, Excused
<1>16. ASSUME NEW c \in InQueue' PROVE m.call.job < c
  BY <1>2, <1>3, <1>4, <1>5 DEF InQueue
<1>17. InOrder'
  BY <1>1, <1>4, <1>6, <1>14, <1>16 DEF InOrder, Before
<1>18. Begun'
  BY <1>1, <1>2, <1>4, <1>6, <1>14 DEF Begun
<1>19. LateOnesExcused'
  BY <1>1, <1>2, <1>4, <1>6, <1>14, <1>15 DEF LateOnesExcused
<1>20. JobsOK' /\ ReturnedOK'
  BY <1>1, <1>2, <1>15 DEF JobsOK, ReturnedOK
<1>21. OrderOK'
  BY <1>4, <1>17, <1>18, <1>19, <1>20 DEF OrderOK
<1> QED
  BY <1>7, <1>8, <1>10, <1>11, <1>12, <1>13, <1>21 DEF SupervisorInv, ThreadsOK

\* The write to the provider that registered.
LEMMA WriteRegisteredKeeps ==
    ASSUME SupervisorInv, write_to_registered
    PROVE  SupervisorInv'
<1>1. /\ SupervisorTypeOK /\ CallerFits /\ LoopFits /\ OthersFit /\ BusyFits /\ OneEach
      /\ QueueInOrder
  BY InvParts
<1>2. /\ loop = "writing"
      /\ UNCHANGED <<state, active, caller, result, job, outcome, socket, backlog,
                     provider, sent, spawned, deaths>>
      /\ \/ /\ socket # Nobody /\ request' = <<>> /\ loop' = "reading"
            /\ calls' = [calls EXCEPT ![socket] = Append(@, request[1])]
         \/ /\ ~Alive(socket) /\ request' = MovedOut /\ loop' = "failing" /\ calls' = calls
  BY DEF write_to_registered, WriteOutcomes, Alive, Local
<1>3. \A p : Unread(p)' = Unread(p) /\ Results(p)' = Results(p) /\ Runs(p)' = Runs(p)
  BY <1>2, UnreadKept DEF Runs
<1>4. /\ Others' = Others /\ Connections' = Connections /\ socket # Nobody /\ request # <<>>
      /\ state \in {"AWAITING_RESULT", "TERMINATED"} /\ caller \in {"consuming", "free", "ended"}
      /\ active # Nobody => active = socket /\ state = "AWAITING_RESULT"
                            /\ caller \in {"consuming", "free"}
  BY <1>1, <1>2 DEF CallerFits, LoopFits, Others, Connections, Served
<1>5. active # Nobody => Unread(active) = {} /\ (Runs(active) => calls[active] = <<>>)
  BY <1>1, <1>2 DEF BusyFits
<1>6. OthersFit'
  BY <1>1, <1>2, <1>3, <1>4 DEF OthersFit
<1>7. job # 0 \/ caller' \in {"free", "ended"}
  BY <1>2, JobFacts
<1>8. CASE /\ socket # Nobody /\ request' = <<>> /\ loop' = "reading"
           /\ calls' = [calls EXCEPT ![socket] = Append(@, request[1])]
  <2>1. /\ ProvidersOK' /\ calls' \in [Providers -> Seq(Requests)]
        /\ calls[socket] = <<>> => Len(calls'[socket]) = 1
    BY <1>2, <1>4, <1>8, WriteKeepsProviders
  <2>2. Alive(socket) => socket = active /\ Runs(active) /\ active # Nobody
    BY ServedProvider DEF Alive
  <2>3. OrderOK'
    BY <1>2, <1>4, <1>5, <1>7, <1>8, <2>2, WriteKeepsOrder
  <2>4. SupervisorTypeOK'
    BY <1>1, <1>2, <1>8, <2>1 DEF SupervisorTypeOK, Loops
  <2>5. CallerFits'
    BY <1>1, <1>2, <1>3, <1>4, <1>8 DEF CallerFits
  <2>6. LoopFits'
    BY <1>2, <1>8 DEF LoopFits
  <2>7. BusyFits'
    BY <1>2, <1>4, <1>8 DEF BusyFits
  <2>8. OneEach'
    <3>1. ASSUME active # Nobody, Runs(active) PROVE Len(calls'[active]) <= 1
      <4>1. calls[socket] = <<>> /\ socket = active
        BY <1>4, <1>5, <3>1
      <4>2. Len(calls'[socket]) = 1
        BY <2>1, <4>1
      <4> QED
        BY <4>1, <4>2
    <3> QED
      BY <1>2, <1>3, <1>5, <3>1 DEF OneEach
  <2> QED
    BY <1>6, <2>1, <2>3, <2>4, <2>5, <2>6, <2>7, <2>8 DEF SupervisorInv, ThreadsOK
<1>9. CASE /\ ~Alive(socket) /\ request' = MovedOut /\ loop' = "failing" /\ calls' = calls
  <2>1. /\ request' \in {<<r>> : r \in Requests} /\ request' # <<>> /\ request'[1].job = request[1].job
        /\ Stored = {request[1].job}
    BY <1>4, <1>9, RequestTypes
  <2>2. SupervisorTypeOK'
    BY <1>1, <1>2, <1>9, <2>1 DEF SupervisorTypeOK, Loops
  <2>3. ProvidersOK'
    BY <1>2, <1>9, ProvidersKept
  <2>4. CallerFits'
    BY <1>1, <1>2, <1>3, <1>4, <1>9, <2>1 DEF CallerFits
  <2>5. BusyFits' /\ OneEach'
    BY <1>1, <1>2, <1>3, <1>5, <1>9 DEF BusyFits, OneEach
  <2>6. LoopFits'
    BY <1>2, <1>4, <1>9 DEF LoopFits, Alive
  <2>7. OrderOK'
    <3>1. /\ InSlot' = InSlot /\ InQueue' = InQueue /\ Called' = Called /\ Stored' = Stored
          /\ QueueInOrder'
      BY <1>1, <1>2, <1>9, <2>1 DEF InSlot, InQueue, Called, Stored, QueueInOrder, Results, Alive
    <3> QED
      BY <1>2, <1>7, <1>9, <3>1, OrderKept
  <2> QED
    BY <1>6, <2>2, <2>3, <2>4, <2>5, <2>6, <2>7 DEF SupervisorInv, ThreadsOK
<1> QED
  BY <1>2, <1>8, <1>9

\* A step of the message thread on a broken connection, which may give it up.
LEMMA BrokenKeeps ==
    ASSUME SupervisorInv, ~Alive(socket), socket # Nobody,
           ~(active # Nobody /\ ((Runs(active) /\ calls[active] # <<>>) \/ Unread(active) # {})),
           loop \notin {"producing", "writing"},
           loop' \in {"failing", "idling", "leaving"}, loop' # "leaving" => loop \in Served,
           UNCHANGED <<state, request, socket, backlog, calls, sent, active, caller, job, outcome,
                       provider, spawned, deaths>>,
           result' \in {result, <<ImplicitFailure>>}
    PROVE  SupervisorInv'
<1>1. /\ SupervisorTypeOK /\ CallerFits /\ LoopFits /\ OthersFit /\ BusyFits /\ OneEach
      /\ QueueInOrder
  BY InvParts
<1>2. \A p : Unread(p)' = Unread(p) /\ Results(p)' = Results(p) /\ Runs(p)' = Runs(p)
  BY UnreadKept DEF Runs
<1>3. Connections' \subseteq Connections /\ Others' \subseteq Others
  BY DEF Connections, Others, Served
<1>4. SupervisorTypeOK'
  <2>1. ImplicitFailure \in Messages
    BY DEF ImplicitFailure, Message, Messages, Kinds
  <2> QED
    BY <1>1, <2>1 DEF SupervisorTypeOK, Loops
<1>5. ProvidersOK'
  BY ProvidersKept
<1>6. CallerFits'
  BY <1>1, <1>2, <1>3 DEF CallerFits
<1>7. LoopFits'
  BY DEF LoopFits, Alive
<1>8. OthersFit'
  BY <1>1, <1>2, <1>3 DEF OthersFit
<1>9. BusyFits' /\ OneEach'
  BY <1>1, <1>2 DEF BusyFits, OneEach
<1>10. OrderOK'
  <2>1. job # 0 \/ caller' \in {"free", "ended"}
    BY JobFacts
  <2>2. InQueue' = InQueue /\ Called' = Called /\ Stored' = Stored /\ QueueInOrder'
    BY <1>1 DEF InQueue, Called, Stored, QueueInOrder, Results, Alive
  <2>3. InSlot' \subseteq InSlot
    BY DEF InSlot
  <2> QED
    BY <2>1, <2>2, <2>3, OrderKept
<1> QED
  BY <1>4, <1>5, <1>6, <1>7, <1>8, <1>9, <1>10 DEF SupervisorInv, ThreadsOK

\* A read fails.
LEMMA ReadFailsKeeps ==
    ASSUME SupervisorInv, read_fails
    PROVE  SupervisorInv'
<1>1. LoopFits /\ BusyFits
  BY InvParts
<1>2. /\ loop = "reading" /\ sent[socket] = <<>> /\ ~Alive(socket) /\ loop' = "failing"
      /\ UNCHANGED <<state, request, result, socket, backlog, calls, sent, active, caller, job,
                     outcome, provider, spawned, deaths>>
  BY DEF read_fails, Local
<1>3. socket # Nobody /\ loop \in Served
  BY <1>1, <1>2 DEF LoopFits, Served
<1>4. Unread(socket) = {} /\ ~Runs(socket)
  BY <1>2, <1>3 DEF Unread, Results, ResultsIn, Runs, Alive
<1>5. ~(active # Nobody /\ ((Runs(active) /\ calls[active] # <<>>) \/ Unread(active) # {}))
  BY <1>1, <1>4 DEF BusyFits
<1> QED
  BY <1>2, <1>3, <1>5, BrokenKeeps

\* The failure is produced, unless there is nobody to tell.
LEMMA ProduceFailureKeeps ==
    ASSUME SupervisorInv, produce_failure
    PROVE  SupervisorInv'
<1>1. LoopFits /\ BusyFits
  BY InvParts
<1>2. /\ loop = "failing" /\ loop' \in {"idling", "leaving"}
      /\ result' \in {result, <<ImplicitFailure>>}
      /\ UNCHANGED <<state, request, socket, backlog, calls, sent, active, caller, job,
                     outcome, provider, spawned, deaths>>
  BY DEF produce_failure, Local, ImplicitFailure
<1>3. socket # Nobody /\ loop \in Served /\ ~Alive(socket)
  BY <1>1, <1>2 DEF LoopFits, Served
<1>4. ~(active # Nobody /\ ((Runs(active) /\ calls[active] # <<>>) \/ Unread(active) # {}))
  BY <1>1, <1>2 DEF BusyFits
<1> QED
  BY <1>2, <1>3, <1>4, BrokenKeeps

\* The state is set after the failure was produced.
LEMMA SetIdleKeeps ==
    ASSUME SupervisorInv, set_idle
    PROVE  SupervisorInv'
<1>1. /\ SupervisorTypeOK /\ BacklogFits /\ CallerFits /\ LoopFits /\ OthersFit /\ BusyFits /\ OneEach
      /\ QueueInOrder
  BY InvParts
<1>2. /\ loop = "idling" /\ state' = "IDLE" /\ loop' = "leaving"
      /\ UNCHANGED <<request, result, socket, backlog, calls, sent, active, caller, job,
                     outcome, provider, spawned, deaths>>
  BY DEF set_idle, Local
<1>3. socket # Nobody /\ ~Alive(socket) /\ socket \in Providers
  BY <1>1, <1>2, ProviderNumbers DEF LoopFits, Served
<1>4. \A p : Unread(p)' = Unread(p) /\ Results(p)' = Results(p) /\ Runs(p)' = Runs(p)
  BY <1>2, UnreadKept DEF Runs
<1>5. /\ Connections' = {backlog[i] : i \in 1 .. Len(backlog)}
      /\ Connections = {backlog[i] : i \in 1 .. Len(backlog)} \cup {socket}
  BY <1>2 DEF Connections, Served
<1>6. ASSUME caller # "ended" PROVE Others' = {}
  <2>1. CASE socket = active
    <3>1. Len(backlog) = 0
      BY <1>3, <2>1, ServedProvider
    <3> QED
      BY <1>5, <3>1 DEF Others
  <2>2. CASE socket # active
    <3>1. ASSUME NEW q \in Others' PROVE FALSE
      <4>1. q \in Others /\ socket \in Others
        BY <1>2, <1>5, <2>2 DEF Others
      <4>2. q = socket
        BY <1>1, <1>6, <4>1 DEF OthersFit
      <4>3. PICK i \in 1 .. Len(backlog) : q = backlog[i]
        BY <1>5 DEF Others
      <4>4. socket < q /\ q \in Nat
        BY <1>1, <4>3, ProviderNumbers DEF BacklogFits
      <4> QED
        BY <4>2, <4>4
    <3> QED
      BY <3>1
  <2> QED
    BY <2>1, <2>2
<1>7. ASSUME caller \in {"writing", "respawning"} PROVE Connections' = {} /\ ~Runs(active)
  <2>1. Others = {}
    BY <1>1, <1>7 DEF OthersFit
  <2>2. socket = active
    BY <1>5, <2>1 DEF Others
  <2>3. Len(backlog) = 0
    BY <1>3, <2>2, ServedProvider
  <2> QED
    BY <1>3, <1>5, <2>2, <2>3 DEF Alive, Runs
<1>8. SupervisorTypeOK'
  BY <1>1, <1>2 DEF SupervisorTypeOK, States, Loops
<1>9. ProvidersOK'
  BY <1>2, ProvidersKept
<1>10. CallerFits'
  BY <1>1, <1>2, <1>4, <1>7 DEF CallerFits
<1>11. LoopFits'
  BY <1>2, <1>3 DEF LoopFits, Served, Alive
<1>12. OthersFit'
  BY <1>2, <1>6 DEF OthersFit
<1>13. BusyFits' /\ OneEach'
  BY <1>1, <1>2, <1>4 DEF BusyFits, OneEach
<1>14. OrderOK'
  <2>1. job # 0 \/ caller' \in {"free", "ended"}
    BY <1>2, JobFacts
  <2> QED
    BY <1>1, <1>2, <2>1, PlacesKept, OrderKept
<1> QED
  BY <1>8, <1>9, <1>10, <1>11, <1>12, <1>13, <1>14 DEF SupervisorInv, ThreadsOK

\* The connection is given up.
LEMMA NextConnectionKeeps ==
    ASSUME SupervisorInv, next_connection
    PROVE  SupervisorInv'
<1>1. /\ SupervisorTypeOK /\ MessagesOK /\ OnlyActiveRuns /\ ProvidersFit /\ BacklogFits
      /\ CallerFits /\ LoopFits /\ OthersFit /\ BusyFits /\ OneEach /\ QueueInOrder
  BY InvParts
<1>2. /\ loop = "leaving" /\ loop' \in {"ended", "accepting"} /\ socket' \in {socket, Nobody}
      /\ UNCHANGED <<state, request, result, backlog, calls, sent, active, caller, job,
                     outcome, provider, spawned, deaths>>
  BY DEF next_connection, Local
<1>3. ~Alive(socket) /\ ~Alive(socket)'
  BY <1>1, <1>2 DEF LoopFits, Alive
<1>4. /\ socket \in Nat /\ Nobody = 0 /\ Providers \subseteq Nat \ {0} /\ spawned \in Nat
      /\ \A i \in 1 .. Len(backlog) : backlog[i] \in Providers
      /\ socket' \in 0 .. MaxSpawns /\ Nobody \notin Providers
  BY <1>2, ProviderNumbers
<1>5. \A p : Unread(p)' = Unread(p) /\ Results(p)' = Results(p) /\ Runs(p)' = Runs(p)
  BY <1>2 DEF Runs, Unread, Results
<1>6. Connections' = Connections /\ Others' = Others
  BY <1>2 DEF Connections, Others, Served
<1>7. SupervisorTypeOK'
  BY <1>1, <1>2, <1>4 DEF SupervisorTypeOK, Loops
<1>8. ProvidersOK'
  <2>1. MessagesOK' /\ OnlyActiveRuns'
    BY <1>1, <1>2, <1>5 DEF MessagesOK, OnlyActiveRuns
  <2>2. ProvidersFit'
    BY <1>1, <1>2, <1>4 DEF ProvidersFit, Unregistered
  <2>3. BacklogFits'
    <3>1. socket' <= spawned /\ \A i \in 1 .. Len(backlog) : socket' < backlog[i]
      <4>1. CASE socket' = socket
        BY <1>1, <4>1 DEF BacklogFits
      <4>2. CASE socket' = Nobody
        <5>1. ASSUME NEW i \in 1 .. Len(backlog) PROVE 0 < backlog[i]
          <6>1. backlog[i] \in Nat \ {0}
            BY <1>4
          <6> QED
            BY <6>1
        <5> QED
          BY <1>4, <4>2, <5>1
      <4> QED
        BY <1>2, <4>1, <4>2
    <3> QED
      BY <1>1, <1>2, <1>5, <3>1 DEF BacklogFits
  <2> QED
    BY <2>1, <2>2, <2>3 DEF ProvidersOK
<1>9. CallerFits'
  BY <1>1, <1>2, <1>5, <1>6 DEF CallerFits
<1>10. LoopFits'
  BY <1>2, <1>3 DEF LoopFits, Served
<1>11. OthersFit'
  BY <1>1, <1>2, <1>5, <1>6 DEF OthersFit
<1>12. BusyFits' /\ OneEach'
  BY <1>1, <1>2, <1>5 DEF BusyFits, OneEach
<1>13. OrderOK'
  <2>1. job # 0 \/ caller' \in {"free", "ended"}
    BY <1>2, JobFacts
  <2>2. InSlot' = InSlot /\ Stored' = Stored /\ Called' \subseteq Called
    BY <1>2, <1>3 DEF InSlot, Stored, Called
  <2>3. InQueue' \subseteq InQueue /\ QueueInOrder'
    BY <1>1, <1>2, <1>5 DEF InQueue, QueueInOrder
  <2> QED
    BY <1>2, <2>1, <2>2, <2>3, OrderKept
<1> QED
  BY <1>7, <1>8, <1>9, <1>10, <1>11, <1>12, <1>13 DEF SupervisorInv, ThreadsOK

-----------------------------------------------------------------------------
\* The steps of the providers

\* A provider that runs is the active one, the last that was started.
LEMMA RunningProvider ==
    ASSUME SupervisorInv, NEW p \in Providers, Runs(p)
    PROVE  /\ p = active /\ p = spawned /\ p # Nobody /\ active # Nobody
           /\ provider[p] # "starting" => Alive(p)
<1>1. OnlyActiveRuns /\ CallerFits
  BY InvParts
<1>2. Nobody \notin Providers
  BY ProviderNumbers
<1> QED
  BY <1>1, <1>2 DEF OnlyActiveRuns, CallerFits, Alive, Runs

\* A step by which a provider goes on, or dies, without a message or a call.
LEMMA ProviderMoves ==
    ASSUME SupervisorInv, NEW p \in Providers, Runs(p),
           NEW s \in {"idle", "working", "reported", "dead"}, s \in {"working", "reported"} => calls[p] # <<>>,
           provider' = [provider EXCEPT ![p] = s], deaths' \in 0 .. MaxDeaths,
           UNCHANGED <<state, request, active, result, socket, loop, caller, job, outcome, spawned,
                       backlog, calls>>,
           NEW m, m = Message("progress", NoRequest),
           sent' = sent \/ sent' = [sent EXCEPT ![p] = Append(@, m)]
    PROVE  SupervisorInv'
<1>1. /\ SupervisorTypeOK /\ MessagesOK /\ OnlyActiveRuns /\ ProvidersFit /\ BacklogFits
      /\ CallerFits /\ LoopFits /\ OthersFit /\ BusyFits /\ OneEach /\ QueueInOrder
  BY InvParts
<1>2. p = active /\ p = spawned /\ p # Nobody
  BY RunningProvider
<1>3. provider \in [Providers -> {"none", "starting", "idle", "working", "reported", "dead"}]
      /\ sent \in [Providers -> Seq(Messages)]
  BY <1>1 DEF SupervisorTypeOK
<1>4. /\ provider' \in [Providers -> {"none", "starting", "idle", "working", "reported", "dead"}]
      /\ provider'[p] = s /\ \A q \in Providers : q # p => provider'[q] = provider[q]
  BY <1>3
<1>5. m \in Messages /\ ~IsResult(m)
  BY DEF Message, Messages, Kinds, IsResult
<1>6. /\ sent' \in [Providers -> Seq(Messages)]
      /\ \A q \in Providers : q # p => sent'[q] = sent[q]
      /\ sent'[p] = sent[p] \/ sent'[p] = Append(sent[p], m)
  <2>1. CASE sent' = sent
    BY <1>3, <2>1
  <2>2. CASE sent' = [sent EXCEPT ![p] = Append(@, m)]
    BY <1>3, <1>5, <2>2
  <2> QED
    BY <2>1, <2>2
<1>7. /\ ResultsIn(sent'[p]) = ResultsIn(sent[p])
      /\ \A i \in ResultsIn(sent[p]) : sent'[p][i] = sent[p][i]
      /\ sent[p] # <<>> => sent'[p] # <<>>
  <2>1. sent[p] \in Seq(Messages)
    BY <1>3
  <2>2. CASE sent'[p] = sent[p]
    BY <2>2
  <2>3. CASE sent'[p] = Append(sent[p], m)
    <3>1. /\ Append(sent[p], m) # <<>>
          /\ \A i \in ResultsIn(sent[p]) : i \in ResultsIn(Append(sent[p], m)) /\ Append(sent[p], m)[i] = sent[p][i]
          /\ \A i \in ResultsIn(Append(sent[p], m)) : i \in ResultsIn(sent[p])
      BY <1>5, <2>1, ResultsAfterAppend
    <3> QED
      BY <2>3, <3>1
  <2> QED
    BY <1>6, <2>2, <2>3
<1>8. /\ \A q \in Providers : Results(q)' = Results(q) /\ Unread(q)' = Unread(q)
      /\ \A q \in Providers : \A i \in Results(q) : sent'[q][i] = sent[q][i]
      /\ \A q \in Providers : sent[q] # <<>> => sent'[q] # <<>>
  <2>1. \A q \in Providers : ResultsIn(sent'[q]) = ResultsIn(sent[q])
    BY <1>6, <1>7
  <2> QED
    BY <1>6, <1>7, <2>1 DEF Results, Unread
<1>9. /\ \A q \in Providers : Runs(q)' => Runs(q)
      /\ (s # "dead" => Runs(p)') /\ (s = "dead" => ~Runs(p)')
  BY <1>4 DEF Runs
<1>10. /\ socket # Nobody => socket \in Providers
       /\ active \in Providers /\ Connections \subseteq Providers /\ Len(backlog) \in Nat
       /\ \A i \in 1 .. Len(backlog) : backlog[i] \in Providers
  BY <1>2, ProviderNumbers, ServedProvider
<1>11. Alive(socket)' => Alive(socket)
  BY <1>4, <1>10 DEF Alive, Runs
<1>12. Connections' = Connections /\ Others' = Others
  BY DEF Connections, Others
<1>13. SupervisorTypeOK'
  BY <1>1, <1>4, <1>6 DEF SupervisorTypeOK
<1>14. ProvidersOK'
  <2>1. MessagesOK'
    BY <1>1, <1>8 DEF MessagesOK
  <2>2. OnlyActiveRuns'
    BY <1>1, <1>9 DEF OnlyActiveRuns
  <2>3. ProvidersFit'
    <3>1. provider[p] # "none"
      BY DEF Runs
    <3>2. ~(p > spawned)
      BY <1>1, <3>1 DEF ProvidersFit
    <3> QED
      BY <1>1, <1>4, <1>6, <3>1, <3>2 DEF ProvidersFit, Unregistered
  <2>4. BacklogFits'
    BY <1>1, <1>8, <1>10 DEF BacklogFits
  <2> QED
    BY <2>1, <2>2, <2>3, <2>4 DEF ProvidersOK
<1>15. CallerFits'
  BY <1>1, <1>2, <1>9, <1>12 DEF CallerFits
<1>16. LoopFits'
  <2>1. socket # Nobody => Results(socket)' = Results(socket) /\ (sent[socket] # <<>> => sent'[socket] # <<>>)
    BY <1>8, <1>10
  <2> QED
    BY <1>1, <1>11, <2>1 DEF LoopFits, Served
<1>17. OthersFit'
  BY <1>1, <1>8, <1>10, <1>12 DEF OthersFit, Others
<1>18. BusyFits' /\ OneEach'
  BY <1>1, <1>8, <1>9, <1>10 DEF BusyFits, OneEach
<1>19. OrderOK'
  <2>1. job # 0 \/ caller' \in {"free", "ended"}
    BY JobFacts
  <2>2. InSlot' = InSlot /\ Stored' = Stored /\ Called' \subseteq Called
    BY <1>11 DEF InSlot, Stored, Called
  <2>3. InQueue' = InQueue
    <3>1. CASE socket = Nobody
      BY <3>1 DEF InQueue
    <3>2. CASE socket # Nobody
      <4>1. Results(socket)' = Results(socket) /\ \A i \in Results(socket) : sent'[socket][i] = sent[socket][i]
        BY <1>8, <1>10, <3>2
      <4>2. ASSUME NEW c \in InQueue' PROVE c \in InQueue
        <5>1. PICK i \in Results(socket)' : c = sent'[socket][i].call.job
          BY <3>2, <4>2 DEF InQueue
        <5> QED
          BY <3>2, <4>1, <5>1 DEF InQueue
      <4>3. ASSUME NEW c \in InQueue PROVE c \in InQueue'
        <5>1. PICK i \in Results(socket) : c = sent[socket][i].call.job
          BY <3>2, <4>3 DEF InQueue
        <5> QED
          BY <3>2, <4>1, <5>1 DEF InQueue
      <4> QED
        BY <4>2, <4>3
    <3> QED
      BY <3>1, <3>2
  <2>4. QueueInOrder'
    BY <1>1, <1>8, <1>10 DEF QueueInOrder
  <2>5. active # Nobody /\ provider[active] # "none"
    BY <1>2 DEF Runs
  <2> QED
    BY <2>1, <2>2, <2>3, <2>4, <2>5, OrderKept
<1> QED
  BY <1>13, <1>14, <1>15, <1>16, <1>17, <1>18, <1>19 DEF SupervisorInv, ThreadsOK

\* A provider begins a calculation, reports progress, or dies.
LEMMA MovesKeep ==
    ASSUME SupervisorInv, NEW p \in Providers, dispatch(p) \/ report_progress(p) \/ die(p)
    PROVE  SupervisorInv'
<1>1. SupervisorTypeOK /\ ProvidersFit
  BY InvParts
<1>2. deaths \in 0 .. MaxDeaths /\ MaxDeaths \in Nat
  BY <1>1, BoundsAreNat DEF SupervisorTypeOK
<1>3. CASE dispatch(p)
  BY <1>2, <1>3, ProviderMoves DEF dispatch, Elsewhere, Runs
<1>4. CASE report_progress(p)
  <2>1. calls[p] # <<>>
    BY <1>1, <1>4 DEF report_progress, ProvidersFit
  <2> QED
    BY <1>2, <1>4, <2>1, ProviderMoves DEF report_progress, Elsewhere, Runs
<1>5. CASE die(p)
  <2>1. deaths' \in 0 .. MaxDeaths
    BY <1>2, <1>5 DEF die
  <2> QED
    BY <1>5, <2>1, ProviderMoves DEF die, Elsewhere, Runs
<1> QED
  BY <1>3, <1>4, <1>5

\* A provider that was started connects and registers.
LEMMA RegisterKeeps ==
    ASSUME SupervisorInv, NEW p \in Providers, register(p)
    PROVE  SupervisorInv'
<1>1. /\ SupervisorTypeOK /\ MessagesOK /\ OnlyActiveRuns /\ ProvidersFit /\ BacklogFits
      /\ CallerFits /\ LoopFits /\ OthersFit /\ BusyFits /\ OneEach /\ QueueInOrder
  BY InvParts
<1>2. PICK m : m = Message("registration", NoRequest)
  OBVIOUS
<1>3. /\ provider[p] = "starting" /\ provider' = [provider EXCEPT ![p] = "idle"]
      /\ backlog' = Append(backlog, p) /\ sent' = [sent EXCEPT ![p] = <<m>>]
      /\ UNCHANGED <<state, request, active, result, socket, loop, caller, job, outcome, spawned,
                     calls, deaths>>
  BY <1>2 DEF register, Elsewhere
<1>4. p = active /\ p = spawned /\ p # Nobody /\ Runs(p)
  <2>1. Runs(p)
    BY <1>3 DEF Runs
  <2> QED
    BY <2>1, RunningProvider
<1>5. p # socket /\ (\A i \in 1 .. Len(backlog) : backlog[i] # p) /\ calls[p] = <<>> /\ sent[p] = <<>>
  BY <1>1, <1>3 DEF ProvidersFit, Unregistered
<1>6. /\ socket # Nobody => socket \in Providers
      /\ socket \in Nat /\ p \in Nat /\ spawned \in Nat /\ Len(backlog) \in Nat /\ Providers \subseteq Nat
      /\ backlog \in Seq(Providers) /\ Connections \subseteq Providers
      /\ \A i \in 1 .. Len(backlog) : backlog[i] \in Providers
  BY ProviderNumbers, ServedProvider
<1>7. m \in Messages /\ ~IsResult(m)
  BY <1>2 DEF Message, Messages, Kinds, IsResult
<1>8. provider \in [Providers -> {"none", "starting", "idle", "working", "reported", "dead"}]
      /\ sent \in [Providers -> Seq(Messages)]
  BY <1>1 DEF SupervisorTypeOK
<1>9. /\ provider' \in [Providers -> {"none", "starting", "idle", "working", "reported", "dead"}]
      /\ provider'[p] = "idle" /\ \A q \in Providers : q # p => provider'[q] = provider[q]
  BY <1>3, <1>8
<1>10. /\ sent' \in [Providers -> Seq(Messages)] /\ sent'[p] = <<m>>
       /\ \A q \in Providers : q # p => sent'[q] = sent[q]
  BY <1>3, <1>7, <1>8
<1>11. Results(p)' = {} /\ Unread(p)' = {}
  <2>1. ResultsIn(<<m>>) = {}
    BY <1>7 DEF ResultsIn
  <2> QED
    BY <1>10, <2>1 DEF Results, Unread
<1>12. /\ \A q \in Providers : q # p => Results(q)' = Results(q) /\ Unread(q)' = Unread(q)
       /\ \A q \in Providers : Runs(q)' = Runs(q)
  BY <1>3, <1>4, <1>9, <1>10 DEF Results, Unread, Runs
<1>13. /\ backlog' \in Seq(Providers) /\ Len(backlog') = Len(backlog) + 1
       /\ backlog'[Len(backlog) + 1] = p /\ \A i \in 1 .. Len(backlog) : backlog'[i] = backlog[i]
  BY <1>3, <1>6
<1>14. SupervisorTypeOK'
  BY <1>1, <1>3, <1>9, <1>10, <1>13 DEF SupervisorTypeOK
<1>15. ProvidersOK'
  <2>1. MessagesOK'
    BY <1>1, <1>3, <1>10, <1>11, <1>12 DEF MessagesOK
  <2>2. OnlyActiveRuns'
    BY <1>1, <1>3, <1>12 DEF OnlyActiveRuns
  <2>3. ASSUME NEW q \in Providers, q # p, Unregistered(q) PROVE Unregistered(q)'
    <3>1. \A i \in 1 .. Len(backlog') : i = Len(backlog) + 1 \/ i \in 1 .. Len(backlog)
      BY <1>6, <1>13
    <3> QED
      BY <1>3, <1>10, <1>13, <2>3, <3>1 DEF Unregistered
  <2>4. ProvidersFit'
    <3>1. ~(p > spawned)
      BY <1>4, <1>6
    <3> QED
      BY <1>1, <1>3, <1>9, <2>3, <3>1 DEF ProvidersFit
  <2>5. BacklogFits'
    <3>1. socket < p /\ socket <= spawned
      BY <1>1, <1>4, <1>5, <1>6 DEF BacklogFits
    <3>2. ASSUME NEW i \in 1 .. Len(backlog)
          PROVE  /\ backlog'[i] = backlog[i] /\ backlog[i] \in Providers /\ backlog[i] # p
                 /\ socket < backlog[i] /\ backlog[i] <= spawned /\ backlog[i] < p
                 /\ calls[backlog[i]] = <<>> /\ Results(backlog[i]) = {}
      <4>1. /\ socket < backlog[i] /\ backlog[i] <= spawned
            /\ calls[backlog[i]] = <<>> /\ Results(backlog[i]) = {}
        BY <1>1 DEF BacklogFits
      <4>2. backlog[i] \in Providers /\ backlog[i] # p /\ backlog[i] \in Nat
        BY <1>5, <1>6
      <4>3. backlog[i] < p
        BY <1>4, <1>6, <4>1, <4>2
      <4> QED
        BY <1>13, <4>1, <4>2, <4>3
    <3>3. \A i \in 1 .. Len(backlog') : i = Len(backlog) + 1 \/ i \in 1 .. Len(backlog)
      BY <1>6, <1>13
    <3>4. ASSUME NEW i \in 1 .. Len(backlog')
          PROVE  /\ socket' < backlog'[i] /\ backlog'[i] <= spawned'
                 /\ calls'[backlog'[i]] = <<>> /\ Results(backlog[i])' = {}
      <4>1. CASE i = Len(backlog) + 1
        BY <1>3, <1>4, <1>5, <1>6, <1>11, <1>13, <3>1, <4>1
      <4>2. CASE i \in 1 .. Len(backlog)
        BY <1>3, <1>12, <3>2, <4>2
      <4> QED
        BY <3>3, <4>1, <4>2
    <3>5. ASSUME NEW i \in 1 .. Len(backlog'), NEW j \in 1 .. Len(backlog'), i < j
          PROVE  backlog'[i] < backlog'[j]
      <4>1. i \in 1 .. Len(backlog)
        BY <1>6, <1>13, <3>5
      <4>2. CASE j = Len(backlog) + 1
        BY <1>13, <3>2, <4>1, <4>2
      <4>3. CASE j \in 1 .. Len(backlog)
        BY <1>1, <1>13, <3>5, <4>1, <4>3 DEF BacklogFits
      <4> QED
        BY <3>3, <4>2, <4>3
    <3> QED
      BY <1>3, <3>1, <3>4, <3>5 DEF BacklogFits
  <2> QED
    BY <2>1, <2>2, <2>4, <2>5 DEF ProvidersOK
<1>16. Others' \subseteq Others
  <2>1. ASSUME NEW q \in Others' PROVE q \in Others
    <3>1. q # p /\ q \in Connections'
      BY <1>3, <1>4 DEF Others
    <3>2. \A i \in 1 .. Len(backlog') : i = Len(backlog) + 1 \/ i \in 1 .. Len(backlog)
      BY <1>6, <1>13
    <3>3. q \in Connections
      BY <1>3, <1>13, <3>1, <3>2 DEF Connections
    <3> QED
      BY <1>4, <3>1, <3>3 DEF Others
  <2> QED
    BY <2>1
<1>17. CallerFits'
  BY <1>1, <1>3, <1>4 DEF CallerFits
<1>18. LoopFits'
  <2>1. Alive(socket)' <=> Alive(socket)
    BY <1>3, <1>5, <1>6, <1>9 DEF Alive
  <2>2. socket # Nobody => sent'[socket] = sent[socket] /\ Results(socket)' = Results(socket)
    BY <1>3, <1>5, <1>6, <1>10, <1>12
  <2> QED
    BY <1>1, <1>3, <2>1, <2>2 DEF LoopFits, Served
<1>19. OthersFit'
  <2>1. \A q \in Others' : q \in Providers /\ q # p
    BY <1>3, <1>4, <1>6, <1>16 DEF Others
  <2> QED
    BY <1>1, <1>3, <1>12, <1>16, <2>1 DEF OthersFit
<1>20. BusyFits' /\ OneEach'
  <2>1. calls'[active'] = <<>> /\ Unread(active)' = {} /\ Len(calls'[active']) = 0
    BY <1>3, <1>4, <1>5, <1>11
  <2> QED
    BY <2>1 DEF BusyFits, OneEach
<1>21. OrderOK'
  <2>1. job # 0 \/ caller' \in {"free", "ended"}
    BY <1>3, JobFacts
  <2>2. InSlot' = InSlot /\ Stored' = Stored
    BY <1>3 DEF InSlot, Stored
  <2>3. Called' = Called
    BY <1>3, <1>5, <1>6, <1>9 DEF Called, Alive
  <2>4. InQueue' = InQueue /\ QueueInOrder'
    <3>1. socket # Nobody => sent'[socket] = sent[socket] /\ Results(socket)' = Results(socket)
      BY <1>3, <1>5, <1>6, <1>10, <1>12
    <3>2. InQueue' = InQueue
      BY <1>3, <3>1 DEF InQueue
    <3>3. QueueInOrder'
      BY <1>1, <1>3, <3>1 DEF QueueInOrder
    <3> QED
      BY <3>2, <3>3
  <2>5. active # Nobody /\ provider[active] # "none"
    BY <1>3, <1>4
  <2> QED
    BY <1>3, <2>1, <2>2, <2>3, <2>4, <2>5, OrderKept
<1> QED
  BY <1>14, <1>15, <1>17, <1>18, <1>19, <1>20, <1>21 DEF SupervisorInv, ThreadsOK

\* A provider ends a calculation and sends what it computed.
LEMMA PerformKeeps ==
    ASSUME SupervisorInv, NEW p \in Providers, perform_calculation(p)
    PROVE  SupervisorInv'
<1>1. /\ SupervisorTypeOK /\ MessagesOK /\ OnlyActiveRuns /\ ProvidersFit /\ BacklogFits
      /\ CallerFits /\ LoopFits /\ OthersFit /\ BusyFits /\ OneEach
      /\ JobsOK /\ InOrder /\ QueueInOrder /\ Begun /\ LateOnesExcused /\ ReturnedOK
  BY InvParts
<1>2. PICK kind \in {"result", "failure"} :
         sent' = [sent EXCEPT ![p] = Append(@, Message(kind, Head(calls[p])))]
  BY DEF perform_calculation
<1>3. PICK m : m = Message(kind, Head(calls[p]))
  OBVIOUS
<1>4. /\ provider[p] \in {"working", "reported"} /\ provider' = [provider EXCEPT ![p] = "idle"]
      /\ sent' = [sent EXCEPT ![p] = Append(@, m)] /\ calls' = [calls EXCEPT ![p] = Tail(@)]
      /\ UNCHANGED <<state, request, active, result, socket, loop, caller, job, outcome, spawned,
                     backlog, deaths>>
  BY <1>2, <1>3 DEF perform_calculation, Elsewhere
<1>5. /\ p = active /\ p = spawned /\ p # Nobody /\ Runs(p) /\ Alive(p) /\ calls[p] # <<>>
  <2>1. Runs(p) /\ calls[p] # <<>>
    BY <1>1, <1>4 DEF Runs, ProvidersFit
  <2> QED
    BY <1>4, <2>1, RunningProvider
<1>6. /\ state = "AWAITING_RESULT" /\ socket = p /\ loop \in {"reading", "producing"}
      /\ caller \in {"consuming", "free"} /\ Len(calls[p]) <= 1 /\ Unread(p) = {}
  BY <1>1, <1>5 DEF BusyFits, OneEach
<1>7. /\ calls \in [Providers -> Seq(Requests)] /\ sent \in [Providers -> Seq(Messages)]
      /\ provider \in [Providers -> {"none", "starting", "idle", "working", "reported", "dead"}]
  BY <1>1 DEF SupervisorTypeOK
<1>8. /\ Head(calls[p]) \in Requests /\ Len(calls[p]) = 1 /\ calls[p][1] = Head(calls[p])
      /\ Tail(calls[p]) = <<>>
  <2>1. calls[p] \in Seq(Requests) /\ Len(calls[p]) \in Nat /\ Len(calls[p]) >= 1
    BY <1>5, <1>7
  <2>2. Len(calls[p]) <= 1
    BY <1>6
  <2>3. Len(calls[p]) = 1
    <3>1. \A n \in Nat : n >= 1 /\ n <= 1 => n = 1
      OBVIOUS
    <3> QED
      BY <2>1, <2>2, <3>1
  <2>4. PICK c \in Seq(Requests) : c = calls[p] /\ Len(c) = 1
    BY <2>1, <2>3
  <2>5. Head(c) \in Requests /\ c[1] = Head(c) /\ Tail(c) \in Seq(Requests) /\ Len(Tail(c)) = 0
    BY <2>4
  <2>6. Tail(c) = <<>>
    <3>1. ASSUME NEW d \in Seq(Requests), Len(d) = 0 PROVE d = <<>>
      BY <3>1
    <3> QED
      BY <2>5, <3>1
  <2> QED
    BY <2>4, <2>5, <2>6
<1>9. /\ m \in Messages /\ m.kind \in {"result", "failure"} /\ m.call = Head(calls[p]) /\ IsResult(m)
      /\ m.call \in Requests
  <2>1. m.kind = kind /\ m.call = Head(calls[p])
    BY <1>3 DEF Message
  <2>2. m \in Messages
    BY <1>3, <1>8 DEF Message, Messages, Kinds
  <2> QED
    BY <1>8, <2>1, <2>2 DEF IsResult
<1>10. PICK s \in Seq(Messages) : s = sent[p]
  BY <1>7
<1>11. /\ calls' \in [Providers -> Seq(Requests)] /\ calls'[p] = <<>> /\ Len(calls'[p]) = 0
       /\ \A q \in Providers : q # p => calls'[q] = calls[q]
  <2>1. calls' = [calls EXCEPT ![p] = <<>>]
    BY <1>4, <1>8
  <2>2. <<>> \in Seq(Requests) /\ Len(<<>>) = 0
    OBVIOUS
  <2> QED
    BY <1>7, <2>1, <2>2
<1>12. /\ sent' \in [Providers -> Seq(Messages)] /\ sent'[p] = Append(s, m)
       /\ \A q \in Providers : q # p => sent'[q] = sent[q]
  BY <1>4, <1>7, <1>9, <1>10
<1>13. /\ provider' \in [Providers -> {"none", "starting", "idle", "working", "reported", "dead"}]
       /\ provider'[p] = "idle" /\ \A q \in Providers : q # p => provider'[q] = provider[q]
  BY <1>4, <1>7
<1>14. /\ Append(s, m) # <<>> /\ ResultsIn(s) \subseteq Nat /\ Len(s) + 1 \in Nat
       /\ \A i \in ResultsIn(s) : /\ i \in ResultsIn(Append(s, m)) /\ i < Len(s) + 1
                                  /\ Append(s, m)[i] = s[i]
       /\ \A i \in ResultsIn(Append(s, m)) :
             \/ i \in ResultsIn(s)
             \/ i = Len(s) + 1 /\ Append(s, m)[i] = m
  <2>1. /\ Append(s, m) # <<>> /\ ResultsIn(s) \subseteq Nat /\ Len(s) + 1 \in Nat
        /\ \A i \in ResultsIn(s) : /\ i \in ResultsIn(Append(s, m)) /\ i < Len(s) + 1
                                   /\ Append(s, m)[i] = s[i]
    BY <1>9, <1>10, ResultsAfterAppend
  <2>2. \A i \in ResultsIn(Append(s, m)) :
                 \/ i \in ResultsIn(s)
                 \/ i = Len(s) + 1 /\ Append(s, m)[i] = m /\ IsResult(m)
    BY <1>9, <1>10, ResultsAfterAppend
  <2> QED
    BY <2>1, <2>2
<1>15. /\ Results(p) = ResultsIn(s) /\ Results(p)' = ResultsIn(Append(s, m))
       /\ \A q \in Providers : q # p => Results(q)' = Results(q) /\ Unread(q)' = Unread(q)
       /\ \A q \in Providers : Runs(q)' = Runs(q)
  BY <1>4, <1>5, <1>10, <1>12, <1>13 DEF Results, Unread, Runs
<1>16. \A i \in Unread(p)' : i = Len(s) + 1
  <2>1. ASSUME NEW i \in Unread(p)', i \in ResultsIn(s) PROVE FALSE
    <3>1. i \in Unread(p)
      BY <1>4, <1>6, <1>15, <2>1 DEF Unread
    <3> QED
      BY <1>6, <3>1
  <2>2. ASSUME NEW i \in Unread(p)' PROVE i \in ResultsIn(Append(s, m))
    BY <1>15 DEF Unread
  <2> QED
    BY <1>14, <2>1, <2>2
<1>17. /\ Connections \subseteq Providers /\ Len(backlog) = 0 /\ Connections' = Connections
       /\ Others' = Others
  BY <1>4, <1>5, <1>6, ServedProvider DEF Connections, Others
<1>18. SupervisorTypeOK'
  BY <1>1, <1>4, <1>11, <1>12, <1>13 DEF SupervisorTypeOK
<1>19. ProvidersOK'
  <2>1. ASSUME NEW q \in Providers, NEW i \in Results(q)'
        PROVE  sent'[q][i].kind \in {"result", "failure"} /\ sent'[q][i].call \in Requests
    <3>1. CASE q = p
      <4>1. i \in ResultsIn(Append(s, m))
        BY <1>15, <2>1, <3>1
      <4>2. CASE i \in ResultsIn(s)
        BY <1>1, <1>10, <1>12, <1>14, <1>15, <3>1, <4>2 DEF MessagesOK
      <4>3. CASE i = Len(s) + 1 /\ Append(s, m)[i] = m
        BY <1>9, <1>12, <3>1, <4>3
      <4> QED
        BY <1>14, <4>1, <4>2, <4>3
    <3>2. CASE q # p
      BY <1>1, <1>12, <1>15, <3>2 DEF MessagesOK
    <3> QED
      BY <3>1, <3>2
  <2>2. MessagesOK'
    BY <1>1, <1>4, <2>1 DEF MessagesOK
  <2>3. OnlyActiveRuns'
    BY <1>1, <1>4, <1>15 DEF OnlyActiveRuns
  <2>4. ProvidersFit'
    <3>1. provider[p] # "none"
      BY <1>4
    <3>2. ~(p > spawned)
      BY <1>1, <3>1 DEF ProvidersFit
    <3> QED
      BY <1>1, <1>4, <1>11, <1>12, <1>13, <3>1, <3>2 DEF ProvidersFit, Unregistered
  <2>5. BacklogFits'
    <3>1. 1 .. Len(backlog) = {}
      BY <1>17
    <3> QED
      BY <1>1, <1>4, <3>1 DEF BacklogFits
  <2> QED
    BY <2>2, <2>3, <2>4, <2>5 DEF ProvidersOK
<1>20. CallerFits'
  BY <1>1, <1>4, <1>6, <1>17 DEF CallerFits
<1>21. LoopFits'
  BY <1>1, <1>4, <1>5, <1>6, <1>12, <1>14, <1>15 DEF LoopFits
<1>22. OthersFit'
  <2>1. \A q \in Others : q \in Providers /\ q # p
    BY <1>5, <1>17 DEF Others
  <2> QED
    BY <1>1, <1>4, <1>15, <1>17, <2>1 DEF OthersFit
<1>23. BusyFits'
  BY <1>4, <1>5, <1>6 DEF BusyFits
<1>24. OneEach'
  BY <1>4, <1>5, <1>11, <1>16 DEF OneEach
<1>25. /\ InSlot' = InSlot /\ Stored' = Stored /\ Returned' = Returned
       /\ Called = {m.call.job} /\ Called' = {}
  <2>1. InSlot' = InSlot /\ Stored' = Stored /\ Returned' = Returned
    BY <1>4 DEF InSlot, Stored, Returned
  <2>2. Called = {m.call.job}
    BY <1>5, <1>6, <1>8, <1>9 DEF Called
  <2>3. Called' = {}
    BY <1>4, <1>6, <1>11 DEF Called
  <2> QED
    BY <2>1, <2>2, <2>3
<1>26. ASSUME NEW i \in Results(p)'
       PROVE  \/ i \in Results(p) /\ sent'[p][i] = sent[p][i] /\ i < Len(s) + 1
              \/ i = Len(s) + 1 /\ sent'[p][i] = m
  BY <1>10, <1>12, <1>14, <1>15
<1>27. InQueue' \subseteq InQueue \cup {m.call.job}
  <2>1. ASSUME NEW c \in InQueue' PROVE c \in InQueue \cup {m.call.job}
    <3>1. PICK i \in Results(p)' : c = sent'[p][i].call.job
      BY <1>4, <1>6, <2>1 DEF InQueue
    <3>2. CASE i \in Results(p) /\ sent'[p][i] = sent[p][i]
      BY <1>5, <1>6, <3>1, <3>2 DEF InQueue
    <3> QED
      BY <1>26, <3>1, <3>2
  <2> QED
    BY <2>1
<1>28. QueueInOrder'
  <2>1. ASSUME NEW i \in Results(p)', NEW j \in Results(p)', i < j
        PROVE  sent'[p][i].call.job < sent'[p][j].call.job
    <3>1. i \in Results(p) /\ sent'[p][i] = sent[p][i]
      <4>1. i \in Nat /\ j \in Nat /\ (j = Len(s) + 1 \/ j < Len(s) + 1)
        BY <1>14, <1>15, <1>26
      <4>2. i # Len(s) + 1
        BY <1>14, <2>1, <4>1
      <4> QED
        BY <1>26, <4>2
    <3>2. CASE j \in Results(p) /\ sent'[p][j] = sent[p][j]
      BY <1>1, <1>5, <1>6, <2>1, <3>1, <3>2 DEF QueueInOrder
    <3>3. CASE sent'[p][j] = m
      <4>1. sent[p][i].call.job \in InQueue
        BY <1>5, <1>6, <3>1 DEF InQueue
      <4> QED
        BY <1>1, <1>25, <3>1, <3>3, <4>1 DEF InOrder, Before
    <3> QED
      BY <1>26, <3>2, <3>3
  <2> QED
    BY <1>4, <1>6, <2>1 DEF QueueInOrder
<1>29. \A i : Done(i)' = Done(i) /\ Excused(i)' = Excused(i)
  BY <1>4 DEF Done, Excused
<1>30. InOrder'
  BY <1>1, <1>25, <1>27 DEF InOrder, Before
<1>31. Begun'
  BY <1>1, <1>4, <1>6, <1>25, <1>27 DEF Begun
<1>32. LateOnesExcused'
  <2>1. active # Nobody /\ provider[active] # "none"
    BY <1>4, <1>5
  <2> QED
    BY <1>1, <1>25, <1>27, <1>29, <2>1 DEF LateOnesExcused
<1>33. JobsOK' /\ ReturnedOK'
  BY <1>1, <1>4, <1>29 DEF JobsOK, ReturnedOK
<1>34. OrderOK'
  BY <1>28, <1>30, <1>31, <1>32, <1>33 DEF OrderOK
<1> QED
  BY <1>18, <1>19, <1>20, <1>21, <1>22, <1>23, <1>24, <1>34 DEF SupervisorInv, ThreadsOK

-----------------------------------------------------------------------------
\* The supervisor: the theorems

\* Nothing has happened: the invariant holds.
LEMMA SupervisorInitial ==
    ASSUME SInit
    PROVE  SupervisorInv
<1>1. /\ state = "IDLE" /\ request = <<>> /\ active = 0 /\ result = <<>> /\ socket = 0
      /\ backlog = <<>> /\ loop = "accepting" /\ caller = "free" /\ job = 0
      /\ spawned = 0 /\ deaths = 0
      /\ \A p \in Providers : provider[p] = "none" /\ calls[p] = <<>> /\ sent[p] = <<>>
      /\ \A j \in Jobs : outcome[j] = Message("pending", NoRequest)
  BY DEF SInit, Nobody
<1>2. Len(<<>>) = 0 /\ 1 .. 0 = {} /\ Nobody = 0 /\ Nobody \notin Providers
  BY DEF Nobody, Providers
<1>3. /\ Jobs = 1 .. Len(ImageOf) /\ Len(ImageOf) \in Nat /\ MaxSpawns \in Nat /\ MaxDeaths \in Nat
  BY BoundsAreNat
<1>4. SupervisorTypeOK
  <2>1. Message("pending", NoRequest) \in Messages
    BY DEF Message, Messages, Kinds
  <2>2. /\ provider \in [Providers -> {"none", "starting", "idle", "working", "reported", "dead"}]
        /\ calls \in [Providers -> Seq(Requests)] /\ sent \in [Providers -> Seq(Messages)]
        /\ outcome \in [Jobs -> Messages] /\ backlog \in Seq(Providers)
    BY <1>1, <2>1 DEF SInit
  <2>3. active \in 0 .. MaxSpawns /\ socket \in 0 .. MaxSpawns /\ spawned \in 0 .. MaxSpawns
        /\ deaths \in 0 .. MaxDeaths /\ job \in 0 .. Len(ImageOf)
    BY <1>1, <1>3
  <2> QED
    BY <1>1, <2>2, <2>3 DEF SupervisorTypeOK, States, Callers, Loops
<1>5. \A p \in Providers : Results(p) = {} /\ Unread(p) = {} /\ ~Runs(p)
  BY <1>1, <1>2 DEF Results, ResultsIn, Unread, Runs
<1>6. ProvidersOK
  <2>1. MessagesOK /\ OnlyActiveRuns
    BY <1>1, <1>5 DEF MessagesOK, OnlyActiveRuns
  <2>2. ProvidersFit
    BY <1>1, <1>2 DEF ProvidersFit, Unregistered
  <2>3. BacklogFits
    BY <1>1, <1>2 DEF BacklogFits
  <2> QED
    BY <2>1, <2>2, <2>3 DEF ProvidersOK
<1>7. ThreadsOK
  <2>1. Connections = {} /\ Others = {} /\ ~Alive(socket)
    BY <1>1, <1>2 DEF Connections, Others, Served, Alive
  <2>2. CallerFits
    BY <1>1, <1>2 DEF CallerFits
  <2>3. LoopFits
    BY <1>1, <2>1 DEF LoopFits, Served
  <2>4. OthersFit /\ BusyFits /\ OneEach
    BY <1>1, <1>2, <2>1 DEF OthersFit, BusyFits, OneEach
  <2> QED
    BY <2>2, <2>3, <2>4 DEF ThreadsOK
<1>8. OrderOK
  <2>1. \A j \in Jobs : outcome[j].kind = "pending" /\ ~Done(j)
    BY <1>1 DEF Message, Done
  <2>2. Returned = {} /\ InSlot = {} /\ InQueue = {} /\ Called = {} /\ Stored = {}
    BY <1>1, <1>2, <2>1 DEF Returned, InSlot, InQueue, Called, Stored, Alive
  <2>3. JobsOK
    BY <1>1, <1>3, <2>1 DEF JobsOK
  <2>4. InOrder
    BY <2>2 DEF InOrder, Before
  <2>5. QueueInOrder /\ Begun /\ LateOnesExcused
    BY <1>1, <1>2, <2>2 DEF QueueInOrder, Begun, LateOnesExcused
  <2>6. ReturnedOK
    BY <2>1 DEF ReturnedOK
  <2> QED
    BY <2>3, <2>4, <2>5, <2>6 DEF OrderOK
<1> QED
  BY <1>4, <1>6, <1>7, <1>8 DEF SupervisorInv

\* Every step of the supervisor and of its providers keeps the invariant.
LEMMA SupervisorStep ==
    ASSUME SupervisorInv, [SNext]_svars
    PROVE  SupervisorInv'
<1>1. CASE SNext
  <2>1. CASE CallerSteps
    BY <2>1, StoreKeeps, TransmitKeeps, WriteKeeps, StopKeeps, AwaitKeeps, SpawnKeeps, ConsumeKeeps
       DEF CallerSteps
  <2>2. CASE MessageSteps
    BY <2>2, AcceptKeeps, ReadMessageKeeps, ReadResultKeeps, ProduceKeeps, WriteRegisteredKeeps,
       ReadFailsKeeps, ProduceFailureKeeps, SetIdleKeeps, NextConnectionKeeps DEF MessageSteps
  <2>3. CASE \E j \in Jobs : supervise(j)
    BY <2>3, SuperviseKeeps
  <2>4. CASE terminate
    BY <2>4, TerminateKeeps
  <2>5. CASE \E p \in Providers : ProviderSteps(p) \/ report_progress(p) \/ die(p)
    BY <2>5, RegisterKeeps, PerformKeeps, MovesKeep DEF ProviderSteps
  <2> QED
    BY <1>1, <2>1, <2>2, <2>3, <2>4, <2>5 DEF SNext
<1>2. CASE UNCHANGED svars
  <2>1. UNCHANGED <<active, state, request, socket, backlog, loop, caller, job, result, outcome,
                    provider, calls, sent, spawned, deaths>>
    BY <1>2 DEF svars, info_vars, supervisor_vars, result_vars, provider_vars, queue_vars
  <2>2. /\ SupervisorTypeOK /\ CallerFits /\ LoopFits /\ OthersFit /\ BusyFits /\ OneEach
        /\ QueueInOrder
    BY InvParts
  <2>3. \A p : Unread(p)' = Unread(p) /\ Results(p)' = Results(p) /\ Runs(p)' = Runs(p)
    BY <2>1, UnreadKept DEF Runs
  <2>4. Connections' = Connections /\ Others' = Others
    BY <2>1 DEF Connections, Others
  <2>5. SupervisorTypeOK'
    BY <2>1, <2>2 DEF SupervisorTypeOK
  <2>6. ProvidersOK'
    BY <2>1, ProvidersKept
  <2>7. CallerFits'
    BY <2>1, <2>2, <2>3, <2>4 DEF CallerFits
  <2>8. LoopFits'
    BY <2>1, <2>2, <2>3 DEF LoopFits, Alive
  <2>9. OthersFit' /\ BusyFits' /\ OneEach'
    BY <2>1, <2>2, <2>3, <2>4 DEF OthersFit, BusyFits, OneEach
  <2>10. OrderOK'
    <3>1. job # 0 \/ caller' \in {"free", "ended"}
      BY <2>1, JobFacts
    <3> QED
      BY <2>1, <2>2, <3>1, PlacesKept, OrderKept
  <2> QED
    BY <2>5, <2>6, <2>7, <2>8, <2>9, <2>10 DEF SupervisorInv, ThreadsOK
<1> QED
  BY <1>1, <1>2

\* The invariant holds throughout, for any number of calculations, providers
\* and failures.
THEOREM SupervisorInvariant == SSpec => []SupervisorInv
<1>1. SInit => SupervisorInv
  BY SupervisorInitial
<1>2. SupervisorInv /\ [SNext]_svars => SupervisorInv'
  BY SupervisorStep
<1> QED
  BY <1>1, <1>2, PTL DEF SSpec

\* A provider is never called while it works (provider.cpp relies on it): the
\* calculation thread and the message thread never both write to it.
THEOREM ProviderCalledOnce == SSpec => []OneCallAtATime
<1>1. SupervisorInv => OneCallAtATime
  <2> SUFFICES ASSUME SupervisorInv, NEW p \in Providers, provider[p] # "dead"
               PROVE  Len(calls[p]) <= 1
    BY DEF OneCallAtATime
  <2>1. OneEach /\ ProvidersFit
    BY InvParts
  <2>2. CASE provider[p] = "none"
    BY <2>1, <2>2 DEF ProvidersFit, Unregistered
  <2>3. CASE Runs(p)
    <3>1. p = active /\ active # Nobody
      BY <2>3, RunningProvider
    <3> QED
      BY <2>1, <2>3, <3>1 DEF OneEach
  <2> QED
    BY <2>2, <2>3 DEF Runs
<1> QED
  BY <1>1, SupervisorInvariant, PTL

\* supervise_calculation returns the result of its own calculation, or after a
\* broken connection a late one, and none twice or out of order.
THEOREM ResultsComeInOrder == SSpec => []ResultOfThisJob
<1>1. SupervisorInv => ResultOfThisJob
  <2> SUFFICES ASSUME SupervisorInv, NEW j \in Jobs, outcome[j].kind = "result"
               PROVE  /\ \/ outcome[j].call.job = j
                         \/ /\ outcome[j].call.job < j
                            /\ \E f \in 1 .. outcome[j].call.job : outcome[f] = ImplicitFailure
                      /\ \A k \in 1 .. j - 1 : outcome[k].kind = "result" =>
                            outcome[k].call.job < outcome[j].call.job
    BY DEF ResultOfThisJob
  <2>1. ReturnedOK
    BY InvParts
  <2> QED
    BY <2>1 DEF ReturnedOK
<1> QED
  BY <1>1, SupervisorInvariant, PTL

-----------------------------------------------------------------------------
\* The caller is not forgotten: the part of CalculationEnds that needs no fairness

Registration == Message("registration", NoRequest)

\* No calculation has needed a provider yet, or the first one is about to start it.
NotStarted ==
    /\ spawned = 0 /\ active = Nobody /\ loop = "accepting" /\ backlog = <<>>
    /\ caller \in {"free", "checked", "spawning", "pulling"}
    /\ caller \in {"spawning", "pulling"} => result = <<>>
    /\ caller = "pulling" => state = "AWAITING_REGISTRATION"

\* Provider p was started, and its registration was not read.
NotRegistered(p) ==
    /\ caller = "consuming" /\ state = "AWAITING_REGISTRATION" /\ result = <<>>
    /\ calls[p] = <<>>
    /\ \/ provider[p] = "starting" /\ loop = "accepting" /\ backlog = <<>>
       \/ /\ provider[p] = "idle" /\ sent[p] = <<Registration>>
          /\ \/ loop = "accepting" /\ backlog = <<p>>
             \/ loop = "reading" /\ backlog = <<>> /\ socket = p

\* The message thread is about to write the first call to it.
Registers(p) ==
    /\ caller = "consuming" /\ loop = "writing" /\ socket = p /\ backlog = <<>>
    /\ provider[p] = "idle" /\ sent[p] = <<>> /\ calls[p] = <<>> /\ result = <<>>

\* It serves calculations: while the calculation thread awaits a result, that was
\* produced, is being produced or sent, or is still to be computed.
Serves(p) ==
    /\ loop \in {"reading", "producing"} /\ socket = p /\ backlog = <<>>
    /\ provider[p] \in {"idle", "working", "reported"}
    /\ \A i \in 1 .. Len(sent[p]) : sent[p][i].kind # "registration"
    /\ caller \in {"free", "checked", "transmitting", "writing", "consuming"}
    /\ caller = "consuming" =>
          result # <<>> \/ loop = "producing" \/ calls[p] # <<>> \/ ResultsIn(sent[p]) # {}

Stages ==
    \/ NotStarted
    \/ spawned = 1 /\ active = 1 /\ (NotRegistered(1) \/ Registers(1) \/ Serves(1))

\* As long as nothing fails, the supervisor goes through these stages with one provider.
Undisturbed == deaths = 0 /\ caller # "ended" => Stages

\* Before the first provider.
LEMMA NotStartedStep ==
    ASSUME SupervisorInv, deaths = 0, NotStarted, SNext, deaths' = 0, caller' # "ended"
    PROVE  Stages'
<1>1. /\ SupervisorTypeOK /\ ProvidersFit
      /\ provider \in [Providers -> {"none", "starting", "idle", "working", "reported", "dead"}]
      /\ calls \in [Providers -> Seq(Requests)]
  BY InvParts DEF SupervisorTypeOK
<1>2. \A p \in Providers : provider[p] = "none" /\ calls[p] = <<>>
  BY <1>1 DEF NotStarted, ProvidersFit, Unregistered, Providers
<1>3. CASE CallerSteps
  <2>1. CASE store_request
    BY <2>1 DEF store_request, Unshared, NotStarted, Stages
  <2>2. CASE await_registration
    BY <2>2 DEF await_registration, Unshared, NotStarted, Stages
  <2>3. CASE spawn_provider
    <3>1. spawned < MaxSpawns /\ MaxSpawns \in Nat /\ 1 \in Providers
      BY <2>3, BoundsAreNat DEF spawn_provider, NotStarted, Providers
    <3>2. /\ active' = 1 /\ spawned' = 1 /\ caller' = "consuming"
          /\ provider' = [provider EXCEPT ![1] = "starting"]
          /\ UNCHANGED <<state, request, result, socket, backlog, loop, job, calls, sent>>
          /\ state = "AWAITING_REGISTRATION" /\ result = <<>>
      BY <2>3 DEF spawn_provider, NotStarted
    <3>3. provider'[1] = "starting" /\ calls'[1] = <<>>
      BY <1>1, <1>2, <3>1, <3>2
    <3> QED
      BY <3>2, <3>3 DEF NotStarted, NotRegistered, Stages
  <2> QED
    BY <1>3, <2>1, <2>2, <2>3 DEF CallerSteps, transmit_to_active, write_to_active,
       stop_provider, consume, NotStarted
<1>4. CASE MessageSteps
  BY <1>4 DEF MessageSteps, accept, read_message, read_result, produce, write_to_registered,
     read_fails, produce_failure, set_idle, next_connection, NotStarted
<1>5. CASE \E j \in Jobs : supervise(j)
  BY <1>5 DEF supervise, Unshared, NotStarted, Stages
<1>6. CASE terminate
  BY <1>6 DEF terminate
<1>7. CASE \E p \in Providers : ProviderSteps(p) \/ report_progress(p) \/ die(p)
  BY <1>2, <1>7 DEF ProviderSteps, register, dispatch, perform_calculation, report_progress, die
<1> QED
  BY <1>3, <1>4, <1>5, <1>6, <1>7 DEF SNext

\* Only the active provider runs, and so only it takes steps.
LEMMA OnlyFirstRuns ==
    ASSUME SupervisorInv, active = 1, NEW p \in Providers,
           ProviderSteps(p) \/ report_progress(p)
    PROVE  p = 1
BY InvParts DEF OnlyActiveRuns, Runs, ProviderSteps, register, dispatch, perform_calculation,
   report_progress

\* Until the registration is read.
LEMMA NotRegisteredStep ==
    ASSUME SupervisorInv, deaths = 0, spawned = 1, active = 1, NotRegistered(1), SNext,
           deaths' = 0, caller' # "ended"
    PROVE  Stages'
<1>1. /\ SupervisorTypeOK /\ ProvidersFit /\ CallerFits
      /\ provider \in [Providers -> {"none", "starting", "idle", "working", "reported", "dead"}]
      /\ calls \in [Providers -> Seq(Requests)] /\ sent \in [Providers -> Seq(Messages)]
  BY InvParts DEF SupervisorTypeOK
<1>2. 1 \in Providers /\ deaths \in Nat
  BY <1>1, BoundsAreNat DEF SupervisorTypeOK, Providers
<1>3. CASE CallerSteps
  BY <1>3 DEF CallerSteps, store_request, transmit_to_active, write_to_active, stop_provider,
     await_registration, spawn_provider, consume, NotRegistered
<1>4. CASE MessageSteps
  <2>1. CASE accept
    <3>1. /\ loop = "accepting" /\ backlog = <<1>> /\ provider[1] = "idle"
          /\ sent[1] = <<Registration>> /\ caller = "consuming" /\ calls[1] = <<>>
          /\ state = "AWAITING_REGISTRATION" /\ result = <<>>
      BY <2>1 DEF accept, NotRegistered
    <3>2. Head(backlog) = 1 /\ Tail(backlog) = <<>>
      BY <3>1
    <3>3. /\ socket' = 1 /\ backlog' = <<>> /\ loop' = "reading"
          /\ UNCHANGED <<state, result, calls, sent, active, caller, provider, spawned>>
      BY <2>1, <3>2 DEF accept, Local
    <3> QED
      BY <3>1, <3>3 DEF NotRegistered, Stages
  <2>2. CASE read_message
    <3>1. /\ loop = "reading" /\ socket = 1 /\ sent[1] = <<Registration>> /\ backlog = <<>>
          /\ provider[1] = "idle" /\ caller = "consuming" /\ calls[1] = <<>> /\ result = <<>>
      BY <2>2 DEF read_message, NotRegistered
    <3>2. Head(sent[1]).kind = "registration" /\ Tail(sent[1]) = <<>>
      BY <3>1 DEF Registration, Message
    <3>3. /\ loop' = "writing" /\ sent' = [sent EXCEPT ![1] = Tail(@)]
          /\ UNCHANGED <<socket, backlog, provider, caller, calls, result, spawned, active>>
      BY <2>2, <3>1, <3>2 DEF read_message, Local, NotRegistered
    <3>4. sent'[1] = <<>>
      BY <1>1, <1>2, <3>2, <3>3
    <3> QED
      BY <3>1, <3>3, <3>4 DEF Registers, Stages
  <2>3. ~read_result
    <3>1. CASE loop = "reading" /\ sent[1] = <<Registration>> /\ socket = 1
      BY <3>1 DEF read_result, Registration, Message
    <3> QED
      BY <3>1 DEF read_result, NotRegistered
  <2>4. ~read_fails
    BY DEF read_fails, NotRegistered
  <2> QED
    BY <1>4, <2>1, <2>2, <2>3, <2>4 DEF MessageSteps, produce, write_to_registered,
       produce_failure, set_idle, next_connection, NotRegistered
<1>5. CASE \E j \in Jobs : supervise(j)
  BY <1>5 DEF supervise, NotRegistered
<1>6. CASE terminate
  BY <1>6 DEF terminate
<1>7. ASSUME NEW p \in Providers, die(p)
      PROVE  FALSE
  BY <1>2, <1>7 DEF die
<1>8. CASE \E p \in Providers : ProviderSteps(p) \/ report_progress(p)
  <2>1. ProviderSteps(1) \/ report_progress(1)
    BY <1>8, OnlyFirstRuns
  <2>2. CASE register(1)
    <3>1. provider[1] = "starting" /\ loop = "accepting" /\ backlog = <<>> /\ Unregistered(1)
      BY <1>1, <1>2, <2>2 DEF register, NotRegistered, ProvidersFit
    <3>2. /\ provider' = [provider EXCEPT ![1] = "idle"] /\ backlog' = Append(backlog, 1)
          /\ sent' = [sent EXCEPT ![1] = <<Registration>>]
          /\ UNCHANGED <<state, active, result, loop, caller, spawned, calls>>
      BY <2>2 DEF register, Elsewhere, Registration
    <3>3. provider'[1] = "idle" /\ backlog' = <<1>> /\ sent'[1] = <<Registration>>
      BY <1>1, <1>2, <3>1, <3>2
    <3> QED
      BY <3>1, <3>2, <3>3 DEF NotRegistered, Stages
  <2> QED
    BY <2>1, <2>2 DEF ProviderSteps, dispatch, perform_calculation, report_progress, NotRegistered
<1> QED
  BY <1>3, <1>4, <1>5, <1>6, <1>7, <1>8 DEF SNext

\* The write to the provider that has registered succeeds.
LEMMA RegistersStep ==
    ASSUME SupervisorInv, deaths = 0, spawned = 1, active = 1, Registers(1), SNext,
           deaths' = 0, caller' # "ended"
    PROVE  Stages'
<1>1. /\ SupervisorTypeOK
      /\ provider \in [Providers -> {"none", "starting", "idle", "working", "reported", "dead"}]
      /\ calls \in [Providers -> Seq(Requests)] /\ sent \in [Providers -> Seq(Messages)]
  BY InvParts DEF SupervisorTypeOK
<1>2. 1 \in Providers /\ deaths \in Nat
  BY <1>1, BoundsAreNat DEF SupervisorTypeOK, Providers
<1>3. CASE CallerSteps
  BY <1>3 DEF CallerSteps, store_request, transmit_to_active, write_to_active, stop_provider,
     await_registration, spawn_provider, consume, Registers
<1>4. CASE MessageSteps
  <2>1. write_to_registered
    BY <1>4 DEF MessageSteps, accept, read_message, read_result, produce, read_fails,
       produce_failure, set_idle, next_connection, Registers
  <2>2. WriteOutcomes = {TRUE} /\ socket = 1
    BY DEF WriteOutcomes, Alive, Nobody, Registers
  <2>3. /\ calls' = [calls EXCEPT ![1] = Append(@, request[1])] /\ loop' = "reading"
        /\ UNCHANGED <<result, socket, backlog, sent, caller, provider, spawned, active>>
    BY <2>1, <2>2 DEF write_to_registered, Local
  <2>4. calls'[1] # <<>>
    <3>1. request[1] \in Requests
      BY <2>1, InvParts DEF SupervisorTypeOK, LoopFits, write_to_registered
    <3>2. PICK r \in Requests : r = request[1]
      BY <3>1
    <3>3. calls'[1] = Append(calls[1], r) /\ calls[1] \in Seq(Requests)
      BY <1>1, <1>2, <2>3, <3>2
    <3>4. Append(calls[1], r) # <<>>
      BY <3>3
    <3> QED
      BY <3>3, <3>4
  <2>5. Len(sent'[1]) = 0
    BY <2>3 DEF Registers
  <2> QED
    BY <2>3, <2>4, <2>5 DEF Registers, Serves, Stages
<1>5. CASE \E j \in Jobs : supervise(j)
  BY <1>5 DEF supervise, Registers
<1>6. CASE terminate
  BY <1>6 DEF terminate
<1>7. ASSUME NEW p \in Providers, die(p)
      PROVE  FALSE
  BY <1>2, <1>7 DEF die
<1>8. CASE \E p \in Providers : ProviderSteps(p) \/ report_progress(p)
  <2>1. ProviderSteps(1) \/ report_progress(1)
    BY <1>8, OnlyFirstRuns
  <2> QED
    BY <2>1 DEF ProviderSteps, register, dispatch, perform_calculation, report_progress, Registers
<1> QED
  BY <1>3, <1>4, <1>5, <1>6, <1>7, <1>8 DEF SNext

\* The steps of the calculation thread while its provider serves it.
LEMMA ServesCaller ==
    ASSUME SupervisorInv, active = 1, spawned = 1, Serves(1),
           CallerSteps \/ \E j \in Jobs : supervise(j)
    PROVE  Stages'
<1>1. /\ SupervisorTypeOK /\ 1 \in Providers
      /\ calls \in [Providers -> Seq(Requests)]
  BY InvParts, BoundsAreNat DEF SupervisorTypeOK, Providers
<1>2. CASE store_request
  BY <1>2 DEF store_request, Unshared, Nobody, Serves, Stages
<1>3. CASE transmit_to_active
  BY <1>3 DEF transmit_to_active, Unshared, Serves, Stages
<1>4. CASE write_to_active
  <2>1. WriteOutcomes = {TRUE} /\ socket = 1
    <3>1. provider[1] # "dead" /\ socket = 1
      BY DEF Serves
    <3> QED
      BY <3>1 DEF WriteOutcomes, Alive, Nobody
  <2>2. /\ calls' = [calls EXCEPT ![1] = Append(@, request[1])] /\ caller' = "consuming"
        /\ UNCHANGED <<active, socket, backlog, loop, provider, sent, spawned>>
    BY <1>4, <2>1 DEF write_to_active
  <2>3. calls'[1] # <<>>
    <3>1. request[1] \in Requests
      BY <1>4, InvParts DEF SupervisorTypeOK, CallerFits, write_to_active
    <3> QED
      BY <1>1, <2>2, <3>1
  <2> QED
    BY <2>2, <2>3 DEF Serves, Stages
<1>5. CASE consume
  BY <1>5 DEF consume, Finish, Unshared, Serves, Stages
<1>6. CASE \E j \in Jobs : supervise(j)
  BY <1>6 DEF supervise, Unshared, Serves, Stages
<1> QED
  BY <1>2, <1>3, <1>4, <1>5, <1>6 DEF CallerSteps, stop_provider, await_registration,
     spawn_provider, Serves

\* The steps of the message thread: a progress message is dropped, a result produced.
LEMMA ServesMessages ==
    ASSUME SupervisorInv, active = 1, spawned = 1, Serves(1), MessageSteps
    PROVE  Stages'
<1>1. /\ 1 \in Providers /\ sent \in [Providers -> Seq(Messages)]
      /\ socket = 1 /\ Alive(socket) /\ loop \in {"reading", "producing"} /\ backlog = <<>>
  BY InvParts, BoundsAreNat DEF SupervisorTypeOK, Providers, Serves, Alive, Nobody
<1>2. PICK s \in Seq(Messages) : s = sent[1]
  BY <1>1
<1>3. ASSUME s # <<>>
      PROVE  /\ \A i \in 1 .. Len(Tail(s)) : i + 1 \in 1 .. Len(s) /\ Tail(s)[i] = s[i + 1]
             /\ \A i \in ResultsIn(s) : i = 1 \/ i - 1 \in ResultsIn(Tail(s))
             /\ Head(s) = s[1]
  <2>1. Len(Tail(s)) = Len(s) - 1 /\ Len(s) \in Nat /\ Len(s) >= 1
    BY <1>3
  <2>2. \A i \in 1 .. Len(Tail(s)) : i + 1 \in 1 .. Len(s) /\ Tail(s)[i] = s[i + 1]
    BY <1>3, <2>1
  <2>3. ASSUME NEW i \in ResultsIn(s), i # 1
        PROVE  i - 1 \in ResultsIn(Tail(s))
    <3>1. i \in 1 .. Len(s) /\ IsResult(s[i])
      BY DEF ResultsIn
    <3>2. i - 1 \in 1 .. Len(Tail(s)) /\ Tail(s)[i - 1] = s[i]
      BY <2>1, <2>2, <2>3, <3>1
    <3> QED
      BY <3>1, <3>2 DEF ResultsIn
  <2> QED
    BY <1>3, <2>2, <2>3
<1>4. CASE read_message
  <2>1. /\ s # <<>> /\ loop = "reading" /\ Head(s).kind \in {"registration", "progress"}
        /\ sent' = [sent EXCEPT ![1] = Tail(@)]
    BY <1>1, <1>2, <1>4 DEF read_message
  <2>2. /\ Head(s) = s[1] /\ 1 \in 1 .. Len(s)
        /\ \A i \in 1 .. Len(Tail(s)) : i + 1 \in 1 .. Len(s) /\ Tail(s)[i] = s[i + 1]
        /\ \A i \in ResultsIn(s) : i = 1 \/ i - 1 \in ResultsIn(Tail(s))
    BY <1>3, <2>1
  <2>3. sent'[1] = Tail(s)
    BY <1>1, <1>2, <2>1
  <2>4. s[1].kind # "registration"
    BY <1>2, <2>2 DEF Serves
  <2>5. /\ loop' = loop
        /\ UNCHANGED <<result, calls, socket, backlog, caller, provider, active, spawned>>
    BY <1>1, <1>2, <1>4, <2>2, <2>4 DEF read_message, Local
  <2>6. 1 \notin ResultsIn(s)
    BY <2>1, <2>2 DEF ResultsIn, IsResult
  <2>7. ResultsIn(s) # {} => ResultsIn(Tail(s)) # {}
    BY <2>2, <2>6
  <2>8. \A i \in 1 .. Len(sent'[1]) : sent'[1][i].kind # "registration"
    BY <1>2, <2>2, <2>3 DEF Serves
  <2> QED
    BY <1>2, <2>3, <2>5, <2>7, <2>8 DEF Serves, Stages
<1>5. CASE read_result
  BY <1>5 DEF read_result, Local, Serves, Stages
<1>6. CASE produce
  <2>1. /\ loop = "producing" /\ sent' = [sent EXCEPT ![1] = Tail(@)] /\ result' # <<>>
        /\ loop' = "reading"
        /\ UNCHANGED <<calls, socket, backlog, caller, provider, active, spawned>>
    BY <1>1, <1>6 DEF produce, Local
  <2>2. s # <<>>
    BY <1>1, <1>2, <2>1, InvParts DEF LoopFits
  <2>3. sent'[1] = Tail(s)
    BY <1>1, <1>2, <2>1
  <2>4. \A i \in 1 .. Len(sent'[1]) : sent'[1][i].kind # "registration"
    BY <1>2, <1>3, <2>2, <2>3 DEF Serves
  <2> QED
    BY <2>1, <2>4 DEF Serves, Stages
<1> QED
  BY <1>1, <1>4, <1>5, <1>6 DEF MessageSteps, accept, write_to_registered, read_fails,
     produce_failure, set_idle, next_connection

\* The steps of the provider: a call that it has ends with a result in the queue.
LEMMA ServesProvider ==
    ASSUME SupervisorInv, active = 1, spawned = 1, Serves(1),
           ProviderSteps(1) \/ report_progress(1)
    PROVE  Stages'
<1>1. /\ SupervisorTypeOK /\ 1 \in Providers /\ sent \in [Providers -> Seq(Messages)]
      /\ calls \in [Providers -> Seq(Requests)]
      /\ provider \in [Providers -> {"none", "starting", "idle", "working", "reported", "dead"}]
  BY InvParts, BoundsAreNat DEF SupervisorTypeOK, Providers
<1>2. PICK s \in Seq(Messages) : s = sent[1]
  BY <1>1
<1>3. ASSUME NEW m \in Messages, m.kind # "registration",
             sent' = [sent EXCEPT ![1] = Append(@, m)]
      PROVE  /\ \A i \in 1 .. Len(sent'[1]) : sent'[1][i].kind # "registration"
             /\ ResultsIn(sent[1]) # {} => ResultsIn(sent'[1]) # {}
             /\ IsResult(m) => ResultsIn(sent'[1]) # {}
  <2>1. sent'[1] = Append(s, m)
    BY <1>1, <1>2, <1>3
  <2>2. PICK q : q = Append(s, m)
    OBVIOUS
  <2>3. /\ Len(q) = Len(s) + 1 /\ Len(s) \in Nat /\ q[Len(s) + 1] = m
        /\ \A i \in 1 .. Len(s) : q[i] = s[i]
    BY <1>3, <2>2
  <2>4. \A i \in 1 .. Len(q) : i \in 1 .. Len(s) \/ i = Len(s) + 1
    BY <2>3
  <2>5. \A i \in 1 .. Len(q) : q[i].kind # "registration"
    BY <1>2, <1>3, <2>3, <2>4 DEF Serves
  <2>6. ResultsIn(s) # {} => ResultsIn(q) # {}
    BY <2>3 DEF ResultsIn
  <2>7. IsResult(m) => ResultsIn(q) # {}
    BY <2>3 DEF ResultsIn
  <2> QED
    BY <1>2, <2>1, <2>2, <2>5, <2>6, <2>7
<1>4. CASE dispatch(1)
  <2>1. provider'[1] = "working"
    BY <1>1, <1>4 DEF dispatch
  <2> QED
    BY <1>4, <2>1 DEF dispatch, Elsewhere, Serves, Stages
<1>5. CASE report_progress(1)
  <2>1. PICK m \in Messages : m = Message("progress", NoRequest) /\ m.kind = "progress"
    <3>1. /\ Message("progress", NoRequest) \in Messages
          /\ Message("progress", NoRequest).kind = "progress"
      BY DEF Message, Messages, Kinds
    <3> QED
      BY <3>1
  <2>2. provider'[1] = "reported" /\ sent' = [sent EXCEPT ![1] = Append(@, m)]
    BY <1>1, <1>5, <2>1 DEF report_progress
  <2>3. /\ \A i \in 1 .. Len(sent'[1]) : sent'[1][i].kind # "registration"
        /\ ResultsIn(sent[1]) # {} => ResultsIn(sent'[1]) # {}
    BY <1>3, <2>1, <2>2
  <2> QED
    BY <1>5, <2>2, <2>3 DEF report_progress, Elsewhere, Serves, Stages
<1>6. CASE perform_calculation(1)
  <2>1. calls[1] # <<>>
    BY <1>1, <1>6, InvParts DEF perform_calculation, ProvidersFit
  <2>2. Head(calls[1]) \in Requests
    BY <1>1, <2>1
  <2>3. PICK kind \in {"result", "failure"} :
           sent' = [sent EXCEPT ![1] = Append(@, Message(kind, Head(calls[1])))]
    BY <1>6 DEF perform_calculation
  <2>4. PICK m \in Messages : m = Message(kind, Head(calls[1])) /\ m.kind = kind
    <3>1. /\ Message(kind, Head(calls[1])) \in Messages
          /\ Message(kind, Head(calls[1])).kind = kind
      BY <2>2 DEF Message, Messages, Kinds
    <3> QED
      BY <3>1
  <2>5. /\ \A i \in 1 .. Len(sent'[1]) : sent'[1][i].kind # "registration"
        /\ ResultsIn(sent'[1]) # {}
    BY <1>3, <2>3, <2>4 DEF IsResult
  <2>6. provider'[1] = "idle"
    BY <1>1, <1>6 DEF perform_calculation
  <2> QED
    BY <1>6, <2>5, <2>6 DEF perform_calculation, Elsewhere, Serves, Stages
<1> QED
  BY <1>4, <1>5, <1>6 DEF ProviderSteps, register, Serves

\* The stages follow each other as long as nothing fails.
LEMMA UndisturbedInvariant == SSpec => [](SupervisorInv /\ Undisturbed)
<1>1. SInit => SupervisorInv /\ Undisturbed
  <2>1. SInit => Undisturbed
    BY DEF SInit, Undisturbed, Stages, NotStarted
  <2> QED
    BY <2>1, SupervisorInitial
<1>2. SupervisorInv /\ Undisturbed /\ [SNext]_svars => SupervisorInv' /\ Undisturbed'
  <2> SUFFICES ASSUME SupervisorInv, Undisturbed, [SNext]_svars, deaths' = 0, caller' # "ended"
               PROVE  Stages'
    BY SupervisorStep DEF Undisturbed
  <2>1. CASE UNCHANGED svars
    BY <2>1 DEF Undisturbed, Stages, NotStarted, NotRegistered, Registers, Serves, svars,
       info_vars, supervisor_vars, result_vars, provider_vars, queue_vars
  <2>2. CASE SNext
    <3>1. deaths \in Nat
      BY InvParts, BoundsAreNat DEF SupervisorTypeOK
    <3>2. deaths' = deaths \/ deaths' = deaths + 1
      BY <2>2 DEF SNext, CallerSteps, MessageSteps, ProviderSteps, supervise, terminate,
         store_request, transmit_to_active, write_to_active, stop_provider,
         await_registration, spawn_provider, consume, accept, read_message, read_result,
         produce, write_to_registered, read_fails, produce_failure, set_idle,
         next_connection, register, dispatch, perform_calculation, report_progress, die,
         Unshared, Local, Elsewhere
    <3>3. deaths = 0
      BY <3>1, <3>2
    <3>4. caller # "ended"
      BY <2>2 DEF SNext, CallerSteps, MessageSteps, ProviderSteps, supervise, terminate,
         store_request, transmit_to_active, write_to_active, stop_provider,
         await_registration, spawn_provider, consume, accept, read_message, read_result,
         produce, write_to_registered, read_fails, produce_failure, set_idle,
         next_connection, register, dispatch, perform_calculation, report_progress, die,
         Unshared, Local, Elsewhere
    <3>5. CASE NotStarted
      BY <2>2, <3>3, <3>5, NotStartedStep
    <3>6. CASE spawned = 1 /\ active = 1 /\ NotRegistered(1)
      BY <2>2, <3>3, <3>6, NotRegisteredStep
    <3>7. CASE spawned = 1 /\ active = 1 /\ Registers(1)
      BY <2>2, <3>3, <3>7, RegistersStep
    <3>8. CASE spawned = 1 /\ active = 1 /\ Serves(1)
      <4>1. ~\E p \in Providers : die(p)
        BY <3>3 DEF die
      <4>2. ~terminate
        BY DEF terminate
      <4>3. CASE CallerSteps \/ \E j \in Jobs : supervise(j)
        BY <3>8, <4>3, ServesCaller
      <4>4. CASE MessageSteps
        BY <3>8, <4>4, ServesMessages
      <4>5. CASE \E p \in Providers : ProviderSteps(p) \/ report_progress(p)
        <5>1. ProviderSteps(1) \/ report_progress(1)
          BY <3>8, <4>5, OnlyFirstRuns
        <5> QED
          BY <3>8, <5>1, ServesProvider
      <4> QED
        BY <2>2, <4>1, <4>2, <4>3, <4>4, <4>5 DEF SNext
    <3> QED
      BY <3>3, <3>4, <3>5, <3>6, <3>7, <3>8 DEF Undisturbed, Stages
  <2> QED
    BY <2>1, <2>2
<1> QED
  BY <1>1, <1>2, PTL DEF SSpec

\* The guards of the steps of the message thread and of a provider; the calculation
\* thread, when it awaits a result, can take a step if there is one.
MessageReady ==
    \/ loop = "accepting" /\ backlog # <<>>
    \/ loop = "reading" /\ (sent[socket] # <<>> \/ ~Alive(socket))
    \/ loop \in {"producing", "writing", "failing", "idling", "leaving"}
ProviderReady(p) ==
    \/ provider[p] \in {"starting", "working", "reported"}
    \/ provider[p] = "idle" /\ calls[p] # <<>>

\* As long as nothing fails: only one provider is started, and while the calculation
\* thread awaits a result, the result is there or somebody can take a step towards it.
CallerNotForgotten ==
    deaths = 0 /\ caller # "ended" =>
       /\ spawned <= 1
       /\ caller = "consuming" =>
             result # <<>> \/ MessageReady \/ \E p \in Providers : ProviderReady(p)

\* Without failures, supervise_calculation() never waits for a result that nobody will
\* produce, and never starts a second provider: no result is lost between the provider,
\* the message thread and the calculation thread, although each calculation drops the
\* last result before it sends its request.
THEOREM ResultIsOnItsWay == SSpec => []CallerNotForgotten
<1>1. SupervisorInv /\ Undisturbed => CallerNotForgotten
  <2> SUFFICES ASSUME SupervisorInv, Undisturbed, deaths = 0, caller # "ended"
               PROVE  /\ spawned <= 1
                      /\ caller = "consuming" =>
                            result # <<>> \/ MessageReady \/ \E p \in Providers : ProviderReady(p)
    BY DEF CallerNotForgotten
  <2>1. Stages
    BY DEF Undisturbed
  <2>2. CASE NotStarted
    BY <2>2 DEF NotStarted
  <2>3. CASE spawned = 1 /\ active = 1 /\ (NotRegistered(1) \/ Registers(1) \/ Serves(1))
    <3>1. 1 \in Providers
      BY <2>3, InvParts, BoundsAreNat DEF SupervisorTypeOK, Providers
    <3>2. CASE NotRegistered(1)
      BY <2>3, <3>1, <3>2 DEF NotRegistered, MessageReady, ProviderReady
    <3>3. CASE Registers(1)
      BY <2>3, <3>3 DEF Registers, MessageReady
    <3>4. CASE Serves(1)
      <4>1. ResultsIn(sent[1]) # {} => sent[1] # <<>>
        BY DEF ResultsIn
      <4> QED
        BY <2>3, <3>1, <3>4, <4>1 DEF Serves, MessageReady, ProviderReady
    <3> QED
      BY <2>3, <3>2, <3>3, <3>4
  <2> QED
    BY <2>1, <2>2, <2>3 DEF Stages
<1> QED
  BY <1>1, UndisturbedInvariant, PTL
=============================================================================
