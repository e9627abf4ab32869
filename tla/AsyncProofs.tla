---------------------------- MODULE AsyncProofs ----------------------------
(* Machine-checked proofs about AsyncContext and AsyncServer, for every    *)
(* finite tree of contexts, every choice of cached, contained, failing and *)
(* cancellable requests, and any number of calls that time out.            *)
EXTENDS AsyncServer, FiniteSetTheorems, NaturalsInduction, WellFoundedInduction, TLAPS

-----------------------------------------------------------------------------
(* The inductive invariant of AsyncContext.                                *)

\* The coroutine has begun and has not ended.
Active(x) == cpc[x] \notin {"idle", "ok", "threw"}

\* A request above one that runs waits for its arguments; below one that has not
\* begun, nothing has; above one that threw, an argument's exception is awaited or
\* was passed on.
TreeOrder ==
    \A x \in ReqCtxs : \A y \in Below[x] \cap ReqCtxs :
        /\ Active(y) => cpc[x] = "subs"
        /\ cpc[x] = "idle" => cpc[y] = "idle"
        /\ cpc[y] = "threw" => cpc[x] \in {"subs", "threw"}

\* A canceller and the coroutine store the status of a contained request.
Exempt(x) == x \in Contained /\ cancel_requested

\* The status of a request agrees with where its coroutine is.
FitsAt(x) ==
    /\ cpc[x] = "subs" => status[x] = "SUBS_RUNNING"
    /\ \/ Exempt(x)
       \/ /\ cpc[x] = "self" => status[x] = "SELF_RUNNING"
          /\ cpc[x] \in {"mailbox", "mailbox2"} => status[x] = "FINISHED"
          /\ cpc[x] \in {"closing", "ok"} => AlmostFinished(status[x])
          /\ cpc[x] = "returning" => status[x] = "CREATED" \/ AlmostFinished(status[x])
StatusFits == \A x \in ReqCtxs : FitsAt(x)

\* Nothing has been stored for a request that has not begun, unless a request above
\* it has come further than its arguments.
NotOvertaken(x) == \A z \in ReqCtxs : x \in Below[z] => cpc[z] \in {"idle", "subs"}
IdleIsCreated ==
    \A x \in ReqCtxs : cpc[x] = "idle" /\ NotOvertaken(x) => status[x] = "CREATED"

\* FAILED and CANCELLED have a reason.
ReasonAt(x) ==
    /\ status[x] = "FAILED" => x \in ReqCtxs /\ exc[x] = "error"
    /\ status[x] = "CANCELLED" => /\ cancel_requested
                                  /\ \/ x \in Contained
                                     \/ x \in ReqCtxs /\ exc[x] = "cancelled"
OutcomeHasReason == \A x \in Ctxs : ReasonAt(x)

\* A coroutine that threw has an exception, and no other has.
ExceptionAt(x) == /\ exc[x] # "none" <=> cpc[x] = "threw"
                  /\ exc[x] = "cancelled" => cancel_requested
ExceptionsOK == \A x \in ReqCtxs : ExceptionAt(x)

\* A delegate belongs to a coroutine that has come further than its arguments.
DelegatesOK ==
    /\ \A x \in delegate \cup cancelling : cpc[x] \notin {"idle", "subs"}
    /\ cancelling # {} => cancel_requested

\* Only a root whose result is used is a mailbox.
MailboxOK ==
    \A x \in ReqCtxs : cpc[x] \in {"mailbox", "mailbox2"} => x = Root /\ UsingResult

\* num_subs_not_running_ does not fall below the number of subrequests that may still
\* come to their function, and is 0 once one of them runs on its parent's thread.
Pending(x) == {y \in ReqSubs(x) : cpc[y] \in {"idle", "subs"}}
SubsCounted ==
    \A x \in ReqCtxs :
        /\ not_running[x] >= Cardinality(Pending(x))
        /\ on_parent \cap ReqSubs(x) # {} => not_running[x] = 0
        /\ \A y, z \in on_parent \cap ReqSubs(x) : y = z

TreeInv ==
    /\ CtxTypeOK
    /\ TreeOrder
    /\ StatusFits
    /\ IdleIsCreated
    /\ OutcomeHasReason
    /\ ExceptionsOK
    /\ DelegatesOK
    /\ MailboxOK
    /\ SubsCounted
    /\ FinishedDownTheTree

-----------------------------------------------------------------------------
(* The tree.                                                               *)

Places == {"idle", "subs", "self", "mailbox", "closing", "returning", "mailbox2", "ok",
           "threw"}

\* A context below x is an argument of x, or below the request that is one; its parent
\* is x, or below x.
LEMMA TreeFacts ==
    ASSUME NEW x \in Ctxs, NEW y \in Below[x]
    PROVE  /\ y \in Ctxs /\ y # Root /\ y # x
           /\ ParentOf[y] \in ReqCtxs
           /\ ParentOf[y] = x \/ ParentOf[y] \in Below[x]
           /\ \E z \in Subs(x) : y = z \/ (z \in ReqCtxs /\ y \in Below[z])
<1>1. y \in Ctxs /\ y # Root /\ (ParentOf[y] = x \/ ParentOf[y] \in Below[x])
  BY TreeAssumption
<1>2. y # x /\ ParentOf[y] \in ReqCtxs
  BY <1>1, TreeAssumption
<1>3. y \in Subs(x) \/ \E z \in Subs(x) : y \in Below[z]
  BY TreeAssumption
<1>4. ASSUME NEW z \in Subs(x), y \in Below[z]
      PROVE  z \in ReqCtxs
  <2>1. z \in Ctxs
    BY DEF Subs
  <2>2. Below[z] = Subs(z) \cup UNION {Below[w] : w \in Subs(z)}
    BY <2>1, TreeAssumption
  <2>3. PICK w \in Subs(z) : TRUE
    BY <1>4, <2>2
  <2> QED
    BY <2>3, TreeAssumption DEF Subs
<1> QED
  BY <1>1, <1>2, <1>3, <1>4

\* An argument of x is below x.
LEMMA SubFacts ==
    ASSUME NEW x \in Ctxs, NEW y \in Subs(x)
    PROVE  y \in Below[x] /\ ParentOf[y] = x /\ y # Root
BY TreeAssumption DEF Subs

-----------------------------------------------------------------------------
(* Storing a status.                                                       *)

\* update_status() stores a status for x, and FINISHED for contexts below x only.
LEMMA StoredFacts ==
    ASSUME CtxTypeOK, NEW x \in Ctxs, NEW s \in Statuses
    PROVE  /\ Stored(x, s) \in [Ctxs -> Statuses]
           /\ Stored(x, s)[x] = s
           /\ \A y \in Ctxs : \/ y = x
                              \/ Stored(x, s)[y] = status[y]
                              \/ /\ Stored(x, s)[y] = "FINISHED"
                                 /\ y \in Below[x] /\ AlmostFinished(s)
BY DEF Stored, CtxTypeOK, Statuses

\* Any other status is stored for x alone.
LEMMA StoredAlone ==
    ASSUME CtxTypeOK, NEW x \in Ctxs, NEW s \in Statuses, ~AlmostFinished(s)
    PROVE  Stored(x, s) = [status EXCEPT ![x] = s]
BY DEF Stored, CtxTypeOK

\* With AWAITING_RESULT or FINISHED for x, everything below comes to agree.
LEMMA StoredDownTheTree ==
    ASSUME CtxTypeOK, FinishedDownTheTree, NEW x \in Ctxs, NEW s \in Statuses,
           AlmostFinished(s), NEW w \in Ctxs, NEW y \in Subs(w), y # x,
           AlmostFinished(Stored(x, s)[w])
    PROVE  \/ Stored(x, s)[y] = "FINISHED"
           \/ y \in Contained /\ cancel_requested
<1>1. y \in Below[w] /\ ParentOf[y] = w /\ y \in Ctxs /\ y # Root
  BY SubFacts DEF Subs
<1>2. Stored(x, s)[y] = status[y] \/ Stored(x, s)[y] = "FINISHED"
  BY <1>1, StoredFacts
<1>3. CASE AlmostFinished(status[w])
  BY <1>1, <1>2, <1>3 DEF FinishedDownTheTree
<1>4. CASE ~AlmostFinished(status[w])
  <2>1. w = x \/ w \in Below[x]
    BY <1>4, StoredFacts
  <2>2. y \in Below[x]
    BY <1>1, <2>1, TreeAssumption
  <2>3. w # x => \A z \in {x} \cup Below[x] : w \in Below[z] => ~AlmostFinished(status[z])
    BY <1>4 DEF Stored
  <2>4. \A z \in {x} \cup Below[x] : y \in Below[z] => ~AlmostFinished(status[z])
    <3> SUFFICES ASSUME NEW z \in {x} \cup Below[x], y \in Below[z]
                 PROVE  ~AlmostFinished(status[z])
      OBVIOUS
    <3>1. z \in Ctxs
      BY TreeAssumption
    <3>2. w = z \/ w \in Below[z]
      BY <1>1, <3>1, TreeFacts
    <3>3. CASE w = z
      BY <1>4, <3>3
    <3>4. CASE w \in Below[z] /\ w # x
      BY <2>3, <3>4
    <3>5. CASE w \in Below[z] /\ w = x
      <4>1. x \in Below[z] /\ z # x /\ z \in Below[x]
        BY <3>1, <3>5, TreeFacts
      <4> QED
        BY <4>1, TreeAssumption
    <3> QED
      BY <3>2, <3>3, <3>4, <3>5
  <2> QED
    BY <1>1, <2>2, <2>4 DEF Stored
<1> QED
  BY <1>3, <1>4

-----------------------------------------------------------------------------
(* The steps of a coroutine, as transitions.                               *)

\* Where a step of x takes its coroutine.
Transition(x, p) ==
    /\ cpc' = [cpc EXCEPT ![x] = p] /\ p \in Places \ {"idle"}
    /\ cpc[x] \notin {"ok", "threw"}
    /\ cpc[x] = "idle" => MayBegin(x) /\ p \in {"subs", "returning", "threw"}
    /\ cpc[x] = "subs" => /\ p \in {"self", "threw"}
                          /\ \A y \in ReqSubs(x) : Ended(y)
                          /\ p = "self" => \A y \in ReqSubs(x) : cpc[y] = "ok"
    /\ cpc[x] \notin {"idle", "subs"} => p # "subs"

\* What it stores.
StatusChange(x, p) ==
    \/ UNCHANGED status
    \/ \E s \in Statuses : ~AlmostFinished(s) /\ status' = [status EXCEPT ![x] = s]
    \/ \E s \in Statuses : /\ AlmostFinished(s) /\ status' = Stored(x, s)
                           /\ cpc[x] \notin {"idle", "subs"} /\ p \notin {"subs", "threw"}

\* The steps of coroutines.
CoStep(x) == Step(x) \/ (x = Root /\ await_result)

\* Every step of a coroutine is a transition with a status change.
LEMMA StepShape ==
    ASSUME TreeInv, NEW x \in ReqCtxs, CoStep(x)
    PROVE  \E p : Transition(x, p) /\ StatusChange(x, p)
<1> USE DEF MovesTo, Throws, Places
<1>0. CtxTypeOK /\ x \in Ctxs /\ cpc[x] \in Places
  BY TreeAssumption DEF TreeInv, CtxTypeOK
<1>1. CASE run_subs(x)
  <2>1. Stored(x, "SUBS_RUNNING") = [status EXCEPT ![x] = "SUBS_RUNNING"]
    BY <1>0, StoredAlone DEF Statuses, AlmostFinished
  <2> QED
    BY <1>1, <2>1 DEF run_subs, Transition, StatusChange, Statuses, AlmostFinished
<1>2. CASE from_cache(x)
  <2>1. PICK p \in {"returning", "threw"} : cpc' = [cpc EXCEPT ![x] = p]
    BY <1>2 DEF from_cache
  <2> QED
    BY <1>2, <2>1 DEF from_cache, Transition, StatusChange
<1>3. CASE run_self(x)
  <2>1. Stored(x, "SELF_RUNNING") = [status EXCEPT ![x] = "SELF_RUNNING"]
    BY <1>0, StoredAlone DEF Statuses, AlmostFinished
  <2> QED
    BY <1>3, <2>1 DEF run_self, Transition, StatusChange, Statuses, AlmostFinished, Ended
<1>4. CASE run_contained(x)
  <2>1. Stored(x, "SELF_RUNNING") = [status EXCEPT ![x] = "SELF_RUNNING"]
    BY <1>0, StoredAlone DEF Statuses, AlmostFinished
  <2>2. /\ cpc[x] = "subs" /\ \A y \in ReqSubs(x) : cpc[y] = "ok"
    BY <1>4 DEF run_contained
  <2>3. CASE cancel_requested
    <3>1. status' = [status EXCEPT ![x] = "CANCELLED"] /\ cpc' = [cpc EXCEPT ![x] = "threw"]
      BY <1>0, <1>4, <2>1, <2>3 DEF run_contained, CtxTypeOK
    <3> QED
      BY <2>2, <3>1 DEF Transition, StatusChange, Statuses, AlmostFinished, Ended
  <2>4. CASE ~cancel_requested
    <3>1. status' = [status EXCEPT ![x] = "SELF_RUNNING"] /\ cpc' = [cpc EXCEPT ![x] = "self"]
      BY <1>4, <2>1, <2>4 DEF run_contained
    <3> QED
      BY <2>2, <3>1 DEF Transition, StatusChange, Statuses, AlmostFinished, Ended
  <2> QED
    BY <2>3, <2>4
<1>5. CASE subs_threw(x)
  <2>1. PICK y \in ReqSubs(x) : /\ cpc[y] = "threw" /\ Throws(x, exc[y])
                                /\ status' = IF x \in Contained THEN status
                                             ELSE Stored(x, StatusOf(exc[y]))
    BY <1>5 DEF subs_threw
  <2>2. PICK s \in {"CANCELLED", "FAILED"} : s = StatusOf(exc[y])
    BY DEF StatusOf
  <2>3. Stored(x, s) = [status EXCEPT ![x] = s]
    BY <1>0, StoredAlone DEF Statuses, AlmostFinished
  <2>4. StatusChange(x, "threw")
    BY <2>1, <2>2, <2>3 DEF StatusChange, Statuses, AlmostFinished
  <2>5. Transition(x, "threw")
    BY <1>5, <2>1 DEF subs_threw, Transition
  <2> QED
    BY <2>4, <2>5
<1>6. CASE function_throws(x)
  <2>1. PICK s \in {"CANCELLED", "FAILED"} : s = StatusOf(exc'[x])
    BY DEF StatusOf
  <2>2. Stored(x, s) = [status EXCEPT ![x] = s]
    BY <1>0, StoredAlone DEF Statuses, AlmostFinished
  <2>3. StatusChange(x, "threw")
    BY <1>6, <2>1, <2>2 DEF function_throws, StatusChange, Statuses, AlmostFinished
  <2>4. Transition(x, "threw")
    BY <1>6 DEF function_throws, Transition
  <2> QED
    BY <2>3, <2>4
<1>7. CASE function_returns(x)
  <2>1. PICK p \in {"mailbox", "closing", "returning", "ok"} : cpc' = [cpc EXCEPT ![x] = p]
    BY <1>7 DEF function_returns, NextOnRoot, AfterStatus
  <2> QED
    BY <1>7, <2>1 DEF function_returns, Transition, StatusChange, Statuses, AlmostFinished
<1>8. CASE close_contained(x)
  <2>1. PICK p \in {"returning", "ok"} : cpc' = [cpc EXCEPT ![x] = p]
    BY <1>8 DEF close_contained
  <2> QED
    BY <1>8, <2>1 DEF close_contained, Transition, StatusChange
<1>9. CASE cached_returns(x)
  <2>1. PICK p \in {"mailbox2", "ok"} : cpc' = [cpc EXCEPT ![x] = p]
    BY <1>9 DEF cached_returns, NextOnRoot
  <2> QED
    BY <1>9, <2>1 DEF cached_returns, Transition, StatusChange, Statuses, AlmostFinished
<1>10. CASE x = Root /\ await_result
  <2>1. PICK p \in {"closing", "returning", "ok"} : cpc' = [cpc EXCEPT ![x] = p]
    BY <1>10 DEF await_result, AfterStatus
  <2> QED
    BY <1>10, <2>1 DEF await_result, Transition, StatusChange, Statuses, AlmostFinished
<1> QED
  BY <1>1, <1>2, <1>3, <1>4, <1>5, <1>6, <1>7, <1>8, <1>9, <1>10 DEF CoStep, Step

\* What a step stores, context by context: FINISHED for a context below x only once x
\* has come further than its arguments, and nothing below x runs.
LEMMA ChangeFacts ==
    ASSUME TreeInv, NEW x \in ReqCtxs, NEW p, Transition(x, p), StatusChange(x, p)
    PROVE  /\ status' \in [Ctxs -> Statuses]
           /\ \A y \in Ctxs :
                 \/ y = x
                 \/ status'[y] = status[y]
                 \/ /\ status'[y] = "FINISHED" /\ y \in Below[x]
                    /\ cpc'[x] \notin {"idle", "subs", "threw"}
                    /\ y \in ReqCtxs => cpc[y] \in {"idle", "ok"}
<1>1. CtxTypeOK /\ x \in Ctxs /\ status \in [Ctxs -> Statuses] /\ cpc'[x] = p
  BY TreeAssumption DEF TreeInv, CtxTypeOK, Transition
<1>2. CASE UNCHANGED status
  BY <1>1, <1>2
<1>3. CASE \E s \in Statuses : ~AlmostFinished(s) /\ status' = [status EXCEPT ![x] = s]
  BY <1>1, <1>3
<1>4. CASE \E s \in Statuses : /\ AlmostFinished(s) /\ status' = Stored(x, s)
                               /\ cpc[x] \notin {"idle", "subs"} /\ p \notin {"subs", "threw"}
  <2>1. PICK s \in Statuses : /\ AlmostFinished(s) /\ status' = Stored(x, s)
                              /\ cpc[x] \notin {"idle", "subs"} /\ p \notin {"subs", "threw"}
    BY <1>4
  <2>2. \A y \in Below[x] : y \in ReqCtxs => cpc[y] \in {"idle", "ok"}
    BY <2>1 DEF TreeInv, TreeOrder, Active, Transition
  <2>3. p # "idle"
    BY DEF Transition
  <2> QED
    BY <1>1, <2>1, <2>2, <2>3, StoredFacts
<1> QED
  BY <1>2, <1>3, <1>4 DEF StatusChange

\* A coroutine begins and ends in the order of the tree.
LEMMA OrderStep ==
    ASSUME TreeInv, NEW x \in ReqCtxs, NEW p, Transition(x, p)
    PROVE  TreeOrder'
<1>1. x \in Ctxs /\ cpc'[x] = p /\ \A y \in ReqCtxs : y # x => cpc'[y] = cpc[y]
  BY TreeAssumption DEF TreeInv, CtxTypeOK, Transition
<1> SUFFICES ASSUME NEW w \in ReqCtxs, NEW y \in Below[w] \cap ReqCtxs
             PROVE  /\ Active(y)' => cpc'[w] = "subs"
                    /\ cpc'[w] = "idle" => cpc'[y] = "idle"
                    /\ cpc'[y] = "threw" => cpc'[w] \in {"subs", "threw"}
  BY DEF TreeOrder
<1>2. w \in Ctxs /\ w # y /\ y # Root /\ ParentOf[y] \in ReqCtxs
  BY TreeAssumption, TreeFacts
<1>3. /\ Active(y) => cpc[w] = "subs"
      /\ cpc[w] = "idle" => cpc[y] = "idle"
      /\ cpc[y] = "threw" => cpc[w] \in {"subs", "threw"}
  BY DEF TreeInv, TreeOrder
<1>4. CASE y = x
  <2>1. cpc[w] = "subs"
    <3>1. CASE cpc[x] # "idle"
      BY <1>3, <1>4, <3>1 DEF Transition, Active
    <3>2. CASE cpc[x] = "idle"
      <4>1. cpc[ParentOf[x]] = "subs"
        BY <1>2, <1>4, <3>2 DEF Transition, MayBegin
      <4>2. ParentOf[x] = w \/ ParentOf[x] \in Below[w]
        BY <1>2, <1>4, TreeFacts
      <4> QED
        BY <1>2, <1>4, <4>1, <4>2 DEF TreeInv, TreeOrder, Active
    <3> QED
      BY <3>1, <3>2
  <2> QED
    BY <1>1, <1>2, <1>4, <2>1
<1>5. CASE w = x
  <2>1. cpc'[y] = cpc[y] /\ cpc'[w] = p /\ p # "idle"
    BY <1>1, <1>2, <1>5 DEF Transition
  <2>2. CASE cpc[x] = "idle"
    BY <1>3, <1>5, <2>1, <2>2 DEF Active
  <2>3. CASE cpc[x] = "subs"
    <3>1. PICK z \in Subs(x) : y = z \/ (z \in ReqCtxs /\ y \in Below[z])
      BY <1>1, <1>5, TreeFacts
    <3>2. z \in ReqSubs(x) /\ z \in ReqCtxs
      BY <3>1 DEF ReqSubs
    <3>3. cpc[z] \in {"ok", "threw"} /\ (p = "self" => cpc[z] = "ok") /\ p \in {"self", "threw"}
      BY <2>3, <3>2 DEF Transition, Ended
    <3>4. ~Active(y) /\ (cpc[z] = "ok" => cpc[y] # "threw")
      BY <3>1, <3>2, <3>3 DEF TreeInv, TreeOrder, Active
    <3> QED
      BY <2>1, <3>3, <3>4 DEF Active
  <2>4. CASE cpc[x] \notin {"idle", "subs"}
    <3>1. ~Active(y) /\ cpc[y] # "threw"
      BY <1>3, <1>5, <2>4 DEF Transition
    <3> QED
      BY <2>1, <3>1 DEF Active
  <2> QED
    BY <2>2, <2>3, <2>4
<1>6. CASE y # x /\ w # x
  BY <1>1, <1>3, <1>6 DEF Active
<1> QED
  BY <1>4, <1>5, <1>6

\* A request that has not begun keeps its status until one above it ends.
LEMMA IdleStep ==
    ASSUME TreeInv, NEW x \in ReqCtxs, NEW p, Transition(x, p), StatusChange(x, p)
    PROVE  IdleIsCreated'
<1> SUFFICES ASSUME NEW y \in ReqCtxs, cpc'[y] = "idle", NotOvertaken(y)'
             PROVE  status'[y] = "CREATED"
  BY DEF IdleIsCreated
<1>1. /\ cpc'[x] = p /\ p # "idle" /\ (p = "subs" => cpc[x] = "idle")
      /\ \A z \in ReqCtxs : z # x => cpc'[z] = cpc[z]
  BY DEF TreeInv, CtxTypeOK, Transition
<1>2. y # x /\ cpc[y] = "idle" /\ y \in Ctxs
  BY <1>1, TreeAssumption
<1>3. NotOvertaken(y)
  BY <1>1 DEF NotOvertaken
<1>4. status[y] = "CREATED"
  BY <1>2, <1>3 DEF TreeInv, IdleIsCreated
<1>5. y \in Below[x] => cpc'[x] \in {"idle", "subs"}
  BY DEF NotOvertaken
<1> QED
  BY <1>2, <1>4, <1>5, ChangeFacts

\* A request that may begin has nothing stored yet.
LEMMA BeginsCreated ==
    ASSUME TreeInv, NEW x \in ReqCtxs, cpc[x] = "idle", MayBegin(x)
    PROVE  status[x] = "CREATED"
<1>1. NotOvertaken(x)
  <2> SUFFICES ASSUME NEW z \in ReqCtxs, x \in Below[z]
               PROVE  cpc[z] \in {"idle", "subs"}
    BY DEF NotOvertaken
  <2>1. /\ z \in Ctxs /\ x # Root /\ ParentOf[x] \in ReqCtxs
        /\ ParentOf[x] = z \/ ParentOf[x] \in Below[z]
    BY TreeAssumption, TreeFacts
  <2>2. cpc[ParentOf[x]] = "subs"
    BY <2>1 DEF MayBegin
  <2> QED
    BY <2>1, <2>2 DEF TreeInv, TreeOrder, Active
<1> QED
  BY <1>1 DEF TreeInv, IdleIsCreated

\* Statuses stay FINISHED from the top of the tree down.
LEMMA FinishedStep ==
    ASSUME TreeInv, NEW x \in ReqCtxs, NEW p, Transition(x, p), StatusChange(x, p),
           UNCHANGED cancel_requested
    PROVE  FinishedDownTheTree'
<1>1. CtxTypeOK /\ x \in Ctxs /\ status \in [Ctxs -> Statuses] /\ FinishedDownTheTree
  BY TreeAssumption DEF TreeInv, CtxTypeOK
<1>2. x # Root => ~AlmostFinished(status[ParentOf[x]])
  <2> SUFFICES ASSUME x # Root
               PROVE  ~AlmostFinished(status[ParentOf[x]])
    OBVIOUS
  <2>1. ParentOf[x] \in ReqCtxs /\ x \in Below[ParentOf[x]]
    BY <1>1, TreeAssumption
  <2>2. cpc[ParentOf[x]] = "subs"
    BY <2>1 DEF TreeInv, TreeOrder, Active, Transition, MayBegin
  <2>3. status[ParentOf[x]] = "SUBS_RUNNING"
    BY <2>1, <2>2 DEF TreeInv, StatusFits, FitsAt
  <2> QED
    BY <2>3 DEF AlmostFinished
<1> SUFFICES ASSUME NEW w \in Ctxs, AlmostFinished(status'[w]), NEW y \in Subs(w)
             PROVE  status'[y] = "FINISHED" \/ (y \in Contained /\ cancel_requested)
  BY DEF FinishedDownTheTree
<1>3. y \in Ctxs /\ ParentOf[y] = w /\ y # Root /\ y \in Below[w] /\ w # y
  BY SubFacts, TreeAssumption DEF Subs
<1>4. y # x
  <2> SUFFICES ASSUME y = x
               PROVE  FALSE
    OBVIOUS
  <2>1. ~AlmostFinished(status[w]) /\ w # x
    BY <1>2, <1>3
  <2>2. w \in Below[x]
    BY <2>1, ChangeFacts
  <2> QED
    BY <1>1, <1>3, <2>2, TreeAssumption
<1>5. CASE UNCHANGED status
  BY <1>1, <1>3, <1>5 DEF FinishedDownTheTree
<1>6. CASE \E s \in Statuses : ~AlmostFinished(s) /\ status' = [status EXCEPT ![x] = s]
  <2>1. w # x /\ status'[w] = status[w] /\ status'[y] = status[y]
    BY <1>1, <1>3, <1>4, <1>6
  <2> QED
    BY <1>1, <2>1 DEF FinishedDownTheTree
<1>7. CASE \E s \in Statuses : /\ AlmostFinished(s) /\ status' = Stored(x, s)
                               /\ cpc[x] \notin {"idle", "subs"} /\ p \notin {"subs", "threw"}
  BY <1>1, <1>4, <1>7, StoredDownTheTree
<1> QED
  BY <1>5, <1>6, <1>7 DEF StatusChange

-----------------------------------------------------------------------------
(* The own status, exception and delegate of the coroutine that moves.     *)

OwnOK(x) == FitsAt(x) /\ ReasonAt(x) /\ ExceptionAt(x)

\* The rest of what a step of x may change.
OwnFrame(x) ==
    /\ UNCHANGED cancel_requested
    /\ exc' \in [ReqCtxs -> {"none", "error", "cancelled"}]
    /\ \A y \in ReqCtxs : y # x => exc'[y] = exc[y]
    /\ delegate' \subseteq delegate \cup {x} /\ cancelling' = cancelling
    /\ delegate' \subseteq Contained
    /\ cpc'[x] \in {"mailbox", "mailbox2"} => x = Root /\ UsingResult
    /\ x \in delegate' => cpc'[x] \notin {"idle", "subs"}

\* run_subs stores SUBS_RUNNING.
LEMMA RunSubsOwn ==
    ASSUME TreeInv, NEW x \in ReqCtxs, run_subs(x)
    PROVE  OwnOK(x)' /\ OwnFrame(x)
<1>1. CtxTypeOK /\ x \in Ctxs /\ exc[x] = "none" /\ x \notin delegate
  BY TreeAssumption DEF TreeInv, ExceptionsOK, ExceptionAt, run_subs, CtxTypeOK, DelegatesOK
<1>2. cpc'[x] = "subs" /\ status'[x] = "SUBS_RUNNING"
      /\ UNCHANGED <<exc, delegate, cancelling, cancel_requested>>
  BY <1>1, StoredFacts DEF run_subs, MovesTo, CtxTypeOK, Statuses
<1> QED
  BY <1>1, <1>2 DEF OwnOK, OwnFrame, FitsAt, ReasonAt, ExceptionAt, CtxTypeOK, Exempt

\* A value or an exception from the cache leaves the status as it was created.
LEMMA FromCacheOwn ==
    ASSUME TreeInv, NEW x \in ReqCtxs, from_cache(x)
    PROVE  OwnOK(x)' /\ OwnFrame(x)
<1>1. /\ CtxTypeOK /\ x \in Ctxs /\ exc[x] = "none" /\ x \notin delegate
      /\ status[x] = "CREATED"
  BY TreeAssumption, BeginsCreated
     DEF TreeInv, ExceptionsOK, ExceptionAt, from_cache, CtxTypeOK, DelegatesOK
<1>2. /\ UNCHANGED <<status, delegate, cancelling, cancel_requested>>
      /\ \/ cpc'[x] = "returning" /\ exc' = exc
         \/ cpc'[x] = "threw" /\ exc' = [exc EXCEPT ![x] = "error"]
  BY DEF from_cache, MovesTo, Throws, TreeInv, CtxTypeOK
<1> QED
  BY <1>1, <1>2 DEF OwnOK, OwnFrame, FitsAt, ReasonAt, ExceptionAt, CtxTypeOK, Exempt

\* run_self stores SELF_RUNNING.
LEMMA RunSelfOwn ==
    ASSUME TreeInv, NEW x \in ReqCtxs, run_self(x)
    PROVE  OwnOK(x)' /\ OwnFrame(x)
<1>1. CtxTypeOK /\ x \in Ctxs /\ exc[x] = "none"
  BY TreeAssumption DEF TreeInv, ExceptionsOK, ExceptionAt, run_self
<1>2. cpc'[x] = "self" /\ status'[x] = "SELF_RUNNING"
      /\ UNCHANGED <<exc, delegate, cancelling, cancel_requested>>
  BY <1>1, StoredFacts DEF run_self, MovesTo, CtxTypeOK, Statuses
<1> QED
  BY <1>1, <1>2 DEF OwnOK, OwnFrame, FitsAt, ReasonAt, ExceptionAt, CtxTypeOK, Exempt

\* run_contained sets the delegate, or acts upon a cancellation.
LEMMA RunContainedOwn ==
    ASSUME TreeInv, NEW x \in ReqCtxs, run_contained(x)
    PROVE  OwnOK(x)' /\ OwnFrame(x)
<1>1. CtxTypeOK /\ x \in Ctxs /\ exc[x] = "none" /\ x \in Contained
  BY TreeAssumption DEF TreeInv, ExceptionsOK, ExceptionAt, run_contained
<1>2. CASE cancel_requested
  <2>1. /\ cpc'[x] = "threw" /\ status'[x] = "CANCELLED"
        /\ exc' = [exc EXCEPT ![x] = "cancelled"]
        /\ UNCHANGED <<delegate, cancelling, cancel_requested>>
    BY <1>1, <1>2 DEF run_contained, MovesTo, Throws, CtxTypeOK, Stored
  <2> QED
    BY <1>1, <1>2, <2>1
       DEF OwnOK, OwnFrame, FitsAt, ReasonAt, ExceptionAt, CtxTypeOK, Exempt
<1>3. CASE ~cancel_requested
  <2>1. /\ cpc'[x] = "self" /\ status'[x] = "SELF_RUNNING"
        /\ delegate' = delegate \cup {x} /\ UNCHANGED <<exc, cancelling, cancel_requested>>
    BY <1>1, <1>3, StoredFacts DEF run_contained, MovesTo, CtxTypeOK, Statuses
  <2> QED
    BY <1>1, <1>3, <2>1
       DEF OwnOK, OwnFrame, FitsAt, ReasonAt, ExceptionAt, CtxTypeOK, Exempt
<1> QED
  BY <1>2, <1>3

\* The exception of an argument becomes that of the request.
LEMMA SubsThrewOwn ==
    ASSUME TreeInv, NEW x \in ReqCtxs, subs_threw(x)
    PROVE  OwnOK(x)' /\ OwnFrame(x)
<1>1. /\ CtxTypeOK /\ x \in Ctxs /\ exc[x] = "none" /\ cpc[x] = "subs"
      /\ x \notin delegate /\ status[x] = "SUBS_RUNNING"
  BY TreeAssumption
     DEF TreeInv, ExceptionsOK, ExceptionAt, subs_threw, DelegatesOK, StatusFits, FitsAt
<1>2. PICK y \in ReqSubs(x) : /\ cpc[y] = "threw" /\ Throws(x, exc[y])
                              /\ status' = IF x \in Contained THEN status
                                           ELSE Stored(x, StatusOf(exc[y]))
  BY DEF subs_threw
<1>3. /\ exc[y] \in {"error", "cancelled"} /\ y \in ReqCtxs
      /\ exc[y] = "cancelled" => cancel_requested
  BY <1>1, <1>2 DEF TreeInv, ExceptionsOK, ExceptionAt, ReqSubs, CtxTypeOK
<1>4. /\ cpc'[x] = "threw" /\ exc' = [exc EXCEPT ![x] = exc[y]]
      /\ UNCHANGED <<delegate, cancelling, cancel_requested>>
  BY <1>1, <1>2 DEF subs_threw, Throws, MovesTo, CtxTypeOK
<1>5. x \notin Contained => status'[x] = StatusOf(exc[y])
  BY <1>1, <1>2, StoredFacts DEF StatusOf, Statuses
<1>6. x \in Contained => status'[x] = "SUBS_RUNNING"
  BY <1>1, <1>2
<1> QED
  BY <1>1, <1>3, <1>4, <1>5, <1>6
     DEF OwnOK, OwnFrame, FitsAt, ReasonAt, ExceptionAt, CtxTypeOK, Exempt, StatusOf

\* A function that throws is cancelled only if that was requested.
LEMMA FunctionThrowsOwn ==
    ASSUME TreeInv, NEW x \in ReqCtxs, function_throws(x)
    PROVE  OwnOK(x)' /\ OwnFrame(x)
<1>1. CtxTypeOK /\ x \in Ctxs /\ cpc[x] = "self" /\ FitsAt(x) /\ ReasonAt(x)
  BY TreeAssumption DEF TreeInv, StatusFits, OutcomeHasReason, function_throws
<1>2. PICK e \in {"error", "cancelled"} : /\ cpc' = [cpc EXCEPT ![x] = "threw"]
                                          /\ exc' = [exc EXCEPT ![x] = e]
                                          /\ e = "cancelled" => cancel_requested
  BY DEF function_throws, Throws, MovesTo
<1>3. exc'[x] = e /\ cpc'[x] = "threw" /\ exc[x] = "none"
  BY <1>1, <1>2 DEF TreeInv, CtxTypeOK, ExceptionsOK, ExceptionAt
<1>4. x \notin Contained => status'[x] = StatusOf(e)
  BY <1>1, <1>3, StoredFacts DEF function_throws, StatusOf, Statuses
<1>5. x \in Contained => status'[x] = status[x]
  BY DEF function_throws
<1>6. delegate' = delegate \ {x} /\ UNCHANGED <<cancelling, cancel_requested>>
  BY DEF function_throws
<1>7. ReasonAt(x)'
  <2>1. CASE x \notin Contained
    BY <1>2, <1>3, <1>4, <1>6, <2>1 DEF ReasonAt, StatusOf
  <2>2. CASE x \in Contained
    BY <1>1, <1>3, <1>5, <1>6, <2>2 DEF ReasonAt
  <2> QED
    BY <2>1, <2>2
<1> QED
  BY <1>1, <1>2, <1>3, <1>6, <1>7 DEF OwnOK, OwnFrame, FitsAt, ExceptionAt, CtxTypeOK, Exempt

\* The steps that follow a value store a status that tells so.
LEMMA ReturnsOwn ==
    ASSUME TreeInv, NEW x \in ReqCtxs,
           function_returns(x) \/ close_contained(x) \/ cached_returns(x)
             \/ (x = Root /\ await_result)
    PROVE  OwnOK(x)' /\ OwnFrame(x)
<1>1. CtxTypeOK /\ x \in Ctxs /\ cpc \in [ReqCtxs -> Places] /\ FitsAt(x) /\ ReasonAt(x)
  BY TreeAssumption DEF TreeInv, CtxTypeOK, StatusFits, OutcomeHasReason, Places
<1>2. cpc[x] \in {"self", "closing", "returning", "mailbox", "mailbox2"} /\ exc[x] = "none"
  BY DEF function_returns, close_contained, cached_returns, await_result, TreeInv,
         ExceptionsOK, ExceptionAt
<1>3. UNCHANGED <<exc, cancelling, cancel_requested>> /\ delegate' \subseteq delegate
  BY DEF function_returns, close_contained, cached_returns, await_result
<1>4. CASE function_returns(x)
  <2>1. status'[x] = "FINISHED" /\ cpc'[x] \in {"mailbox", "closing", "returning", "ok"}
    BY <1>1, <1>4, StoredFacts
       DEF function_returns, MovesTo, NextOnRoot, AfterStatus, Statuses
  <2>2. cpc'[x] = "mailbox" => x = Root /\ UsingResult
    BY <1>1, <1>4 DEF function_returns, MovesTo, NextOnRoot, AfterStatus
  <2> QED
    BY <1>1, <1>2, <1>3, <2>1, <2>2
       DEF OwnOK, OwnFrame, FitsAt, ReasonAt, ExceptionAt, CtxTypeOK, AlmostFinished
<1>5. CASE close_contained(x)
  <2>1. cpc[x] = "closing" /\ status' = status /\ cpc'[x] \in {"returning", "ok"}
    BY <1>1, <1>5 DEF close_contained, MovesTo
  <2> QED
    BY <1>1, <1>2, <1>3, <2>1
       DEF OwnOK, OwnFrame, FitsAt, ReasonAt, ExceptionAt, CtxTypeOK, Exempt
<1>6. CASE cached_returns(x)
  <2>1. status'[x] = "FINISHED" /\ cpc'[x] \in {"mailbox2", "ok"}
    BY <1>1, <1>6, StoredFacts DEF cached_returns, MovesTo, NextOnRoot, Statuses
  <2>2. cpc'[x] = "mailbox2" => x = Root /\ UsingResult
    BY <1>1, <1>6 DEF cached_returns, MovesTo, NextOnRoot
  <2> QED
    BY <1>1, <1>2, <1>3, <2>1, <2>2
       DEF OwnOK, OwnFrame, FitsAt, ReasonAt, ExceptionAt, CtxTypeOK, AlmostFinished
<1>7. CASE x = Root /\ await_result
  <2>1. status'[x] = "AWAITING_RESULT" /\ cpc'[x] \in {"closing", "returning", "ok"}
    BY <1>1, <1>7, StoredFacts DEF await_result, MovesTo, AfterStatus, Statuses
  <2> QED
    BY <1>1, <1>2, <1>3, <2>1
       DEF OwnOK, OwnFrame, FitsAt, ReasonAt, ExceptionAt, CtxTypeOK, AlmostFinished
<1> QED
  BY <1>4, <1>5, <1>6, <1>7

\* Every step of a coroutine leaves its own status, exception and delegate right.
LEMMA OwnStep ==
    ASSUME TreeInv, NEW x \in ReqCtxs, CoStep(x)
    PROVE  OwnOK(x)' /\ OwnFrame(x)
BY RunSubsOwn, FromCacheOwn, RunSelfOwn, RunContainedOwn, SubsThrewOwn, FunctionThrowsOwn,
   ReturnsOwn DEF CoStep, Step

-----------------------------------------------------------------------------
(* Subrequests that run.                                                   *)

\* A step of x that is not run_self() does not count subrequests, and no step makes a
\* subrequest pending again.
LEMMA CountedStep ==
    ASSUME TreeInv, NEW x \in ReqCtxs, CoStep(x)
    PROVE  SubsCounted' /\ not_running' \in [ReqCtxs -> Nat] /\ on_parent' \subseteq ReqCtxs
<1>1. /\ not_running \in [ReqCtxs -> Nat] /\ on_parent \subseteq ReqCtxs /\ SubsCounted
      /\ x \in Ctxs
  BY TreeAssumption DEF TreeInv, CtxTypeOK
<1>2. \A y \in ReqCtxs : cpc'[y] \in {"idle", "subs"} => cpc[y] \in {"idle", "subs"}
  <2>1. PICK p : Transition(x, p)
    BY StepShape
  <2> QED
    BY <2>1 DEF Transition, TreeInv, CtxTypeOK
<1>3. \A w \in ReqCtxs : /\ Pending(w)' \subseteq Pending(w) /\ IsFiniteSet(Pending(w))
                         /\ Cardinality(Pending(w)) \in Nat
                         /\ Cardinality(Pending(w)') \in Nat
                         /\ Cardinality(Pending(w)') <= Cardinality(Pending(w))
  <2> TAKE w \in ReqCtxs
  <2>1. Pending(w)' \subseteq Pending(w)
    BY <1>2 DEF Pending, ReqSubs
  <2>2. Pending(w) \subseteq Ctxs
    BY DEF Pending, ReqSubs, Subs
  <2>3. IsFiniteSet(Pending(w))
    BY <2>2, FS_Subset, TreeAssumption
  <2>4. /\ IsFiniteSet(Pending(w)') /\ Cardinality(Pending(w)') <= Cardinality(Pending(w))
    BY <2>1, <2>3, FS_Subset
  <2> QED
    BY <2>1, <2>3, <2>4, FS_CardinalityType
<1>4. CASE UNCHANGED <<not_running, on_parent>>
  <2>1. \A w \in ReqCtxs : not_running'[w] >= Cardinality(Pending(w)')
    BY <1>1, <1>3, <1>4 DEF SubsCounted
  <2>2. \A w \in ReqCtxs : /\ on_parent' \cap ReqSubs(w) # {} => not_running'[w] = 0
                           /\ \A y, z \in on_parent' \cap ReqSubs(w) : y = z
    BY <1>1, <1>4 DEF SubsCounted
  <2>3. SubsCounted'
    BY <2>1, <2>2 DEF SubsCounted
  <2> QED
    BY <1>1, <1>4, <2>3
<1>5. CASE x # Root /\ run_self(x)
  <2>1. PICK w \in ReqCtxs : w = ParentOf[x]
    BY <1>1, TreeAssumption
  <2>2. x \in ReqSubs(w) /\ x \in Pending(w) /\ \A v \in ReqCtxs : v # w => x \notin ReqSubs(v)
    BY <1>1, <1>5, <2>1 DEF ReqSubs, Subs, Pending, run_self
  <2>3. cpc'[x] = "self"
    BY <1>5 DEF run_self, MovesTo, TreeInv, CtxTypeOK
  <2>4. Pending(w)' \subseteq Pending(w) \ {x}
    BY <1>3, <2>3 DEF Pending
  <2>5. /\ IsFiniteSet(Pending(w) \ {x})
        /\ Cardinality(Pending(w) \ {x}) = Cardinality(Pending(w)) - 1
    BY <1>3, <2>2, FS_RemoveElement
  <2>6. Cardinality(Pending(w)') <= Cardinality(Pending(w)) - 1
    BY <2>4, <2>5, FS_Subset
  <2>7. PICK n \in Nat : n = not_running[w] /\ n >= Cardinality(Pending(w))
    BY <1>1 DEF SubsCounted
  <2>8. n >= 1 /\ n - 1 >= Cardinality(Pending(w)')
    BY <1>3, <2>6, <2>7
  <2>9. /\ not_running' = [not_running EXCEPT ![w] = n - 1]
        /\ on_parent' = IF n > 1 THEN on_parent ELSE on_parent \cup {x}
    BY <1>5, <2>1, <2>7 DEF run_self, decide_reschedule_sub
  <2>10. not_running' \in [ReqCtxs -> Nat] /\ on_parent' \subseteq ReqCtxs
    BY <1>1, <2>8, <2>9
  <2>11. \A v \in ReqCtxs : not_running'[v] >= Cardinality(Pending(v)')
    <3> TAKE v \in ReqCtxs
    <3>1. CASE v = w
      BY <1>1, <2>8, <2>9, <3>1
    <3>2. CASE v # w
      <4>1. not_running'[v] = not_running[v] /\ not_running[v] \in Nat
        BY <1>1, <2>9, <3>2
      <4>2. not_running[v] >= Cardinality(Pending(v))
        BY <1>1 DEF SubsCounted
      <4> QED
        BY <1>3, <4>1, <4>2
    <3> QED
      BY <3>1, <3>2
  <2>12. on_parent \cap ReqSubs(w) = {}
    BY <1>1, <2>7, <2>8 DEF SubsCounted
  <2>13. ASSUME NEW v \in ReqCtxs
         PROVE  /\ on_parent' \cap ReqSubs(v) # {} => not_running'[v] = 0
                /\ \A y, z \in on_parent' \cap ReqSubs(v) : y = z
    <3>1. CASE v = w
      <4>1. CASE n > 1
        BY <2>9, <2>12, <3>1, <4>1
      <4>2. CASE ~(n > 1)
        <5>1. n - 1 = 0
          BY <2>8, <4>2
        <5> QED
          BY <1>1, <2>9, <2>12, <3>1, <4>2, <5>1
      <4> QED
        BY <4>1, <4>2
    <3>2. CASE v # w
      <4>1. on_parent' \cap ReqSubs(v) = on_parent \cap ReqSubs(v)
        BY <2>2, <2>9, <3>2
      <4>2. not_running'[v] = not_running[v]
        BY <1>1, <2>9, <3>2
      <4> QED
        BY <1>1, <4>1, <4>2 DEF SubsCounted
    <3> QED
      BY <3>1, <3>2
  <2> QED
    BY <2>10, <2>11, <2>13 DEF SubsCounted
<1>6. CASE x = Root /\ run_self(x)
  BY <1>4, <1>6 DEF run_self
<1> QED
  BY <1>4, <1>5, <1>6 DEF CoStep, Step, run_subs, from_cache, run_contained, subs_threw,
     function_throws, function_returns, close_contained, cached_returns, await_result

-----------------------------------------------------------------------------
(* The invariant.                                                          *)

\* A step of a coroutine keeps the invariant.
LEMMA CoStepKeeps ==
    ASSUME TreeInv, NEW x \in ReqCtxs, CoStep(x)
    PROVE  TreeInv'
<1>1. PICK p : Transition(x, p) /\ StatusChange(x, p)
  BY StepShape
<1>2. /\ status' \in [Ctxs -> Statuses]
      /\ \A y \in Ctxs :
            \/ y = x
            \/ status'[y] = status[y]
            \/ /\ status'[y] = "FINISHED" /\ y \in Below[x]
               /\ cpc'[x] \notin {"idle", "subs", "threw"}
               /\ y \in ReqCtxs => cpc[y] \in {"idle", "ok"}
  BY <1>1, ChangeFacts
<1>3. OwnOK(x)' /\ OwnFrame(x)
  BY OwnStep
<1>4. SubsCounted' /\ not_running' \in [ReqCtxs -> Nat] /\ on_parent' \subseteq ReqCtxs
  BY CountedStep
<1>5. /\ cpc' \in [ReqCtxs -> Places] /\ \A y \in ReqCtxs : y # x => cpc'[y] = cpc[y]
      /\ cpc'[x] = p
  BY <1>1 DEF Transition, TreeInv, CtxTypeOK, Places
<1>6. CtxTypeOK'
  BY <1>2, <1>3, <1>4, <1>5 DEF CtxTypeOK, OwnFrame, TreeInv, Places
<1>7. TreeOrder' /\ IdleIsCreated' /\ FinishedDownTheTree'
  BY <1>1, <1>3, OrderStep, IdleStep, FinishedStep DEF OwnFrame
<1>8. StatusFits'
  <2> SUFFICES ASSUME NEW y \in ReqCtxs
               PROVE  FitsAt(y)'
    BY DEF StatusFits
  <2>1. CASE y = x
    BY <1>3, <2>1 DEF OwnOK
  <2>2. CASE y # x
    <3>1. FitsAt(y) /\ y \in Ctxs /\ cpc'[y] = cpc[y] /\ cancel_requested' = cancel_requested
      BY <1>3, <1>5, <2>2, TreeAssumption DEF TreeInv, StatusFits, OwnFrame
    <3> QED
      BY <1>2, <2>2, <3>1 DEF FitsAt, Exempt, AlmostFinished
  <2> QED
    BY <2>1, <2>2
<1>9. OutcomeHasReason'
  <2> SUFFICES ASSUME NEW y \in Ctxs
               PROVE  ReasonAt(y)'
    BY DEF OutcomeHasReason
  <2>1. CASE y = x
    BY <1>3, <2>1 DEF OwnOK
  <2>2. CASE y # x
    <3>1. /\ ReasonAt(y) /\ (y \in ReqCtxs => exc'[y] = exc[y])
          /\ cancel_requested' = cancel_requested
      BY <1>3, <2>2 DEF TreeInv, OutcomeHasReason, OwnFrame
    <3> QED
      BY <1>2, <2>2, <3>1 DEF ReasonAt
  <2> QED
    BY <2>1, <2>2
<1>10. ExceptionsOK'
  BY <1>3, <1>5 DEF OwnOK, OwnFrame, TreeInv, ExceptionsOK, ExceptionAt
<1>11. DelegatesOK'
  <2>1. \A y \in ReqCtxs : cpc[y] \notin {"idle", "subs"} => cpc'[y] \notin {"idle", "subs"}
    BY <1>1, <1>5 DEF Transition
  <2>2. \A y \in delegate \cup cancelling : y \in ReqCtxs /\ cpc[y] \notin {"idle", "subs"}
    BY TreeAssumption DEF TreeInv, CtxTypeOK, DelegatesOK
  <2> QED
    BY <1>3, <2>1, <2>2 DEF OwnFrame, TreeInv, DelegatesOK
<1>12. MailboxOK'
  BY <1>3, <1>5 DEF OwnFrame, TreeInv, MailboxOK
<1> QED
  BY <1>4, <1>6, <1>7, <1>8, <1>9, <1>10, <1>11, <1>12 DEF TreeInv

\* A cancellation request keeps the invariant.
LEMMA CancellationKeeps ==
    ASSUME TreeInv, request_cancellation
    PROVE  TreeInv'
<1>1. /\ cancel_requested' = TRUE /\ cancelling' = delegate
      /\ UNCHANGED <<status, cpc, exc, not_running, on_parent, delegate>>
  BY DEF request_cancellation
<1>2. CtxTypeOK' /\ DelegatesOK'
  BY <1>1 DEF TreeInv, CtxTypeOK, DelegatesOK
<1>3. TreeOrder' /\ MailboxOK' /\ SubsCounted' /\ IdleIsCreated'
  <2>1. \A w \in ReqCtxs : Pending(w)' = Pending(w)
    BY <1>1 DEF Pending
  <2> QED
    BY <1>1, <2>1 DEF TreeInv, TreeOrder, Active, MailboxOK, SubsCounted, IdleIsCreated,
       NotOvertaken
<1>4. StatusFits' /\ OutcomeHasReason' /\ ExceptionsOK'
  BY <1>1 DEF TreeInv, StatusFits, FitsAt, Exempt, OutcomeHasReason, ReasonAt, ExceptionsOK,
     ExceptionAt
<1>5. FinishedDownTheTree'
  BY <1>1 DEF TreeInv, FinishedDownTheTree
<1> QED
  BY <1>2, <1>3, <1>4, <1>5 DEF TreeInv

\* A late CANCELLED for a contained request keeps the invariant.
LEMMA CancelDelegateKeeps ==
    ASSUME TreeInv, NEW x \in Contained, cancel_delegate(x)
    PROVE  TreeInv'
<1>1. /\ x \in ReqCtxs /\ x \in Ctxs /\ CtxTypeOK /\ cancel_requested
      /\ cpc[x] \notin {"idle", "subs"}
  BY TreeAssumption DEF TreeInv, DelegatesOK, cancel_delegate
<1>2. /\ status' = [status EXCEPT ![x] = "CANCELLED"] /\ cancelling' = cancelling \ {x}
      /\ UNCHANGED <<cpc, exc, cancel_requested, not_running, on_parent, delegate>>
  BY <1>1, StoredAlone DEF cancel_delegate, Statuses, AlmostFinished
<1>3. CtxTypeOK' /\ DelegatesOK'
  BY <1>1, <1>2 DEF TreeInv, CtxTypeOK, DelegatesOK, Statuses
<1>4. TreeOrder' /\ MailboxOK' /\ SubsCounted' /\ ExceptionsOK'
  <2>1. \A w \in ReqCtxs : Pending(w)' = Pending(w)
    BY <1>2 DEF Pending
  <2> QED
    BY <1>2, <2>1 DEF TreeInv, TreeOrder, Active, MailboxOK, SubsCounted, ExceptionsOK,
       ExceptionAt
<1>5. IdleIsCreated' /\ StatusFits' /\ OutcomeHasReason'
  <2>1. \A y \in Ctxs : y # x => status'[y] = status[y]
    BY <1>1, <1>2 DEF CtxTypeOK
  <2>2. status'[x] = "CANCELLED"
    BY <1>1, <1>2 DEF CtxTypeOK
  <2>3. ReqCtxs \subseteq Ctxs
    BY TreeAssumption
  <2> QED
    BY <1>1, <1>2, <2>1, <2>2, <2>3 DEF TreeInv, IdleIsCreated, NotOvertaken, StatusFits,
       FitsAt, Exempt, OutcomeHasReason, ReasonAt
<1>6. FinishedDownTheTree'
  <2> SUFFICES ASSUME NEW w \in Ctxs, AlmostFinished(status'[w]), NEW y \in Subs(w)
               PROVE  status'[y] = "FINISHED" \/ (y \in Contained /\ cancel_requested)
    BY <1>2 DEF FinishedDownTheTree
  <2>1. w # x /\ AlmostFinished(status[w]) /\ y \in Ctxs
    BY <1>1, <1>2 DEF AlmostFinished, CtxTypeOK, Subs
  <2> QED
    BY <1>1, <1>2, <2>1 DEF TreeInv, FinishedDownTheTree, CtxTypeOK
<1> QED
  BY <1>3, <1>4, <1>5, <1>6 DEF TreeInv

\* A tree whose contexts were just created.
LEMMA InitEstablishes == CtxInit => TreeInv
<1> SUFFICES ASSUME CtxInit
             PROVE  TreeInv
  OBVIOUS
<1>1. \A x \in ReqCtxs : IsFiniteSet(ReqSubs(x)) /\ NumReqSubs(x) \in Nat
  <2> TAKE x \in ReqCtxs
  <2>1. ReqSubs(x) \subseteq Ctxs
    BY DEF ReqSubs, Subs
  <2>2. IsFiniteSet(ReqSubs(x))
    BY <2>1, FS_Subset, TreeAssumption
  <2> QED
    BY <2>2, FS_CardinalityType DEF NumReqSubs
<1>2. CtxTypeOK
  <2>1. status \in [Ctxs -> Statuses]
    BY DEF CtxInit, Statuses
  <2>2. not_running \in [ReqCtxs -> Nat]
    BY <1>1 DEF CtxInit
  <2> QED
    BY <2>1, <2>2 DEF CtxInit, CtxTypeOK
<1>3. SubsCounted
  <2>1. \A x \in ReqCtxs : Pending(x) = ReqSubs(x)
    BY DEF CtxInit, Pending, ReqSubs
  <2> QED
    BY <1>1, <2>1 DEF CtxInit, SubsCounted, NumReqSubs
<1>4. FinishedDownTheTree
  <2> SUFFICES ASSUME NEW x \in Ctxs, AlmostFinished(status[x]), NEW y \in Subs(x)
               PROVE  FALSE
    BY DEF FinishedDownTheTree
  <2>1. x \notin ReqCtxs
    BY DEF CtxInit, AlmostFinished
  <2> QED
    BY <2>1, TreeAssumption DEF Subs
<1>5. TreeOrder /\ IdleIsCreated /\ StatusFits
  BY TreeAssumption DEF CtxInit, TreeOrder, Active, IdleIsCreated, StatusFits, FitsAt
<1>6. OutcomeHasReason /\ ExceptionsOK /\ DelegatesOK /\ MailboxOK
  BY DEF CtxInit, OutcomeHasReason, ReasonAt, ExceptionsOK, ExceptionAt, DelegatesOK,
     MailboxOK
<1> QED
  BY <1>2, <1>3, <1>4, <1>5, <1>6 DEF TreeInv

\* A step that changes nothing.
LEMMA StutterKeeps == TreeInv /\ UNCHANGED ctx_vars => TreeInv'
<1> SUFFICES ASSUME TreeInv, UNCHANGED ctx_vars
             PROVE  TreeInv'
  OBVIOUS
<1>1. UNCHANGED <<status, cpc, exc, cancel_requested, not_running, on_parent, delegate,
                  cancelling>>
  BY DEF ctx_vars
<1>2. \A w \in ReqCtxs : Pending(w)' = Pending(w)
  BY <1>1 DEF Pending
<1>3. SubsCounted'
  BY <1>1, <1>2 DEF TreeInv, SubsCounted
<1> QED
  BY <1>1, <1>3 DEF TreeInv, CtxTypeOK, TreeOrder, Active, StatusFits, FitsAt, Exempt,
     IdleIsCreated, NotOvertaken, OutcomeHasReason, ReasonAt, ExceptionsOK, ExceptionAt,
     DelegatesOK, MailboxOK, FinishedDownTheTree

\* The invariant is inductive ...
LEMMA NextKeeps == TreeInv /\ [CtxNext]_ctx_vars => TreeInv'
BY CoStepKeeps, CancellationKeeps, CancelDelegateKeeps, StutterKeeps, TreeAssumption
   DEF CtxNext, CoStep

\* ... and so holds in every state of every behaviour.
LEMMA TreeInvariant == CtxSpec => []TreeInv
BY InitEstablishes, NextKeeps, PTL DEF CtxSpec

-----------------------------------------------------------------------------
(* The theorems.                                                           *)

\* Whatever the order in which the requests of a tree start, end, fail and are
\* cancelled, the statuses of local_async_context_base agree between parents and
\* subcontexts and with the outcome of the resolution, and reschedule_if_opportune()
\* keeps at most one subrequest on its parent's thread.
THEOREM TreeStaysConsistent == CtxSpec => []TreeConsistent
<1>1. TreeInv => TreeConsistent
  <2> SUFFICES ASSUME TreeInv
               PROVE  TreeConsistent
    OBVIOUS
  <2>1. RootStatusTellsOutcome
    <3>1. Root \in ReqCtxs /\ Root \in Ctxs
      BY TreeAssumption
    <3> QED
      BY <3>1 DEF TreeInv, RootStatusTellsOutcome, StatusFits, FitsAt, Exempt,
         OutcomeHasReason, ReasonAt
  <2>2. OneSubOnParentThread
    <3> SUFFICES ASSUME NEW x \in ReqCtxs
                 PROVE  Cardinality(on_parent \cap ReqSubs(x)) <= 1
      BY DEF OneSubOnParentThread
    <3>1. \A y, z \in on_parent \cap ReqSubs(x) : y = z
      BY DEF TreeInv, SubsCounted
    <3>2. CASE on_parent \cap ReqSubs(x) = {}
      BY <3>2, FS_EmptySet
    <3>3. CASE on_parent \cap ReqSubs(x) # {}
      <4>1. PICK y : on_parent \cap ReqSubs(x) = {y}
        BY <3>1, <3>3
      <4> QED
        BY <4>1, FS_Singleton
    <3> QED
      BY <3>2, <3>3
  <2> QED
    BY <2>1, <2>2 DEF TreeInv, TreeConsistent
<1> QED
  BY <1>1, TreeInvariant, PTL

\* No step replaces a final status, with the two exceptions.
StatusKept ==
    \A x \in Ctxs : status[x] \in Final =>
        \/ status'[x] = status[x]
        \/ x = Root /\ UsingResult /\ status[x] = "FINISHED"
                    /\ status'[x] = "AWAITING_RESULT"
        \/ x \in Contained /\ cancel_requested

\* A coroutine keeps the final statuses.
LEMMA CoStepKeepsFinal ==
    ASSUME TreeInv, NEW x \in ReqCtxs, CoStep(x)
    PROVE  StatusKept
<1>1. PICK p : Transition(x, p) /\ StatusChange(x, p)
  BY StepShape
<1>2. CtxTypeOK /\ x \in Ctxs /\ FitsAt(x) /\ ReasonAt(x) /\ ExceptionAt(x)
  BY TreeAssumption DEF TreeInv, StatusFits, OutcomeHasReason, ExceptionsOK
<1> SUFFICES ASSUME NEW y \in Ctxs, status[y] \in Final, ~Exempt(y),
                    status'[y] # status[y]
             PROVE  y = Root /\ UsingResult /\ status[y] = "FINISHED"
                             /\ status'[y] = "AWAITING_RESULT"
  BY DEF Exempt, StatusKept
<1>3. CASE y # x
  <2>1. status'[y] = "FINISHED" /\ (y \in ReqCtxs => cpc[y] \in {"idle", "ok"})
    BY <1>1, <1>3, ChangeFacts
  <2>2. status[y] \in {"FAILED", "CANCELLED"}
    BY <2>1 DEF Final
  <2>3. y \in ReqCtxs /\ exc[y] # "none"
    BY <2>2 DEF TreeInv, OutcomeHasReason, ReasonAt, Exempt
  <2> QED
    BY <2>1, <2>3 DEF TreeInv, ExceptionsOK, ExceptionAt
<1>4. CASE y = x
  <2>1. cpc[x] # "idle"
    BY <1>1, <1>4, BeginsCreated DEF Transition, Final
  <2>2. cpc[x] \notin {"subs", "self", "threw", "ok"}
    BY <1>1, <1>2, <1>4 DEF FitsAt, Final, Exempt, Transition
  <2>3. CASE close_contained(x)
    BY <1>4, <2>3 DEF close_contained
  <2>4. CASE cached_returns(x)
    <3>1. status'[x] = "FINISHED"
      BY <1>2, <2>4, StoredFacts DEF cached_returns, Statuses
    <3>2. status[x] = "FINISHED"
      BY <1>2, <1>4, <2>4 DEF cached_returns, FitsAt, Exempt, Final, AlmostFinished
    <3> QED
      BY <1>4, <3>1, <3>2
  <2>5. CASE x = Root /\ await_result
    <3>1. status'[x] = "AWAITING_RESULT"
      BY <1>2, <2>5, StoredFacts DEF await_result, Statuses
    <3>2. status[x] = "FINISHED" /\ UsingResult
      BY <1>2, <1>4, <2>5 DEF await_result, FitsAt, Exempt, TreeInv, MailboxOK
    <3> QED
      BY <1>4, <2>5, <3>1, <3>2
  <2> QED
    BY <2>1, <2>2, <2>3, <2>4, <2>5 DEF CoStep, Step, run_subs, from_cache, run_self,
       run_contained, subs_threw, function_throws, function_returns
<1> QED
  BY <1>3, <1>4

\* So does a late cancellation, which concerns a contained request.
LEMMA DelegateKeepsFinal ==
    ASSUME CtxTypeOK, NEW x \in Contained, cancel_delegate(x), cancel_requested
    PROVE  StatusKept
<1>1. /\ x \in Ctxs /\ CtxTypeOK /\ cancel_requested
  BY TreeAssumption
<1>2. status' = [status EXCEPT ![x] = "CANCELLED"]
  BY <1>1, StoredAlone DEF cancel_delegate, Statuses, AlmostFinished
<1> QED
  BY <1>1, <1>2 DEF CtxTypeOK, StatusKept

\* CANCELLED, FINISHED and FAILED are final, but for a root that is used as a mailbox
\* and for contained requests once a cancellation was requested: update_status() never
\* overwrites the outcome of a request, also not from above in the tree.
THEOREM FinalIsFinal == CtxSpec => FinalStatusIsFinal
<1>1. TreeInv /\ [CtxNext]_ctx_vars => [StatusKept]_ctx_vars
  <2> SUFFICES ASSUME TreeInv, CtxNext
               PROVE  StatusKept
    OBVIOUS
  <2>1. CASE \E x \in ReqCtxs : CoStep(x)
    BY <2>1, CoStepKeepsFinal
  <2>2. CASE request_cancellation
    BY <2>2 DEF request_cancellation, StatusKept
  <2>3. CASE \E x \in Contained : cancel_delegate(x)
    BY <2>3, DelegateKeepsFinal DEF TreeInv, DelegatesOK, cancel_delegate
  <2> QED
    BY <2>1, <2>2, <2>3, TreeAssumption DEF CtxNext, CoStep
<1> QED
  BY <1>1, TreeInvariant, PTL DEF CtxSpec, FinalStatusIsFinal, StatusKept

-----------------------------------------------------------------------------
(* Nobody in the tree waits for everybody.                                 *)

\* The guards of Step(x) and await_result: the coroutine of x can take a step.
TreeReady(x) ==
    \/ cpc[x] = "idle" /\ MayBegin(x)
    \/ cpc[x] = "subs" /\ \A y \in ReqSubs(x) : Ended(y)
    \/ cpc[x] \in {"self", "closing", "returning"}
    \/ x = Root /\ cpc[x] \in {"mailbox", "mailbox2"}

\* Wherever a coroutine is, it or one below it can take a step.
TreeGoesOn ==
    \A x \in ReqCtxs : cpc[x] # "idle" /\ ~Ended(x) =>
        \E y \in ({x} \cup Below[x]) \cap ReqCtxs : TreeReady(y)

\* Some natural number is the least of a nonempty set of them.
LEMMA LeastNumber ==
    ASSUME NEW S \in SUBSET Nat, S # {}
    PROVE  \E n \in S : \A m \in S : n <= m
<1> DEFINE Less == {p \in Nat \X Nat : p[1] < p[2]}
<1>1. IsWellFoundedOn(Less, Nat)
  BY NatLessThanWellFounded, Zenon DEF OpToRel
<1> HIDE DEF Less
<1>2. PICK n \in S : \A m \in S : <<m, n>> \notin Less
  BY <1>1, WFMin
<1>3. ASSUME NEW m \in S PROVE n <= m
  <2>1. <<m, n>> \in Less <=> m < n
    BY DEF Less
  <2> QED
    BY <1>2, <2>1
<1> QED
  BY <1>3

\* There is less below an argument than below its request.
LEMMA BelowShrinks ==
    ASSUME NEW x \in Ctxs, NEW y \in Subs(x)
    PROVE  /\ Cardinality(Below[x]) \in Nat /\ Cardinality(Below[y]) \in Nat
           /\ Cardinality(Below[y]) < Cardinality(Below[x])
           /\ Cardinality(Below[x]) <= Cardinality(Ctxs) /\ Cardinality(Ctxs) \in Nat
<1>1. PICK B : B = Below[x]
  OBVIOUS
<1>2. PICK C : C = Below[y]
  OBVIOUS
<1>3. y \in Ctxs /\ y \in B /\ y \notin C /\ B \in SUBSET Ctxs /\ C \in SUBSET B
  BY <1>1, <1>2, SubFacts, TreeAssumption DEF Subs
<1>4. IsFiniteSet(Ctxs)
  BY TreeAssumption
<1>5. IsFiniteSet(B) /\ Cardinality(B) <= Cardinality(Ctxs)
  BY <1>3, <1>4, FS_Subset
<1>6. IsFiniteSet(C) /\ Cardinality(C) <= Cardinality(B) /\ (Cardinality(B) = Cardinality(C) => B = C)
  BY <1>3, <1>5, FS_Subset
<1>7. Cardinality(B) \in Nat /\ Cardinality(C) \in Nat /\ Cardinality(Ctxs) \in Nat
  BY <1>4, <1>5, <1>6, FS_CardinalityType
<1> QED
  BY <1>1, <1>2, <1>3, <1>5, <1>6, <1>7

\* Of the coroutines at work below a given one, one with the least below it does not
\* wait for another that is at work.
LEMMA TreeCanGoOn ==
    ASSUME CtxTypeOK, MailboxOK
    PROVE  TreeGoesOn
<1> SUFFICES ASSUME NEW x \in ReqCtxs, Active(x),
                    \A y \in ({x} \cup Below[x]) \cap ReqCtxs : ~TreeReady(y)
             PROVE  FALSE
  BY DEF TreeGoesOn, Active, Ended
<1>0. ReqCtxs \subseteq Ctxs /\ x \in Ctxs
  BY TreeAssumption
<1>1. PICK W : W = {y \in ({x} \cup Below[x]) \cap ReqCtxs : Active(y)}
  OBVIOUS
<1>2. PICK S : S = {Cardinality(Below[y]) : y \in W}
  OBVIOUS
<1>3. \A y \in Ctxs : Cardinality(Below[y]) \in Nat
  <2>1. ASSUME NEW y \in Ctxs
        PROVE  Cardinality(Below[y]) \in Nat
    <3>1. Below[y] \in SUBSET Ctxs /\ IsFiniteSet(Ctxs)
      BY TreeAssumption
    <3> QED
      BY <3>1, FS_Subset, FS_CardinalityType
  <2> QED
    BY <2>1
<1>4. S \in SUBSET Nat /\ S # {}
  BY <1>0, <1>1, <1>2, <1>3
<1>5. PICK n \in S : \A m \in S : n <= m
  BY <1>4, LeastNumber
<1>6. PICK y \in W : Cardinality(Below[y]) = n
  BY <1>2, <1>5
<1>7. y \in ({x} \cup Below[x]) \cap ReqCtxs /\ y \in Ctxs /\ Active(y) /\ ~TreeReady(y)
  BY <1>0, <1>1, <1>6
<1>8. cpc[y] \in Places \ {"idle", "ok", "threw"}
  BY <1>7 DEF CtxTypeOK, Active, Places
<1>9. cpc[y] \notin {"mailbox", "mailbox2"}
  BY <1>7 DEF MailboxOK, TreeReady
<1>10. cpc[y] = "subs" /\ ~(\A z \in ReqSubs(y) : Ended(z))
  BY <1>7, <1>8, <1>9 DEF TreeReady, Places
<1>11. PICK z \in ReqSubs(y) : ~Ended(z)
  BY <1>10
<1>12. z \in Subs(y) /\ z \in ReqCtxs /\ z \in Below[y] /\ ParentOf[z] = y /\ z # Root
  BY <1>7, <1>11, SubFacts DEF ReqSubs
<1>13. z \in ({x} \cup Below[x]) \cap ReqCtxs
  BY <1>0, <1>7, <1>12, TreeAssumption
<1>14. ~TreeReady(z)
  BY <1>13
<1>15. cpc[z] # "idle"
  BY <1>10, <1>12, <1>14 DEF TreeReady, MayBegin
<1>16. z \in W /\ Cardinality(Below[z]) \in S
  BY <1>1, <1>2, <1>11, <1>13, <1>15 DEF Active, Ended
<1>17. /\ Cardinality(Below[y]) \in Nat /\ Cardinality(Below[z]) \in Nat
       /\ Cardinality(Below[z]) < Cardinality(Below[y])
  BY <1>7, <1>12, BelowShrinks
<1> QED
  BY <1>5, <1>6, <1>16, <1>17

\* Coroutines of a request tree never wait in a circle, whatever fails or is cancelled:
\* when_all() waits only for arguments that can begin, can go on or have ended.
THEOREM TreeHasNoDeadlock == CtxSpec => []TreeGoesOn
<1>1. TreeInv => TreeGoesOn
  BY TreeCanGoOn DEF TreeInv
<1> QED
  BY <1>1, TreeInvariant, PTL

-----------------------------------------------------------------------------
(* The inductive invariant of AsyncServer.                                 *)

\* The tree is not built yet; it is not resolved yet.
Building == {"none", "queued", "building"}
Unresolved == Building \cup {"resolving"}

\* The client no longer waits for anything but the ends of its calls.
Leaving == {"finishing", "releasing", "gone", "terminated"}

ErrorSeen == \E x \in ReqCtxs : exc[x] = "error"

\* The tree of contexts is as AsyncContext leaves it until the worker stores the
\* outcome; after that, statuses change by late cancellations only.
TreePhase ==
    /\ worker \in Unresolved => TreeInv
    /\ worker \in Building => cpc[Root] = "idle"
    /\ cancelling # {} => cancel_requested
    /\ status[Root] = "CANCELLED" => cancel_requested
    /\ status[Root] = "FAILED" => ErrorSeen

\* What of the tree exists.
BuiltPhase ==
    /\ worker = "none" => built = {} /\ db = {} /\ record_lock = "none"
    /\ worker \in {"queued", "building"} => Root \in built
    /\ worker \in {"resolving", "setting_id", "flushing"} => built = Ctxs
    /\ worker = "queued" => built = {Root}
    /\ worker = "complete" => built = Ctxs \/ built = {Root}
    /\ subs # {"unknown"} => worker \notin Building
    /\ subs \in {{"unknown"}, Subs(Root)} \/ (subs = {} /\ built = {Root})

\* The one submission, and the id it gives the client.
SubmitOK ==
    /\ client = "idle" => calls = {} /\ answers = {} /\ worker = "none" /\ promise = "unset"
    /\ "submit" \in calls => worker = "none"
    /\ "submit" \in answers => worker # "none"
    /\ client = "submitting" => promise = "unset"
    /\ promise = "id" => worker # "none"
    /\ client \in {"polling", "fetching"} => promise = "id"
    /\ remote_id => promise = "id"

\* The root is known until the client finishes it, and then nothing of the tree is,
\* unless a client gave up while the tree was being built.
FinishOK ==
    /\ "finish" \in calls \cup answers => client \in Leaving /\ remote_id
    /\ worker # "none" /\ client \notin Leaving => Root \in db
    /\ "finish" \in calls => Root \in db
    /\ client = "finishing" => remote_id
    /\ client \in Leaving => canceller \in {"idle", "done"}
    /\ promise = "id" /\ timeouts = 0 /\ client \notin {"idle", "submitting", "polling"}
          => worker \notin Building
    /\ (/\ remote_id /\ timeouts = 0
        /\ client \in {"releasing", "gone"} \/ "finish" \in answers) => db = {}
    /\ client \in {"releasing", "gone"} /\ timeouts = 0 => "finish" \notin calls

\* The record lock goes from the server to the client and back.
LockOK ==
    /\ record_id => NeedLock /\ worker # "none"
    /\ client_lock => NeedLock /\ client \in {"returned", "finishing", "releasing"}
    /\ client_lock \/ "release" \in calls => worker # "none"
    /\ "release" \in calls \cup answers => ~client_lock /\ client \in Leaving \ {"finishing"}
    /\ NeedLock /\ worker # "none" /\ record_lock # "held" =>
          ~client_lock /\ client \in Leaving \ {"finishing"}

\* What the client was told.
ToldOK ==
    /\ outcome # "bad_id"
    /\ outcome = "cancelled" => cancel_requested
    /\ outcome = "failed" => ErrorSeen

\* The three parts of the type invariant.
ServerPartOK ==
    /\ worker \in {"none", "queued", "building", "resolving", "setting_id",
                   "flushing", "complete"}
    /\ built \subseteq Ctxs /\ db \subseteq built
    /\ result \in {"empty", "value"}
    /\ record_id \in BOOLEAN /\ flushed \in BOOLEAN
    /\ record_lock \in {"none", "held", "released"}
RpcPartOK ==
    /\ calls \subseteq {"submit", "cancel", "finish", "release"}
    /\ answers \subseteq {"submit", "submit_error", "cancel", "finish", "release"}
    /\ timeouts \in 0..MaxTimeouts
ClientPartOK ==
    /\ client \in {"idle", "submitting", "polling", "fetching", "returned",
                   "finishing", "releasing", "gone", "terminated"}
    /\ outcome \in {"none", "value", "cancelled", "failed", "bad_id", "error"}
    /\ response \in [result : {"none", "empty", "value"}, record_id : BOOLEAN,
                     flushed : BOOLEAN]
    /\ promise \in {"unset", "id", "exception"}
    /\ remote_id \in BOOLEAN
    /\ canceller \in {"idle", "waiting", "calling", "done"}
    /\ subs \in {{"unknown"}} \cup SUBSET Ctxs
    /\ client_lock \in BOOLEAN

AsyncInv ==
    /\ ServerTypeOK
    /\ TreePhase
    /\ BuiltPhase
    /\ SubmitOK
    /\ FinishOK
    /\ LockOK
    /\ ToldOK

-----------------------------------------------------------------------------
(* The steps of AsyncServer.                                               *)

\* A cancellation or an error that has been seen stays seen, and CtxTypeOK holds.
Lasting ==
    /\ CtxTypeOK'
    /\ cancel_requested => cancel_requested'
    /\ ErrorSeen => ErrorSeen'

\* The root's coroutine has not begun, so its status is the one it was created with.
LEMMA RootCreated ==
    ASSUME TreeInv, cpc[Root] = "idle"
    PROVE  status[Root] = "CREATED"
<1>1. Root \in ReqCtxs /\ \A z \in ReqCtxs : Root \notin Below[z]
  BY TreeAssumption, TreeFacts
<1> QED
  BY <1>1 DEF TreeInv, IdleIsCreated, NotOvertaken

\* A step of a coroutine does not take back what another one threw.
LEMMA CoStepLasts ==
    ASSUME TreeInv, NEW x \in ReqCtxs, CoStep(x)
    PROVE  Lasting /\ TreeInv'
<1>1. TreeInv'
  BY CoStepKeeps
<1>2. OwnFrame(x)
  BY OwnStep
<1>3. exc[x] = "none"
  <2>1. PICK p : Transition(x, p)
    BY StepShape
  <2> QED
    BY <2>1 DEF Transition, TreeInv, ExceptionsOK, ExceptionAt
<1>4. ErrorSeen => ErrorSeen'
  BY <1>2, <1>3 DEF ErrorSeen, OwnFrame
<1> QED
  BY <1>1, <1>2, <1>4 DEF Lasting, OwnFrame, TreeInv

\* Nor does a late cancellation, before or after the outcome was stored.
LEMMA DelegateStepKeeps ==
    ASSUME ServerTypeOK, TreePhase, delegate_step
    PROVE  Lasting /\ TreePhase'
<1>1. PICK x \in Contained : cancel_delegate(x)
  BY DEF delegate_step
<1>2. /\ x \in Ctxs /\ CtxTypeOK /\ cancel_requested /\ Root \in Ctxs
  BY <1>1, TreeAssumption DEF TreePhase, cancel_delegate, ServerTypeOK
<1>3. /\ status' = [status EXCEPT ![x] = "CANCELLED"]
      /\ UNCHANGED <<cpc, exc, cancel_requested, not_running, on_parent, delegate>>
      /\ cancelling' = cancelling \ {x} /\ UNCHANGED worker
  BY <1>1, <1>2, StoredAlone
     DEF cancel_delegate, Statuses, AlmostFinished, delegate_step, server_vars
<1>4. CtxTypeOK'
  BY <1>2, <1>3 DEF CtxTypeOK, Statuses
<1>5. worker' \in Unresolved => TreeInv'
  BY <1>1, <1>3, CancelDelegateKeeps DEF TreePhase
<1>6. status'[Root] = status[Root] \/ status'[Root] = "CANCELLED"
  BY <1>2, <1>3 DEF CtxTypeOK
<1> QED
  BY <1>2, <1>3, <1>4, <1>5, <1>6 DEF Lasting, TreePhase, ErrorSeen

\* Nor the cancellation request itself.
LEMMA CancelHandlerKeeps ==
    ASSUME ServerTypeOK, TreePhase, handle_request_cancellation
    PROVE  Lasting /\ TreePhase'
<1>1. UNCHANGED worker
  BY DEF handle_request_cancellation, server_vars
<1>2. CASE UNCHANGED ctx_vars
  <2>1. TreeInv => TreeInv'
    BY <1>2, StutterKeeps
  <2> QED
    BY <1>1, <1>2, <2>1
       DEF Lasting, TreePhase, ErrorSeen, ctx_vars, ServerTypeOK, CtxTypeOK
<1>3. CASE request_cancellation
  <2>1. TreeInv => TreeInv'
    BY <1>3, CancellationKeeps
  <2>2. CtxTypeOK'
    BY <1>3 DEF request_cancellation, ServerTypeOK, CtxTypeOK
  <2> QED
    BY <1>1, <1>3, <2>1, <2>2 DEF Lasting, TreePhase, ErrorSeen, request_cancellation
<1> QED
  BY <1>2, <1>3 DEF handle_request_cancellation

\* The worker stores an outcome for the root that has a reason.
LEMMA OutcomeStored ==
    ASSUME ServerTypeOK, TreePhase, NEW s \in {"FINISHED", "FAILED", "CANCELLED"},
           worker' \notin Unresolved, status' = Stored(Root, s),
           exc' \in {exc, [exc EXCEPT ![Root] = "error"]},
           UNCHANGED <<cpc, cancel_requested, not_running, on_parent, delegate, cancelling>>,
           s = "CANCELLED" => cancel_requested,
           s = "FAILED" => ErrorSeen \/ exc' = [exc EXCEPT ![Root] = "error"]
    PROVE  Lasting /\ TreePhase'
<1>1. Root \in Ctxs /\ Root \in ReqCtxs /\ CtxTypeOK /\ s \in Statuses
  BY TreeAssumption DEF ServerTypeOK, Statuses
<1>2. status' \in [Ctxs -> Statuses] /\ status'[Root] = s
  BY <1>1, StoredFacts
<1>3. CtxTypeOK'
  BY <1>1, <1>2 DEF CtxTypeOK
<1>4. ErrorSeen => ErrorSeen'
  BY <1>1 DEF ErrorSeen, CtxTypeOK
<1>5. exc' = [exc EXCEPT ![Root] = "error"] => ErrorSeen'
  BY <1>1 DEF ErrorSeen, CtxTypeOK
<1> QED
  BY <1>2, <1>3, <1>4, <1>5 DEF Lasting, TreePhase, Unresolved

\* The steps of the worker.
LEMMA WorkKeeps ==
    ASSUME ServerTypeOK, TreePhase, BuiltPhase, Work
    PROVE  Lasting /\ TreePhase'
<1> USE DEF Unresolved, Building
<1>0. Root \in Ctxs /\ Root \in ReqCtxs /\ CtxTypeOK
  BY TreeAssumption DEF ServerTypeOK
<1>1. ASSUME UNCHANGED ctx_vars, worker' \in Building => worker \in Building,
             worker' \in Unresolved => worker \in Unresolved
      PROVE  Lasting /\ TreePhase'
  <2>1. TreeInv => TreeInv'
    BY <1>1, StutterKeeps
  <2> QED
    BY <1>1, <2>1 DEF Lasting, TreePhase, ErrorSeen, ctx_vars, ServerTypeOK, CtxTypeOK
<1>2. CASE worker_starts
  <2>1. CASE worker' = "building" /\ UNCHANGED ctx_vars
    BY <1>1, <1>2, <2>1 DEF worker_starts
  <2>2. CASE worker' = "complete" /\ status' = Stored(Root, "FAILED")
    BY <1>2, <2>2, OutcomeStored DEF worker_starts, ctx_vars
  <2> QED
    BY <1>2, <2>1, <2>2 DEF worker_starts
<1>3. CASE \E x \in Ctxs : make_sub_ctx(x)
  BY <1>1, <1>3 DEF make_sub_ctx
<1>4. CASE tree_complete
  BY <1>1, <1>4 DEF tree_complete
<1>5. CASE resolve_step
  <2>1. worker = "resolving" /\ worker' = worker
    BY <1>5 DEF resolve_step, server_vars
  <2>2. TreeInv /\ \E x \in ReqCtxs : CoStep(x)
    BY <1>0, <1>5, <2>1 DEF resolve_step, TreePhase, CoStep
  <2>3. Lasting /\ TreeInv'
    BY <2>2, CoStepLasts
  <2>4. /\ cancelling' # {} => cancel_requested'
        /\ status'[Root] = "CANCELLED" => cancel_requested'
        /\ status'[Root] = "FAILED" => ErrorSeen'
    BY <1>0, <2>3 DEF TreeInv, DelegatesOK, OutcomeHasReason, ReasonAt, ErrorSeen
  <2> QED
    BY <2>1, <2>3, <2>4 DEF TreePhase
<1>6. CASE set_result
  <2>1. CASE status[Root] = "AWAITING_RESULT"
    BY <1>6, <2>1, OutcomeStored DEF set_result
  <2>2. CASE status[Root] # "AWAITING_RESULT"
    BY <1>6, <2>2, OutcomeStored DEF set_result
  <2> QED
    BY <2>1, <2>2
<1>7. CASE set_cache_record_id
  BY <1>1, <1>7 DEF set_cache_record_id
<1>8. CASE on_value_complete
  BY <1>1, <1>8 DEF on_value_complete
<1>9. CASE worker_catches
  <2>1. TreeInv /\ cpc[Root] = "threw"
    BY <1>9 DEF worker_catches, TreePhase
  <2>2. exc[Root] \in {"error", "cancelled"} /\ (exc[Root] = "cancelled" => cancel_requested)
    BY <1>0, <2>1 DEF TreeInv, ExceptionsOK, ExceptionAt, CtxTypeOK
  <2>3. PICK s \in {"FAILED", "CANCELLED"} : s = StatusOf(exc[Root])
    BY DEF StatusOf
  <2>4. s = "CANCELLED" => cancel_requested
    BY <2>2, <2>3 DEF StatusOf
  <2>5. s = "FAILED" => ErrorSeen
    BY <1>0, <2>2, <2>3 DEF StatusOf, ErrorSeen
  <2> QED
    BY <1>9, <2>3, <2>4, <2>5, OutcomeStored DEF worker_catches
<1> QED
  BY <1>2, <1>3, <1>4, <1>5, <1>6, <1>7, <1>8, <1>9 DEF Work

\* Steps of the handlers and of the client leave the contexts of the tree alone.
LEMMA PhaseKeeps ==
    ASSUME AsyncInv, AsyncNext
    PROVE  Lasting /\ TreePhase'
<1>0. ServerTypeOK /\ TreePhase /\ BuiltPhase /\ SubmitOK
  BY DEF AsyncInv
<1>1. CASE handle_request_cancellation
  BY <1>0, <1>1, CancelHandlerKeeps
<1>2. CASE Work
  BY <1>0, <1>2, WorkKeeps
<1>3. CASE delegate_step
  BY <1>0, <1>3, DelegateStepKeeps
<1>4. CASE ~handle_request_cancellation /\ ~Work /\ ~delegate_step
  <2>1. UNCHANGED ctx_vars
    BY <1>4 DEF AsyncNext, Handle, handle_submit_async, handle_submit_async_error,
       handle_finish_async, handle_release_cache_record_lock, submit_async, Resolve,
       set_remote_id, fail_remote_id, get_async_status, get_async_response, finish_remote,
       remote_finished, release_lock, lock_released, client_gives_up,
       request_cancellation_coro, Cancel, wait_on_remote_id, cancellation_requested,
       ensure_subs, Keep_server
  <2>2. worker' = worker \/ (worker = "none" /\ worker' = "queued")
    <3>1. CASE handle_submit_async
      BY <1>0, <3>1 DEF handle_submit_async, SubmitOK, Handles
    <3>2. CASE ~handle_submit_async
      BY <1>4, <3>2 DEF AsyncNext, Handle, handle_submit_async_error,
         handle_finish_async, handle_release_cache_record_lock, submit_async, Resolve,
         set_remote_id, fail_remote_id, get_async_status, get_async_response, finish_remote,
         remote_finished, release_lock, lock_released, client_gives_up,
         request_cancellation_coro, Cancel, wait_on_remote_id, cancellation_requested,
         ensure_subs, Keep_server, server_vars
    <3> QED
      BY <3>1, <3>2
  <2>3. TreeInv => TreeInv'
    BY <2>1, StutterKeeps
  <2> QED
    BY <1>0, <2>1, <2>2, <2>3 DEF Lasting, TreePhase, ErrorSeen, ctx_vars, ServerTypeOK,
       CtxTypeOK, Unresolved, Building
<1> QED
  BY <1>1, <1>2, <1>3, <1>4

\* The end of a call, answered or not, leaves the connection well-typed.
LEMMA CallEndsType ==
    ASSUME AsyncInv
    PROVE  /\ GivesUp => RpcPartOK'
           /\ \A call : Receives(call) => RpcPartOK'
<1>1. RpcPartOK /\ timeouts \in Nat
  BY ServerAssumption DEF AsyncInv, ServerTypeOK, RpcPartOK
<1>2. GivesUp => RpcPartOK'
  BY <1>1, ServerAssumption DEF GivesUp, RpcPartOK
<1> QED
  BY <1>1, <1>2 DEF Receives, RpcPartOK

\* The server's variables keep their types.
LEMMA ServerPartKeeps ==
    ASSUME AsyncInv, AsyncNext
    PROVE  ServerPartOK'
<1> USE DEF AsyncInv, ServerTypeOK, ServerPartOK, server_vars, rpc_vars, client_vars,
     Keep_async, Keep_server, ctx_vars
<1>0. CtxTypeOK' /\ Root \in Ctxs /\ CtxTypeOK
  BY PhaseKeeps, TreeAssumption DEF Lasting, AsyncInv, ServerTypeOK
<1>1. CASE handle_submit_async
  BY <1>0, <1>1 DEF handle_submit_async, Handles
<1>2. CASE handle_submit_async_error
  BY <1>2 DEF handle_submit_async_error
<1>3. CASE handle_request_cancellation
  BY <1>3 DEF handle_request_cancellation, Handles
<1>4. CASE handle_finish_async
  BY <1>4 DEF handle_finish_async, Handles, remove_tree
<1>5. CASE handle_release_cache_record_lock
  BY <1>5 DEF handle_release_cache_record_lock, Handles
<1>6. CASE worker_starts
  BY <1>6 DEF worker_starts
<1>7. CASE \E x \in Ctxs : make_sub_ctx(x)
  BY <1>7 DEF make_sub_ctx
<1>8. CASE tree_complete
  BY <1>8 DEF tree_complete
<1>9. CASE resolve_step
  BY <1>9 DEF resolve_step
<1>10. CASE set_result
  BY <1>10 DEF set_result
<1>11. CASE set_cache_record_id
  BY ServerAssumption, <1>11 DEF set_cache_record_id
<1>12. CASE on_value_complete
  BY <1>12 DEF on_value_complete
<1>13. CASE worker_catches
  BY <1>13 DEF worker_catches
<1>14. CASE delegate_step
  BY <1>14 DEF delegate_step
<1>15. CASE submit_async
  BY <1>15 DEF submit_async, Send
<1>16. CASE set_remote_id
  BY <1>16 DEF set_remote_id, Receives
<1>17. CASE fail_remote_id
  BY <1>17 DEF fail_remote_id, Receives, GivesUp
<1>18. CASE get_async_status
  BY <1>18 DEF get_async_status, Polled
<1>19. CASE get_async_response
  BY <1>19 DEF get_async_response
<1>20. CASE client_gives_up
  BY <1>20 DEF client_gives_up, GivesUp
<1>21. CASE finish_remote
  BY <1>21 DEF finish_remote, Send
<1>22. CASE remote_finished
  BY <1>22 DEF remote_finished, Receives, GivesUp
<1>23. CASE release_lock
  BY <1>23 DEF release_lock, Send
<1>24. CASE lock_released
  BY <1>24 DEF lock_released, Receives, GivesUp
<1>25. CASE request_cancellation_coro
  BY <1>25 DEF request_cancellation_coro
<1>26. CASE wait_on_remote_id
  BY <1>26 DEF wait_on_remote_id, Send
<1>27. CASE cancellation_requested
  BY <1>27 DEF cancellation_requested, Receives, GivesUp
<1>28. CASE ensure_subs
  BY <1>28 DEF ensure_subs
<1> QED
  BY <1>1, <1>2, <1>3, <1>4, <1>5, <1>6, <1>7, <1>8, <1>9, <1>10, <1>11, <1>12, <1>13,
     <1>14, <1>15, <1>16, <1>17, <1>18, <1>19, <1>20, <1>21, <1>22, <1>23, <1>24, <1>25,
     <1>26, <1>27, <1>28 DEF AsyncNext, Handle, Work, Resolve, Cancel

\* The connection's variables keep their types.
LEMMA RpcPartKeeps ==
    ASSUME AsyncInv, AsyncNext
    PROVE  RpcPartOK'
<1> USE DEF AsyncInv, ServerTypeOK, RpcPartOK, server_vars, rpc_vars, client_vars,
     Keep_async, Keep_server, ctx_vars
<1>1. CASE handle_submit_async
  BY <1>1 DEF handle_submit_async, Handles
<1>2. CASE handle_submit_async_error
  BY <1>2 DEF handle_submit_async_error
<1>3. CASE handle_request_cancellation
  BY <1>3 DEF handle_request_cancellation, Handles
<1>4. CASE handle_finish_async
  BY <1>4 DEF handle_finish_async, Handles, remove_tree
<1>5. CASE handle_release_cache_record_lock
  BY <1>5 DEF handle_release_cache_record_lock, Handles
<1>6. CASE worker_starts
  BY <1>6 DEF worker_starts
<1>7. CASE \E x \in Ctxs : make_sub_ctx(x)
  BY <1>7 DEF make_sub_ctx
<1>8. CASE tree_complete
  BY <1>8 DEF tree_complete
<1>9. CASE resolve_step
  BY <1>9 DEF resolve_step
<1>10. CASE set_result
  BY <1>10 DEF set_result
<1>11. CASE set_cache_record_id
  BY <1>11 DEF set_cache_record_id
<1>12. CASE on_value_complete
  BY <1>12 DEF on_value_complete
<1>13. CASE worker_catches
  BY <1>13 DEF worker_catches
<1>14. CASE delegate_step
  BY <1>14 DEF delegate_step
<1>15. CASE submit_async
  BY <1>15 DEF submit_async, Send
<1>16. CASE set_remote_id
  BY <1>16 DEF set_remote_id, Receives
<1>17. CASE fail_remote_id
  BY <1>17, CallEndsType DEF fail_remote_id
<1>18. CASE get_async_status
  BY <1>18 DEF get_async_status, Polled
<1>19. CASE get_async_response
  BY <1>19 DEF get_async_response
<1>20. CASE client_gives_up
  BY <1>20, CallEndsType DEF client_gives_up
<1>21. CASE finish_remote
  BY <1>21 DEF finish_remote, Send
<1>22. CASE remote_finished
  BY <1>22, CallEndsType DEF remote_finished
<1>23. CASE release_lock
  BY <1>23 DEF release_lock, Send
<1>24. CASE lock_released
  BY <1>24, CallEndsType DEF lock_released
<1>25. CASE request_cancellation_coro
  BY <1>25 DEF request_cancellation_coro
<1>26. CASE wait_on_remote_id
  BY <1>26 DEF wait_on_remote_id, Send
<1>27. CASE cancellation_requested
  BY <1>27, CallEndsType DEF cancellation_requested
<1>28. CASE ensure_subs
  BY <1>28 DEF ensure_subs
<1> QED
  BY <1>1, <1>2, <1>3, <1>4, <1>5, <1>6, <1>7, <1>8, <1>9, <1>10, <1>11, <1>12, <1>13,
     <1>14, <1>15, <1>16, <1>17, <1>18, <1>19, <1>20, <1>21, <1>22, <1>23, <1>24, <1>25,
     <1>26, <1>27, <1>28 DEF AsyncNext, Handle, Work, Resolve, Cancel

\* The client's variables keep their types.
LEMMA ClientPartKeeps ==
    ASSUME AsyncInv, AsyncNext
    PROVE  ClientPartOK'
<1> USE DEF AsyncInv, ServerTypeOK, ClientPartOK, server_vars, rpc_vars, client_vars,
     Keep_async, Keep_server, ctx_vars
<1>1. CASE handle_submit_async
  BY <1>1 DEF handle_submit_async, Handles
<1>2. CASE handle_submit_async_error
  BY <1>2 DEF handle_submit_async_error
<1>3. CASE handle_request_cancellation
  BY <1>3 DEF handle_request_cancellation, Handles
<1>4. CASE handle_finish_async
  BY <1>4 DEF handle_finish_async, Handles, remove_tree
<1>5. CASE handle_release_cache_record_lock
  BY <1>5 DEF handle_release_cache_record_lock, Handles
<1>6. CASE worker_starts
  BY <1>6 DEF worker_starts
<1>7. CASE \E x \in Ctxs : make_sub_ctx(x)
  BY <1>7 DEF make_sub_ctx
<1>8. CASE tree_complete
  BY <1>8 DEF tree_complete
<1>9. CASE resolve_step
  BY <1>9 DEF resolve_step
<1>10. CASE set_result
  BY <1>10 DEF set_result
<1>11. CASE set_cache_record_id
  BY <1>11 DEF set_cache_record_id
<1>12. CASE on_value_complete
  BY <1>12 DEF on_value_complete
<1>13. CASE worker_catches
  BY <1>13 DEF worker_catches
<1>14. CASE delegate_step
  BY <1>14 DEF delegate_step
<1>15. CASE submit_async
  BY <1>15 DEF submit_async, Send
<1>16. CASE set_remote_id
  BY <1>16 DEF set_remote_id, Receives
<1>17. CASE fail_remote_id
  BY <1>17 DEF fail_remote_id, Receives, GivesUp
<1>18. CASE get_async_status
  BY <1>18 DEF get_async_status, Polled
<1>19. CASE get_async_response
  <2>1. client' = "returned" /\ outcome' \in {"error", "value", "bad_id"}
    BY <1>19 DEF get_async_response
  <2>2. response' \in [result : {"none", "empty", "value"}, record_id : BOOLEAN,
                      flushed : BOOLEAN]
    BY <1>19 DEF get_async_response
  <2>3. client_lock' \in BOOLEAN
    BY <1>19 DEF get_async_response
  <2> QED
    BY <1>19, <2>1, <2>2, <2>3 DEF get_async_response
<1>20. CASE client_gives_up
  BY <1>20 DEF client_gives_up, GivesUp
<1>21. CASE finish_remote
  BY <1>21 DEF finish_remote, Send
<1>22. CASE remote_finished
  BY <1>22 DEF remote_finished, Receives, GivesUp
<1>23. CASE release_lock
  <2>1. client_lock' \in BOOLEAN /\ client' \in {client, "gone"}
    BY <1>23 DEF release_lock
  <2> QED
    BY <1>23, <2>1 DEF release_lock
<1>24. CASE lock_released
  BY <1>24 DEF lock_released, Receives, GivesUp
<1>25. CASE request_cancellation_coro
  BY <1>25 DEF request_cancellation_coro
<1>26. CASE wait_on_remote_id
  <2>1. remote_id' \in BOOLEAN /\ canceller' \in {"calling", "done"}
    BY <1>26 DEF wait_on_remote_id
  <2> QED
    BY <1>26, <2>1 DEF wait_on_remote_id
<1>27. CASE cancellation_requested
  BY <1>27 DEF cancellation_requested, Receives, GivesUp
<1>28. CASE ensure_subs
  BY <1>28 DEF ensure_subs
<1> QED
  BY <1>1, <1>2, <1>3, <1>4, <1>5, <1>6, <1>7, <1>8, <1>9, <1>10, <1>11, <1>12, <1>13,
     <1>14, <1>15, <1>16, <1>17, <1>18, <1>19, <1>20, <1>21, <1>22, <1>23, <1>24, <1>25,
     <1>26, <1>27, <1>28 DEF AsyncNext, Handle, Work, Resolve, Cancel

\* Every variable keeps its type.
LEMMA TypeKeeps ==
    ASSUME AsyncInv, AsyncNext
    PROVE  ServerTypeOK'
BY PhaseKeeps, ServerPartKeeps, RpcPartKeeps, ClientPartKeeps
   DEF Lasting, ServerTypeOK, ServerPartOK, RpcPartOK, ClientPartOK

\* What of the tree exists, and what the client has seen of it.
LEMMA BuiltKeeps ==
    ASSUME AsyncInv, AsyncNext
    PROVE  BuiltPhase'
<1> USE DEF AsyncInv, BuiltPhase, LockOK, Building, ServerTypeOK, server_vars, rpc_vars,
     client_vars, Keep_async, Keep_server, ctx_vars
<1>0. "submit" \in calls => worker = "none" /\ subs = {"unknown"}
  BY DEF SubmitOK
<1>1. CASE handle_submit_async
  BY <1>0, <1>1 DEF handle_submit_async, Handles
<1>2. CASE handle_submit_async_error
  BY <1>2 DEF handle_submit_async_error
<1>3. CASE handle_request_cancellation
  BY <1>3 DEF handle_request_cancellation, Handles
<1>4. CASE handle_finish_async
  BY <1>4 DEF handle_finish_async, Handles, remove_tree
<1>5. CASE handle_release_cache_record_lock
  BY <1>5 DEF handle_release_cache_record_lock, Handles
<1>6. CASE worker_starts
  BY <1>6 DEF worker_starts
<1>7. CASE \E x \in Ctxs : make_sub_ctx(x)
  BY <1>7 DEF make_sub_ctx
<1>8. CASE tree_complete
  BY <1>8 DEF tree_complete
<1>9. CASE resolve_step
  BY <1>9 DEF resolve_step
<1>10. CASE set_result
  BY <1>10 DEF set_result
<1>11. CASE set_cache_record_id
  BY <1>11 DEF set_cache_record_id
<1>12. CASE on_value_complete
  BY <1>12 DEF on_value_complete
<1>13. CASE worker_catches
  BY <1>13 DEF worker_catches
<1>14. CASE delegate_step
  BY <1>14 DEF delegate_step
<1>15. CASE submit_async
  BY <1>15 DEF submit_async, Send
<1>16. CASE set_remote_id
  BY <1>16 DEF set_remote_id, Receives
<1>17. CASE fail_remote_id
  BY <1>17 DEF fail_remote_id, Receives, GivesUp
<1>18. CASE get_async_status
  BY <1>18 DEF get_async_status, Polled
<1>19. CASE get_async_response
  BY <1>19 DEF get_async_response
<1>20. CASE client_gives_up
  BY <1>20 DEF client_gives_up, GivesUp
<1>21. CASE finish_remote
  BY <1>21 DEF finish_remote, Send
<1>22. CASE remote_finished
  BY <1>22 DEF remote_finished, Receives, GivesUp
<1>23. CASE release_lock
  BY <1>23 DEF release_lock, Send
<1>24. CASE lock_released
  BY <1>24 DEF lock_released, Receives, GivesUp
<1>25. CASE request_cancellation_coro
  BY <1>25 DEF request_cancellation_coro
<1>26. CASE wait_on_remote_id
  BY <1>26 DEF wait_on_remote_id, Send
<1>27. CASE cancellation_requested
  BY <1>27 DEF cancellation_requested, Receives, GivesUp
<1>28. CASE ensure_subs
  <2>1. Root \in db /\ SubsAvailable(status[Root]) /\ subs' = Subs(Root) \cap built
    BY <1>28 DEF ensure_subs
  <2>2. worker \notin Building
    BY <2>1, RootCreated DEF TreePhase, SubsAvailable, Unresolved
  <2>3. Subs(Root) \cap built = Subs(Root) \/ (Subs(Root) \cap built = {} /\ built = {Root})
    BY <1>0, <2>1, <2>2 DEF Subs
  <2> QED
    BY <1>28, <2>1, <2>2, <2>3 DEF ensure_subs, Keep_server, server_vars
<1> QED
  BY <1>1, <1>2, <1>3, <1>4, <1>5, <1>6, <1>7, <1>8, <1>9, <1>10, <1>11, <1>12, <1>13,
     <1>14, <1>15, <1>16, <1>17, <1>18, <1>19, <1>20, <1>21, <1>22, <1>23, <1>24, <1>25,
     <1>26, <1>27, <1>28 DEF AsyncNext, Handle, Work, Resolve, Cancel

\* The submission happens once.
LEMMA SubmitKeeps ==
    ASSUME AsyncInv, AsyncNext
    PROVE  SubmitOK'
<1> USE DEF AsyncInv, SubmitOK, ServerTypeOK, server_vars, rpc_vars, client_vars,
     Keep_async, Keep_server, ctx_vars
<1>0. client = "idle" => calls = {}
  OBVIOUS
<1>1. CASE handle_submit_async
  BY <1>0, <1>1 DEF handle_submit_async, Handles
<1>2. CASE handle_submit_async_error
  BY <1>2 DEF handle_submit_async_error
<1>3. CASE handle_request_cancellation
  BY <1>0, <1>3 DEF handle_request_cancellation, Handles
<1>4. CASE handle_finish_async
  BY <1>0, <1>4 DEF handle_finish_async, Handles, remove_tree
<1>5. CASE handle_release_cache_record_lock
  BY <1>0, <1>5 DEF handle_release_cache_record_lock, Handles
<1>6. CASE worker_starts
  BY <1>6 DEF worker_starts
<1>7. CASE \E x \in Ctxs : make_sub_ctx(x)
  BY <1>7 DEF make_sub_ctx
<1>8. CASE tree_complete
  BY <1>8 DEF tree_complete
<1>9. CASE resolve_step
  BY <1>9 DEF resolve_step
<1>10. CASE set_result
  BY <1>10 DEF set_result
<1>11. CASE set_cache_record_id
  BY <1>11 DEF set_cache_record_id
<1>12. CASE on_value_complete
  BY <1>12 DEF on_value_complete
<1>13. CASE worker_catches
  BY <1>13 DEF worker_catches
<1>14. CASE delegate_step
  BY <1>14 DEF delegate_step
<1>15. CASE submit_async
  BY <1>15 DEF submit_async, Send
<1>16. CASE set_remote_id
  BY <1>16 DEF set_remote_id, Receives
<1>17. CASE fail_remote_id
  BY <1>17 DEF fail_remote_id, Receives, GivesUp
<1>18. CASE get_async_status
  BY <1>18 DEF get_async_status, Polled
<1>19. CASE get_async_response
  BY <1>19 DEF get_async_response
<1>20. CASE client_gives_up
  BY <1>20 DEF client_gives_up, GivesUp
<1>21. CASE finish_remote
  BY <1>21 DEF finish_remote, Send
<1>22. CASE remote_finished
  BY <1>22 DEF remote_finished, Receives, GivesUp
<1>23. CASE release_lock
  BY <1>23 DEF release_lock, Send
<1>24. CASE lock_released
  BY <1>24 DEF lock_released, Receives, GivesUp
<1>25. CASE request_cancellation_coro
  BY <1>25 DEF request_cancellation_coro
<1>26. CASE wait_on_remote_id
  BY <1>26 DEF wait_on_remote_id, Send
<1>27. CASE cancellation_requested
  BY <1>27 DEF cancellation_requested, Receives, GivesUp
<1>28. CASE ensure_subs
  BY <1>28 DEF ensure_subs
<1> QED
  BY <1>1, <1>2, <1>3, <1>4, <1>5, <1>6, <1>7, <1>8, <1>9, <1>10, <1>11, <1>12, <1>13,
     <1>14, <1>15, <1>16, <1>17, <1>18, <1>19, <1>20, <1>21, <1>22, <1>23, <1>24, <1>25,
     <1>26, <1>27, <1>28 DEF AsyncNext, Handle, Work, Resolve, Cancel

\* The root is known until the client finishes it, and then nothing of the tree is.
LEMMA FinishKeeps ==
    ASSUME AsyncInv, AsyncNext
    PROVE  FinishOK'
<1> USE DEF AsyncInv, FinishOK, SubmitOK, ServerTypeOK, Leaving, Building, server_vars,
     rpc_vars, client_vars, Keep_async, Keep_server, ctx_vars
<1>0. worker \in Building => status[Root] = "CREATED"
  BY RootCreated DEF TreePhase, Unresolved
<1>1. CASE handle_submit_async
  BY <1>1 DEF handle_submit_async, Handles
<1>2. CASE handle_submit_async_error
  BY <1>2 DEF handle_submit_async_error
<1>3. CASE handle_request_cancellation
  BY <1>3 DEF handle_request_cancellation, Handles
<1>4. CASE handle_finish_async
  BY <1>4 DEF handle_finish_async, Handles, remove_tree
<1>5. CASE handle_release_cache_record_lock
  BY <1>5 DEF handle_release_cache_record_lock, Handles
<1>6. CASE worker_starts
  BY <1>6 DEF worker_starts
<1>7. CASE \E x \in Ctxs : make_sub_ctx(x)
  BY <1>7 DEF make_sub_ctx
<1>8. CASE tree_complete
  BY <1>8 DEF tree_complete
<1>9. CASE resolve_step
  BY <1>9 DEF resolve_step
<1>10. CASE set_result
  BY <1>10 DEF set_result
<1>11. CASE set_cache_record_id
  BY <1>11 DEF set_cache_record_id
<1>12. CASE on_value_complete
  BY <1>12 DEF on_value_complete
<1>13. CASE worker_catches
  BY <1>13 DEF worker_catches
<1>14. CASE delegate_step
  BY <1>14 DEF delegate_step
<1>15. CASE submit_async
  BY <1>15 DEF submit_async, Send
<1>16. CASE set_remote_id
  BY <1>16 DEF set_remote_id, Receives
<1>17. CASE fail_remote_id
  BY <1>17 DEF fail_remote_id, Receives, GivesUp
<1>18. CASE get_async_status
  BY <1>0, <1>18 DEF get_async_status, Polled
<1>19. CASE get_async_response
  BY <1>19 DEF get_async_response
<1>20. CASE client_gives_up
  BY <1>20 DEF client_gives_up, GivesUp
<1>21. CASE finish_remote
  BY <1>21 DEF finish_remote, Send
<1>22. CASE remote_finished
  BY <1>22 DEF remote_finished, Receives, GivesUp
<1>23. CASE release_lock
  BY <1>23 DEF release_lock, Send
<1>24. CASE lock_released
  BY <1>24 DEF lock_released, Receives, GivesUp
<1>25. CASE request_cancellation_coro
  BY <1>25 DEF request_cancellation_coro
<1>26. CASE wait_on_remote_id
  BY <1>26 DEF wait_on_remote_id, Send
<1>27. CASE cancellation_requested
  BY <1>27 DEF cancellation_requested, Receives, GivesUp
<1>28. CASE ensure_subs
  BY <1>28 DEF ensure_subs
<1> QED
  BY <1>1, <1>2, <1>3, <1>4, <1>5, <1>6, <1>7, <1>8, <1>9, <1>10, <1>11, <1>12, <1>13,
     <1>14, <1>15, <1>16, <1>17, <1>18, <1>19, <1>20, <1>21, <1>22, <1>23, <1>24, <1>25,
     <1>26, <1>27, <1>28 DEF AsyncNext, Handle, Work, Resolve, Cancel

\* The record lock goes from the server to the client and back.
LEMMA LockKeeps ==
    ASSUME AsyncInv, AsyncNext
    PROVE  LockOK'
<1> USE DEF AsyncInv, LockOK, ServerTypeOK, Leaving, server_vars, rpc_vars, client_vars,
     Keep_async, Keep_server, ctx_vars
<1>1. CASE handle_submit_async
  BY <1>1 DEF handle_submit_async, Handles
<1>2. CASE handle_submit_async_error
  BY <1>2 DEF handle_submit_async_error
<1>3. CASE handle_request_cancellation
  BY <1>3 DEF handle_request_cancellation, Handles
<1>4. CASE handle_finish_async
  BY <1>4 DEF handle_finish_async, Handles, remove_tree
<1>5. CASE handle_release_cache_record_lock
  BY <1>5 DEF handle_release_cache_record_lock, Handles
<1>6. CASE worker_starts
  BY <1>6 DEF worker_starts
<1>7. CASE \E x \in Ctxs : make_sub_ctx(x)
  BY <1>7 DEF make_sub_ctx
<1>8. CASE tree_complete
  BY <1>8 DEF tree_complete
<1>9. CASE resolve_step
  BY <1>9 DEF resolve_step
<1>10. CASE set_result
  BY <1>10 DEF set_result
<1>11. CASE set_cache_record_id
  BY <1>11 DEF set_cache_record_id
<1>12. CASE on_value_complete
  BY <1>12 DEF on_value_complete
<1>13. CASE worker_catches
  BY <1>13 DEF worker_catches
<1>14. CASE delegate_step
  BY <1>14 DEF delegate_step
<1>15. CASE submit_async
  BY <1>15 DEF submit_async, Send
<1>16. CASE set_remote_id
  BY <1>16 DEF set_remote_id, Receives
<1>17. CASE fail_remote_id
  BY <1>17 DEF fail_remote_id, Receives, GivesUp
<1>18. CASE get_async_status
  BY <1>18 DEF get_async_status, Polled
<1>19. CASE get_async_response
  BY <1>19 DEF get_async_response
<1>20. CASE client_gives_up
  BY <1>20 DEF client_gives_up, GivesUp
<1>21. CASE finish_remote
  BY <1>21 DEF finish_remote, Send
<1>22. CASE remote_finished
  BY <1>22 DEF remote_finished, Receives, GivesUp
<1>23. CASE release_lock
  BY <1>23 DEF release_lock, Send
<1>24. CASE lock_released
  BY <1>24 DEF lock_released, Receives, GivesUp
<1>25. CASE request_cancellation_coro
  BY <1>25 DEF request_cancellation_coro
<1>26. CASE wait_on_remote_id
  BY <1>26 DEF wait_on_remote_id, Send
<1>27. CASE cancellation_requested
  BY <1>27 DEF cancellation_requested, Receives, GivesUp
<1>28. CASE ensure_subs
  BY <1>28 DEF ensure_subs
<1> QED
  BY <1>1, <1>2, <1>3, <1>4, <1>5, <1>6, <1>7, <1>8, <1>9, <1>10, <1>11, <1>12, <1>13,
     <1>14, <1>15, <1>16, <1>17, <1>18, <1>19, <1>20, <1>21, <1>22, <1>23, <1>24, <1>25,
     <1>26, <1>27, <1>28 DEF AsyncNext, Handle, Work, Resolve, Cancel

\* What the client was told stays true.
LEMMA ToldKeeps ==
    ASSUME AsyncInv, AsyncNext
    PROVE  ToldOK'
<1> USE DEF AsyncInv, ToldOK, SubmitOK, FinishOK, TreePhase, Leaving, Lasting,
     ServerTypeOK, server_vars, rpc_vars, client_vars, Keep_async, Keep_server, ctx_vars
<1>0. Lasting
  BY PhaseKeeps
<1>1. CASE handle_submit_async
  BY <1>0, <1>1 DEF handle_submit_async, Handles
<1>2. CASE handle_submit_async_error
  BY <1>0, <1>2 DEF handle_submit_async_error
<1>3. CASE handle_request_cancellation
  BY <1>0, <1>3 DEF handle_request_cancellation, Handles
<1>4. CASE handle_finish_async
  BY <1>0, <1>4 DEF handle_finish_async, Handles, remove_tree
<1>5. CASE handle_release_cache_record_lock
  BY <1>0, <1>5 DEF handle_release_cache_record_lock, Handles
<1>6. CASE worker_starts
  BY <1>0, <1>6 DEF worker_starts
<1>7. CASE \E x \in Ctxs : make_sub_ctx(x)
  BY <1>0, <1>7 DEF make_sub_ctx
<1>8. CASE tree_complete
  BY <1>0, <1>8 DEF tree_complete
<1>9. CASE resolve_step
  BY <1>0, <1>9 DEF resolve_step
<1>10. CASE set_result
  BY <1>0, <1>10 DEF set_result
<1>11. CASE set_cache_record_id
  BY <1>0, <1>11 DEF set_cache_record_id
<1>12. CASE on_value_complete
  BY <1>0, <1>12 DEF on_value_complete
<1>13. CASE worker_catches
  BY <1>0, <1>13 DEF worker_catches
<1>14. CASE delegate_step
  BY <1>0, <1>14 DEF delegate_step
<1>15. CASE submit_async
  BY <1>0, <1>15 DEF submit_async, Send
<1>16. CASE set_remote_id
  BY <1>0, <1>16 DEF set_remote_id, Receives
<1>17. CASE fail_remote_id
  BY <1>0, <1>17 DEF fail_remote_id, Receives, GivesUp
<1>18. CASE get_async_status
  BY <1>0, <1>18 DEF get_async_status, Polled
<1>19. CASE get_async_response
  BY <1>0, <1>19 DEF get_async_response
<1>20. CASE client_gives_up
  BY <1>0, <1>20 DEF client_gives_up, GivesUp
<1>21. CASE finish_remote
  BY <1>0, <1>21 DEF finish_remote, Send
<1>22. CASE remote_finished
  BY <1>0, <1>22 DEF remote_finished, Receives, GivesUp
<1>23. CASE release_lock
  BY <1>0, <1>23 DEF release_lock, Send
<1>24. CASE lock_released
  BY <1>0, <1>24 DEF lock_released, Receives, GivesUp
<1>25. CASE request_cancellation_coro
  BY <1>0, <1>25 DEF request_cancellation_coro
<1>26. CASE wait_on_remote_id
  BY <1>0, <1>26 DEF wait_on_remote_id, Send
<1>27. CASE cancellation_requested
  BY <1>0, <1>27 DEF cancellation_requested, Receives, GivesUp
<1>28. CASE ensure_subs
  BY <1>0, <1>28 DEF ensure_subs
<1> QED
  BY <1>1, <1>2, <1>3, <1>4, <1>5, <1>6, <1>7, <1>8, <1>9, <1>10, <1>11, <1>12, <1>13,
     <1>14, <1>15, <1>16, <1>17, <1>18, <1>19, <1>20, <1>21, <1>22, <1>23, <1>24, <1>25,
     <1>26, <1>27, <1>28 DEF AsyncNext, Handle, Work, Resolve, Cancel

\* A step that changes nothing.
LEMMA AsyncStutterKeeps ==
    ASSUME AsyncInv, UNCHANGED async_vars
    PROVE  AsyncInv'
<1>1. /\ UNCHANGED <<status, cpc, exc, cancel_requested, not_running, on_parent, delegate,
                     cancelling>>
      /\ UNCHANGED <<worker, built, db, result, record_id, flushed, record_lock>>
      /\ UNCHANGED <<calls, answers, timeouts>>
      /\ UNCHANGED <<client, outcome, response, promise, remote_id, canceller, subs,
                     client_lock>>
  BY DEF async_vars, ctx_vars, server_vars, rpc_vars, client_vars
<1>2. TreeInv => TreeInv'
  BY <1>1, StutterKeeps DEF ctx_vars
<1>3. ServerTypeOK'
  BY <1>1 DEF AsyncInv, ServerTypeOK, CtxTypeOK
<1>4. TreePhase'
  BY <1>1, <1>2 DEF AsyncInv, TreePhase, ErrorSeen
<1>5. BuiltPhase' /\ SubmitOK' /\ FinishOK' /\ LockOK'
  BY <1>1 DEF AsyncInv, BuiltPhase, SubmitOK, FinishOK, LockOK
<1>6. ToldOK'
  BY <1>1 DEF AsyncInv, ToldOK, ErrorSeen
<1> QED
  BY <1>3, <1>4, <1>5, <1>6 DEF AsyncInv

\* The invariant holds in every state of every behaviour.
LEMMA AsyncInvariant == AsyncSpec => []AsyncInv
<1>1. AsyncInit => AsyncInv
  <2> SUFFICES ASSUME AsyncInit
               PROVE  AsyncInv
    OBVIOUS
  <2>1. TreeInv
    BY InitEstablishes DEF AsyncInit
  <2>2. Root \in Ctxs /\ Root \in ReqCtxs
    BY TreeAssumption
  <2>3. ServerTypeOK
    <3>1. ServerPartOK
      BY DEF AsyncInit, ServerPartOK
    <3>2. RpcPartOK
      BY ServerAssumption DEF AsyncInit, RpcPartOK
    <3>3. ClientPartOK
      BY DEF AsyncInit, ClientPartOK
    <3> QED
      BY <2>1, <3>1, <3>2, <3>3 DEF ServerTypeOK, ServerPartOK, RpcPartOK, ClientPartOK, TreeInv
  <2>4. TreePhase
    BY <2>1, <2>2 DEF AsyncInit, CtxInit, TreePhase
  <2>5. BuiltPhase /\ SubmitOK /\ LockOK /\ ToldOK
    BY DEF AsyncInit, BuiltPhase, SubmitOK, LockOK, ToldOK, Building
  <2>6. FinishOK
    BY DEF AsyncInit, FinishOK, Leaving
  <2> QED
    BY <2>3, <2>4, <2>5, <2>6 DEF AsyncInv
<1>2. AsyncInv /\ [AsyncNext]_async_vars => AsyncInv'
  BY PhaseKeeps, TypeKeeps, BuiltKeeps, SubmitKeeps, FinishKeeps, LockKeeps, ToldKeeps,
     AsyncStutterKeeps DEF AsyncInv
<1> QED
  BY <1>1, <1>2, PTL DEF AsyncSpec

-----------------------------------------------------------------------------
(* The theorems about AsyncServer.                                         *)

\* Whatever a client of resolve_async() on a server learns is true: the id it was given
\* stays known until it calls finish_async, a cancelled or failed outcome has a reason on
\* the server, and get_num_subs() never shows part of a tree that is being built.
THEOREM AnswersAreTruthful == AsyncSpec => []AnswersTruthful
<1>1. AsyncInv => AnswersTruthful
  BY DEF AsyncInv, ToldOK, BuiltPhase, AnswersTruthful, IdStaysKnown, OutcomeTruthful,
     SubsSeenComplete, ErrorSeen
<1> QED
  BY <1>1, AsyncInvariant, PTL

\* The server holds the record lock as long as the client's remote_locked_cache_record
\* lives, and once a finish_async was answered and the worker is done, the async_db holds
\* nothing of the tree, unless a call timed out.
THEOREM HeldIsExact == AsyncSpec => []HeldExactly
<1>1. AsyncInv => HeldExactly
  <2> SUFFICES ASSUME AsyncInv
               PROVE  HeldExactly
    OBVIOUS
  <2>1. LockedForClient
    BY DEF AsyncInv, LockOK, LockedForClient
  <2>2. NothingLeftBehind
    BY DEF AsyncInv, FinishOK, NothingLeftBehind
  <2> QED
    BY <2>1, <2>2 DEF AsyncInv, HeldExactly
<1> QED
  BY <1>1, AsyncInvariant, PTL

-----------------------------------------------------------------------------
(* No thread of the client waits in vain.                                  *)

\* Whoever waits for an answer has a call on its way, and whoever waits for the remote
\* id gets it or an exception when the submission ends.
CallsOnTheirWay ==
    /\ client = "submitting" =>
          "submit" \in calls \/ "submit" \in answers \/ "submit_error" \in answers
    /\ client = "finishing" => "finish" \in calls \cup answers
    /\ canceller = "calling" => "cancel" \in calls \cup answers
    /\ client \notin {"idle", "submitting"} => promise # "unset"
    /\ canceller # "idle" => client # "idle"

\* The status of a root that is used as a mailbox, unless a canceller interferes: it
\* shows that the result is awaited once there is one, and no result if there is none.
RootFits ==
    UsingResult /\ ~Exempt(Root) =>
        /\ cpc[Root] \in {"closing", "ok"} => status[Root] = "AWAITING_RESULT"
        /\ cpc[Root] = "threw" => status[Root] # "FINISHED"

\* The worker leaves a final status behind, and a result if there is one.
OutcomePhase ==
    /\ worker \in Unresolved => RootFits
    /\ worker \notin Unresolved => status[Root] \in Final
    /\ worker \notin Unresolved /\ cpc[Root] = "ok" => result = "value" \/ Exempt(Root)

ServedInv == AsyncInv /\ CallsOnTheirWay /\ OutcomePhase

\* Calls and answers are not lost, only given up on.
LEMMA CallsKeep ==
    ASSUME AsyncInv, CallsOnTheirWay, AsyncNext
    PROVE  CallsOnTheirWay'
<1> USE DEF CallsOnTheirWay, AsyncInv, SubmitOK, FinishOK, Leaving, server_vars, rpc_vars,
     client_vars, Keep_async, Keep_server
<1>1. CASE handle_submit_async
  BY <1>1 DEF handle_submit_async, Handles
<1>2. CASE handle_submit_async_error
  BY <1>2 DEF handle_submit_async_error
<1>3. CASE handle_request_cancellation
  BY <1>3 DEF handle_request_cancellation, Handles
<1>4. CASE handle_finish_async
  BY <1>4 DEF handle_finish_async, Handles
<1>5. CASE handle_release_cache_record_lock
  BY <1>5 DEF handle_release_cache_record_lock, Handles
<1>6. CASE worker_starts
  BY <1>6 DEF worker_starts
<1>7. CASE \E x \in Ctxs : make_sub_ctx(x)
  BY <1>7 DEF make_sub_ctx
<1>8. CASE tree_complete
  BY <1>8 DEF tree_complete
<1>9. CASE resolve_step
  BY <1>9 DEF resolve_step
<1>10. CASE set_result
  BY <1>10 DEF set_result
<1>11. CASE set_cache_record_id
  BY <1>11 DEF set_cache_record_id
<1>12. CASE on_value_complete
  BY <1>12 DEF on_value_complete
<1>13. CASE worker_catches
  BY <1>13 DEF worker_catches
<1>14. CASE delegate_step
  BY <1>14 DEF delegate_step
<1>15. CASE submit_async
  BY <1>15 DEF submit_async, Send
<1>16. CASE set_remote_id
  BY <1>16 DEF set_remote_id, Receives
<1>17. CASE fail_remote_id
  BY <1>17 DEF fail_remote_id, Receives, GivesUp
<1>18. CASE get_async_status
  BY <1>18 DEF get_async_status, Polled
<1>19. CASE get_async_response
  BY <1>19 DEF get_async_response
<1>20. CASE client_gives_up
  BY <1>20 DEF client_gives_up, GivesUp
<1>21. CASE finish_remote
  BY <1>21 DEF finish_remote, Send
<1>22. CASE remote_finished
  BY <1>22 DEF remote_finished, Receives, GivesUp
<1>23. CASE release_lock
  BY <1>23 DEF release_lock, Send
<1>24. CASE lock_released
  BY <1>24 DEF lock_released, Receives, GivesUp
<1>25. CASE request_cancellation_coro
  BY <1>25 DEF request_cancellation_coro
<1>26. CASE wait_on_remote_id
  BY <1>26 DEF wait_on_remote_id, Send
<1>27. CASE cancellation_requested
  BY <1>27 DEF cancellation_requested, Receives, GivesUp
<1>28. CASE ensure_subs
  BY <1>28 DEF ensure_subs
<1> QED
  BY <1>1, <1>2, <1>3, <1>4, <1>5, <1>6, <1>7, <1>8, <1>9, <1>10, <1>11, <1>12, <1>13,
     <1>14, <1>15, <1>16, <1>17, <1>18, <1>19, <1>20, <1>21, <1>22, <1>23, <1>24, <1>25,
     <1>26, <1>27, <1>28 DEF AsyncNext, Handle, Work, Resolve, Cancel

\* A step of a coroutine keeps the status of the root in line with its place.
LEMMA RootFitsStep ==
    ASSUME TreeInv, RootFits, NEW x \in ReqCtxs, CoStep(x)
    PROVE  RootFits'
<1> SUFFICES ASSUME UsingResult, ~Exempt(Root)', CoStep(x)
             PROVE  /\ cpc'[Root] \in {"closing", "ok"} => status'[Root] = "AWAITING_RESULT"
                    /\ cpc'[Root] = "threw" => status'[Root] # "FINISHED"
  BY DEF RootFits
<1>0. /\ CtxTypeOK /\ x \in Ctxs /\ Root \in Ctxs /\ Root \in ReqCtxs
      /\ cpc \in [ReqCtxs -> Places] /\ FitsAt(Root)
  BY TreeAssumption DEF TreeInv, CtxTypeOK, Places, StatusFits
<1>1. UNCHANGED cancel_requested /\ ~Exempt(Root)
  <2>1. UNCHANGED cancel_requested
    BY OwnStep DEF OwnFrame
  <2> QED
    BY <2>1 DEF Exempt
<1>2. PICK p : Transition(x, p) /\ StatusChange(x, p)
  BY StepShape
<1>3. CASE x # Root
  <2>1. cpc'[Root] = cpc[Root]
    BY <1>0, <1>2, <1>3 DEF Transition
  <2>2. status'[Root] = status[Root]
    BY <1>0, <1>2, <1>3, ChangeFacts, TreeFacts
  <2> QED
    BY <1>1, <2>1, <2>2 DEF RootFits
<1>4. CASE x = Root
  <2> USE <1>0, <1>1, <1>4
  <2>1. CASE run_subs(x)
    BY <2>1 DEF run_subs, MovesTo
  <2>2. CASE from_cache(x)
    <3>1. status'[Root] = "CREATED" /\ cpc'[Root] \in {"returning", "threw"}
      BY <2>2, RootCreated DEF from_cache, MovesTo, Throws
    <3> QED
      BY <3>1
  <2>3. CASE run_self(x)
    BY <2>3 DEF run_self, MovesTo
  <2>4. CASE run_contained(x)
    BY <2>4 DEF run_contained, MovesTo, Throws, Exempt
  <2>5. CASE subs_threw(x)
    <3>1. status[Root] = "SUBS_RUNNING" /\ cpc'[Root] = "threw"
      BY <2>5 DEF subs_threw, FitsAt, MovesTo, Throws
    <3>2. PICK e : \/ status' = status
                   \/ status' = Stored(Root, StatusOf(e))
      BY <2>5 DEF subs_threw
    <3>3. StatusOf(e) \in {"FAILED", "CANCELLED"}
      BY DEF StatusOf
    <3>4. status'[Root] # "FINISHED"
      BY <3>1, <3>2, <3>3, StoredFacts DEF Statuses
    <3> QED
      BY <3>1, <3>4
  <2>6. CASE function_throws(x)
    <3>1. status[Root] = "SELF_RUNNING" /\ cpc'[Root] = "threw"
      BY <2>6 DEF function_throws, FitsAt, MovesTo, Throws
    <3>2. PICK e : \/ status' = status
                   \/ status' = Stored(Root, StatusOf(e))
      BY <2>6 DEF function_throws
    <3>3. StatusOf(e) \in {"FAILED", "CANCELLED"}
      BY DEF StatusOf
    <3>4. status'[Root] # "FINISHED"
      BY <3>1, <3>2, <3>3, StoredFacts DEF Statuses
    <3> QED
      BY <3>1, <3>4
  <2>7. CASE function_returns(x)
    BY <2>7 DEF function_returns, MovesTo, NextOnRoot
  <2>8. CASE close_contained(x)
    BY <2>8 DEF close_contained, MovesTo, RootFits
  <2>9. CASE cached_returns(x)
    BY <2>9 DEF cached_returns, MovesTo, NextOnRoot
  <2>10. CASE await_result
    <3>1. status'[Root] = "AWAITING_RESULT"
      BY <2>10, StoredFacts DEF await_result, Statuses
    <3>2. cpc'[Root] # "threw"
      BY <2>10 DEF await_result, MovesTo, AfterStatus
    <3> QED
      BY <3>1, <3>2
  <2> QED
    BY <2>1, <2>2, <2>3, <2>4, <2>5, <2>6, <2>7, <2>8, <2>9, <2>10 DEF CoStep, Step
<1> QED
  BY <1>3, <1>4
\* Steps of the handlers and of the client leave the tree and its outcome alone.
LEMMA OthersKeepOutcome ==
    ASSUME AsyncInv, AsyncNext, ~handle_request_cancellation, ~Work, ~delegate_step
    PROVE  /\ UNCHANGED <<status, cpc, exc, cancel_requested, result>>
           /\ worker' = worker \/ (worker = "none" /\ worker' = "queued")
<1>1. CASE handle_submit_async
  BY <1>1 DEF handle_submit_async, AsyncInv, SubmitOK, Handles, ctx_vars
<1>2. CASE ~handle_submit_async
  BY <1>2 DEF AsyncNext, Handle, handle_submit_async_error,
     handle_finish_async, handle_release_cache_record_lock, submit_async, Resolve,
     set_remote_id, fail_remote_id, get_async_status, get_async_response, finish_remote,
     remote_finished, release_lock, lock_released, client_gives_up,
     request_cancellation_coro, Cancel, wait_on_remote_id, cancellation_requested,
     ensure_subs, Keep_server, server_vars, ctx_vars
<1> QED
  BY <1>1, <1>2

\* The worker stores the outcome that the root has come to.
LEMMA WorkKeepsOutcome ==
    ASSUME AsyncInv, OutcomePhase, Work
    PROVE  OutcomePhase' /\ StatusKept
<1>0. /\ Root \in Ctxs /\ Root \in ReqCtxs /\ CtxTypeOK /\ UsingResult = TRUE
      /\ worker \in Unresolved => TreeInv
      /\ worker \in Building => status[Root] = "CREATED" /\ cpc[Root] = "idle"
  BY TreeAssumption, ServerAssumption, RootCreated DEF AsyncInv, ServerTypeOK, TreePhase, Unresolved
<1>1. ASSUME UNCHANGED ctx_vars, UNCHANGED result,
             worker' \in Unresolved <=> worker \in Unresolved
      PROVE  OutcomePhase' /\ StatusKept
  BY <1>1 DEF OutcomePhase, RootFits, Exempt, StatusKept, ctx_vars
<1>2. ASSUME worker' = "complete", NEW s \in {"FAILED", "CANCELLED"}, status' = Stored(Root, s),
             UNCHANGED <<cpc, cancel_requested>>, cpc[Root] = "ok" => Exempt(Root),
             status[Root] \in Final => status[Root] = s \/ Exempt(Root)
      PROVE  OutcomePhase' /\ StatusKept
  <2>1. status' = [status EXCEPT ![Root] = s]
    BY <1>0, <1>2, StoredAlone DEF Statuses, AlmostFinished
  <2>2. status'[Root] = s /\ \A x \in Ctxs : x # Root => status'[x] = status[x]
    BY <1>0, <2>1 DEF CtxTypeOK
  <2> QED
    BY <1>2, <2>2 DEF OutcomePhase, StatusKept, Exempt, Final, Unresolved, Building
<1>3. CASE worker_starts
  <2>1. CASE worker' = "building" /\ UNCHANGED ctx_vars
    BY <1>1, <1>3, <2>1 DEF worker_starts, Unresolved, Building
  <2>2. CASE worker' = "complete" /\ status' = Stored(Root, "FAILED")
    <3>1. status[Root] = "CREATED" /\ cpc[Root] = "idle"
      BY <1>0, <1>3 DEF worker_starts, Building
    <3> QED
      BY <1>2, <1>3, <2>2, <3>1 DEF worker_starts, ctx_vars, Final
  <2> QED
    BY <1>3, <2>1, <2>2 DEF worker_starts
<1>4. CASE \E x \in Ctxs : make_sub_ctx(x)
  BY <1>1, <1>4 DEF make_sub_ctx
<1>5. CASE tree_complete
  BY <1>1, <1>5 DEF tree_complete, Unresolved, Building
<1>6. CASE resolve_step
  <2>1. worker = "resolving" /\ worker' = worker
    BY <1>6 DEF resolve_step, server_vars
  <2>2. PICK x \in ReqCtxs : CoStep(x)
    BY <1>0, <1>6 DEF resolve_step, CoStep
  <2>3. TreeInv /\ RootFits /\ worker \in Unresolved
    BY <1>0, <2>1 DEF OutcomePhase, Unresolved
  <2>4. RootFits' /\ StatusKept
    BY <2>2, <2>3, RootFitsStep, CoStepKeepsFinal
  <2> QED
    BY <2>1, <2>3, <2>4 DEF OutcomePhase
<1>7. CASE set_result
  <2>1. /\ worker = "resolving" /\ cpc[Root] = "ok" /\ UNCHANGED <<cpc, cancel_requested>>
        /\ RootFits
    BY <1>7 DEF set_result, OutcomePhase, Unresolved
  <2>2. CASE status[Root] = "AWAITING_RESULT"
    <3>1. result' = "value" /\ status' = Stored(Root, "FINISHED") /\ worker' = "setting_id"
      BY <1>7, <2>2 DEF set_result
    <3>2. status'[Root] = "FINISHED"
      BY <1>0, <3>1, StoredFacts DEF Statuses
    <3>3. ASSUME NEW y \in Ctxs, y # Root
          PROVE  status'[y] = status[y]
      BY <2>2, <3>1, <3>3 DEF Stored, AlmostFinished
    <3>4. StatusKept
      BY <2>2, <3>3 DEF StatusKept, Final
    <3> QED
      BY <3>1, <3>2, <3>4 DEF OutcomePhase, Final, Unresolved, Building
  <2>3. CASE status[Root] # "AWAITING_RESULT"
    <3>1. Exempt(Root)
      BY <1>0, <2>1, <2>3 DEF RootFits
    <3> QED
      BY <1>2, <1>7, <2>1, <2>3, <3>1 DEF set_result
  <2> QED
    BY <2>2, <2>3
<1>8. CASE set_cache_record_id
  BY <1>1, <1>8 DEF set_cache_record_id, Unresolved, Building
<1>9. CASE on_value_complete
  BY <1>1, <1>9 DEF on_value_complete, Unresolved, Building
<1>10. CASE worker_catches
  <2>1. TreeInv /\ cpc[Root] = "threw" /\ RootFits
    BY <1>0, <1>10 DEF worker_catches, OutcomePhase, Unresolved
  <2>2. PICK s \in {"FAILED", "CANCELLED"} : s = StatusOf(exc[Root])
    BY DEF StatusOf
  <2>3. exc[Root] \in {"error", "cancelled"} /\ ReasonAt(Root)
    BY <1>0, <2>1 DEF TreeInv, ExceptionsOK, ExceptionAt, CtxTypeOK, OutcomeHasReason
  <2>4. status[Root] \in Final => status[Root] = s \/ Exempt(Root)
    BY <1>0, <2>1, <2>2, <2>3 DEF ReasonAt, StatusOf, Final, Exempt, RootFits
  <2> QED
    BY <1>2, <1>10, <2>1, <2>2, <2>4 DEF worker_catches
<1> QED
  BY <1>3, <1>4, <1>5, <1>6, <1>7, <1>8, <1>9, <1>10 DEF Work

\* Any step keeps the outcome, and the final statuses of all contexts.
LEMMA OutcomeKeeps ==
    ASSUME AsyncInv, OutcomePhase, AsyncNext
    PROVE  OutcomePhase' /\ StatusKept
<1>1. CASE Work
  BY <1>1, WorkKeepsOutcome
<1>2. CASE delegate_step
  <2>1. PICK x \in Contained : cancel_delegate(x)
    BY <1>2 DEF delegate_step
  <2>2. /\ x \in Ctxs /\ Root \in Ctxs /\ CtxTypeOK /\ cancel_requested
    BY <2>1, TreeAssumption DEF AsyncInv, TreePhase, cancel_delegate, ServerTypeOK
  <2>3. /\ status' = [status EXCEPT ![x] = "CANCELLED"]
        /\ UNCHANGED <<cpc, cancel_requested, worker, result>>
    BY <1>2, <2>1, <2>2, StoredAlone
       DEF cancel_delegate, Statuses, AlmostFinished, delegate_step, server_vars
  <2>4. IF x = Root THEN status'[Root] = "CANCELLED" /\ Exempt(Root)' ELSE status'[Root] = status[Root]
    BY <2>2, <2>3 DEF CtxTypeOK, Exempt
  <2>5. OutcomePhase'
    BY <2>3, <2>4 DEF OutcomePhase, RootFits, Exempt, Final
  <2> QED
    BY <2>1, <2>2, <2>5, DelegateKeepsFinal
<1>3. CASE handle_request_cancellation
  <2>1. UNCHANGED <<status, cpc, worker, result>> /\ (cancel_requested => cancel_requested')
    BY <1>3 DEF handle_request_cancellation, request_cancellation, server_vars, ctx_vars
  <2> QED
    BY <2>1 DEF OutcomePhase, RootFits, Exempt, StatusKept
<1>4. CASE ~Work /\ ~delegate_step /\ ~handle_request_cancellation
  <2>1. /\ UNCHANGED <<status, cpc, exc, cancel_requested, result>>
        /\ worker' = worker \/ (worker = "none" /\ worker' = "queued")
    BY <1>4, OthersKeepOutcome
  <2> QED
    BY <2>1 DEF OutcomePhase, RootFits, Exempt, StatusKept, Unresolved, Building
<1> QED
  BY <1>1, <1>2, <1>3, <1>4

\* The invariant holds in every state of every behaviour.
LEMMA ServedInvariant == AsyncSpec => []ServedInv
<1>1. AsyncInit => CallsOnTheirWay /\ OutcomePhase
  BY TreeAssumption DEF AsyncInit, CtxInit, CallsOnTheirWay, OutcomePhase, RootFits, Unresolved, Building
<1>2. ServedInv /\ AsyncInv' /\ [AsyncNext]_async_vars => CallsOnTheirWay' /\ OutcomePhase'
  <2>1. ASSUME ServedInv, UNCHANGED async_vars
        PROVE  CallsOnTheirWay' /\ OutcomePhase'
    BY <2>1 DEF ServedInv, CallsOnTheirWay, OutcomePhase, RootFits, Exempt, async_vars,
       ctx_vars, server_vars, rpc_vars, client_vars
  <2> QED
    BY <2>1, CallsKeep, OutcomeKeeps DEF ServedInv
<1> QED
  BY <1>1, <1>2, AsyncInvariant, PTL DEF AsyncSpec, ServedInv
\* The guards of Handle, Work, Resolve and Cancel: a handler thread, the worker, the
\* client's resolving thread, its cancelling thread can take a step.  A poll that would
\* find no final status does not count, nor does giving up on a call.
HandlerReady == calls # {}
WorkerReady ==
    \/ worker \in {"queued", "setting_id", "flushing"}
    \/ worker = "building" /\ (built = Ctxs \/ \E x \in Ctxs \ built : ParentOf[x] \in built)
    \/ worker = "resolving" /\ (Ended(Root) \/ \E x \in ReqCtxs : TreeReady(x))
ClientReady ==
    \/ client = "submitting" /\ answers \cap {"submit", "submit_error"} # {}
    \/ client = "polling" /\ status[Root] \in Final
    \/ client = "fetching"
    \/ client = "returned" /\ canceller \in {"idle", "done"}
    \/ client = "finishing" /\ "finish" \in answers
    \/ client = "releasing" /\ (client_lock \/ "release" \notin calls)
CancellerReady ==
    \/ canceller = "waiting" /\ promise # "unset"
    \/ canceller = "calling" /\ "cancel" \in answers

\* Whatever a thread of the client waits for, somebody is able to bring about.
NobodyWaitsInVain ==
    /\ client \notin {"idle", "gone", "terminated"} =>
          HandlerReady \/ WorkerReady \/ ClientReady \/ CancellerReady
    /\ canceller \in {"waiting", "calling"} =>
          HandlerReady \/ CancellerReady \/ (client = "submitting" /\ ClientReady)

\* As long as contexts are missing from a tree, one of them can be added.
LEMMA TreeCanGrow ==
    ASSUME NEW B \in SUBSET Ctxs, Root \in B, B # Ctxs
    PROVE  \E x \in Ctxs \ B : ParentOf[x] \in B
<1> SUFFICES ASSUME \A x \in Ctxs \ B : ParentOf[x] \notin B
             PROVE  FALSE
  OBVIOUS
<1>1. \A x \in Ctxs \ B : /\ x \in Subs(ParentOf[x]) /\ ParentOf[x] \in Ctxs \ B
  BY TreeAssumption DEF Subs
<1>2. PICK S : S = {Cardinality(Ctxs) - Cardinality(Below[x]) : x \in Ctxs \ B}
  OBVIOUS
<1>3. \A x \in Ctxs \ B :
         /\ Cardinality(Ctxs) \in Nat
         /\ Cardinality(Below[x]) \in Nat /\ Cardinality(Below[ParentOf[x]]) \in Nat
         /\ Cardinality(Below[x]) < Cardinality(Below[ParentOf[x]])
         /\ Cardinality(Below[ParentOf[x]]) <= Cardinality(Ctxs)
  BY <1>1, BelowShrinks
<1>4. S \in SUBSET Nat
  <2>1. ASSUME NEW x \in Ctxs \ B
        PROVE  Cardinality(Ctxs) - Cardinality(Below[x]) \in Nat
    BY <1>3
  <2> QED
    BY <1>2, <2>1
<1>5. S # {}
  BY <1>2
<1>6. PICK n \in S : \A m \in S : n <= m
  BY <1>4, <1>5, LeastNumber
<1>7. PICK x \in Ctxs \ B : n = Cardinality(Ctxs) - Cardinality(Below[x])
  BY <1>2, <1>6
<1>8. PICK y : y = ParentOf[x]
  OBVIOUS
<1>9. y \in Ctxs \ B /\ Cardinality(Ctxs) - Cardinality(Below[y]) \in S
  BY <1>1, <1>2, <1>7, <1>8
<1>10. n <= Cardinality(Ctxs) - Cardinality(Below[y])
  BY <1>6, <1>9
<1> QED
  BY <1>3, <1>7, <1>8, <1>10

\* A worker that is not done can take a step.
LEMMA WorkerGoesOn ==
    ASSUME ServedInv, worker \notin {"none", "complete"}
    PROVE  WorkerReady
<1>0. /\ Root \in ReqCtxs /\ worker \in {"queued", "building", "resolving", "setting_id", "flushing"}
      /\ built \in SUBSET Ctxs
  BY TreeAssumption DEF ServedInv, AsyncInv, ServerTypeOK
<1>1. CASE worker = "building"
  BY <1>0, <1>1, TreeCanGrow DEF WorkerReady, ServedInv, AsyncInv, BuiltPhase
<1>2. CASE worker = "resolving"
  <2>1. TreeGoesOn
    BY <1>2, TreeCanGoOn DEF ServedInv, AsyncInv, TreePhase, TreeInv, Unresolved
  <2>2. cpc[Root] = "idle" => TreeReady(Root)
    BY DEF TreeReady, MayBegin
  <2> QED
    BY <1>0, <1>2, <2>1, <2>2 DEF TreeGoesOn, WorkerReady
<1> QED
  BY <1>0, <1>1, <1>2 DEF WorkerReady

\* A client never waits for something that nobody is going to do: its calls are answered
\* or still on their way, a poll finds a final status or a worker that can go on, and a
\* thread that waits for the remote id is served when the submission ends, whatever
\* fails, times out or is cancelled.
THEOREM ClientsNeverStuck == AsyncSpec => []NobodyWaitsInVain
<1>1. ServedInv => NobodyWaitsInVain
  <2> SUFFICES ASSUME ServedInv
               PROVE  NobodyWaitsInVain
    OBVIOUS
  <2>0. /\ AsyncInv /\ CallsOnTheirWay /\ OutcomePhase /\ SubmitOK
        /\ client \in {"idle", "submitting", "polling", "fetching", "returned",
                       "finishing", "releasing", "gone", "terminated"}
        /\ canceller \in {"idle", "waiting", "calling", "done"}
        /\ worker \in {"none", "queued", "building", "resolving", "setting_id",
                       "flushing", "complete"}
    BY DEF ServedInv, AsyncInv, ServerTypeOK
  <2>1. /\ canceller = "calling" => HandlerReady \/ CancellerReady
        /\ canceller = "waiting" => client = "submitting" \/ CancellerReady
    BY <2>0 DEF CallsOnTheirWay, HandlerReady, CancellerReady
  <2>2. client = "submitting" => HandlerReady \/ ClientReady
    BY <2>0 DEF CallsOnTheirWay, HandlerReady, ClientReady
  <2>3. client = "polling" => WorkerReady \/ ClientReady
    <3>1. client = "polling" /\ worker = "complete" => ClientReady
      BY <2>0 DEF OutcomePhase, Unresolved, Building, ClientReady
    <3>2. client = "polling" => worker # "none"
      BY <2>0 DEF SubmitOK
    <3> QED
      BY <2>0, <3>1, <3>2, WorkerGoesOn
  <2>4. client \in {"fetching", "finishing", "releasing"} => HandlerReady \/ ClientReady
    BY <2>0 DEF CallsOnTheirWay, HandlerReady, ClientReady
  <2>5. client = "returned" => ClientReady \/ CancellerReady \/ HandlerReady
    BY <2>0, <2>1 DEF ClientReady
  <2> QED
    BY <2>0, <2>1, <2>2, <2>3, <2>4, <2>5 DEF NobodyWaitsInVain
<1> QED
  BY <1>1, ServedInvariant, PTL

\* Also while the worker stores the outcome, and after that, a final status is not
\* replaced, except for a mailbox and for contained requests: a client that polls may
\* rely on the first final status it sees.
THEOREM FinalIsFinalOnServer == AsyncSpec => FinalStatusIsFinal
<1>1. ServedInv /\ [AsyncNext]_async_vars => [StatusKept]_ctx_vars
  <2>1. UNCHANGED async_vars => UNCHANGED ctx_vars
    BY DEF async_vars
  <2> QED
    BY <2>1, OutcomeKeeps DEF ServedInv
<1> QED
  BY <1>1, ServedInvariant, PTL DEF AsyncSpec, FinalStatusIsFinal, StatusKept

\* A request that was resolved has its result on the server when the worker is done:
\* set_result() finds the root awaiting it, unless the request is contained and a
\* cancellation overtook it.
THEOREM ResultIsDelivered ==
    AsyncSpec => [](worker = "complete" /\ cpc[Root] = "ok"
                       => result = "value" \/ (Root \in Contained /\ cancel_requested))
<1>1. ServedInv => (worker = "complete" /\ cpc[Root] = "ok"
                       => result = "value" \/ (Root \in Contained /\ cancel_requested))
  BY DEF ServedInv, OutcomePhase, Unresolved, Building, Exempt
<1> QED
  BY <1>1, ServedInvariant, PTL
=============================================================================
