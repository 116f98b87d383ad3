-------------------------- MODULE DeliveryOutcomes --------------------------
(***************************************************************************)
(* What becomes of a delivery, for every value of Delivery's constants:     *)
(* nothing owed is lost (AtLeastOnce), the dispatcher implements            *)
(* DeliveryPromise step by step (PromiseKept), and content is evicted only  *)
(* when every hook has it (EvictedOnlyWhenForwarded).                       *)
(***************************************************************************)
EXTENDS DeliveryProofs

-----------------------------------------------------------------------------
(***************************************************************************)
(* Whose a delivery is.  Everything that is queued, in flight, listed or    *)
(* stored belongs to a hook its event was listed for, and an event that is  *)
(* still waiting was listed for none.                                       *)
(***************************************************************************)
Owed(d) == d[2] \in owed[d[1]]

OwedInv ==
    /\ \A m \in Messages : emit[m] \in {"new", "blocked", "queued"} => owed[m] = {}
    /\ \A h \in cur.todo : h \in owed[cur.ev]
    /\ \A a \in attempts : Owed(a.dl)
    /\ \A x \in batch \cup held : Owed(x.dl)
    /\ \A d \in Deliveries : row[d].state # "none" => Owed(d)

\* A step that owes nothing new and holds nothing it did not hold before.
LEMMA OwedQuiet ==
  ASSUME IInv, OwedInv,
         owed' = owed,
         \A m \in Messages : emit'[m] \in {"new", "blocked", "queued"} =>
                                emit[m] \in {"new", "blocked", "queued"},
         cur'.todo = {} \/ (cur'.ev = cur.ev /\ cur'.todo \subseteq cur.todo),
         \A a \in attempts' : Owed(a.dl),
         \A x \in batch' \cup held' : Owed(x.dl),
         \A d \in Deliveries : row'[d].state # "none" => Owed(d)
  PROVE  OwedInv'
BY DEF OwedInv, Owed

LEMMA OwedInvStep == IInv /\ OwedInv /\ [Next]_vars => OwedInv'
<1> SUFFICES ASSUME IInv, OwedInv, [Next]_vars PROVE OwedInv'
  OBVIOUS
<1> USE DEF IInv, dbVars, prodVars, loopVars, retryVars, histVars
<1>1. /\ \A a \in attempts : Owed(a.dl) /\ a.dl \in Deliveries
      /\ \A x \in batch \cup held : Owed(x.dl) /\ x.dl \in Deliveries
      /\ \A d \in Deliveries : row[d].state # "none" => Owed(d)
  BY DEF OwedInv, TypeOK, Attempts, Listings
<1>2. ASSUME NEW e \in Events, Emit(e) \/ EmitBlocked(e) PROVE OwedInv'
  <2>1. UNCHANGED <<row, attempts, batch, held, cur, owed>>
    BY <1>2 DEF Emit, EmitBlocked
  <2>2. emit[e] \in {"new", "blocked"}
    BY <1>2 DEF Emit, EmitBlocked
  <2>3. \A m \in Messages \ {e} : emit'[m] = emit[m]
    BY <1>2 DEF Emit, EmitBlocked, Enqueue, TypeOK
  <2> QED
    BY <1>1, <2>1, <2>2, <2>3, OwedQuiet
<1>3. CASE TakeEvent
  <2>1. PICK e : e = Head(queue)
    OBVIOUS
  <2>2. e \in Events /\ emit[e] = "queued" /\ e \in Messages
    <3>1. queue \in Seq(Events) /\ queue # <<>>
      BY <1>3 DEF TakeEvent, TypeOK
    <3>2. 1 \in 1 .. Len(queue) /\ e = queue[1] /\ e \in Events
      BY <2>1, <3>1
    <3> QED
      BY <3>2 DEF Ownership, QueueInv, Messages
  <2>3. UNCHANGED <<row, attempts, batch, held>> /\ emit' = [emit EXCEPT ![e] = "taken"]
    BY <1>3, <2>1 DEF TakeEvent
  <2>4. \A m \in Messages \ {e} : emit'[m] = emit[m]
    BY <2>3 DEF TypeOK
  <2>5. emit'[e] = "taken"
    BY <2>2, <2>3 DEF TypeOK
  <2>6. CASE owed' = owed /\ cur' = cur
    BY <1>1, <2>3, <2>4, <2>5, <2>6, OwedQuiet
  <2>7. CASE /\ owed' = [owed EXCEPT ![e] = Listed(e)]
             /\ cur'.ev = e /\ cur'.todo = Listed(e)
    <3>1. owed[e] = {}
      BY <2>2 DEF OwedInv
    <3>2. owed'[e] = Listed(e) /\ \A m \in Messages \ {e} : owed'[m] = owed[m]
      BY <2>2, <2>7 DEF TypeOK
    <3>3. \A d \in Deliveries : Owed(d) => Owed(d)'
      BY <3>1, <3>2 DEF Owed, Deliveries
    <3>4. \A m \in Messages : emit'[m] \in {"new", "blocked", "queued"} => owed'[m] = {}
      BY <2>4, <2>5, <3>2 DEF OwedInv
    <3>5. \A h \in cur'.todo : h \in owed'[cur'.ev]
      BY <2>7, <3>2
    <3> QED
      BY <1>1, <2>3, <3>3, <3>4, <3>5 DEF OwedInv
  <2> QED
    BY <1>3, <2>1, <2>6, <2>7 DEF TakeEvent, NoEvent
<1>4. ASSUME NEW h \in Hooks, SendFresh(h) PROVE OwedInv'
  <2>1. /\ UNCHANGED <<row, emit, batch, held, owed>>
        /\ attempts' = attempts \cup {[dl |-> <<cur.ev, h>>, by |-> "fresh", n |-> 1]}
        /\ cur'.ev = cur.ev /\ cur'.todo \subseteq cur.todo
        /\ h \in cur.todo
    BY <1>4 DEF SendFresh, TypeOK
  <2>2. \A a \in attempts' : Owed(a.dl)
    BY <1>1, <2>1 DEF OwedInv, Owed
  <2> QED
    BY <1>1, <2>1, <2>2, OwedQuiet
<1>5. CASE CutShort \/ FinishEvent
  <2>1. UNCHANGED <<row, emit, attempts, batch, held, owed>> /\ cur'.todo = {}
    <3>1. CASE CutShort
      BY <3>1 DEF CutShort, TypeOK
    <3>2. CASE FinishEvent
      BY <3>2 DEF FinishEvent, NoEvent
    <3> QED
      BY <1>5, <3>1, <3>2
  <2> QED
    BY <1>1, <2>1, OwedQuiet
<1>6. ASSUME NEW a \in attempts, AttemptAccepted(a) PROVE OwedInv'
  <2>1. UNCHANGED <<emit, cur, batch, held, owed>> /\ attempts' \subseteq attempts
    BY <1>6 DEF AttemptAccepted
  <2>2. \A d \in Deliveries : row'[d].state # "none" => row'[d] = row[d]
    BY <1>6 DEF AttemptAccepted, DeleteDelivery, TypeOK, NoRow
  <2> QED
    BY <1>1, <2>1, <2>2, OwedQuiet
<1>7. ASSUME NEW a \in attempts, AttemptFailed(a) PROVE OwedInv'
  <2>1. /\ UNCHANGED <<emit, batch, held, owed>> /\ attempts' \subseteq attempts
        /\ cur'.ev = cur.ev /\ cur'.todo = cur.todo
    BY <1>7 DEF AttemptFailed, TypeOK
  <2>2. \A d \in Deliveries : row'[d] = row[d] \/ d = a.dl
    BY <1>7 DEF AttemptFailed, SaveDelivery, TypeOK
  <2> QED
    BY <1>1, <2>1, <2>2, OwedQuiet
<1>8. ASSUME NEW D \in SUBSET Due, RetryTick(D) PROVE OwedInv'
  <2>1. UNCHANGED <<row, emit, cur, attempts, held, owed>>
    BY <1>8 DEF RetryTick
  <2>2. \A x \in batch' : x.dl \in Deliveries /\ row[x.dl].state # "none"
    BY <1>8 DEF RetryTick, Due
  <2> QED
    BY <1>1, <2>1, <2>2, OwedQuiet
<1>9. ASSUME NEW x \in batch, RetryCheck(x) PROVE OwedInv'
  <2>1. UNCHANGED <<emit, cur, attempts, owed>> /\ batch' = batch \ {x}
    BY <1>9 DEF RetryCheck
  <2>2. held' = held \/ held' = {[x EXCEPT !.n = @ + 1]}
    BY <1>9, Zenon DEF RetryCheck
  <2>3. [x EXCEPT !.n = @ + 1].dl = x.dl
    BY DEF TypeOK, Listings
  <2>4. row' = row \/ DeleteDelivery(x.dl, TRUE)
    BY <1>9, Zenon DEF RetryCheck
  <2>5. \A d \in Deliveries : row'[d].state # "none" => row'[d] = row[d]
    BY <2>4 DEF DeleteDelivery, TypeOK, NoRow
  <2>6. \A y \in batch' \cup held' : Owed(y.dl)
    BY <1>1, <2>1, <2>2, <2>3
  <2> QED
    BY <1>1, <2>1, <2>5, <2>6, OwedQuiet
<1>10. ASSUME NEW x \in held, RetrySend(x) PROVE OwedInv'
  <2>1. UNCHANGED <<row, emit, cur, batch, owed>> /\ held' = {}
    BY <1>10 DEF RetrySend
  <2>2. \A a \in attempts' : a \in attempts \/ a.dl = x.dl
    BY <1>10 DEF RetrySend
  <2> QED
    BY <1>1, <2>1, <2>2, OwedQuiet
<1>11. ASSUME NEW t \in Tests, NEW h \in Hooks, SendTest(t, h) PROVE OwedInv'
  <2>1. /\ UNCHANGED <<row, cur, batch, held>> /\ t \in Messages
        /\ emit[t] = "new" /\ emit' = [emit EXCEPT ![t] = "taken"]
        /\ owed' = [owed EXCEPT ![t] = {h}]
        /\ attempts' = attempts \cup {[dl |-> <<t, h>>, by |-> "test", n |-> 1]}
    BY <1>11 DEF SendTest, Messages
  <2>2. owed[t] = {}
    BY <2>1 DEF OwedInv
  <2>3. owed'[t] = {h} /\ \A m \in Messages \ {t} : owed'[m] = owed[m]
    BY <2>1 DEF TypeOK
  <2>4. \A d \in Deliveries : Owed(d) => Owed(d)'
    BY <2>2, <2>3 DEF Owed, Deliveries
  <2>5. \A m \in Messages : emit'[m] \in {"new", "blocked", "queued"} => owed'[m] = {}
    BY <2>1, <2>3 DEF OwedInv, TypeOK
  <2>6. \A g \in cur'.todo : g \in owed'[cur'.ev]
    <3>1. cur.todo # {} => cur.ev \in Messages \ {t}
      BY DeliveryAssumption DEF TypeOK, Ownership, TodoInv, Messages
    <3> QED
      BY <2>1, <2>3, <3>1 DEF OwedInv
  <2>7. \A a \in attempts' : Owed(a.dl)'
    BY <1>1, <2>1, <2>3, <2>4 DEF Owed
  <2> QED
    BY <1>1, <2>1, <2>4, <2>5, <2>6, <2>7 DEF OwedInv
<1>12. ASSUME NEW c \in checked, RedeliverClaim(c) PROVE OwedInv'
  <2>1. UNCHANGED <<emit, cur, batch, held, owed>> /\ c.dl \in Deliveries
    BY <1>12 DEF RedeliverClaim, TypeOK
  <2>2. CASE row[c.dl].state = "dead"
    <3>1. \A a \in attempts' : a \in attempts \/ a.dl = c.dl
      BY <1>12, <2>2 DEF RedeliverClaim
    <3>2. \A d \in Deliveries : row'[d] = row[d] \/ d = c.dl
      BY <1>12, <2>2 DEF RedeliverClaim, TypeOK
    <3>3. Owed(c.dl)
      BY <1>1, <2>1, <2>2
    <3> QED
      BY <1>1, <2>1, <3>1, <3>2, <3>3, OwedQuiet
  <2>3. CASE row[c.dl].state # "dead"
    BY <1>1, <1>12, <2>1, <2>3, OwedQuiet DEF RedeliverClaim
  <2> QED
    BY <2>2, <2>3
<1>13. ASSUME \/ \E h \in Hooks : DeleteWebhook(h)
              \/ \E a \in Accounts : DeleteAccount(a)
              \/ \E D \in SUBSET DeadRows : PurgeDead(D)
       PROVE  OwedInv'
  <2>1. UNCHANGED <<emit, cur, attempts, batch, held, owed>>
    BY <1>13 DEF DeleteWebhook, DeleteAccount, PurgeDead
  <2>2. \A d \in Deliveries : row'[d].state # "none" => row'[d] = row[d]
    BY <1>13 DEF DeleteWebhook, DeleteAccount, PurgeDead, NoRow
  <2> QED
    BY <1>1, <2>1, <2>2, OwedQuiet
<1>14. CASE Crash \/ Exit
  <2>1. /\ UNCHANGED <<row, owed>> /\ attempts' = {} /\ batch' = {} /\ held' = {}
        /\ cur'.todo = {}
    BY <1>14 DEF Crash, Exit, Restart, NoEvent
  <2>2. \A m \in Messages : emit'[m] \in {"new", "blocked", "queued"} =>
                               emit[m] \in {"new", "blocked", "queued"}
    BY <1>14 DEF Crash, Exit, Restart, TypeOK
  <2> QED
    BY <1>1, <2>1, <2>2, OwedQuiet
<1>15. CASE batch' = {} /\ held' = {} /\ UNCHANGED <<row, emit, cur, attempts, owed>>
  BY <1>1, <1>15, OwedQuiet
<1>16. CASE UNCHANGED <<row, emit, cur, attempts, batch, held, owed>>
  BY <1>1, <1>16, OwedQuiet
<1> QED
  BY <1>2, <1>3, <1>4, <1>5, <1>6, <1>7, <1>8, <1>9, <1>10, <1>11, <1>12, <1>13,
     <1>14, <1>15, <1>16 DEF Next, Dispatch, StartDrain, DrainDeadline, DrainComplete,
     Retry, RetryStop, Api, RedeliverCheck, SetPaused, SetRetention, Sweep, Expire,
     Cancel, vars

LEMMA OwedInit == Init => OwedInv
<1> SUFFICES ASSUME Init PROVE OwedInv
  OBVIOUS
<1>1. \A d \in Deliveries : row[d].state = "none"
  BY DEF Init, NoRow
<1> QED
  BY <1>1 DEF Init, OwedInv, NoEvent

LEMMA OwedInvariant == Spec => []OwedInv
BY OwedInit, OwedInvStep, OwnershipInvariant, PTL DEF Spec

-----------------------------------------------------------------------------
(***************************************************************************)
(* At-least-once.  Each step that takes a delivery out of the fan-out, out  *)
(* of flight or out of the table hands it to another of the three, or its   *)
(* subscriber has it, or it was withdrawn.  The one place memory is dropped *)
(* without a kill is Exit, and DoneInv says that the dispatch loop then has *)
(* nothing in hand.                                                         *)
(***************************************************************************)
Kept(d) == d \in accepted \/ Carried(d) \/ Withdrawn(d)

DoneInv == disp = "done" => cur.ev = None

Unbroken == crashes = 0 /\ faults = 0 /\ disp \notin {"skipped", "aborted"}

\* What was accepted or withdrawn stays so.
LEMMA SettledForGood ==
  ASSUME IInv, [Next]_vars, NEW d \in Deliveries
  PROVE  /\ d \in accepted => d \in accepted'
         /\ Withdrawn(d) => Withdrawn(d)'
<1> USE DEF Next, Emit, EmitBlocked, Dispatch, TakeEvent, CutShort, FinishEvent,
    StartDrain, DrainDeadline, DrainComplete, SendFresh, AttemptAccepted,
    AttemptFailed, Retry, RetryTick, RetryCheck, RetrySend, RetryStop, Api,
    SendTest, RedeliverCheck, RedeliverClaim, SetPaused, DeleteWebhook,
    DeleteAccount, SetRetention, Sweep, PurgeDead, Expire, Cancel, Crash, Exit,
    Restart, vars, dbVars, prodVars, loopVars, retryVars, histVars
<1>1. accepted \subseteq accepted'
  OBVIOUS
<1>2. purged \subseteq purged'
  OBVIOUS
<1>3. accounts' \subseteq accounts
  OBVIOUS
<1>4. \A h \in Hooks : hook[h] = "gone" => hook'[h] = "gone"
  BY DEF IInv, TypeOK
<1>5. d[2] \in Hooks
  BY DEF Deliveries
<1> QED
  BY <1>1, <1>2, <1>3, <1>4, <1>5 DEF Withdrawn, DeliveryAccount


\* A breakdown is never undone: a drain cut short is only restarted by a kill.
LEMMA UnbrokenBefore ==
  ASSUME IInv, [Next]_vars, Unbroken'
  PROVE  Unbroken
<1>1. crashes \in Nat /\ faults \in Nat
  BY DEF IInv, TypeOK
<1>2. /\ crashes' \in {crashes, crashes + 1}
      /\ faults' \in {faults, faults + 1}
      /\ disp \in {"skipped", "aborted"} =>
            disp' \in {"skipped", "aborted"} \/ crashes' = crashes + 1
  <2> USE DEF Next, Emit, EmitBlocked, Dispatch, TakeEvent, CutShort, FinishEvent,
      StartDrain, DrainDeadline, DrainComplete, SendFresh, AttemptAccepted,
      AttemptFailed, Retry, RetryTick, RetryCheck, RetrySend, RetryStop, Api,
      SendTest, RedeliverCheck, RedeliverClaim, SetPaused, DeleteWebhook,
      DeleteAccount, SetRetention, Sweep, PurgeDead, Expire, Cancel, Crash,
      Exit, vars, dbVars, prodVars, loopVars, retryVars, histVars
  <2>1. crashes' \in {crashes, crashes + 1}
    OBVIOUS
  <2>2. faults' \in {faults, faults + 1}
    BY DEF StoreCall, Restart
  <2>3. disp \in {"skipped", "aborted"} =>
           disp' \in {"skipped", "aborted"} \/ crashes' = crashes + 1
    OBVIOUS
  <2> QED
    BY <2>1, <2>2, <2>3
<1> QED
  BY <1>1, <1>2 DEF Unbroken

LEMMA DoneStep == IInv /\ DoneInv /\ [Next]_vars => DoneInv'
<1> SUFFICES ASSUME IInv, DoneInv, [Next]_vars PROVE DoneInv'
  OBVIOUS
<1> USE DEF dbVars, prodVars, loopVars, retryVars, histVars
<1>1. CASE TakeEvent
  BY <1>1 DEF TakeEvent, DoneInv
<1>2. CASE \E h \in Hooks : SendFresh(h)
  BY <1>2 DEF SendFresh, DoneInv
<1>3. CASE CutShort \/ DrainDeadline
  BY <1>3 DEF CutShort, DrainDeadline, DoneInv
<1>4. CASE FinishEvent \/ Crash \/ Exit
  <2>1. cur' = NoEvent
    BY <1>4 DEF FinishEvent, Crash, Exit, Restart
  <2> QED
    BY <2>1 DEF NoEvent, DoneInv
<1>5. CASE StartDrain \/ DrainComplete
  <2>1. cur' = NoEvent
    BY <1>5 DEF StartDrain, DrainComplete
  <2> QED
    BY <2>1 DEF NoEvent, DoneInv
<1>6. ASSUME NEW a \in attempts, AttemptFailed(a) PROVE DoneInv'
  <2>1. disp' = disp /\ cur'.ev = cur.ev
    BY <1>6 DEF AttemptFailed, IInv, TypeOK
  <2> QED
    BY <2>1 DEF DoneInv
<1>7. CASE UNCHANGED <<cur, disp>>
  BY <1>7 DEF DoneInv
<1> QED
  BY <1>1, <1>2, <1>3, <1>4, <1>5, <1>6, <1>7 DEF Next, Emit, EmitBlocked, Dispatch,
     AttemptAccepted, Retry, RetryTick, RetryCheck, RetrySend, RetryStop, Api,
     SendTest, RedeliverCheck, RedeliverClaim, SetPaused, DeleteWebhook,
     DeleteAccount, SetRetention, Sweep, PurgeDead, Expire, Cancel, vars


\* While nothing has broken, a store call succeeded.
LEMMA StoreUp ==
  ASSUME IInv, Unbroken', NEW up \in StoreAnswers, StoreCall(up)
  PROVE  up = TRUE
<1>1. up \in BOOLEAN /\ faults \in Nat
  BY DEF StoreAnswers, IInv, TypeOK
<1>2. faults' = 0
  BY DEF Unbroken
<1> QED
  BY <1>1, <1>2 DEF StoreCall

\* What is carried is handed on, accepted or withdrawn.
LEMMA CarriedStep ==
  ASSUME IInv, DoneInv, [Next]_vars, Unbroken, Unbroken',
         NEW d \in Deliveries, Carried(d)
  PROVE  Kept(d)'
<1> USE DEF IInv, Ownership, dbVars, prodVars, loopVars, retryVars, histVars
<1>1. ASSUME cur' = cur \/ cur.todo = {},
             attempts \subseteq attempts',
             row'[d].state = row[d].state
      PROVE  Kept(d)'
  BY <1>1 DEF Kept, Carried
<1>2. CASE TakeEvent
  <2>1. cur.todo = {}
    BY <1>2 DEF TakeEvent, NoEvent
  <2> QED
    BY <1>1, <1>2, <2>1 DEF TakeEvent
<1>3. ASSUME NEW h \in Hooks, SendFresh(h) PROVE Kept(d)'
  <2>1. /\ row' = row
        /\ attempts' = attempts \cup {[dl |-> <<cur.ev, h>>, by |-> "fresh", n |-> 1]}
        /\ cur'.ev = cur.ev /\ cur'.todo = cur.todo \ {h}
    BY <1>3 DEF SendFresh, TypeOK
  <2>2. CASE d[1] = cur.ev /\ d[2] = h
    <3>1. d = <<cur.ev, h>>
      BY <2>2 DEF Deliveries
    <3> DEFINE a == [dl |-> <<cur.ev, h>>, by |-> "fresh", n |-> 1]
    <3>2. a \in attempts' /\ a.dl = d
      BY <2>1, <3>1
    <3> HIDE DEF a
    <3> QED
      BY <3>2 DEF Kept, Carried
  <2>3. CASE ~(d[1] = cur.ev /\ d[2] = h)
    BY <2>1, <2>3 DEF Kept, Carried
  <2> QED
    BY <2>2, <2>3
<1>4. CASE CutShort
  BY <1>4 DEF CutShort, Unbroken
<1>5. CASE FinishEvent
  BY <1>1, <1>5 DEF FinishEvent
<1>6. ASSUME NEW a \in attempts, AttemptAccepted(a) PROVE Kept(d)'
  <2>1. CASE a.dl = d
    BY <1>6, <2>1 DEF AttemptAccepted, Kept
  <2>2. CASE a.dl # d
    <3>1. row'[d] = row[d]
      BY <1>6, <2>2 DEF AttemptAccepted, DeleteDelivery, TypeOK
    <3> QED
      BY <1>6, <2>2, <3>1 DEF AttemptAccepted, Kept, Carried
  <2> QED
    BY <2>1, <2>2
<1>7. ASSUME NEW a \in attempts, AttemptFailed(a) PROVE Kept(d)'
  <2>1. /\ attempts' = attempts \ {a} /\ UNCHANGED hook
        /\ cur'.ev = cur.ev /\ cur'.todo = cur.todo
    BY <1>7 DEF AttemptFailed, TypeOK
  <2>2. SaveDelivery(a.dl, Scheduled(a.n), TRUE)
    <3>1. PICK up \in StoreAnswers : SaveDelivery(a.dl, Scheduled(a.n), up) /\ StoreCall(up)
      BY <1>7 DEF AttemptFailed
    <3> QED
      BY <3>1, StoreUp
  <2>3. CASE a.dl = d /\ hook[d[2]] = "gone"
    BY <2>1, <2>3 DEF Kept, Withdrawn
  <2>4. CASE a.dl = d /\ hook[d[2]] # "gone"
    <3>1. row'[d] = Scheduled(a.n)
      BY <2>2, <2>4 DEF SaveDelivery, TypeOK
    <3>2. Scheduled(a.n).state # "none"
      BY DEF Scheduled
    <3> QED
      BY <3>1, <3>2 DEF Kept, Carried
  <2>5. CASE a.dl # d
    <3>1. row'[d] = row[d]
      BY <2>2, <2>5 DEF SaveDelivery, TypeOK
    <3> QED
      BY <2>1, <2>5, <3>1 DEF Kept, Carried
  <2> QED
    BY <2>3, <2>4, <2>5
<1>8. ASSUME NEW x \in batch, RetryCheck(x) PROVE Kept(d)'
  <2>1. cur' = cur /\ attempts' = attempts /\ hook' = hook
    BY <1>8 DEF RetryCheck
  <2>2. row' = row \/ (hook[x.dl[2]] = "gone" /\ DeleteDelivery(x.dl, TRUE))
    <3>1. PICK up \in StoreAnswers :
             /\ StoreCall(up)
             /\ row' = row \/ ((~up \/ hook[x.dl[2]] = "gone") /\ DeleteDelivery(x.dl, TRUE))
      BY <1>8, Zenon DEF RetryCheck
    <3> QED
      BY <3>1, StoreUp
  <2>3. CASE x.dl = d /\ hook[d[2]] = "gone"
    BY <2>1, <2>3 DEF Kept, Withdrawn
  <2>4. CASE row'[d] = row[d]
    BY <1>1, <2>1, <2>4
  <2>5. x.dl # d \/ hook[d[2]] # "gone" => row'[d] = row[d]
    BY <2>2 DEF DeleteDelivery, TypeOK
  <2> QED
    BY <2>3, <2>4, <2>5
<1>9. ASSUME NEW c \in checked, RedeliverClaim(c) PROVE Kept(d)'
  <2>1. cur' = cur /\ attempts \subseteq attempts'
    BY <1>9 DEF RedeliverClaim
  <2>2. c.dl \in Deliveries
    BY DEF TypeOK
  <2>3. row[d].state # "none" => row'[d].state # "none"
    <3>1. row \in [Deliveries -> Rows]
      BY DEF TypeOK
    <3>2. row' = row \/ row' = [row EXCEPT ![c.dl].state = "live"]
      BY <1>9 DEF RedeliverClaim
    <3>3. CASE row' = [row EXCEPT ![c.dl].state = "live"]
      BY <2>2, <3>1, <3>3 DEF Rows
    <3> QED
      BY <3>2, <3>3
  <2> QED
    BY <2>1, <2>3 DEF Kept, Carried
<1>10. ASSUME NEW h \in Hooks, DeleteWebhook(h) PROVE Kept(d)'
  <2>1. CASE d[2] = h
    BY <1>10, <2>1 DEF DeleteWebhook, TypeOK, Kept, Withdrawn
  <2>2. CASE d[2] # h
    BY <1>1, <1>10, <2>2 DEF DeleteWebhook
  <2> QED
    BY <2>1, <2>2
<1>11. ASSUME NEW a \in Accounts, DeleteAccount(a) PROVE Kept(d)'
  <2>1. d[2] \in Hooks
    BY DEF Deliveries
  <2>2. CASE BoundTo[d[2]] = a
    <3>1. hook'[d[2]] = "gone"
      BY <1>11, <2>1, <2>2 DEF DeleteAccount
    <3> QED
      BY <3>1 DEF Kept, Withdrawn
  <2>3. CASE DeliveryAccount(d) = a
    BY <1>11, <2>3, DeliveryAssumption DEF DeleteAccount, Kept, Withdrawn, DeliveryAccount
  <2>4. CASE DeliveryAccount(d) # a /\ BoundTo[d[2]] # a
    BY <1>1, <1>11, <2>4 DEF DeleteAccount
  <2> QED
    BY <2>2, <2>3, <2>4
<1>12. ASSUME NEW D \in SUBSET DeadRows, PurgeDead(D) PROVE Kept(d)'
  <2>1. CASE d \in D
    BY <1>12, <2>1 DEF PurgeDead, Kept, Withdrawn
  <2>2. CASE d \notin D
    BY <1>1, <1>12, <2>2 DEF PurgeDead
  <2> QED
    BY <2>1, <2>2
<1>13. CASE Crash
  <2>1. crashes' = crashes + 1
    BY <1>13 DEF Crash
  <2> QED
    BY <2>1 DEF Unbroken, TypeOK
<1>14. CASE Exit
  <2>1. cur.todo = {} /\ attempts = {}
    BY <1>14 DEF Exit, DoneInv, TodoInv
  <2> QED
    BY <1>14, <2>1 DEF Exit, Restart, Kept, Carried
<1>15. CASE UNCHANGED <<cur, row>> /\ attempts \subseteq attempts'
  BY <1>1, <1>15
<1> QED
  BY <1>2, <1>3, <1>4, <1>5, <1>6, <1>7, <1>8, <1>9, <1>10, <1>11, <1>12, <1>13,
     <1>14, <1>15 DEF Next, Emit, EmitBlocked, Dispatch, StartDrain, DrainDeadline,
     DrainComplete, Retry, RetryTick, RetrySend, RetryStop, Api, SendTest,
     RedeliverCheck, SetPaused, SetRetention, Sweep, Expire, Cancel, vars


LEMMA OwedStep ==
  ASSUME IInv, DoneInv, AtLeastOnce, [Next]_vars
  PROVE  AtLeastOnce'
<1> SUFFICES ASSUME Unbroken', NEW m \in Messages, NEW h \in owed'[m]
             PROVE  Kept(<<m, h>>)'
  BY DEF AtLeastOnce, Unbroken, Kept
<1>1. Unbroken
  BY UnbrokenBefore
<1>2. ASSUME h \in owed[m] PROVE Kept(<<m, h>>)'
  <2>1. <<m, h>> \in Deliveries
    BY <1>2 DEF IInv, TypeOK, Deliveries
  <2>2. Kept(<<m, h>>)
    BY <1>1, <1>2 DEF AtLeastOnce, Unbroken, Kept
  <2>3. PICK d \in Deliveries : d = <<m, h>>
    BY <2>1
  <2>4. Carried(d) => Kept(d)'
    BY <1>1, CarriedStep
  <2> QED
    BY <2>2, <2>3, <2>4, SettledForGood DEF Kept
<1>3. CASE TakeEvent
  <2>1. PICK e : e = Head(queue)
    OBVIOUS
  <2>2. e \in Messages
    BY <1>3, <2>1 DEF TakeEvent, IInv, TypeOK, Messages
  <2>3. \/ owed' = owed
        \/ owed' = [owed EXCEPT ![e] = Listed(e)] /\ cur'.ev = e /\ cur'.todo = Listed(e)
    BY <1>3, <2>1 DEF TakeEvent, NoEvent
  <2>4. CASE h \in owed[m]
    BY <1>2, <2>4
  <2>5. CASE h \notin owed[m]
    <3>1. m = e /\ h \in Listed(e) /\ cur'.ev = e /\ cur'.todo = Listed(e)
      BY <2>2, <2>3, <2>5 DEF IInv, TypeOK
    <3> QED
      BY <3>1 DEF Kept, Carried
  <2> QED
    BY <2>4, <2>5
<1>4. ASSUME NEW t \in Tests, NEW g \in Hooks, SendTest(t, g) PROVE Kept(<<m, h>>)'
  <2>1. CASE m = t
    <3>1. h = g
      BY <1>4, <2>1 DEF SendTest, IInv, TypeOK
    <3> DEFINE a == [dl |-> <<t, g>>, by |-> "test", n |-> 1]
    <3>2. a \in attempts' /\ a.dl = <<m, h>>
      BY <1>4, <2>1, <3>1 DEF SendTest
    <3> HIDE DEF a
    <3> QED
      BY <3>2 DEF Kept, Carried
  <2>2. CASE m # t
    BY <1>2, <1>4, <2>2 DEF SendTest, IInv, TypeOK
  <2> QED
    BY <2>1, <2>2
<1>5. CASE owed' = owed
  BY <1>2, <1>5
<1> QED
  BY <1>3, <1>4, <1>5 DEF Next, Emit, EmitBlocked, Dispatch, CutShort, FinishEvent,
     StartDrain, DrainDeadline, DrainComplete, SendFresh, AttemptAccepted,
     AttemptFailed, Retry, RetryTick, RetryCheck, RetrySend, RetryStop, Api,
     RedeliverCheck, RedeliverClaim, SetPaused, DeleteWebhook, DeleteAccount,
     SetRetention, Sweep, PurgeDead, Expire, Cancel, Crash, Exit, Restart, vars,
     histVars

\* At-least-once (AtLeastOnce): with no kill, no failing store call and no drain
\* cut short, deliver, schedule, retryDue, Redeliver and the sweep between them
\* never lose a delivery that was owed.
THEOREM NothingOwedIsLost == Spec => []AtLeastOnce
<1>1. Init => DoneInv /\ AtLeastOnce
  BY DEF Init, DoneInv, AtLeastOnce
<1>2. IInv /\ DoneInv /\ AtLeastOnce /\ [Next]_vars => (DoneInv /\ AtLeastOnce)'
  BY DoneStep, OwedStep
<1> QED
  BY <1>1, <1>2, OwnershipInvariant, PTL DEF Spec

-----------------------------------------------------------------------------
(***************************************************************************)
(* DeliveryPromise.  A promise moves as the abstract specification says     *)
(* because of four facts about one step: what is accepted was in flight;    *)
(* what becomes owed is carried; what is carried is handed on (CarriedStep); *)
(* and what was lost leaves nothing that could bring it back.  A delivery   *)
(* that is only listed by a retry tick is carried by its row (ListedInv).   *)
(***************************************************************************)
ListedInv ==
    \A x \in batch \cup held : row[x.dl].state = "live" \/ Withdrawn(x.dl)

InHand(d) == d[1] = cur.ev /\ d[2] \in cur.todo

LEMMA ListedStep == IInv /\ ListedInv /\ [Next]_vars => ListedInv'
<1> SUFFICES ASSUME IInv, ListedInv, [Next]_vars PROVE ListedInv'
  OBVIOUS
<1> USE DEF IInv, Ownership, dbVars, prodVars, loopVars, retryVars
<1>1. \A x \in batch \cup held :
         /\ x.dl \in Deliveries /\ row[x.dl].state # "dead"
         /\ \A a \in attempts : a.dl # x.dl
         /\ row[x.dl].state = "live" \/ Withdrawn(x.dl)'
  BY SettledForGood DEF ListedInv, ListInv, NoFlight, TypeOK, Listings
<1>2. ASSUME \A x \in batch' \cup held' : \E y \in batch \cup held :
                x.dl = y.dl /\ (row'[y.dl].state = row[y.dl].state \/ Withdrawn(y.dl)')
      PROVE  ListedInv'
  BY <1>1, <1>2 DEF ListedInv, Withdrawn, DeliveryAccount
<1>3. ASSUME NEW a \in attempts, AttemptAccepted(a) \/ AttemptFailed(a) PROVE ListedInv'
  <2>1. UNCHANGED <<batch, held>>
    BY <1>3 DEF AttemptAccepted, AttemptFailed
  <2>2. \A d \in Deliveries : d # a.dl => row'[d] = row[d]
    BY <1>3 DEF AttemptAccepted, AttemptFailed, SaveDelivery, DeleteDelivery, TypeOK
  <2> QED
    BY <1>1, <1>2, <2>1, <2>2
<1>4. ASSUME NEW D \in SUBSET Due, RetryTick(D) PROVE ListedInv'
  <2>1. held' = {} /\ row' = row
    BY <1>4 DEF RetryTick
  <2>2. \A x \in batch' : row[x.dl].state = "live"
    BY <1>4 DEF RetryTick, Due
  <2> QED
    BY <2>1, <2>2 DEF ListedInv
<1>5. ASSUME NEW x \in batch, RetryCheck(x) PROVE ListedInv'
  <2>1. batch' = batch \ {x} /\ held = {}
    BY <1>5 DEF RetryCheck
  <2>2. \/ held' = {} /\ (row' = row \/ DeleteDelivery(x.dl, TRUE))
        \/ held' = {[x EXCEPT !.n = @ + 1]} /\ row' = row
    BY <1>5, Zenon DEF RetryCheck
  <2>3. [x EXCEPT !.n = @ + 1].dl = x.dl
    BY DEF TypeOK, Listings
  <2>4. CASE row' = row
    BY <1>2, <2>1, <2>2, <2>3, <2>4
  <2>5. CASE held' = {} /\ DeleteDelivery(x.dl, TRUE)
    <3>1. \A y \in batch' : y.dl # x.dl
      BY <2>1 DEF ListInv
    <3>2. \A d \in Deliveries : d # x.dl => row'[d] = row[d]
      BY <2>5 DEF DeleteDelivery, TypeOK
    <3> QED
      BY <1>1, <1>2, <2>1, <2>5, <3>1, <3>2
  <2> QED
    BY <2>2, <2>4, <2>5
<1>6. ASSUME NEW c \in checked, RedeliverClaim(c) PROVE ListedInv'
  <2>1. UNCHANGED <<batch, held>>
    BY <1>6 DEF RedeliverClaim
  <2>2. \A d \in Deliveries : row[d].state # "dead" => row'[d] = row[d]
    BY <1>6 DEF RedeliverClaim, TypeOK
  <2> QED
    BY <1>1, <1>2, <2>1, <2>2
<1>7. ASSUME NEW h \in Hooks, DeleteWebhook(h) PROVE ListedInv'
  <2>1. UNCHANGED <<batch, held>> /\ hook'[h] = "gone"
    BY <1>7 DEF DeleteWebhook, TypeOK
  <2>2. \A d \in Deliveries : row'[d] = row[d] \/ Withdrawn(d)'
    BY <1>7, <2>1 DEF DeleteWebhook, Withdrawn
  <2> QED
    BY <1>1, <1>2, <2>1, <2>2
<1>8. ASSUME NEW b \in Accounts, DeleteAccount(b) PROVE ListedInv'
  <2>1. UNCHANGED <<batch, held>>
    BY <1>8 DEF DeleteAccount
  <2>2. ASSUME NEW d \in Deliveries PROVE row'[d] = row[d] \/ Withdrawn(d)'
    <3>1. d[2] \in Hooks
      BY DEF Deliveries
    <3>2. CASE BoundTo[d[2]] = b
      BY <1>8, <3>1, <3>2 DEF DeleteAccount, Withdrawn
    <3>3. CASE DeliveryAccount(d) = b
      BY <1>8, <3>3, DeliveryAssumption DEF DeleteAccount, Withdrawn, DeliveryAccount
    <3>4. CASE DeliveryAccount(d) # b /\ BoundTo[d[2]] # b
      BY <1>8, <3>4 DEF DeleteAccount
    <3> QED
      BY <3>2, <3>3, <3>4
  <2> QED
    BY <1>1, <1>2, <2>1, <2>2
<1>9. ASSUME NEW D \in SUBSET DeadRows, PurgeDead(D) PROVE ListedInv'
  <2>1. UNCHANGED <<batch, held>>
    BY <1>9 DEF PurgeDead
  <2>2. \A d \in Deliveries : row[d].state # "dead" => row'[d] = row[d]
    BY <1>9 DEF PurgeDead, DeadRows
  <2> QED
    BY <1>1, <1>2, <2>1, <2>2
<1>10. CASE row' = row /\ batch' \subseteq batch /\ held' \subseteq held
  BY <1>2, <1>10
<1> QED
  BY <1>3, <1>4, <1>5, <1>6, <1>7, <1>8, <1>9, <1>10 DEF Next, Emit, EmitBlocked,
     Dispatch, TakeEvent, SendFresh, CutShort, FinishEvent, StartDrain,
     DrainDeadline, DrainComplete, Retry, RetrySend, RetryStop, Api,
     SendTest, RedeliverCheck, SetPaused, SetRetention, Sweep, Expire, Cancel,
     Crash, Exit, Restart, vars

\* What a step puts into accepted was in flight.
LEMMA AcceptedInFlight ==
  ASSUME [Next]_vars, NEW d \in accepted' \ accepted
  PROVE  \E a \in attempts : a.dl = d
<1>1. CASE Crash
  BY <1>1 DEF Crash
<1>2. ASSUME NEW a \in attempts, AttemptAccepted(a) \/ AttemptFailed(a)
      PROVE  \E b \in attempts : b.dl = d
  BY <1>2 DEF AttemptAccepted, AttemptFailed
<1>3. accepted' # accepted
  OBVIOUS
<1> QED
  BY <1>1, <1>2, <1>3 DEF Next, Emit, EmitBlocked, Dispatch, TakeEvent, CutShort,
    FinishEvent, StartDrain, DrainDeadline, DrainComplete, SendFresh, Retry,
    RetryTick, RetryCheck, RetrySend, RetryStop, Api, SendTest, RedeliverCheck,
    RedeliverClaim, SetPaused, DeleteWebhook, DeleteAccount, SetRetention, Sweep,
    PurgeDead, Expire, Cancel, Exit, vars

\* What is owed stays owed, and what becomes owed is carried and has no row.
LEMMA OwedForGood ==
  ASSUME IInv, OwedInv, [Next]_vars, NEW d \in Deliveries
  PROVE  /\ Owed(d) => Owed(d)'
         /\ Owed(d)' /\ ~Owed(d) => Carried(d)' /\ row'[d].state = "none"
<1> USE DEF IInv, Ownership
<1>1. d = <<d[1], d[2]>> /\ d[1] \in Messages /\ d[2] \in Hooks
  BY DEF Deliveries
<1>2. CASE TakeEvent
  <2>1. PICK e : e = Head(queue)
    OBVIOUS
  <2>2. e \in Messages /\ emit[e] = "queued"
    <3>1. queue \in Seq(Events) /\ queue # <<>>
      BY <1>2 DEF TakeEvent, TypeOK
    <3>2. 1 \in 1 .. Len(queue) /\ e = queue[1]
      BY <2>1, <3>1
    <3> QED
      BY <3>1, <3>2 DEF QueueInv, Messages
  <2>3. owed[e] = {} /\ row[d].state = row'[d].state
    BY <1>2, <2>2 DEF OwedInv, TakeEvent
  <2>4. \/ owed' = owed
        \/ owed' = [owed EXCEPT ![e] = Listed(e)] /\ cur'.ev = e /\ cur'.todo = Listed(e)
    BY <1>2, <2>1 DEF TakeEvent, NoEvent
  <2>5. d[1] = e => row[d].state = "none"
    BY <1>1, <2>2 DEF UnsentInv, Untouched
  <2> QED
    BY <1>1, <2>2, <2>3, <2>4, <2>5 DEF Owed, Carried, TypeOK
<1>3. ASSUME NEW t \in Tests, NEW g \in Hooks, SendTest(t, g)
      PROVE  /\ Owed(d) => Owed(d)'
             /\ Owed(d)' /\ ~Owed(d) => Carried(d)' /\ row'[d].state = "none"
  <2>1. /\ t \in Messages /\ emit[t] = "new" /\ row' = row
        /\ owed' = [owed EXCEPT ![t] = {g}]
    BY <1>3 DEF SendTest, Messages
  <2>2. owed[t] = {}
    BY <2>1 DEF OwedInv
  <2>3. CASE d[1] = t /\ d[2] = g
    <3> DEFINE a == [dl |-> <<t, g>>, by |-> "test", n |-> 1]
    <3>1. a \in attempts' /\ a.dl = d
      BY <1>1, <1>3, <2>3 DEF SendTest
    <3>2. Carried(d)'
      BY <3>1, Zenon DEF Carried
    <3>3. row[d].state = "none"
      BY <1>1, <2>1, <2>3 DEF UnsentInv, Untouched
    <3>4. ~Owed(d)
      BY <2>2, <2>3 DEF Owed
    <3> QED
      BY <2>1, <3>2, <3>3, <3>4
  <2>4. CASE ~(d[1] = t /\ d[2] = g)
    <3>1. Owed(d)' <=> Owed(d)
      BY <1>1, <2>1, <2>2, <2>4 DEF Owed, TypeOK
    <3> QED
      BY <3>1
  <2> QED
    BY <2>3, <2>4
<1>4. CASE owed' = owed
  BY <1>4 DEF Owed
<1> QED
  BY <1>2, <1>3, <1>4 DEF Next, Emit, EmitBlocked, Dispatch, CutShort, FinishEvent,
     StartDrain, DrainDeadline, DrainComplete, SendFresh, AttemptAccepted,
     AttemptFailed, Retry, RetryTick, RetryCheck, RetrySend, RetryStop, Api,
     RedeliverCheck, RedeliverClaim, SetPaused, DeleteWebhook, DeleteAccount,
     SetRetention, Sweep, PurgeDead, Expire, Cancel, Crash, Exit, Restart, vars,
     histVars

\* Once its event was taken, a delivery that nothing holds is never taken up again.
LEMMA LostForGood ==
  ASSUME IInv, [Next]_vars, NEW d \in Deliveries,
         emit[d[1]] \notin {"new", "blocked", "queued"},
         Untouched(d), ~InHand(d)
  PROVE  Untouched(d)' /\ ~InHand(d)'
<1> USE DEF IInv, Ownership, dbVars, prodVars, loopVars, retryVars
<1>1. d = <<d[1], d[2]>> /\ d[1] \in Messages /\ d[2] \in Hooks
  BY DEF Deliveries
<1>2. emit[d[1]] \notin {"new", "blocked", "queued"}
  OBVIOUS
<1>3. row[d].state = "none" /\ (\A a \in attempts : a.dl # d)
        /\ (\A x \in batch \cup held : x.dl # d)
  BY DEF Untouched, NoFlight, Unlisted
<1>4. ASSUME row'[d].state = "none" \/ row'[d] = row[d],
             \A a \in attempts' : a \in attempts \/ a.dl # d,
             \A x \in batch' \cup held' : x \in batch \cup held \/ x.dl # d,
             cur'.todo = {} \/ (cur'.ev = cur.ev /\ cur'.todo \subseteq cur.todo)
      PROVE  Untouched(d)' /\ ~InHand(d)'
  BY <1>3, <1>4 DEF Untouched, NoFlight, Unlisted, InHand
<1>5. CASE TakeEvent
  <2>1. PICK e : e = Head(queue)
    OBVIOUS
  <2>2. emit[e] = "queued"
    <3>1. queue \in Seq(Events) /\ queue # <<>>
      BY <1>5 DEF TakeEvent, TypeOK
    <3>2. 1 \in 1 .. Len(queue) /\ e = queue[1]
      BY <2>1, <3>1
    <3> QED
      BY <3>1, <3>2 DEF QueueInv
  <2>3. UNCHANGED <<row, attempts, batch, held>> /\ (cur' = cur \/ cur'.ev = e)
    BY <1>5, <2>1 DEF TakeEvent, NoEvent
  <2>4. e # d[1]
    BY <1>2, <2>2
  <2> QED
    BY <1>3, <2>3, <2>4 DEF Untouched, NoFlight, Unlisted, InHand
<1>6. ASSUME NEW h \in Hooks, SendFresh(h) PROVE Untouched(d)' /\ ~InHand(d)'
  <2>1. /\ UNCHANGED <<row, batch, held>> /\ h \in cur.todo
        /\ cur'.ev = cur.ev /\ cur'.todo \subseteq cur.todo
        /\ \A a \in attempts' : a \in attempts \/ a.dl = <<cur.ev, h>>
    BY <1>6 DEF SendFresh, TypeOK
  <2>2. <<cur.ev, h>> # d
    BY <2>1 DEF InHand
  <2> QED
    BY <1>4, <2>1, <2>2
<1>7. CASE CutShort \/ FinishEvent
  <2>1. cur'.todo = {}
    <3>1. CASE CutShort
      BY <3>1 DEF CutShort, TypeOK
    <3>2. CASE FinishEvent
      BY <3>2 DEF FinishEvent, NoEvent
    <3> QED
      BY <1>7, <3>1, <3>2
  <2> QED
    BY <1>4, <1>7, <2>1 DEF CutShort, FinishEvent
<1>8. ASSUME NEW a \in attempts, AttemptAccepted(a) PROVE Untouched(d)' /\ ~InHand(d)'
  <2>1. a.dl # d /\ UNCHANGED <<cur, batch, held>> /\ attempts' \subseteq attempts
    BY <1>3, <1>8 DEF AttemptAccepted
  <2>2. row'[d] = row[d]
    BY <1>8, <2>1 DEF AttemptAccepted, DeleteDelivery, TypeOK
  <2> QED
    BY <1>4, <2>1, <2>2
<1>9. ASSUME NEW a \in attempts, AttemptFailed(a) PROVE Untouched(d)' /\ ~InHand(d)'
  <2>1. /\ a.dl # d /\ UNCHANGED <<batch, held>> /\ attempts' \subseteq attempts
        /\ cur'.ev = cur.ev /\ cur'.todo = cur.todo
    BY <1>3, <1>9 DEF AttemptFailed, TypeOK
  <2>2. row'[d] = row[d]
    BY <1>9, <2>1 DEF AttemptFailed, SaveDelivery, TypeOK
  <2> QED
    BY <1>4, <2>1, <2>2
<1>10. ASSUME NEW D \in SUBSET Due, RetryTick(D) PROVE Untouched(d)' /\ ~InHand(d)'
  <2>1. UNCHANGED <<row, cur, attempts, held>>
    BY <1>10 DEF RetryTick
  <2>2. \A x \in batch' : x.dl # d
    BY <1>3, <1>10 DEF RetryTick, Due
  <2> QED
    BY <1>4, <2>1, <2>2
<1>11. ASSUME NEW x \in batch, RetryCheck(x) PROVE Untouched(d)' /\ ~InHand(d)'
  <2>1. UNCHANGED <<cur, attempts>> /\ batch' \subseteq batch
    BY <1>11 DEF RetryCheck
  <2>2. held' = held \/ held' = {[x EXCEPT !.n = @ + 1]}
    BY <1>11, Zenon DEF RetryCheck
  <2>3. [x EXCEPT !.n = @ + 1].dl = x.dl
    BY DEF TypeOK, Listings
  <2>4. row' = row \/ DeleteDelivery(x.dl, TRUE)
    BY <1>11, Zenon DEF RetryCheck
  <2>5. row'[d] = row[d]
    BY <1>3, <2>4 DEF DeleteDelivery, TypeOK
  <2> QED
    BY <1>3, <1>4, <2>1, <2>2, <2>3, <2>5
<1>12. ASSUME NEW x \in held, RetrySend(x) PROVE Untouched(d)' /\ ~InHand(d)'
  <2>1. UNCHANGED <<row, cur, batch>> /\ held' = {}
    BY <1>12 DEF RetrySend
  <2>2. \A a \in attempts' : a \in attempts \/ a.dl = x.dl
    BY <1>12 DEF RetrySend
  <2> QED
    BY <1>3, <1>4, <2>1, <2>2
<1>13. ASSUME NEW t \in Tests, NEW h \in Hooks, SendTest(t, h)
       PROVE  Untouched(d)' /\ ~InHand(d)'
  <2>1. UNCHANGED <<row, cur, batch, held>> /\ emit[t] = "new"
    BY <1>13 DEF SendTest
  <2>2. \A a \in attempts' : a \in attempts \/ a.dl = <<t, h>>
    BY <1>13 DEF SendTest
  <2>3. <<t, h>> # d
    BY <1>2, <2>1
  <2> QED
    BY <1>4, <2>1, <2>2, <2>3
<1>14. ASSUME NEW c \in checked, RedeliverClaim(c) PROVE Untouched(d)' /\ ~InHand(d)'
  <2>1. UNCHANGED <<cur, batch, held>>
    BY <1>14 DEF RedeliverClaim
  <2>2. CASE row[c.dl].state = "dead"
    <3>1. c.dl # d
      BY <1>3, <2>2
    <3>2. row'[d] = row[d]
      BY <1>14, <2>2, <3>1 DEF RedeliverClaim, TypeOK
    <3>3. \A a \in attempts' : a \in attempts \/ a.dl = c.dl
      BY <1>14, <2>2 DEF RedeliverClaim
    <3> QED
      BY <1>4, <2>1, <3>1, <3>2, <3>3
  <2>3. CASE row[c.dl].state # "dead"
    BY <1>4, <1>14, <2>1, <2>3 DEF RedeliverClaim
  <2> QED
    BY <2>2, <2>3
<1>15. ASSUME \/ \E h \in Hooks : DeleteWebhook(h)
              \/ \E a \in Accounts : DeleteAccount(a)
              \/ \E D \in SUBSET DeadRows : PurgeDead(D)
       PROVE  Untouched(d)' /\ ~InHand(d)'
  <2>1. UNCHANGED <<cur, attempts, batch, held>>
    BY <1>15 DEF DeleteWebhook, DeleteAccount, PurgeDead
  <2>2. row'[d].state = "none"
    BY <1>3, <1>15 DEF DeleteWebhook, DeleteAccount, PurgeDead, NoRow
  <2> QED
    BY <1>4, <2>1, <2>2
<1>16. CASE Crash \/ Exit
  <2>1. row' = row /\ attempts' = {} /\ batch' = {} /\ held' = {} /\ cur'.todo = {}
    BY <1>16 DEF Crash, Exit, Restart, NoEvent
  <2> QED
    BY <1>4, <2>1
<1>17. CASE batch' = {} /\ held' = {} /\ UNCHANGED <<row, cur, attempts>>
  BY <1>4, <1>17
<1>18. CASE UNCHANGED <<row, cur, attempts, batch, held>>
  BY <1>4, <1>18
<1> QED
  BY <1>5, <1>6, <1>7, <1>8, <1>9, <1>10, <1>11, <1>12, <1>13, <1>14, <1>15, <1>16,
     <1>17, <1>18 DEF Next, Emit, EmitBlocked, Dispatch, StartDrain, DrainDeadline,
     DrainComplete, Retry, RetryStop, Api, RedeliverCheck, SetPaused, SetRetention,
     Sweep, Expire, Cancel, vars

Promises == {"none", "pending", "dead", "accepted", "void"}

\* What one step may make of one promise.
PromiseStep(d) ==
    \/ PromiseOf(d)' = PromiseOf(d)
    \/ <<PromiseOf(d), PromiseOf(d)'>> \in
          {<<"none", "pending">>, <<"pending", "accepted">>, <<"pending", "dead">>,
           <<"dead", "pending">>, <<"dead", "accepted">>}
    \/ /\ PromiseOf(d) \in {"pending", "dead"}
       /\ PromiseOf(d)' = "void"
       /\ Withdrawn(d)' \/ ~Unbroken'

LEMMA PromiseMoves ==
  ASSUME IInv, DoneInv, OwedInv, ListedInv, [Next]_vars, NEW d \in Deliveries
  PROVE  PromiseStep(d)
<1> USE DEF IInv, Ownership
<1>1. d \in accepted => d \in accepted'
  BY SettledForGood
<1>2. d \in accepted' /\ d \notin accepted =>
         Owed(d) /\ row[d].state # "dead" /\ Pending(d)
  <2> SUFFICES ASSUME d \in accepted' /\ d \notin accepted
               PROVE  Owed(d) /\ row[d].state # "dead" /\ Pending(d)
    OBVIOUS
  <2>1. PICK a \in attempts : a.dl = d
    BY AcceptedInFlight
  <2> QED
    BY <2>1 DEF OwedInv, DeadInv, NoFlight, Pending, Carried
<1>3. Owed(d) => Owed(d)'
  BY OwedForGood
<1>4. Owed(d)' /\ ~Owed(d) => row'[d].state # "dead" /\ Pending(d)'
  BY OwedForGood DEF Pending
<1>5. row[d].state = "dead" \/ Pending(d) =>
         \/ d \in accepted' \/ row'[d].state = "dead" \/ Pending(d)'
         \/ Withdrawn(d)' \/ ~Unbroken'
  <2> SUFFICES ASSUME row[d].state = "dead" \/ Pending(d), Unbroken'
               PROVE  d \in accepted' \/ Pending(d)' \/ Withdrawn(d)'
    OBVIOUS
  <2>1. Unbroken
    BY UnbrokenBefore
  <2>2. Carried(d) \/ Withdrawn(d)
    BY DEF Pending, Carried, ListedInv
  <2>3. CASE Carried(d)
    BY <2>1, <2>3, CarriedStep DEF Kept, Pending
  <2>4. CASE Withdrawn(d)
    BY <2>4, SettledForGood
  <2> QED
    BY <2>2, <2>3, <2>4
<1>6. Owed(d) /\ row[d].state # "dead" /\ ~Pending(d) =>
         row'[d].state # "dead" /\ ~Pending(d)'
  <2> SUFFICES ASSUME Owed(d), row[d].state # "dead", ~Pending(d)
               PROVE  row'[d].state # "dead" /\ ~Pending(d)'
    OBVIOUS
  <2>1. Untouched(d) /\ ~InHand(d)
    BY DEF Pending, Carried, Untouched, NoFlight, Unlisted, InHand
  <2>2. d[1] \in Messages /\ emit[d[1]] \notin {"new", "blocked", "queued"}
    BY DEF OwedInv, Owed, Deliveries
  <2>3. Untouched(d)' /\ ~InHand(d)'
    BY <2>1, <2>2, LostForGood
  <2> QED
    BY <2>3 DEF Pending, Carried, Untouched, NoFlight, Unlisted, InHand
<1> HIDE DEF IInv, Ownership
<1> QED
  BY <1>1, <1>2, <1>3, <1>4, <1>5, <1>6 DEF PromiseStep, PromiseOf, Owed

LEMMA PromiseInit == Init => Promise!Init
<1> SUFFICES ASSUME Init PROVE Promise!Init
  OBVIOUS
<1>1. ASSUME NEW d \in Deliveries PROVE PromiseOf(d) = "none" /\ ~Withdrawn(d)
  <2>1. d[1] \in Messages /\ d[2] \in Hooks
    BY DEF Deliveries
  <2>2. DeliveryAccount(d) \in Accounts \cup {AnyAccount}
    BY <2>1, DeliveryAssumption DEF DeliveryAccount
  <2> QED
    BY <2>1, <2>2 DEF Init, PromiseOf, Withdrawn
<1>2. ~(crashes > 0 \/ faults > 0 \/ disp \in {"skipped", "aborted"})
  BY DEF Init
<1> QED
  BY <1>1, <1>2 DEF Promise!Init

LEMMA PromiseNext ==
  ASSUME IInv, DoneInv, OwedInv, ListedInv, [Next]_vars
  PROVE  Promise!Next
<1>1. \A d \in Deliveries : PromiseStep(d)
  BY PromiseMoves
<1>2. \A d \in Deliveries : Withdrawn(d) => Withdrawn(d)'
  BY SettledForGood
<1> DEFINE Broken == crashes > 0 \/ faults > 0 \/ disp \in {"skipped", "aborted"}
<1>3. Broken' <=> ~Unbroken'
  <2>1. crashes' \in Nat /\ faults' \in Nat
    BY NextType DEF IInv, TypeOK
  <2> QED
    BY <2>1 DEF Unbroken
<1>4. Broken => Broken'
  <2>1. Broken => ~Unbroken
    BY DEF Unbroken
  <2> QED
    BY <1>3, <2>1, UnbrokenBefore
<1>5. \A d \in Deliveries : PromiseOf(d)' \in Promises
  BY DEF PromiseOf, Promises
<1> QED
  BY <1>1, <1>2, <1>3, <1>4, <1>5
     DEF Promise!Next, Promise!Moves, Promise!Voids, PromiseStep, Promises

\* The dispatcher implements DeliveryPromise (PromiseKept): whatever interleaving
\* of the two goroutines, the API, the sweep, kills and store errors, a promise is
\* kept, dead or revived, and void only when withdrawn or after a breakdown.
THEOREM PromiseImplemented == Spec => PromiseKept
<1>1. Init => DoneInv /\ ListedInv
  BY DEF Init, DoneInv, ListedInv
<1>2. IInv /\ DoneInv /\ ListedInv /\ [Next]_vars => (DoneInv /\ ListedInv)'
  BY DoneStep, ListedStep
<1>3. Spec => [](DoneInv /\ ListedInv)
  BY <1>1, <1>2, OwnershipInvariant, PTL DEF Spec
<1>4. IInv /\ OwedInv /\ DoneInv /\ ListedInv /\ [Next]_vars
         => [Promise!Next]_(Promise!vars)
  BY PromiseNext
<1> QED
  BY <1>3, <1>4, PromiseInit, OwnershipInvariant, OwedInvariant, PTL
     DEF Spec, PromiseKept, Promise!Spec

-----------------------------------------------------------------------------
(***************************************************************************)
(* Eviction.  While no first attempt of the event in hand has failed, its   *)
(* deliveries have no row and no listing, only first attempts are in        *)
(* flight, and each hook it was listed for is still to be reached, being    *)
(* sent to, or has accepted.  FinishEvent waits for the first attempts, so  *)
(* when it evicts, all have accepted; from then on nothing can touch the    *)
(* event's deliveries again.                                                *)
(***************************************************************************)
Clean(d) ==
    /\ row[d].state = "none"
    /\ Unlisted(d)
    /\ \A a \in attempts : a.dl = d => a.by = "fresh"

Reached(d) == d \in accepted \/ ~NoFlight(d)

HandInv ==
    cur.ev # None =>
      /\ cur.matched \subseteq owed[cur.ev]
      /\ ~cur.failed => \A h \in Hooks :
            /\ Clean(<<cur.ev, h>>)
            /\ h \in owed[cur.ev] => h \in cur.todo \/ Reached(<<cur.ev, h>>)

ForwardInv ==
    \A e \in Events : content[e] = "forwarded" =>
        /\ emit[e] = "taken" /\ cur.ev # e
        /\ owed[e] \cap FullHooks # {}
        /\ \A h \in owed[e] : <<e, h>> \in accepted
        /\ \A h \in Hooks : Untouched(<<e, h>>)

\* An event is taken once: its hooks are not listed again.
LEMMA TakenForGood ==
  ASSUME IInv, [Next]_vars, NEW m \in Messages, emit[m] = "taken"
  PROVE  /\ emit'[m] = "taken"
         /\ owed'[m] = owed[m]
         /\ cur'.ev = m => cur.ev = m
<1> USE DEF IInv, dbVars, prodVars, loopVars, retryVars, histVars
<1> DEFINE Goal == emit'[m] = "taken" /\ owed'[m] = owed[m] /\ (cur'.ev = m => cur.ev = m)
<1> SUFFICES Goal
  OBVIOUS
<1>1. ASSUME NEW e \in Events, Emit(e) \/ EmitBlocked(e)
      PROVE  Goal
  BY <1>1 DEF Emit, EmitBlocked, Enqueue, TypeOK
<1>2. CASE TakeEvent
  <2>1. PICK e : e = Head(queue)
    OBVIOUS
  <2>2. e \in Messages /\ emit[e] = "queued"
    <3>1. queue \in Seq(Events) /\ queue # <<>>
      BY <1>2 DEF TakeEvent, TypeOK
    <3>2. 1 \in 1 .. Len(queue) /\ e = queue[1]
      BY <2>1, <3>1
    <3> QED
      BY <3>1, <3>2 DEF Ownership, QueueInv, Messages
  <2>3. emit' = [emit EXCEPT ![e] = "taken"]
    BY <1>2, <2>1 DEF TakeEvent
  <2>4. owed' = owed \/ owed' = [owed EXCEPT ![e] = Listed(e)]
    BY <1>2, <2>1 DEF TakeEvent
  <2>5. cur' = cur \/ cur'.ev = e
    BY <1>2, <2>1 DEF TakeEvent, NoEvent
  <2> QED
    BY <2>2, <2>3, <2>4, <2>5 DEF TypeOK
<1>3. ASSUME NEW h \in Hooks, SendFresh(h)
      PROVE  Goal
  BY <1>3 DEF SendFresh, TypeOK
<1>4. CASE CutShort
  BY <1>4 DEF CutShort, TypeOK
<1>5. CASE FinishEvent
  <2>1. cur'.ev = None /\ m # None
    BY <1>5, DeliveryAssumption DEF FinishEvent, NoEvent, Messages
  <2> QED
    BY <1>5, <2>1 DEF FinishEvent
<1>6. ASSUME NEW a \in attempts, AttemptFailed(a)
      PROVE  Goal
  BY <1>6 DEF AttemptFailed, TypeOK
<1>7. ASSUME NEW t \in Tests, NEW h \in Hooks, SendTest(t, h)
      PROVE  Goal
  BY <1>7 DEF SendTest, TypeOK, Messages
<1>8. CASE Crash \/ Exit
  <2>1. cur'.ev = None /\ m # None
    BY <1>8, DeliveryAssumption DEF Crash, Exit, Restart, NoEvent, Messages
  <2>2. emit'[m] = "taken" /\ owed' = owed
    BY <1>8 DEF Crash, Exit, Restart
  <2> QED
    BY <2>1, <2>2
<1>9. CASE UNCHANGED <<emit, owed, cur>>
  BY <1>9
<1>10. CASE \/ StartDrain \/ DrainDeadline \/ DrainComplete \/ Retry \/ Sweep \/ Cancel
            \/ \E a \in attempts : AttemptAccepted(a)
            \/ UNCHANGED vars
  <2>1. UNCHANGED <<emit, owed, cur>>
    BY <1>10 DEF StartDrain, DrainDeadline, DrainComplete, AttemptAccepted, Retry,
       RetryTick, RetryCheck, RetrySend, RetryStop, Sweep, PurgeDead, Expire,
       Cancel, vars
  <2> QED
    BY <1>9, <2>1
<1>11. CASE Api
  <2>1. (\E t \in Tests, h \in Hooks : SendTest(t, h)) \/ UNCHANGED <<emit, owed, cur>>
    BY <1>11 DEF Api, RedeliverCheck, RedeliverClaim, SetPaused, DeleteWebhook,
       DeleteAccount, SetRetention
  <2> QED
    BY <1>7, <1>9, <2>1
<1> HIDE DEF Goal
<1> QED
  BY <1>1, <1>2, <1>3, <1>4, <1>5, <1>6, <1>8, <1>10, <1>11 DEF Next, Dispatch

\* A clean delivery stays clean, and a reached one reached, until an attempt of
\* it fails or memory is lost.
LEMMA CleanStep ==
  ASSUME IInv, [Next]_vars, NEW d \in Deliveries, d[1] \in Events, Clean(d),
         \A a \in attempts : AttemptFailed(a) => a.dl # d
  PROVE  /\ Clean(d)'
         /\ Reached(d) /\ cur'.ev # None => Reached(d)'
<1> USE DEF IInv, dbVars, prodVars, loopVars, retryVars, histVars
<1>1. row[d].state = "none" /\ \A x \in batch \cup held : x.dl # d
  BY DEF Clean, Unlisted
<1>2. ASSUME row'[d].state = "none",
             \A a \in attempts' : a \in attempts \/ a.dl # d \/ a.by = "fresh",
             \A x \in batch' \cup held' : x \in batch \cup held \/ x.dl # d
      PROVE  Clean(d)'
  BY <1>1, <1>2 DEF Clean, Unlisted
<1>3. ASSUME accepted \subseteq accepted',
             \A a \in attempts : a \in attempts' \/ a.dl # d \/ d \in accepted'
      PROVE  Reached(d) => Reached(d)'
  BY <1>3 DEF Reached, NoFlight
<1> DEFINE Goal == Clean(d)' /\ (Reached(d) /\ cur'.ev # None => Reached(d)')
<1> SUFFICES Goal
  OBVIOUS
<1>4. ASSUME NEW h \in Hooks, SendFresh(h) PROVE Goal
  <2>1. /\ UNCHANGED <<row, batch, held, accepted>>
        /\ attempts' = attempts \cup {[dl |-> <<cur.ev, h>>, by |-> "fresh", n |-> 1]}
    BY <1>4 DEF SendFresh
  <2> QED
    BY <1>1, <1>2, <1>3, <2>1
<1>5. ASSUME NEW a \in attempts, AttemptAccepted(a) PROVE Goal
  <2>1. /\ UNCHANGED <<batch, held>>
        /\ attempts' = attempts \ {a} /\ accepted' = accepted \cup {a.dl}
    BY <1>5 DEF AttemptAccepted
  <2>2. row' = row \/ row' = [row EXCEPT ![a.dl] = NoRow]
    BY <1>5 DEF AttemptAccepted, DeleteDelivery
  <2>3. row'[d].state = "none"
    BY <1>1, <2>2 DEF TypeOK, NoRow
  <2> QED
    BY <1>2, <1>3, <2>1, <2>3
<1>6. ASSUME NEW a \in attempts, AttemptFailed(a) PROVE Goal
  <2>1. /\ UNCHANGED <<batch, held>> /\ accepted \subseteq accepted'
        /\ attempts' = attempts \ {a} /\ a.dl # d
    BY <1>6 DEF AttemptFailed
  <2>2. row'[d] = row[d]
    BY <1>6, <2>1 DEF AttemptFailed, SaveDelivery, TypeOK
  <2> QED
    BY <1>1, <1>2, <1>3, <2>1, <2>2
<1>7. ASSUME NEW D \in SUBSET Due, RetryTick(D) PROVE Goal
  <2>1. UNCHANGED <<row, attempts, held, accepted>>
    BY <1>7 DEF RetryTick
  <2>2. \A x \in batch' : x.dl # d
    BY <1>1, <1>7 DEF RetryTick, Due
  <2> QED
    BY <1>1, <1>2, <1>3, <2>1, <2>2
<1>8. ASSUME NEW x \in batch, RetryCheck(x) PROVE Goal
  <2>1. UNCHANGED <<attempts, accepted>> /\ batch' \subseteq batch
    BY <1>8 DEF RetryCheck
  <2>2. held' = held \/ held' = {[x EXCEPT !.n = @ + 1]}
    BY <1>8, Zenon DEF RetryCheck
  <2>3. [x EXCEPT !.n = @ + 1].dl = x.dl
    BY DEF TypeOK, Listings
  <2>4. row' = row \/ DeleteDelivery(x.dl, TRUE)
    BY <1>8, Zenon DEF RetryCheck
  <2>5. row'[d] = row[d]
    BY <1>1, <2>4 DEF DeleteDelivery, TypeOK
  <2> QED
    BY <1>1, <1>2, <1>3, <2>1, <2>2, <2>3, <2>5
<1>9. ASSUME NEW x \in held, RetrySend(x) PROVE Goal
  <2>1. UNCHANGED <<row, batch, accepted>> /\ held' = {} /\ attempts \subseteq attempts'
    BY <1>9 DEF RetrySend
  <2>2. \A a \in attempts' : a \in attempts \/ a.dl = x.dl
    BY <1>9 DEF RetrySend
  <2> QED
    BY <1>1, <1>2, <1>3, <2>1, <2>2
<1>10. ASSUME NEW t \in Tests, NEW h \in Hooks, SendTest(t, h) PROVE Goal
  <2>1. UNCHANGED <<row, batch, held, accepted>> /\ attempts \subseteq attempts'
    BY <1>10 DEF SendTest
  <2>2. \A a \in attempts' : a \in attempts \/ a.dl = <<t, h>>
    BY <1>10 DEF SendTest
  <2>3. <<t, h>> # d
    BY DeliveryAssumption
  <2> QED
    BY <1>1, <1>2, <1>3, <2>1, <2>2, <2>3
<1>11. ASSUME NEW c \in checked, RedeliverClaim(c) PROVE Goal
  <2>1. UNCHANGED <<batch, held, accepted>> /\ attempts \subseteq attempts'
    BY <1>11 DEF RedeliverClaim
  <2>2. CASE row[c.dl].state = "dead"
    <3>1. c.dl # d
      BY <1>1, <2>2
    <3>2. row'[d] = row[d]
      BY <1>11, <2>2, <3>1 DEF RedeliverClaim, TypeOK
    <3>3. \A a \in attempts' : a \in attempts \/ a.dl = c.dl
      BY <1>11, <2>2 DEF RedeliverClaim
    <3> QED
      BY <1>1, <1>2, <1>3, <2>1, <3>1, <3>2, <3>3
  <2>3. CASE row[c.dl].state # "dead"
    BY <1>1, <1>2, <1>3, <1>11, <2>1, <2>3 DEF RedeliverClaim
  <2> QED
    BY <2>2, <2>3
<1>12. ASSUME \/ \E h \in Hooks : DeleteWebhook(h)
              \/ \E a \in Accounts : DeleteAccount(a)
              \/ \E D \in SUBSET DeadRows : PurgeDead(D)
       PROVE  Goal
  <2>1. UNCHANGED <<attempts, batch, held, accepted>>
    BY <1>12 DEF DeleteWebhook, DeleteAccount, PurgeDead
  <2>2. row'[d].state = "none"
    BY <1>1, <1>12 DEF DeleteWebhook, DeleteAccount, PurgeDead, NoRow
  <2> QED
    BY <1>2, <1>3, <2>1, <2>2
<1>13. CASE Crash \/ Exit
  <2>1. row' = row /\ attempts' = {} /\ batch' = {} /\ held' = {} /\ cur'.ev = None
    BY <1>13 DEF Crash, Exit, Restart, NoEvent
  <2> QED
    BY <1>1, <1>2, <2>1
<1>14. CASE batch' = {} /\ held' = {} /\ UNCHANGED <<row, attempts, accepted>>
  BY <1>1, <1>2, <1>3, <1>14
<1>15. CASE UNCHANGED <<row, attempts, batch, held, accepted>>
  BY <1>1, <1>2, <1>3, <1>15
<1>16. CASE \/ \E e \in Events : Emit(e) \/ EmitBlocked(e) \/ Expire(e)
            \/ TakeEvent \/ CutShort \/ FinishEvent \/ StartDrain \/ DrainDeadline
            \/ DrainComplete \/ Cancel \/ SetRetention \/ UNCHANGED vars
            \/ \E r \in Requests, c \in Deliveries : RedeliverCheck(r, c)
            \/ \E h \in Hooks, p \in BOOLEAN : SetPaused(h, p)
  <2>1. UNCHANGED <<row, attempts, batch, held, accepted>>
    BY <1>16 DEF Emit, EmitBlocked, Expire, TakeEvent, CutShort, FinishEvent,
       StartDrain, DrainDeadline, DrainComplete, Cancel, SetRetention, vars,
       RedeliverCheck, SetPaused
  <2> QED
    BY <1>15, <2>1
<1>17. CASE RetryStop
  BY <1>14, <1>17 DEF RetryStop
<1> HIDE DEF Goal
<1> QED
  BY <1>4, <1>5, <1>6, <1>7, <1>8, <1>9, <1>10, <1>11, <1>12, <1>13, <1>16, <1>17
     DEF Next, Dispatch, Retry, Api, Sweep

LEMMA HandStep == IInv /\ OwedInv /\ HandInv /\ [Next]_vars => HandInv'
<1> SUFFICES ASSUME IInv, OwedInv, HandInv, [Next]_vars, cur'.ev # None
             PROVE  HandInv'
  BY DEF HandInv
<1> PICK e : e = cur'.ev
  OBVIOUS
<1> USE DEF IInv, dbVars, prodVars, loopVars, retryVars, histVars
<1>1. e \in Events /\ e # None /\ e \in Messages
  BY NextType DEF TypeOK, Messages
<1>2. ASSUME cur'.matched \subseteq owed'[e],
             ~cur'.failed => \A h \in Hooks :
                 /\ Clean(<<e, h>>)'
                 /\ h \in owed'[e] => h \in cur'.todo \/ Reached(<<e, h>>)'
      PROVE  HandInv'
  <2>1. ASSUME NEW h \in Hooks PROVE /\ Clean(<<e, h>>)' <=> Clean(<<cur.ev, h>>)'
                                     /\ Reached(<<e, h>>)' <=> Reached(<<cur.ev, h>>)'
    BY DEF Clean, Reached, NoFlight, Unlisted
  <2> QED
    BY <1>2, <2>1 DEF HandInv
\* Listed just now: all its hooks are to be reached.
<1>3. CASE TakeEvent /\ cur' # cur
  <2>1. /\ emit[e] = "queued" /\ cur'.todo = Listed(e) /\ cur'.matched = {}
        /\ owed' = [owed EXCEPT ![e] = Listed(e)]
        /\ UNCHANGED <<row, attempts, batch, held>>
    <3>1. queue \in Seq(Events) /\ queue # <<>>
      BY <1>3 DEF TakeEvent, TypeOK
    <3>2. 1 \in 1 .. Len(queue) /\ Head(queue) = queue[1]
      BY <3>1
    <3>3. emit[Head(queue)] = "queued"
      BY <3>1, <3>2 DEF Ownership, QueueInv
    <3>4. e = Head(queue)
      BY <1>3 DEF TakeEvent, NoEvent
    <3> QED
      BY <1>3, <3>3, <3>4 DEF TakeEvent, NoEvent
  <2>2. owed'[e] = Listed(e)
    BY <1>1, <2>1 DEF TypeOK
  <2>3. ASSUME NEW h \in Hooks PROVE Clean(<<e, h>>)'
    <3>1. Untouched(<<e, h>>)
      BY <1>1, <2>1 DEF Ownership, UnsentInv
    <3> QED
      BY <2>1, <3>1 DEF Untouched, Clean, NoFlight, Unlisted
  <2> QED
    BY <1>2, <2>1, <2>2, <2>3
\* Otherwise it was in hand before.
<1>4. CASE ~(TakeEvent /\ cur' # cur)
  <2>1. cur.ev = e
    <3>1. cur'.ev = cur.ev \/ cur'.ev = None
      <4>1. CASE TakeEvent
        BY <1>4, <4>1
      <4>2. ASSUME NEW h \in Hooks, SendFresh(h) PROVE cur'.ev = cur.ev
        BY <4>2 DEF SendFresh, TypeOK
      <4>3. CASE CutShort
        BY <4>3 DEF CutShort, TypeOK
      <4>4. CASE FinishEvent \/ Crash \/ Exit
        BY <4>4 DEF FinishEvent, Crash, Exit, Restart, NoEvent
      <4>5. ASSUME NEW a \in attempts, AttemptFailed(a) PROVE cur'.ev = cur.ev
        BY <4>5 DEF AttemptFailed, TypeOK
      <4>6. CASE cur' = cur
        BY <4>6
      <4> QED
        BY <4>1, <4>2, <4>3, <4>4, <4>5, <4>6 DEF Next, Emit, EmitBlocked, Dispatch,
           StartDrain, DrainDeadline, DrainComplete, AttemptAccepted, Retry,
           RetryTick, RetryCheck, RetrySend, RetryStop, Api, SendTest,
           RedeliverCheck, RedeliverClaim, SetPaused, DeleteWebhook, DeleteAccount,
           SetRetention, Sweep, PurgeDead, Expire, Cancel, vars
    <3> QED
      BY <3>1
  <2>2. owed'[e] = owed[e]
    <3>1. emit[e] = "taken"
      BY <1>1, <2>1 DEF Ownership, TodoInv
    <3> QED
      BY <1>1, <3>1, TakenForGood
  <2>3. \/ cur'.matched = cur.matched
        \/ \E h \in cur.todo : cur'.matched = cur.matched \cup ({h} \cap FullHooks)
    <3>1. ASSUME NEW h \in Hooks, SendFresh(h)
          PROVE  h \in cur.todo /\ cur'.matched = cur.matched \cup ({h} \cap FullHooks)
      BY <3>1 DEF SendFresh, TypeOK
    <3>2. CASE CutShort
      BY <3>2 DEF CutShort, TypeOK
    <3>3. CASE FinishEvent \/ Crash \/ Exit
      BY <3>3 DEF FinishEvent, Crash, Exit, Restart, NoEvent
    <3>4. ASSUME NEW a \in attempts, AttemptFailed(a) PROVE cur'.matched = cur.matched
      BY <3>4 DEF AttemptFailed, TypeOK
    <3>5. CASE cur' = cur
      BY <3>5
    <3> QED
      BY <1>4, <3>1, <3>2, <3>3, <3>4, <3>5 DEF Next, Emit, EmitBlocked, Dispatch,
         StartDrain, DrainDeadline, DrainComplete, AttemptAccepted, Retry,
         RetryTick, RetryCheck, RetrySend, RetryStop, Api, SendTest,
         RedeliverCheck, RedeliverClaim, SetPaused, DeleteWebhook, DeleteAccount,
         SetRetention, Sweep, PurgeDead, Expire, Cancel, vars
  <2>4. cur'.matched \subseteq owed'[e]
    BY <1>1, <2>1, <2>2, <2>3 DEF HandInv, OwedInv
  <2>5. ASSUME ~cur'.failed, NEW h \in Hooks
        PROVE  /\ Clean(<<e, h>>)'
               /\ h \in owed'[e] => h \in cur'.todo \/ Reached(<<e, h>>)'
    <3>1. /\ ~cur.failed
          /\ \A a \in attempts : AttemptFailed(a) => a.by # "fresh"
          /\ h \in cur.todo => h \in cur'.todo \/ SendFresh(h)
      <4>1. ASSUME NEW g \in Hooks, SendFresh(g)
            PROVE  cur'.failed = cur.failed /\ cur'.todo = cur.todo \ {g}
        BY <4>1 DEF SendFresh, TypeOK
      <4>2. ~CutShort
        BY <2>5 DEF CutShort, TypeOK
      <4>3. ~FinishEvent /\ ~Crash /\ ~Exit
        BY <1>1 DEF FinishEvent, Crash, Exit, Restart, NoEvent
      <4>4. ASSUME NEW a \in attempts, AttemptFailed(a)
            PROVE  a.by # "fresh" /\ cur' = cur
        BY <2>5, <4>4 DEF AttemptFailed, TypeOK
      <4>5. cur' = cur \/ \E g \in Hooks : SendFresh(g)
        BY <1>4, <4>2, <4>3, <4>4 DEF Next, Emit, EmitBlocked, Dispatch,
           StartDrain, DrainDeadline, DrainComplete, AttemptAccepted, Retry,
           RetryTick, RetryCheck, RetrySend, RetryStop, Api, SendTest,
           RedeliverCheck, RedeliverClaim, SetPaused, DeleteWebhook, DeleteAccount,
           SetRetention, Sweep, PurgeDead, Expire, Cancel, vars
      <4> QED
        BY <2>5, <4>1, <4>4, <4>5
    <3> DEFINE d == <<e, h>>
    <3>2. d \in Deliveries /\ d[1] \in Events
      BY <1>1 DEF Deliveries
    <3>3. Clean(d) /\ (h \in owed[e] => h \in cur.todo \/ Reached(d))
      BY <1>1, <2>1, <3>1 DEF HandInv
    <3>4. \A a \in attempts : AttemptFailed(a) => a.dl # d
      BY <3>1, <3>3 DEF Clean
    <3>5. SendFresh(h) => Reached(d)'
      <4> DEFINE a == [dl |-> <<e, h>>, by |-> "fresh", n |-> 1]
      <4>1. SendFresh(h) => a \in attempts'
        BY <2>1 DEF SendFresh
      <4>2. a.dl = d
        OBVIOUS
      <4> HIDE DEF a, d
      <4> QED
        BY <4>1, <4>2 DEF Reached, NoFlight
    <3> HIDE DEF d
    <3>6. Clean(d)' /\ (Reached(d) => Reached(d)')
      BY <3>2, <3>3, <3>4, CleanStep
    <3>7. h \in owed'[e] => h \in cur'.todo \/ Reached(d)'
      BY <2>2, <3>1, <3>3, <3>5, <3>6
    <3> QED
      BY <3>6, <3>7 DEF d
  <2> QED
    BY <1>2, <2>4, <2>5
<1> QED
  BY <1>3, <1>4

\* An event's content is blanked when its last first attempt has been accepted.
LEMMA ForwardStep ==
  IInv /\ OwedInv /\ HandInv /\ ForwardInv /\ [Next]_vars => ForwardInv'
<1> SUFFICES ASSUME IInv, OwedInv, HandInv, ForwardInv, [Next]_vars,
                    NEW e \in Events, content'[e] = "forwarded"
             PROVE  /\ emit'[e] = "taken" /\ cur'.ev # e
                    /\ owed'[e] \cap FullHooks # {}
                    /\ \A h \in owed'[e] : <<e, h>> \in accepted'
                    /\ \A h \in Hooks : Untouched(<<e, h>>)'
  BY DEF ForwardInv
<1> USE DEF IInv
<1>1. e \in Messages /\ e # None
  BY DeliveryAssumption DEF Messages
<1>2. CASE content[e] = "forwarded"
  <2>1. /\ emit[e] = "taken" /\ cur.ev # e
        /\ owed[e] \cap FullHooks # {}
        /\ \A h \in owed[e] : <<e, h>> \in accepted
        /\ \A h \in Hooks : Untouched(<<e, h>>)
    BY <1>2 DEF ForwardInv
  <2>2. emit'[e] = "taken" /\ owed'[e] = owed[e] /\ cur'.ev # e
    BY <1>1, <2>1, TakenForGood
  <2>3. ASSUME NEW h \in owed[e] PROVE <<e, h>> \in accepted'
    <3>1. <<e, h>> \in Deliveries
      BY <1>1 DEF TypeOK, Deliveries
    <3> QED
      BY <2>1, <3>1, SettledForGood
  <2>4. ASSUME NEW h \in Hooks PROVE Untouched(<<e, h>>)'
    <3> DEFINE d == <<e, h>>
    <3>1. d \in Deliveries /\ d[1] = e /\ Untouched(d)
      BY <1>1, <2>1 DEF Deliveries
    <3>2. ~InHand(d)
      BY <2>1, <3>1 DEF InHand
    <3>3. emit[d[1]] \notin {"new", "blocked", "queued"}
      BY <2>1, <3>1
    <3> HIDE DEF d
    <3>4. Untouched(d)'
      BY <3>1, <3>2, <3>3, LostForGood
    <3> QED
      BY <3>4 DEF d
  <2> QED
    BY <2>1, <2>2, <2>3, <2>4
<1>3. CASE content[e] # "forwarded"
  <2>1. FinishEvent /\ e = cur.ev /\ cur.matched # {} /\ ~cur.failed
    <3>1. ASSUME NEW a \in Accounts, DeleteAccount(a) PROVE FALSE
      BY <1>3, <3>1 DEF DeleteAccount
    <3>2. ASSUME NEW f \in Events, Expire(f) PROVE FALSE
      BY <1>3, <3>2 DEF Expire, TypeOK
    <3>3. content' # content
      BY <1>3
    <3>4. FinishEvent
      BY <3>1, <3>2, <3>3 DEF Next, Emit, EmitBlocked, Dispatch, TakeEvent, CutShort,
         StartDrain, DrainDeadline, DrainComplete, SendFresh, AttemptAccepted,
         AttemptFailed, Retry, RetryTick, RetryCheck, RetrySend, RetryStop, Api,
         SendTest, RedeliverCheck, RedeliverClaim, SetPaused, DeleteWebhook,
         SetRetention, Sweep, PurgeDead, Cancel, Crash, Exit, Restart, vars, dbVars
    <3> QED
      BY <1>3, <3>3, <3>4 DEF FinishEvent, EvictDelivered, TypeOK
  <2>2. /\ cur.todo = {} /\ By("fresh") = {} /\ cur'.ev = None
        /\ UNCHANGED <<row, emit, owed, attempts, batch, held, accepted>>
    BY <2>1 DEF FinishEvent, NoEvent, prodVars, retryVars, histVars
  <2>3. emit[e] = "taken"
    BY <1>1, <2>1 DEF Ownership, TodoInv
  <2>4. owed[e] \cap FullHooks # {}
    BY <1>1, <2>1 DEF HandInv, TypeOK
  <2>5. ASSUME NEW h \in Hooks PROVE Untouched(<<e, h>>)
    BY <1>1, <2>1, <2>2 DEF HandInv, Clean, Untouched, NoFlight, By
  <2>6. ASSUME NEW h \in owed[e] PROVE <<e, h>> \in accepted
    <3>1. h \in Hooks
      BY <1>1 DEF TypeOK
    <3>2. Reached(<<e, h>>)
      BY <1>1, <2>1, <2>2, <3>1 DEF HandInv
    <3> QED
      BY <2>5, <3>1, <3>2 DEF Reached, Untouched
  <2>7. ASSUME NEW h \in Hooks PROVE Untouched(<<e, h>>)'
    BY <2>2, <2>5 DEF Untouched, NoFlight, Unlisted
  <2> QED
    BY <1>1, <2>2, <2>3, <2>4, <2>6, <2>7
<1> QED
  BY <1>2, <1>3

\* Content evicted on delivery (EvictedOnlyWhenForwarded) is with every hook the
\* event was listed for: deliver's wait comes before evictDelivered, and a failed
\* first attempt cancels it.
THEOREM NothingEvictedEarly == Spec => []EvictedOnlyWhenForwarded
<1>1. Init => HandInv /\ ForwardInv
  BY DEF Init, HandInv, ForwardInv, NoEvent
<1>2. IInv /\ OwedInv /\ HandInv /\ ForwardInv /\ [Next]_vars => (HandInv /\ ForwardInv)'
  BY HandStep, ForwardStep
<1>3. ForwardInv => EvictedOnlyWhenForwarded
  BY DEF ForwardInv, EvictedOnlyWhenForwarded, Untouched
<1> QED
  BY <1>1, <1>2, <1>3, OwnershipInvariant, OwedInvariant, PTL DEF Spec
=============================================================================
