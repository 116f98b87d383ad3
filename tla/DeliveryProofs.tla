--------------------------- MODULE DeliveryProofs ---------------------------
(***************************************************************************)
(* Theorems about Delivery, for every value of its constants: its types are *)
(* preserved, at most one POST of a delivery is in flight, first attempts   *)
(* are made one event at a time, no row leaves the table without a reason,  *)
(* and the retry schedule is used up exactly.                               *)
(*                                                                          *)
(* SingleFlight is not inductive: that an attempt may start depends on who  *)
(* else holds the delivery.  IInv says who can: a delivery that was not     *)
(* sent yet has no row, no attempt and no place in a retry tick; a first    *)
(* attempt has no row; a listed one has no attempt and is not dead; a dead  *)
(* one has no attempt.                                                      *)
(***************************************************************************)
EXTENDS Delivery, TLAPS

NoFlight(d) == \A a \in attempts : a.dl # d
Unlisted(d) == \A x \in batch \cup held : x.dl # d
Untouched(d) == row[d].state = "none" /\ NoFlight(d) /\ Unlisted(d)

\* The queue holds each waiting event once.
QueueInv ==
    /\ \A i \in 1 .. Len(queue) : emit[queue[i]] = "queued"
    /\ \A i, j \in 1 .. Len(queue) : queue[i] = queue[j] => i = j

\* What has not been listed for its hooks yet has left no trace.
UnsentInv ==
    \A m \in Messages : emit[m] \in {"new", "blocked", "queued"} =>
        \A h \in Hooks : Untouched(<<m, h>>)

\* The event in hand is no longer waiting, and a hook its fan-out has not
\* reached has no trace of it either.
TodoInv ==
    /\ cur.ev # None => emit[cur.ev] = "taken"
    /\ \A h \in cur.todo : cur.ev # None /\ Untouched(<<cur.ev, h>>)

\* A row is first written when the first attempt fails.
FirstInv == \A a \in attempts : a.by \in {"fresh", "test"} => row[a.dl].state = "none"

\* A listed delivery is listed once, is not in flight and is not dead.
ListInv ==
    /\ \A x \in batch \cup held : NoFlight(x.dl) /\ row[x.dl].state # "dead"
    /\ \A x, y \in batch : x.dl = y.dl => x = y
    /\ \A x \in held : \A y \in batch : x.dl # y.dl
    /\ \A x, y \in held : x = y

\* A dead delivery is not in flight.
DeadInv == \A d \in Deliveries : row[d].state = "dead" => NoFlight(d)

Ownership ==
    /\ QueueInv
    /\ UnsentInv
    /\ TodoInv
    /\ FirstInv
    /\ ListInv
    /\ DeadInv
    /\ SingleFlight
    /\ OneEventAtATime

IInv == TypeOK /\ Ownership

-----------------------------------------------------------------------------
(***************************************************************************)
(* Type correctness.                                                        *)
(***************************************************************************)
LEMMA ScheduledType ==
  ASSUME NEW n \in Nat
  PROVE  Scheduled(n) \in Rows
BY DeliveryAssumption DEF Scheduled, Rows

LEMMA NoEventType ==
  NoEvent \in [ev : Events \cup {None}, todo : SUBSET Hooks,
               matched : SUBSET FullHooks, failed : BOOLEAN]
BY DEF NoEvent

\* What a store call may do to the fault budget and to the table.
LEMMA StoreCallType ==
  ASSUME TypeOK, NEW up \in StoreAnswers, StoreCall(up)
  PROVE  faults' \in Nat
BY DEF TypeOK, StoreCall, StoreAnswers

LEMMA SaveDeliveryType ==
  ASSUME TypeOK, NEW d \in Deliveries, NEW r \in Rows, NEW up, SaveDelivery(d, r, up)
  PROVE  row' \in [Deliveries -> Rows]
BY DEF TypeOK, SaveDelivery

LEMMA DeleteDeliveryType ==
  ASSUME TypeOK, NEW d \in Deliveries, NEW up, DeleteDelivery(d, up)
  PROVE  row' \in [Deliveries -> Rows]
BY DEF TypeOK, DeleteDelivery, NoRow, Rows

LEMMA InitType == Init => TypeOK
<1> SUFFICES ASSUME Init PROVE TypeOK
  OBVIOUS
<1>1. row \in [Deliveries -> Rows]
  BY DEF Init, Rows, NoRow
<1>2. queue \in Seq(Events)
  BY DEF Init
<1>3. emit \in [Messages -> {"new", "blocked", "queued", "taken", "dropped", "lost"}]
  BY DEF Init
<1> QED
  BY <1>1, <1>2, <1>3, NoEventType DEF Init, TypeOK

LEMMA NextType == TypeOK /\ [Next]_vars => TypeOK'
<1> USE DEF dbVars, prodVars, loopVars, retryVars, histVars
<1> SUFFICES ASSUME TypeOK, [Next]_vars PROVE TypeOK'
  OBVIOUS
<1>1. ASSUME NEW e \in Events, Emit(e) PROVE TypeOK'
  <2>1. queue' \in Seq(Events)
    <3>1. queue' = queue \/ queue' = Append(queue, e)
      BY <1>1 DEF Emit, Enqueue
    <3> QED
      BY <3>1 DEF TypeOK
  <2>2. emit' \in [Messages -> {"new", "blocked", "queued", "taken", "dropped", "lost"}]
    <3>1. emit' = [emit EXCEPT ![e] = "queued"] \/ emit' = [emit EXCEPT ![e] = "blocked"]
      BY <1>1 DEF Emit, Enqueue
    <3> QED
      BY <3>1 DEF TypeOK
  <2> QED
    BY <1>1, <2>1, <2>2 DEF Emit, TypeOK
<1>2. ASSUME NEW e \in Events, EmitBlocked(e) PROVE TypeOK'
  <2>1. queue' \in Seq(Events)
    <3>1. queue' = queue \/ queue' = Append(queue, e)
      BY <1>2 DEF EmitBlocked, Enqueue
    <3> QED
      BY <3>1 DEF TypeOK
  <2>2. emit' \in [Messages -> {"new", "blocked", "queued", "taken", "dropped", "lost"}]
    <3>1. emit' = [emit EXCEPT ![e] = "queued"] \/ emit' = [emit EXCEPT ![e] = "dropped"]
      BY <1>2 DEF EmitBlocked, Enqueue
    <3> QED
      BY <3>1 DEF TypeOK
  <2> QED
    BY <1>2, <2>1, <2>2 DEF EmitBlocked, TypeOK
<1>3. CASE TakeEvent
  <2>1. queue \in Seq(Events) /\ queue # <<>>
    BY <1>3 DEF TakeEvent, TypeOK
  <2>2. Head(queue) \in Events /\ Tail(queue) \in Seq(Events)
    BY <2>1
  <2>3. Listed(Head(queue)) \in SUBSET Hooks
    BY DEF Listed
  <2>4. faults' \in Nat
    BY <1>3, StoreCallType DEF TakeEvent
  <2>5. cur' \in [ev : Events \cup {None}, todo : SUBSET Hooks,
                  matched : SUBSET FullHooks, failed : BOOLEAN]
    BY <1>3, <2>2, <2>3, NoEventType DEF TakeEvent, TypeOK, NoEvent
  <2>6. owed' \in [Messages -> SUBSET Hooks]
    BY <1>3, <2>2, <2>3 DEF TakeEvent, TypeOK, Messages
  <2> QED
    BY <1>3, <2>2, <2>4, <2>5, <2>6 DEF TakeEvent, TypeOK, Messages
<1>4. ASSUME NEW h \in Hooks, SendFresh(h) PROVE TypeOK'
  <2>1. [dl |-> <<cur.ev, h>>, by |-> "fresh", n |-> 1] \in Attempts
    BY <1>4 DEF SendFresh, TypeOK, Attempts, Deliveries, Messages, Sources
  <2>2. cur' \in [ev : Events \cup {None}, todo : SUBSET Hooks,
                  matched : SUBSET FullHooks, failed : BOOLEAN]
    BY <1>4 DEF SendFresh, TypeOK
  <2> QED
    BY <1>4, <2>1, <2>2 DEF SendFresh, TypeOK
<1>5. CASE CutShort
  BY <1>5 DEF CutShort, TypeOK
<1>6. CASE FinishEvent
  <2>1. faults' \in Nat
    BY <1>6, StoreCallType DEF FinishEvent, TypeOK
  <2>2. content' \in [Events -> {"kept", "forwarded", "expired", "deleted"}]
    BY <1>6 DEF FinishEvent, TypeOK, EvictDelivered
  <2> QED
    BY <1>6, <2>1, <2>2, NoEventType DEF FinishEvent, TypeOK
<1>7. CASE Cancel \/ StartDrain \/ DrainDeadline \/ DrainComplete
  BY <1>7 DEF Cancel, StartDrain, DrainDeadline, DrainComplete, TypeOK
<1>8. ASSUME NEW a \in attempts, AttemptAccepted(a) PROVE TypeOK'
  <2>1. a \in Attempts /\ a.dl \in Deliveries
    BY DEF TypeOK, Attempts
  <2>2. row' \in [Deliveries -> Rows] /\ faults' \in Nat
    BY <1>8, <2>1, StoreCallType, DeleteDeliveryType DEF AttemptAccepted, TypeOK
  <2> QED
    BY <1>8, <2>1, <2>2 DEF AttemptAccepted, TypeOK
<1>9. ASSUME NEW a \in attempts, AttemptFailed(a) PROVE TypeOK'
  <2>1. a \in Attempts /\ a.dl \in Deliveries /\ a.n \in Nat
    BY DEF TypeOK, Attempts
  <2>2. row' \in [Deliveries -> Rows] /\ faults' \in Nat
    BY <1>9, <2>1, StoreCallType, SaveDeliveryType, ScheduledType DEF AttemptFailed
  <2>3. cur' \in [ev : Events \cup {None}, todo : SUBSET Hooks,
                  matched : SUBSET FullHooks, failed : BOOLEAN]
    BY <1>9 DEF AttemptFailed, TypeOK
  <2> QED
    BY <1>9, <2>1, <2>2, <2>3 DEF AttemptFailed, TypeOK
<1>10. ASSUME NEW D \in SUBSET Due, RetryTick(D) PROVE TypeOK'
  <2>1. \A d \in D : d \in Deliveries /\ row[d].tries \in Nat
    BY DEF Due, TypeOK, Rows
  <2>2. batch' \subseteq Listings
    BY <1>10, <2>1 DEF RetryTick, Listings
  <2> QED
    BY <1>10, <2>2 DEF RetryTick, TypeOK
<1>11. ASSUME NEW x \in batch, RetryCheck(x) PROVE TypeOK'
  <2>1. x \in Listings /\ x.dl \in Deliveries /\ x.n \in Nat
    BY DEF TypeOK, Listings
  <2>2. row' \in [Deliveries -> Rows] /\ faults' \in Nat
    BY <1>11, <2>1, StoreCallType, DeleteDeliveryType DEF RetryCheck, TypeOK
  <2>3. held' \subseteq Listings
    <3>1. [x EXCEPT !.n = @ + 1] \in Listings
      BY <2>1 DEF Listings
    <3>2. held' = held \/ held' = {[x EXCEPT !.n = @ + 1]}
      BY <1>11, Zenon DEF RetryCheck
    <3> QED
      BY <3>1, <3>2 DEF TypeOK
  <2> QED
    BY <1>11, <2>2, <2>3 DEF RetryCheck, TypeOK
<1>12. ASSUME NEW x \in held, RetrySend(x) PROVE TypeOK'
  <2>1. [dl |-> x.dl, by |-> "retry", n |-> x.n] \in Attempts
    BY DEF TypeOK, Listings, Attempts, Sources
  <2> QED
    BY <1>12, <2>1 DEF RetrySend, TypeOK
<1>13. CASE RetryStop
  BY <1>13 DEF RetryStop, TypeOK
<1>14. ASSUME NEW t \in Tests, NEW h \in Hooks, SendTest(t, h) PROVE TypeOK'
  <2>1. [dl |-> <<t, h>>, by |-> "test", n |-> 1] \in Attempts
    BY DEF Attempts, Deliveries, Messages, Sources
  <2> QED
    BY <1>14, <2>1 DEF SendTest, TypeOK, Messages
<1>15. ASSUME NEW r \in Requests, NEW d \in Deliveries, RedeliverCheck(r, d)
       PROVE  TypeOK'
  BY <1>15 DEF RedeliverCheck, TypeOK
<1>16. ASSUME NEW c \in checked, RedeliverClaim(c) PROVE TypeOK'
  <2>1. c.dl \in Deliveries /\ c.by \in Requests
    BY DEF TypeOK
  <2>2. [dl |-> c.dl, by |-> c.by, n |-> 1] \in Attempts
    BY <2>1 DEF Attempts, Sources
  <2>3. row' \in [Deliveries -> Rows]
    <3>1. row \in [Deliveries -> Rows] /\ row[c.dl] \in Rows
      BY <2>1 DEF TypeOK
    <3>2. [row[c.dl] EXCEPT !.state = "live"] \in Rows
      BY <3>1 DEF Rows
    <3>3. row' = row \/ row' = [row EXCEPT ![c.dl] = [row[c.dl] EXCEPT !.state = "live"]]
      BY <1>16, <3>1 DEF RedeliverClaim, Rows
    <3> QED
      BY <3>1, <3>2, <3>3
  <2> QED
    BY <1>16, <2>2, <2>3 DEF RedeliverClaim, TypeOK
<1>17. ASSUME NEW h \in Hooks, NEW p \in BOOLEAN, SetPaused(h, p) PROVE TypeOK'
  BY <1>17 DEF SetPaused, TypeOK
<1>18. ASSUME NEW h \in Hooks, DeleteWebhook(h) PROVE TypeOK'
  BY <1>18 DEF DeleteWebhook, TypeOK, NoRow, Rows
<1>19. ASSUME NEW a \in Accounts, DeleteAccount(a) PROVE TypeOK'
  <2>1. hook' \in [Hooks -> {"on", "paused", "gone"}]
    BY <1>19 DEF DeleteAccount, TypeOK
  <2>2. row' \in [Deliveries -> Rows]
    BY <1>19 DEF DeleteAccount, TypeOK, NoRow, Rows
  <2>3. content' \in [Events -> {"kept", "forwarded", "expired", "deleted"}]
    BY <1>19 DEF DeleteAccount, TypeOK
  <2> QED
    BY <1>19, <2>1, <2>2, <2>3 DEF DeleteAccount, TypeOK
<1>20. CASE SetRetention
  BY <1>20 DEF SetRetention, TypeOK
<1>21. ASSUME NEW D \in SUBSET DeadRows, PurgeDead(D) PROVE TypeOK'
  BY <1>21 DEF PurgeDead, DeadRows, TypeOK, NoRow, Rows
<1>22. ASSUME NEW e \in Events, Expire(e) PROVE TypeOK'
  BY <1>22 DEF Expire, TypeOK
<1>23. CASE Crash \/ Exit
  <2>1. emit' \in [Messages -> {"new", "blocked", "queued", "taken", "dropped", "lost"}]
    BY <1>23 DEF Crash, Exit, Restart, TypeOK
  <2>2. accepted' \subseteq Deliveries /\ crashes' \in Nat
    BY <1>23 DEF Crash, Exit, TypeOK, Attempts
  <2>3. Restart
    BY <1>23 DEF Crash, Exit
  <2>4. queue' \in Seq(Events)
    BY <2>3 DEF Restart
  <2>5. cur' \in [ev : Events \cup {None}, todo : SUBSET Hooks,
                  matched : SUBSET FullHooks, failed : BOOLEAN]
    BY <2>3, NoEventType DEF Restart
  <2>6. /\ UNCHANGED <<hook, accounts, retains, content, row, owed, purged, faults>>
        /\ attempts' = {} /\ batch' = {} /\ held' = {} /\ checked' = {}
        /\ disp' = "loop" /\ stopping' = FALSE
    BY <2>3 DEF Restart
  <2> QED
    BY <2>1, <2>2, <2>4, <2>5, <2>6 DEF TypeOK
<1>24. CASE UNCHANGED vars
  BY <1>24 DEF vars, TypeOK
<1> QED
  BY <1>1, <1>2, <1>3, <1>4, <1>5, <1>6, <1>7, <1>8, <1>9, <1>10, <1>11, <1>12,
     <1>13, <1>14, <1>15, <1>16, <1>17, <1>18, <1>19, <1>20, <1>21, <1>22,
     <1>23, <1>24 DEF Next, Dispatch, Retry, Api, Sweep

\* The state keeps its types (TypeOK).
THEOREM TypeCorrect == Spec => []TypeOK
BY InitType, NextType, PTL DEF Spec

-----------------------------------------------------------------------------
(***************************************************************************)
(* Who owns a delivery.                                                     *)
(***************************************************************************)
LEMMA InitOwnership == Init => Ownership
<1> SUFFICES ASSUME Init PROVE Ownership
  OBVIOUS
<1>1. \A d \in Deliveries : row[d] = NoRow
  BY DEF Init
<1>2. UnsentInv
  BY <1>1 DEF Init, UnsentInv, Untouched, NoFlight, Unlisted, NoRow, Deliveries
<1>3. DeadInv
  BY <1>1 DEF DeadInv, NoRow
<1> QED
  BY <1>2, <1>3 DEF Init, Ownership, QueueInv, TodoInv, FirstInv, ListInv,
     SingleFlight, OneEventAtATime, By, NoEvent

\* A step that ends attempts, clears rows or drops listings, and starts nothing.
LEMMA QuietStep ==
  ASSUME IInv,
         UNCHANGED <<emit, queue>>,
         cur'.ev = cur.ev,
         cur'.todo \subseteq cur.todo,
         \A d \in Deliveries : row'[d] = row[d] \/ row'[d].state = "none",
         attempts' \subseteq attempts,
         batch' \subseteq batch,
         held' \subseteq held
  PROVE  Ownership'
<1> USE DEF IInv, Ownership
<1>1. QueueInv'
  BY DEF QueueInv
<1>2. \A d \in Deliveries : Untouched(d) => Untouched(d)'
  BY DEF Untouched, NoFlight, Unlisted
<1>3. UnsentInv'
  BY <1>2 DEF UnsentInv, Deliveries
<1>4. TodoInv'
  <2>1. \A h \in cur.todo : <<cur.ev, h>> \in Deliveries
    BY DEF TodoInv, TypeOK, Deliveries, Messages
  <2> QED
    BY <1>2, <2>1 DEF TodoInv
<1>5. \A a \in attempts : a.dl \in Deliveries
  BY DEF TypeOK, Attempts
<1>6. \A x \in batch \cup held : x.dl \in Deliveries
  BY DEF TypeOK, Listings
<1>7. FirstInv'
  BY <1>5 DEF FirstInv
<1>8. ListInv'
  BY <1>6 DEF ListInv, NoFlight
<1>9. DeadInv'
  BY DEF DeadInv, NoFlight
<1>10. SingleFlight' /\ OneEventAtATime'
  BY DEF SingleFlight, OneEventAtATime, By
<1> QED
  BY <1>1, <1>3, <1>4, <1>7, <1>8, <1>9, <1>10


\* A step that starts one attempt of a delivery nobody holds.
LEMMA StartStep ==
  ASSUME IInv, NEW d \in Deliveries, NEW a \in Attempts,
         a.dl = d,
         NoFlight(d), \A x \in batch' \cup held' : x.dl # d,
         row[d].state # "none" => a.by \notin {"fresh", "test"},
         row'[d].state # "dead",
         \A c \in Deliveries \ {d} : row'[c] = row[c],
         a.by \in {"fresh", "test"} => row'[d].state = "none",
         attempts' = attempts \cup {a},
         batch' \subseteq batch,
         held' \subseteq held
  PROVE  FirstInv' /\ ListInv' /\ DeadInv' /\ SingleFlight'
<1> USE DEF IInv, Ownership
<1>1. \A b \in attempts : b.dl \in Deliveries \ {d}
  BY DEF TypeOK, Attempts, NoFlight
<1>2. \A x \in batch' \cup held' : x.dl \in Deliveries \ {d}
  BY DEF TypeOK, Listings
<1>3. FirstInv'
  BY <1>1 DEF FirstInv
<1>4. ListInv'
  BY <1>2 DEF ListInv, NoFlight
<1>5. DeadInv'
  BY DEF DeadInv, NoFlight
<1>6. SingleFlight'
  BY <1>1 DEF SingleFlight
<1> QED
  BY <1>3, <1>4, <1>5, <1>6

\* What nobody has touched stays so, when only deliveries outside it move.
LEMMA UntouchedStep ==
  ASSUME IInv, NEW d \in Deliveries, Untouched(d),
         row'[d] = row[d],
         \A a \in attempts' \ attempts : a.dl # d,
         \A x \in (batch' \cup held') \ (batch \cup held) : x.dl # d
  PROVE  Untouched(d)'
BY DEF Untouched, NoFlight, Unlisted


LEMMA EmitOwnership ==
  ASSUME IInv, NEW e \in Events, Emit(e) \/ EmitBlocked(e)
  PROVE  Ownership'
<1> USE DEF IInv, Ownership
<1>1. UNCHANGED <<row, attempts, batch, held, cur>>
  BY DEF Emit, EmitBlocked, loopVars, retryVars
<1>2. emit[e] \in {"new", "blocked"} /\ e \in Messages
  BY DEF Emit, EmitBlocked, Messages
<1>3. \/ Enqueue(e)
      \/ queue' = queue /\ emit' \in {[emit EXCEPT ![e] = "blocked"],
                                      [emit EXCEPT ![e] = "dropped"]}
  BY DEF Emit, EmitBlocked
<1>4. \A m \in Messages \ {e} : emit'[m] = emit[m]
  BY <1>3 DEF Enqueue, TypeOK
<1>5. \A i \in 1 .. Len(queue) : queue[i] \in Messages \ {e}
  BY <1>2 DEF QueueInv, TypeOK, Messages
<1>6. QueueInv'
  <2>1. CASE Enqueue(e)
    <3>1. queue' = Append(queue, e) /\ emit'[e] = "queued"
      BY <2>1, <1>2 DEF Enqueue, TypeOK
    <3>2. queue \in Seq(Events) /\ Len(queue') = Len(queue) + 1
      BY <3>1 DEF TypeOK
    <3>3. \A i \in 1 .. Len(queue) : queue'[i] = queue[i]
      BY <3>1, <3>2
    <3>4. queue'[Len(queue')] = e
      BY <3>1, <3>2
    <3>5. \A i \in 1 .. Len(queue') : i = Len(queue') \/ i \in 1 .. Len(queue)
      BY <3>2
    <3>6. \A i \in 1 .. Len(queue') : emit'[queue'[i]] = "queued"
      BY <3>1, <3>3, <3>4, <3>5, <1>4, <1>5 DEF QueueInv
    <3> QED
      BY <3>3, <3>4, <3>5, <3>6, <1>5 DEF QueueInv
  <2>2. CASE queue' = queue
    BY <2>2, <1>4, <1>5 DEF QueueInv
  <2> QED
    BY <1>3, <2>1, <2>2
<1>7. UnsentInv'
  BY <1>1, <1>2, <1>4 DEF UnsentInv, Untouched, NoFlight, Unlisted
<1>8. TodoInv'
  <2>1. cur.ev # None => emit'[cur.ev] = "taken"
    BY <1>2, <1>4 DEF TodoInv, TypeOK, Messages
  <2>2. \A h \in cur.todo : Untouched(<<cur.ev, h>>) => Untouched(<<cur.ev, h>>)'
    BY <1>1 DEF Untouched, NoFlight, Unlisted
  <2> QED
    BY <1>1, <2>1, <2>2 DEF TodoInv
<1> QED
  BY <1>1, <1>6, <1>7, <1>8 DEF FirstInv, ListInv, DeadInv, SingleFlight,
     OneEventAtATime, By, NoFlight

LEMMA TakeEventOwnership ==
  ASSUME IInv, TakeEvent
  PROVE  Ownership'
<1> USE DEF IInv, Ownership
<1> PICK e : e = Head(queue)
  OBVIOUS
<1>1. UNCHANGED <<row, attempts, batch, held>>
  BY DEF TakeEvent, retryVars
<1>2. /\ queue \in Seq(Events) /\ queue # <<>>
      /\ queue' = Tail(queue) /\ emit' = [emit EXCEPT ![e] = "taken"]
  BY DEF TakeEvent, TypeOK
<1>3. 1 \in 1 .. Len(queue) /\ e = queue[1] /\ e \in Events
  BY <1>2
<1>4. emit[e] = "queued" /\ e \in Messages
  BY <1>3 DEF QueueInv, Messages
<1>5. \A m \in Messages \ {e} : emit'[m] = emit[m]
  BY <1>2 DEF TypeOK
<1>6. emit'[e] = "taken"
  BY <1>2, <1>4 DEF TypeOK
<1>7. \A i \in 1 .. Len(queue') : /\ i + 1 \in 1 .. Len(queue)
                                  /\ queue'[i] = queue[i + 1]
                                  /\ queue'[i] \in Messages \ {e}
  <2> SUFFICES ASSUME NEW i \in 1 .. Len(queue')
               PROVE  /\ i + 1 \in 1 .. Len(queue)
                      /\ queue'[i] = queue[i + 1]
                      /\ queue'[i] \in Messages \ {e}
    OBVIOUS
  <2>1. i + 1 \in 1 .. Len(queue) /\ queue'[i] = queue[i + 1]
    BY <1>2
  <2>2. queue[i + 1] \in Events /\ i + 1 # 1
    BY <2>1, <1>2
  <2> QED
    BY <2>1, <2>2, <1>3 DEF QueueInv, Messages
<1>8. QueueInv'
  BY <1>5, <1>7 DEF QueueInv
<1>9. UnsentInv'
  BY <1>1, <1>5, <1>6 DEF UnsentInv, Untouched, NoFlight, Unlisted
<1>10. By("fresh") = {}
  <2>1. cur.ev = None
    BY DEF TakeEvent, NoEvent
  <2>2. \A a \in attempts : a.dl[1] \in Messages
    BY DEF TypeOK, Attempts, Deliveries
  <2> QED
    BY <2>1, <2>2, DeliveryAssumption DEF OneEventAtATime, By, Messages
<1>11. \/ cur' = NoEvent
       \/ cur'.ev = e /\ cur'.todo \subseteq Hooks
  BY DEF TakeEvent, NoEvent, Listed
<1>12. TodoInv'
  <2>1. \A h \in Hooks : Untouched(<<e, h>>)
    BY <1>4 DEF UnsentInv
  <2>2. \A h \in Hooks : Untouched(<<e, h>>)'
    BY <1>1, <2>1 DEF Untouched, NoFlight, Unlisted
  <2>3. CASE cur' = NoEvent
    <3>1. cur'.ev = None /\ cur'.todo = {}
      BY <2>3 DEF NoEvent
    <3> QED
      BY <3>1 DEF TodoInv
  <2>4. CASE cur'.ev = e /\ cur'.todo \subseteq Hooks
    <3>1. e # None
      BY <1>3, DeliveryAssumption
    <3> QED
      BY <1>6, <2>2, <2>4, <3>1 DEF TodoInv
  <2> QED
    BY <1>11, <2>3, <2>4
<1> QED
  BY <1>1, <1>8, <1>9, <1>10, <1>12 DEF FirstInv, ListInv, DeadInv,
     SingleFlight, OneEventAtATime, By, NoFlight

LEMMA SendFreshOwnership ==
  ASSUME IInv, NEW h \in Hooks, SendFresh(h)
  PROVE  Ownership'
<1> USE DEF IInv, Ownership
<1> DEFINE d == <<cur.ev, h>>
           a == [dl |-> d, by |-> "fresh", n |-> 1]
<1>1. UNCHANGED <<row, emit, queue, batch, held>> /\ attempts' = attempts \cup {a}
  BY DEF SendFresh, prodVars, retryVars
<1>2. cur.ev \in Events /\ h \in cur.todo
  BY DEF SendFresh, TypeOK
<1>3. cur'.ev = cur.ev /\ cur'.todo = cur.todo \ {h}
  BY DEF SendFresh, TypeOK
<1>4. d \in Deliveries /\ a \in Attempts /\ a.dl = d /\ a.by = "fresh"
  BY <1>2 DEF Deliveries, Messages, Attempts, Sources
<1>5. Untouched(d)
  BY <1>2 DEF TodoInv
<1>6. FirstInv' /\ ListInv' /\ DeadInv' /\ SingleFlight'
  <2>1. NoFlight(d) /\ row[d].state = "none" /\ \A x \in batch' \cup held' : x.dl # d
    BY <1>1, <1>5 DEF Untouched, Unlisted
  <2> HIDE DEF d, a
  <2> QED
    BY <1>1, <1>4, <2>1, StartStep
<1>7. \A c \in Deliveries \ {d} : Untouched(c) => Untouched(c)'
  BY <1>1, <1>4 DEF Untouched, NoFlight, Unlisted
<1>8. UnsentInv'
  <2>1. emit[cur.ev] \notin {"new", "blocked", "queued"}
    BY <1>2, DeliveryAssumption DEF TodoInv
  <2> QED
    BY <1>1, <1>7, <2>1 DEF UnsentInv, Deliveries
<1>9. TodoInv'
  <2>1. PICK e : e = cur.ev
    OBVIOUS
  <2>2. \A g \in cur.todo \ {h} : <<e, g>> \in Deliveries \ {d} /\ Untouched(<<e, g>>)
    BY <1>2, <2>1 DEF TodoInv, Deliveries, Messages, TypeOK
  <2>3. \A g \in cur.todo \ {h} : Untouched(<<e, g>>)'
    BY <1>7, <2>2
  <2> QED
    BY <1>1, <1>2, <1>3, <2>1, <2>3 DEF TodoInv
<1>10. QueueInv' /\ OneEventAtATime'
  BY <1>1, <1>3, <1>4 DEF QueueInv, OneEventAtATime, By
<1> QED
  BY <1>6, <1>8, <1>9, <1>10


LEMMA FinishEventOwnership ==
  ASSUME IInv, FinishEvent
  PROVE  Ownership'
<1> USE DEF IInv, Ownership
<1>1. UNCHANGED <<row, emit, queue, attempts, batch, held>> /\ By("fresh") = {}
  BY DEF FinishEvent, prodVars, retryVars
<1>2. cur'.ev = None /\ cur'.todo = {}
  BY DEF FinishEvent, NoEvent
<1> QED
  BY <1>1, <1>2 DEF QueueInv, UnsentInv, Untouched, Unlisted, TodoInv, FirstInv,
     ListInv, DeadInv, SingleFlight, OneEventAtATime, By, NoFlight

LEMMA AttemptFailedOwnership ==
  ASSUME IInv, NEW a \in attempts, AttemptFailed(a)
  PROVE  Ownership'
<1> USE DEF IInv, Ownership
<1>1. /\ UNCHANGED <<emit, queue, batch, held>>
      /\ attempts' = attempts \ {a}
      /\ cur'.ev = cur.ev /\ cur'.todo = cur.todo
  BY DEF AttemptFailed, prodVars, retryVars, TypeOK
<1>2. a.dl \in Deliveries /\ ~NoFlight(a.dl)
  BY DEF TypeOK, Attempts, NoFlight
<1>3. \A d \in Deliveries \ {a.dl} : row'[d] = row[d]
  BY DEF AttemptFailed, SaveDelivery, TypeOK
<1>4. \A b \in attempts' : b.dl \in Deliveries \ {a.dl}
  BY <1>1 DEF SingleFlight, TypeOK, Attempts
<1>5. \A x \in batch \cup held : x.dl \in Deliveries \ {a.dl}
  BY <1>2 DEF ListInv, TypeOK, Listings
<1>6. \A d \in Deliveries : Untouched(d) => Untouched(d)'
  <2> SUFFICES ASSUME NEW d \in Deliveries, Untouched(d) PROVE Untouched(d)'
    OBVIOUS
  <2>1. d # a.dl
    BY <1>2 DEF Untouched
  <2> QED
    BY <1>1, <1>3, <2>1 DEF Untouched, NoFlight, Unlisted
<1>7. UnsentInv'
  BY <1>1, <1>6 DEF UnsentInv, Deliveries
<1>8. TodoInv'
  <2>1. PICK e : e = cur.ev
    OBVIOUS
  <2>2. \A h \in cur.todo : <<e, h>> \in Deliveries /\ Untouched(<<e, h>>)
    BY <2>1 DEF TodoInv, Deliveries, Messages, TypeOK
  <2> QED
    BY <1>1, <1>6, <2>1, <2>2 DEF TodoInv
<1>9. FirstInv'
  BY <1>1, <1>3, <1>4 DEF FirstInv
<1>10. ListInv'
  BY <1>1, <1>3, <1>5 DEF ListInv, NoFlight
<1>11. DeadInv'
  BY <1>1, <1>3, <1>4 DEF DeadInv, NoFlight
<1> QED
  BY <1>1, <1>7, <1>8, <1>9, <1>10, <1>11 DEF QueueInv, SingleFlight,
     OneEventAtATime, By

\* The lease, and the wait for the last tick's attempts, are what a tick needs.
LEMMA RetryTickOwnership ==
  ASSUME IInv, NEW D \in SUBSET Due, RetryTick(D)
  PROVE  Ownership'
<1> USE DEF IInv, Ownership
<1>1. /\ UNCHANGED <<row, emit, queue, cur, attempts, held>>
      /\ batch = {} /\ held = {} /\ By("retry") = {}
      /\ batch' = {[dl |-> d, n |-> row[d].tries] : d \in D}
  BY DEF RetryTick, prodVars, loopVars
<1>2. \A d \in D : d \in Deliveries /\ row[d].state = "live" /\ Unleased(d)
  BY DEF Due
<1>3. \A d \in D : NoFlight(d)
  <2> SUFFICES ASSUME NEW d \in D, NEW a \in attempts, a.dl = d PROVE FALSE
    BY DEF NoFlight
  <2>1. a.by \in Sources
    BY DEF TypeOK, Attempts
  <2>2. a.by \notin Requests
    BY <1>2 DEF Unleased
  <2>3. a.by # "retry"
    BY <1>1 DEF By
  <2>4. a.by \notin {"fresh", "test"}
    BY <1>2 DEF FirstInv
  <2> QED
    BY <2>1, <2>2, <2>3, <2>4 DEF Sources
<1>4. \A x \in batch' : x.dl \in D
  BY <1>1
<1>5. \A d \in Deliveries : Untouched(d) => Untouched(d)'
  BY <1>1, <1>2, <1>4 DEF Untouched, NoFlight, Unlisted
<1>6. UnsentInv'
  BY <1>1, <1>5 DEF UnsentInv, Deliveries
<1>7. TodoInv'
  <2>1. PICK e : e = cur.ev
    OBVIOUS
  <2>2. \A h \in cur.todo : <<e, h>> \in Deliveries /\ Untouched(<<e, h>>)
    BY <2>1 DEF TodoInv, Deliveries, Messages, TypeOK
  <2> QED
    BY <1>1, <1>5, <2>1, <2>2 DEF TodoInv
<1>8. ListInv'
  BY <1>1, <1>2, <1>3, <1>4 DEF ListInv, NoFlight
<1> QED
  BY <1>1, <1>6, <1>7, <1>8 DEF QueueInv, FirstInv, DeadInv, SingleFlight,
     OneEventAtATime, By, NoFlight

LEMMA RetryCheckOwnership ==
  ASSUME IInv, NEW x \in batch, RetryCheck(x)
  PROVE  Ownership'
<1> USE DEF IInv, Ownership
<1> DEFINE y == [x EXCEPT !.n = @ + 1]
<1>1. UNCHANGED <<emit, queue, cur, attempts>> /\ batch' = batch \ {x} /\ held = {}
  BY DEF RetryCheck, prodVars, loopVars
<1>2. x.dl \in Deliveries /\ y.dl = x.dl
  BY DEF TypeOK, Listings
<1>3. \/ held' = {} /\ \A d \in Deliveries : row'[d] = row[d] \/ row'[d].state = "none"
      \/ held' = {y} /\ row' = row
  <2>1. \/ held' = held /\ DeleteDelivery(x.dl, TRUE)
        \/ held' = held /\ row' = row
        \/ held' = {y} /\ row' = row
    BY Zenon DEF RetryCheck
  <2>2. DeleteDelivery(x.dl, TRUE) =>
           \A d \in Deliveries : row'[d] = row[d] \/ row'[d].state = "none"
    BY DEF DeleteDelivery, NoRow, TypeOK
  <2> QED
    BY <1>1, <2>1, <2>2
<1>4. CASE held' = {} /\ \A d \in Deliveries : row'[d] = row[d] \/ row'[d].state = "none"
  BY <1>1, <1>4, QuietStep
<1>5. CASE held' = {y} /\ row' = row
  <2> HIDE DEF y
  <2>1. \A d \in Deliveries : Untouched(d) => Untouched(d)'
    BY <1>1, <1>2, <1>5 DEF Untouched, NoFlight, Unlisted
  <2>2. UnsentInv'
    BY <1>1, <2>1 DEF UnsentInv, Deliveries
  <2>3. TodoInv'
    <3>1. PICK e : e = cur.ev
      OBVIOUS
    <3>2. \A h \in cur.todo : <<e, h>> \in Deliveries /\ Untouched(<<e, h>>)
      BY <3>1 DEF TodoInv, Deliveries, Messages, TypeOK
    <3> QED
      BY <1>1, <2>1, <3>1, <3>2 DEF TodoInv
  <2>4. ListInv'
    BY <1>1, <1>2, <1>5 DEF ListInv, NoFlight
  <2> QED
    BY <1>1, <1>5, <2>2, <2>3, <2>4 DEF QueueInv, FirstInv, DeadInv, SingleFlight,
       OneEventAtATime, By, NoFlight
<1> QED
  BY <1>3, <1>4, <1>5


LEMMA RetrySendOwnership ==
  ASSUME IInv, NEW x \in held, RetrySend(x)
  PROVE  Ownership'
<1> USE DEF IInv, Ownership
<1> DEFINE a == [dl |-> x.dl, by |-> "retry", n |-> x.n]
<1>1. /\ UNCHANGED <<row, emit, queue, cur, batch>> /\ held' = {}
      /\ attempts' = attempts \cup {a}
  BY DEF RetrySend, prodVars, loopVars
<1>2. x.dl \in Deliveries /\ a \in Attempts /\ a.dl = x.dl /\ a.by = "retry"
  BY DEF TypeOK, Listings, Attempts, Sources
<1>3. /\ NoFlight(x.dl) /\ row[x.dl].state # "dead"
      /\ \A y \in batch : y.dl # x.dl
  BY DEF ListInv
<1> HIDE DEF a
<1>4. FirstInv' /\ ListInv' /\ DeadInv' /\ SingleFlight'
  BY <1>1, <1>2, <1>3, StartStep
<1>5. \A d \in Deliveries : Untouched(d) => Untouched(d)'
  BY <1>1, <1>2 DEF Untouched, NoFlight, Unlisted
<1>6. UnsentInv'
  BY <1>1, <1>5 DEF UnsentInv, Deliveries
<1>7. TodoInv'
  <2>1. PICK e : e = cur.ev
    OBVIOUS
  <2>2. \A h \in cur.todo : <<e, h>> \in Deliveries /\ Untouched(<<e, h>>)
    BY <2>1 DEF TodoInv, Deliveries, Messages, TypeOK
  <2> QED
    BY <1>1, <1>5, <2>1, <2>2 DEF TodoInv
<1> QED
  BY <1>1, <1>2, <1>4, <1>6, <1>7 DEF QueueInv, OneEventAtATime, By

LEMMA SendTestOwnership ==
  ASSUME IInv, NEW t \in Tests, NEW h \in Hooks, SendTest(t, h)
  PROVE  Ownership'
<1> USE DEF IInv, Ownership
<1> DEFINE d == <<t, h>>
           a == [dl |-> d, by |-> "test", n |-> 1]
<1>1. /\ UNCHANGED <<row, queue, cur, batch, held>>
      /\ emit[t] = "new" /\ emit' = [emit EXCEPT ![t] = "taken"]
      /\ attempts' = attempts \cup {a}
  BY DEF SendTest, loopVars, retryVars
<1>2. t \in Messages /\ t \notin Events /\ t # None
  BY DeliveryAssumption DEF Messages
<1>3. d \in Deliveries /\ a \in Attempts /\ a.dl = d /\ a.by = "test" /\ d[1] = t
  BY <1>2 DEF Deliveries, Attempts, Sources
<1>4. Untouched(d)
  BY <1>1, <1>2 DEF UnsentInv
<1>5. FirstInv' /\ ListInv' /\ DeadInv' /\ SingleFlight'
  <2>1. NoFlight(d) /\ row[d].state = "none" /\ \A x \in batch' \cup held' : x.dl # d
    BY <1>1, <1>4 DEF Untouched, Unlisted
  <2> HIDE DEF d, a
  <2> QED
    BY <1>1, <1>3, <2>1, StartStep
<1> HIDE DEF a
<1>6. \A c \in Deliveries : c[1] # t /\ Untouched(c) => Untouched(c)'
  BY <1>1, <1>3 DEF Untouched, NoFlight, Unlisted
<1>7. \A m \in Messages \ {t} : emit'[m] = emit[m]
  BY <1>1 DEF TypeOK
<1>8. emit'[t] = "taken"
  BY <1>1, <1>2 DEF TypeOK
<1>9. UnsentInv'
  BY <1>6, <1>7, <1>8 DEF UnsentInv, Deliveries
<1>10. TodoInv'
  <2>1. PICK e : e = cur.ev
    OBVIOUS
  <2>2. e # t
    BY <1>2, <2>1 DEF TypeOK
  <2>3. \A g \in cur.todo : <<e, g>> \in Deliveries /\ Untouched(<<e, g>>)
    BY <2>1 DEF TodoInv, Deliveries, Messages, TypeOK
  <2>4. e # None => emit'[e] = "taken"
    BY <1>7, <2>1, <2>2 DEF TodoInv, TypeOK, Messages
  <2> QED
    BY <1>1, <1>6, <2>1, <2>2, <2>3, <2>4 DEF TodoInv
<1>11. QueueInv'
  <2>1. \A i \in 1 .. Len(queue) : queue[i] \in Messages \ {t}
    BY <1>2 DEF TypeOK, Messages
  <2> QED
    BY <1>1, <1>7, <2>1 DEF QueueInv
<1> QED
  BY <1>1, <1>3, <1>5, <1>9, <1>10, <1>11 DEF OneEventAtATime, By

LEMMA RedeliverClaimOwnership ==
  ASSUME IInv, NEW c \in checked, RedeliverClaim(c)
  PROVE  Ownership'
<1> USE DEF IInv, Ownership
<1> DEFINE d == c.dl
           a == [dl |-> d, by |-> c.by, n |-> 1]
<1>1. UNCHANGED <<emit, queue, cur, batch, held>>
  BY DEF RedeliverClaim, prodVars, loopVars, retryVars
<1>2. d \in Deliveries /\ c.by \in Requests
  BY DEF TypeOK
<1>3. a \in Attempts /\ a.dl = d /\ a.by \notin {"fresh", "test"}
  BY <1>2, DeliveryAssumption DEF Attempts, Sources
<1>4. CASE row[d].state = "dead"
  <2>1. row' = [row EXCEPT ![d].state = "live"] /\ attempts' = attempts \cup {a}
    BY <1>4 DEF RedeliverClaim
  <2>2. row'[d].state = "live" /\ \A b \in Deliveries \ {d} : row'[b] = row[b]
    BY <1>2, <2>1 DEF TypeOK, Rows
  <2>3. NoFlight(d)
    BY <1>2, <1>4 DEF DeadInv
  <2>4. \A x \in batch' \cup held' : x.dl # d
    BY <1>1, <1>4 DEF ListInv
  <2> HIDE DEF d, a
  <2>5. FirstInv' /\ ListInv' /\ DeadInv' /\ SingleFlight'
    BY <1>1, <1>2, <1>3, <2>1, <2>2, <2>3, <2>4, StartStep
  <2>6. \A b \in Deliveries : Untouched(b) => Untouched(b)'
    <3> SUFFICES ASSUME NEW b \in Deliveries, Untouched(b) PROVE Untouched(b)'
      OBVIOUS
    <3>1. b # d
      BY <1>4 DEF Untouched
    <3> QED
      BY <1>1, <1>3, <2>1, <2>2, <3>1 DEF Untouched, NoFlight, Unlisted
  <2>7. UnsentInv'
    BY <1>1, <2>6 DEF UnsentInv, Deliveries
  <2>8. TodoInv'
    <3>1. PICK e : e = cur.ev
      OBVIOUS
    <3>2. \A h \in cur.todo : <<e, h>> \in Deliveries /\ Untouched(<<e, h>>)
      BY <3>1 DEF TodoInv, Deliveries, Messages, TypeOK
    <3> QED
      BY <1>1, <2>6, <3>1, <3>2 DEF TodoInv
  <2> QED
    BY <1>1, <1>3, <2>1, <2>5, <2>7, <2>8 DEF QueueInv, OneEventAtATime, By
<1>5. CASE row[d].state # "dead"
  <2>1. UNCHANGED <<row, attempts>>
    BY <1>5 DEF RedeliverClaim
  <2> QED
    BY <1>1, <2>1, QuietStep
<1> QED
  BY <1>4, <1>5

LEMMA RestartOwnership ==
  ASSUME IInv, Restart
  PROVE  Ownership'
<1> USE DEF IInv, Ownership
<1>1. row' = row /\ queue' = <<>> /\ attempts' = {} /\ batch' = {} /\ held' = {}
  BY DEF Restart
<1>2. cur'.ev = None /\ cur'.todo = {}
  BY DEF Restart, NoEvent
<1>3. \A m \in Messages : emit'[m] \in {"new", "blocked", "queued"} => emit[m] = "new"
  BY DEF Restart, TypeOK
<1>4. UnsentInv'
  BY <1>1, <1>3 DEF UnsentInv, Untouched, NoFlight, Unlisted
<1> QED
  BY <1>1, <1>2, <1>4 DEF QueueInv, TodoInv, FirstInv, ListInv, DeadInv,
     SingleFlight, OneEventAtATime, By, NoFlight

LEMMA NextOwnership == IInv /\ [Next]_vars => Ownership'
<1> SUFFICES ASSUME IInv, [Next]_vars PROVE Ownership'
  OBVIOUS
<1> USE DEF dbVars, prodVars, loopVars, retryVars
<1>1. ASSUME NEW e \in Events, Emit(e) \/ EmitBlocked(e) PROVE Ownership'
  BY <1>1, EmitOwnership
<1>2. CASE TakeEvent
  BY <1>2, TakeEventOwnership
<1>3. ASSUME NEW h \in Hooks, SendFresh(h) PROVE Ownership'
  BY <1>3, SendFreshOwnership
<1>4. CASE CutShort
  <2>1. cur'.ev = cur.ev /\ cur'.todo = {}
    BY <1>4 DEF CutShort, IInv, TypeOK
  <2> QED
    BY <1>4, <2>1, QuietStep DEF CutShort
<1>5. CASE FinishEvent
  BY <1>5, FinishEventOwnership
<1>6. CASE Cancel \/ StartDrain \/ DrainDeadline \/ DrainComplete
  <2>1. UNCHANGED <<emit, queue, cur, row, attempts, batch, held>>
    BY <1>6 DEF Cancel, StartDrain, DrainDeadline, DrainComplete
  <2> QED
    BY <2>1, QuietStep
<1>7. ASSUME NEW a \in attempts, AttemptAccepted(a) PROVE Ownership'
  <2>1. UNCHANGED <<emit, queue, cur, batch, held>> /\ attempts' = attempts \ {a}
    BY <1>7 DEF AttemptAccepted
  <2>2. \A d \in Deliveries : row'[d] = row[d] \/ row'[d].state = "none"
    BY <1>7 DEF AttemptAccepted, DeleteDelivery, NoRow, IInv, TypeOK
  <2> QED
    BY <2>1, <2>2, QuietStep
<1>8. ASSUME NEW a \in attempts, AttemptFailed(a) PROVE Ownership'
  BY <1>8, AttemptFailedOwnership
<1>9. ASSUME NEW D \in SUBSET Due, RetryTick(D) PROVE Ownership'
  BY <1>9, RetryTickOwnership
<1>10. ASSUME NEW x \in batch, RetryCheck(x) PROVE Ownership'
  BY <1>10, RetryCheckOwnership
<1>11. ASSUME NEW x \in held, RetrySend(x) PROVE Ownership'
  BY <1>11, RetrySendOwnership
<1>12. CASE RetryStop
  <2>1. UNCHANGED <<emit, queue, cur, row, attempts>> /\ batch' = {} /\ held' = {}
    BY <1>12 DEF RetryStop
  <2> QED
    BY <2>1, QuietStep
<1>13. ASSUME NEW t \in Tests, NEW h \in Hooks, SendTest(t, h) PROVE Ownership'
  BY <1>13, SendTestOwnership
<1>14. ASSUME NEW r \in Requests, NEW d \in Deliveries, RedeliverCheck(r, d)
       PROVE  Ownership'
  <2>1. UNCHANGED <<emit, queue, cur, row, attempts, batch, held>>
    BY <1>14 DEF RedeliverCheck
  <2> QED
    BY <2>1, QuietStep
<1>15. ASSUME NEW c \in checked, RedeliverClaim(c) PROVE Ownership'
  BY <1>15, RedeliverClaimOwnership
<1>16. ASSUME \/ \E h \in Hooks, p \in BOOLEAN : SetPaused(h, p)
              \/ SetRetention
              \/ \E e \in Events : Expire(e)
       PROVE  Ownership'
  <2>1. UNCHANGED <<emit, queue, cur, row, attempts, batch, held>>
    BY <1>16 DEF SetPaused, SetRetention, Expire
  <2> QED
    BY <2>1, QuietStep
<1>17. ASSUME \/ \E h \in Hooks : DeleteWebhook(h)
              \/ \E a \in Accounts : DeleteAccount(a)
              \/ \E D \in SUBSET DeadRows : PurgeDead(D)
       PROVE  Ownership'
  <2>1. UNCHANGED <<emit, queue, cur, attempts, batch, held>>
    BY <1>17 DEF DeleteWebhook, DeleteAccount, PurgeDead
  <2>2. \A d \in Deliveries : row'[d] = row[d] \/ row'[d].state = "none"
    BY <1>17 DEF DeleteWebhook, DeleteAccount, PurgeDead, NoRow
  <2> QED
    BY <2>1, <2>2, QuietStep
<1>18. CASE Crash \/ Exit
  BY <1>18, RestartOwnership DEF Crash, Exit
<1>19. CASE UNCHANGED vars
  <2>1. UNCHANGED <<emit, queue, cur, row, attempts, batch, held>>
    BY <1>19 DEF vars
  <2> QED
    BY <2>1, QuietStep
<1> QED
  BY <1>1, <1>2, <1>3, <1>4, <1>5, <1>6, <1>7, <1>8, <1>9, <1>10, <1>11, <1>12,
     <1>13, <1>14, <1>15, <1>16, <1>17, <1>18, <1>19
     DEF Next, Dispatch, Retry, Api, Sweep

LEMMA OwnershipInvariant == Spec => []IInv
<1>1. Init => IInv
  BY InitType, InitOwnership DEF IInv
<1>2. IInv /\ [Next]_vars => IInv'
  BY NextType, NextOwnership DEF IInv
<1> QED
  BY <1>1, <1>2, PTL DEF Spec

\* At most one POST of a delivery is in flight (SingleFlight): the conditional
\* write of ClaimDeadDelivery, its lease and retryDue's wait together suffice.
THEOREM OnePostAtATime == Spec => []SingleFlight
<1>1. IInv => SingleFlight
  BY DEF IInv, Ownership
<1> QED
  BY <1>1, OwnershipInvariant, PTL

\* First attempts in flight belong to the event in hand (OneEventAtATime):
\* deliver waits for its POSTs before the loop takes the next event.
THEOREM ProducerOrderKept == Spec => []OneEventAtATime
<1>1. IInv => OneEventAtATime
  BY DEF IInv, Ownership
<1> QED
  BY <1>1, OwnershipInvariant, PTL

-----------------------------------------------------------------------------
(***************************************************************************)
(* What leaves the table.                                                   *)
(***************************************************************************)
LEMMA ClearedStep ==
  ASSUME IInv, [Next]_vars, NEW d \in Deliveries,
         row[d].state # "none", row'[d].state = "none", faults' = faults
  PROVE  \/ d \in accepted'
         \/ hook'[d[2]] = "gone"
         \/ DeliveryAccount(d) \notin accounts' \cup {AnyAccount}
         \/ d \in purged' /\ row[d].state = "dead"
<1> DEFINE Settled == \/ d \in accepted'
                      \/ hook'[d[2]] = "gone"
                      \/ DeliveryAccount(d) \notin accounts' \cup {AnyAccount}
                      \/ d \in purged' /\ row[d].state = "dead"
<1> SUFFICES Settled
  OBVIOUS
<1> USE DEF IInv
<1>1. d[2] \in Hooks
  BY DEF Deliveries
<1>2. ASSUME NEW a \in attempts, AttemptAccepted(a) PROVE Settled
  <2>1. \E up : DeleteDelivery(a.dl, up)
    BY <1>2 DEF AttemptAccepted
  <2>2. d = a.dl
    BY <2>1 DEF DeleteDelivery, TypeOK
  <2> QED
    BY <1>2, <2>2 DEF AttemptAccepted
<1>3. ASSUME NEW a \in attempts, AttemptFailed(a) PROVE Settled
  <2>1. row' = row \/ row' = [row EXCEPT ![a.dl] = Scheduled(a.n)]
    BY <1>3 DEF AttemptFailed, SaveDelivery
  <2> QED
    BY <2>1 DEF TypeOK, Scheduled
<1>4. ASSUME NEW x \in batch, RetryCheck(x) PROVE Settled
  <2>1. PICK up \in StoreAnswers :
           /\ StoreCall(up)
           /\ row' = row \/ ((~up \/ hook[x.dl[2]] = "gone") /\ DeleteDelivery(x.dl, TRUE))
    BY <1>4, Zenon DEF RetryCheck
  <2>2. row' # row /\ d = x.dl
    BY <2>1 DEF DeleteDelivery, TypeOK
  <2>3. up
    BY <2>1 DEF StoreCall, TypeOK
  <2> QED
    BY <1>4, <2>1, <2>2, <2>3 DEF RetryCheck, dbVars
<1>5. ASSUME NEW c \in checked, RedeliverClaim(c) PROVE Settled
  <2>1. row' = row \/ row' = [row EXCEPT ![c.dl].state = "live"]
    BY <1>5 DEF RedeliverClaim
  <2> QED
    BY <2>1 DEF TypeOK, Rows
<1>6. ASSUME NEW h \in Hooks, DeleteWebhook(h) PROVE Settled
  BY <1>6 DEF DeleteWebhook, TypeOK
<1>7. ASSUME NEW a \in Accounts, DeleteAccount(a) PROVE Settled
  <2>1. DeliveryAccount(d) = a \/ BoundTo[d[2]] = a
    BY <1>7 DEF DeleteAccount
  <2> QED
    BY <1>1, <1>7, <2>1, DeliveryAssumption DEF DeleteAccount
<1>8. ASSUME NEW D \in SUBSET DeadRows, PurgeDead(D) PROVE Settled
  <2>1. d \in D
    BY <1>8 DEF PurgeDead
  <2> QED
    BY <1>8, <2>1 DEF PurgeDead, DeadRows
<1>9. row' # row
  OBVIOUS
<1> HIDE DEF Settled
<1> QED
  BY <1>2, <1>3, <1>4, <1>5, <1>6, <1>7, <1>8, <1>9 DEF Next, Emit, EmitBlocked,
     Dispatch, TakeEvent, SendFresh, CutShort, FinishEvent, StartDrain,
     DrainDeadline, DrainComplete, Retry, RetryTick, RetrySend, RetryStop, Api,
     SendTest, RedeliverCheck, SetPaused, SetRetention, Sweep, Expire, Cancel,
     Crash, Exit, Restart, vars

\* While no store call fails, a row leaves webhook_deliveries only for a reason
\* (RowClearedOnlyWhenSettled): retryDue, the cascades and PurgeDeadDeliveries
\* drop nothing else.
THEOREM NoRowVanishes == Spec => RowClearedOnlyWhenSettled
<1> DEFINE Good == \A d \in Deliveries :
         (row[d].state # "none" /\ row'[d].state = "none" /\ faults' = faults) =>
            \/ d \in accepted'
            \/ hook'[d[2]] = "gone"
            \/ DeliveryAccount(d) \notin accounts' \cup {AnyAccount}
            \/ d \in purged' /\ row[d].state = "dead"
<1>1. IInv /\ [Next]_vars => Good
  BY ClearedStep
<1> QED
  BY <1>1, OwnershipInvariant, PTL DEF Spec, RowClearedOnlyWhenSettled

-----------------------------------------------------------------------------
(***************************************************************************)
(* The schedule.  RetryBudget needs to know that attempts are counted from  *)
(* one, and that a hook that is gone has no rows: a redelivery of its would *)
(* end with the revived row as it was.                                      *)
(***************************************************************************)
CountInv == /\ \A a \in attempts : a.n >= 1
            /\ \A x \in held : x.n >= 1

GoneInv == \A d \in Deliveries : hook[d[2]] = "gone" => row[d].state = "none"

BudgetInv == CountInv /\ GoneInv /\ RetryBudget

Calm == crashes = 0 /\ faults = 0

\* What a failed attempt leaves is within the schedule or past its end.
LEMMA ScheduledBudget ==
  ASSUME NEW n \in Nat, n >= 1
  PROVE  /\ Scheduled(n).state \in {"live", "dead"}
         /\ Scheduled(n).state = "dead" => Scheduled(n).tries > RetryLimit
         /\ Scheduled(n).state = "live" => Scheduled(n).tries \in 1 .. RetryLimit
BY DeliveryAssumption DEF Scheduled

LEMMA CountStep == TypeOK /\ CountInv /\ [Next]_vars => CountInv'
<1> SUFFICES ASSUME TypeOK, CountInv, [Next]_vars PROVE CountInv'
  OBVIOUS
<1> USE DEF CountInv
<1>1. \A a \in attempts' : a \in attempts \/ a.n >= 1
  <2>2. ASSUME NEW h \in Hooks, SendFresh(h)
        PROVE  \A b \in attempts' : b \in attempts \/ b.n >= 1
    BY <2>2 DEF SendFresh
  <2>3. ASSUME NEW x \in held, RetrySend(x)
        PROVE  \A b \in attempts' : b \in attempts \/ b.n >= 1
    BY <2>3 DEF RetrySend
  <2>4. ASSUME NEW t \in Tests, NEW h \in Hooks, SendTest(t, h)
        PROVE  \A b \in attempts' : b \in attempts \/ b.n >= 1
    BY <2>4 DEF SendTest
  <2>5. ASSUME NEW c \in checked, RedeliverClaim(c)
        PROVE  \A b \in attempts' : b \in attempts \/ b.n >= 1
    BY <2>5 DEF RedeliverClaim
  <2>6. CASE attempts' \subseteq attempts
    BY <2>6
  <2> QED
    BY <2>2, <2>3, <2>4, <2>5, <2>6 DEF Next, Emit, EmitBlocked, Dispatch, TakeEvent,
       CutShort, FinishEvent, StartDrain, DrainDeadline, DrainComplete,
       AttemptAccepted, AttemptFailed, Retry, RetryTick, RetryCheck, RetryStop, Api,
       RedeliverCheck, SetPaused, DeleteWebhook, DeleteAccount, SetRetention, Sweep,
       PurgeDead, Expire, Cancel, Crash, Exit, Restart, vars
<1>2. \A x \in held' : x \in held \/ x.n >= 1
  <2>1. ASSUME NEW y \in batch, RetryCheck(y) PROVE \A x \in held' : x \in held \/ x.n >= 1
    <3>1. y \in Listings
      BY DEF TypeOK
    <3>2. [y EXCEPT !.n = @ + 1].n >= 1
      BY <3>1 DEF Listings
    <3>3. held' = held \/ held' = {[y EXCEPT !.n = @ + 1]}
      BY <2>1, Zenon DEF RetryCheck
    <3> QED
      BY <3>2, <3>3
  <2>2. CASE held' \subseteq held
    BY <2>2
  <2> QED
    BY <2>1, <2>2 DEF Next, Emit, EmitBlocked, Dispatch, TakeEvent, CutShort,
       FinishEvent, StartDrain, DrainDeadline, DrainComplete, SendFresh,
       AttemptAccepted, AttemptFailed, Retry, RetryTick, RetrySend, RetryStop, Api,
       SendTest, RedeliverCheck, RedeliverClaim, SetPaused, DeleteWebhook,
       DeleteAccount, SetRetention, Sweep, PurgeDead, Expire, Cancel, Crash, Exit,
       Restart, vars, retryVars
<1> QED
  BY <1>1, <1>2

\* A hook that is gone never gets a row again: its key no longer exists.
LEMMA GoneStep == IInv /\ GoneInv /\ [Next]_vars => GoneInv'
<1> SUFFICES ASSUME IInv, GoneInv, [Next]_vars, NEW d \in Deliveries,
                    hook'[d[2]] = "gone"
             PROVE  row'[d].state = "none"
  BY DEF GoneInv
<1> USE DEF IInv, dbVars
<1>1. d[2] \in Hooks
  BY DEF Deliveries
<1>2. ASSUME NEW a \in attempts, AttemptAccepted(a) PROVE row'[d].state = "none"
  <2>1. row' = row \/ row' = [row EXCEPT ![a.dl] = NoRow]
    BY <1>2 DEF AttemptAccepted, DeleteDelivery
  <2> QED
    BY <1>2, <2>1 DEF AttemptAccepted, GoneInv, TypeOK, NoRow
<1>3. ASSUME NEW a \in attempts, AttemptFailed(a) PROVE row'[d].state = "none"
  <2>1. hook' = hook
    BY <1>3 DEF AttemptFailed
  <2>2. \E up : SaveDelivery(a.dl, Scheduled(a.n), up)
    BY <1>3 DEF AttemptFailed
  <2>3. row'[d] = row[d]
    BY <2>1, <2>2 DEF SaveDelivery, TypeOK
  <2> QED
    BY <2>1, <2>3 DEF GoneInv
<1>4. ASSUME NEW x \in batch, RetryCheck(x) PROVE row'[d].state = "none"
  <2>1. row' = row \/ DeleteDelivery(x.dl, TRUE)
    BY <1>4, Zenon DEF RetryCheck
  <2> QED
    BY <1>4, <2>1 DEF RetryCheck, DeleteDelivery, GoneInv, TypeOK, NoRow
<1>5. ASSUME NEW c \in checked, RedeliverClaim(c) PROVE row'[d].state = "none"
  <2>1. hook' = hook
    BY <1>5 DEF RedeliverClaim
  <2>2. c.dl = d => row[c.dl].state # "dead"
    BY <2>1 DEF GoneInv
  <2>3. row'[d] = row[d]
    BY <1>5, <2>2 DEF RedeliverClaim, TypeOK
  <2> QED
    BY <2>1, <2>3 DEF GoneInv
<1>6. ASSUME NEW h \in Hooks, NEW p \in BOOLEAN, SetPaused(h, p)
      PROVE  row'[d].state = "none"
  BY <1>1, <1>6 DEF SetPaused, GoneInv, TypeOK
<1>7. ASSUME NEW h \in Hooks, DeleteWebhook(h) PROVE row'[d].state = "none"
  BY <1>1, <1>7 DEF DeleteWebhook, GoneInv, TypeOK, NoRow
<1>8. ASSUME NEW a \in Accounts, DeleteAccount(a) PROVE row'[d].state = "none"
  BY <1>1, <1>8 DEF DeleteAccount, GoneInv, TypeOK, NoRow
<1>9. ASSUME NEW D \in SUBSET DeadRows, PurgeDead(D) PROVE row'[d].state = "none"
  BY <1>9 DEF PurgeDead, GoneInv, NoRow
<1>10. CASE UNCHANGED <<hook, row>>
  BY <1>10 DEF GoneInv
<1> QED
  BY <1>2, <1>3, <1>4, <1>5, <1>6, <1>7, <1>8, <1>9, <1>10 DEF Next, Emit, EmitBlocked,
     Dispatch, TakeEvent, SendFresh, CutShort, FinishEvent, StartDrain,
     DrainDeadline, DrainComplete, Retry, RetryTick, RetrySend, RetryStop, Api,
     SendTest, RedeliverCheck, SetRetention, Sweep, Expire, Cancel,
     Crash, Exit, Restart, vars

\* What RetryBudget says of one delivery.
InBudget(d) ==
    /\ row[d].state = "dead" => row[d].tries > RetryLimit
    /\ (row[d].state = "live" /\ Calm /\ Unleased(d)) => row[d].tries \in 1 .. RetryLimit

\* It survives while the row stays and no redelivery of it ends.
LEMMA SameBudget ==
  ASSUME NEW d \in Deliveries, InBudget(d),
         row'[d] = row[d],
         Calm' => Calm,
         Unleased(d)' => Unleased(d)
  PROVE  InBudget(d)'
BY DEF InBudget

LEMMA NoRowBudget ==
  ASSUME NEW d \in Deliveries, row'[d].state = "none"
  PROVE  InBudget(d)'
BY DEF InBudget

LEMMA CalmBefore == IInv /\ [Next]_vars /\ Calm' => Calm
<1> SUFFICES ASSUME IInv, [Next]_vars, Calm' PROVE Calm
  OBVIOUS
<1>1. crashes \in Nat /\ faults \in Nat
  BY DEF IInv, TypeOK
<1>2. crashes' \in {crashes, crashes + 1} /\ faults' \in {faults, faults + 1}
  <2> USE DEF Next, Emit, EmitBlocked, Dispatch, TakeEvent, CutShort, FinishEvent,
      StartDrain, DrainDeadline, DrainComplete, SendFresh, AttemptAccepted,
      AttemptFailed, Retry, RetryTick, RetryCheck, RetrySend, RetryStop, Api,
      SendTest, RedeliverCheck, RedeliverClaim, SetPaused, DeleteWebhook,
      DeleteAccount, SetRetention, Sweep, PurgeDead, Expire, Cancel, Crash,
      Exit, vars, dbVars, prodVars, loopVars, retryVars, histVars
  <2>1. crashes' \in {crashes, crashes + 1}
    OBVIOUS
  <2>2. faults' \in {faults, faults + 1}
    BY DEF StoreCall, Restart
  <2> QED
    BY <2>1, <2>2
<1> QED
  BY <1>1, <1>2 DEF Calm

LEMMA BudgetStep ==
  ASSUME IInv, BudgetInv, [Next]_vars, NEW d \in Deliveries
  PROVE  InBudget(d)'
<1> USE DEF IInv
<1>1. InBudget(d) /\ (Calm' => Calm)
  BY CalmBefore DEF BudgetInv, RetryBudget, InBudget, Calm
<1>2. ASSUME NEW a \in attempts, AttemptAccepted(a) PROVE InBudget(d)'
  <2>1. attempts' = attempts \ {a} /\ a.by \in Sources
    BY <1>2 DEF AttemptAccepted, TypeOK, Attempts
  <2>2. CASE a.by \in {"fresh", "test"}
    <3>1. row' = row /\ a.by \notin Requests
      BY <1>2, <2>2, DeliveryAssumption DEF AttemptAccepted
    <3> QED
      BY <1>1, <2>1, <3>1, SameBudget DEF Unleased
  <2>3. CASE a.by \notin {"fresh", "test"} /\ a.dl = d
    <3>1. PICK up \in StoreAnswers : DeleteDelivery(a.dl, up) /\ StoreCall(up)
      BY <1>2, <2>3 DEF AttemptAccepted
    <3>2. CASE up
      BY <2>3, <3>1, <3>2, NoRowBudget DEF DeleteDelivery, TypeOK, NoRow
    <3>3. CASE ~up
      <4>1. row' = row /\ ~Calm'
        BY <3>1, <3>3 DEF DeleteDelivery, StoreCall, Calm, TypeOK
      <4> QED
        BY <1>1, <4>1 DEF InBudget
    <3> QED
      BY <3>2, <3>3
  <2>4. CASE a.dl # d
    <3>1. row'[d] = row[d]
      BY <1>2, <2>4 DEF AttemptAccepted, DeleteDelivery, TypeOK
    <3>2. Unleased(d)' => Unleased(d)
      BY <2>1, <2>4 DEF Unleased
    <3> QED
      BY <1>1, <3>1, <3>2, SameBudget
  <2> QED
    BY <2>2, <2>3, <2>4
<1>3. ASSUME NEW a \in attempts, AttemptFailed(a) PROVE InBudget(d)'
  <2>1. attempts' = attempts \ {a} /\ a.n \in Nat /\ a.n >= 1
    BY <1>3 DEF AttemptFailed, TypeOK, Attempts, BudgetInv, CountInv
  <2>2. PICK up \in StoreAnswers : SaveDelivery(a.dl, Scheduled(a.n), up) /\ StoreCall(up)
    BY <1>3 DEF AttemptFailed
  <2>3. CASE a.dl = d /\ up /\ hook[d[2]] # "gone"
    <3>1. row'[d] = Scheduled(a.n)
      BY <2>2, <2>3 DEF SaveDelivery, TypeOK
    <3> QED
      BY <2>1, <3>1, ScheduledBudget DEF InBudget
  <2>4. CASE a.dl = d /\ hook[d[2]] = "gone"
    <3>1. row' = row /\ row[d].state = "none"
      BY <2>2, <2>4 DEF SaveDelivery, BudgetInv, GoneInv
    <3> QED
      BY <3>1, NoRowBudget
  <2>5. CASE ~up
    <3>1. row' = row /\ ~Calm'
      BY <2>2, <2>5 DEF SaveDelivery, StoreCall, Calm, TypeOK
    <3> QED
      BY <1>1, <3>1 DEF InBudget
  <2>6. CASE a.dl # d
    <3>1. row'[d] = row[d]
      BY <2>2, <2>6 DEF SaveDelivery, TypeOK
    <3>2. Unleased(d)' => Unleased(d)
      BY <2>1, <2>6 DEF Unleased
    <3> QED
      BY <1>1, <3>1, <3>2, SameBudget
  <2> QED
    BY <2>3, <2>4, <2>5, <2>6
<1>4. ASSUME NEW x \in batch, RetryCheck(x) PROVE InBudget(d)'
  <2>1. attempts' = attempts
    BY <1>4 DEF RetryCheck
  <2>2. row' = row \/ DeleteDelivery(x.dl, TRUE)
    BY <1>4, Zenon DEF RetryCheck
  <2>3. row'[d] = row[d] \/ row'[d].state = "none"
    BY <2>2 DEF DeleteDelivery, TypeOK, NoRow
  <2> QED
    BY <1>1, <2>1, <2>3, SameBudget, NoRowBudget DEF Unleased
<1>5. ASSUME NEW c \in checked, RedeliverClaim(c) PROVE InBudget(d)'
  <2>1. c.dl \in Deliveries /\ c.by \in Requests
    BY DEF TypeOK
  <2>2. CASE row[c.dl].state = "dead" /\ c.dl = d
    <3> DEFINE b == [dl |-> c.dl, by |-> c.by, n |-> 1]
    <3>1. b \in attempts' /\ row'[d].state = "live"
      BY <1>5, <2>2 DEF RedeliverClaim, TypeOK, Rows
    <3>2. ~Unleased(d)'
      <4>1. b.by \in Requests /\ b.dl = d
        BY <2>1, <2>2
      <4> HIDE DEF b
      <4> QED
        BY <3>1, <4>1 DEF Unleased
    <3> QED
      BY <3>1, <3>2 DEF InBudget
  <2>3. CASE ~(row[c.dl].state = "dead" /\ c.dl = d)
    <3>1. row'[d] = row[d] /\ attempts \subseteq attempts'
      BY <1>5, <2>3 DEF RedeliverClaim, TypeOK
    <3> QED
      BY <1>1, <3>1, SameBudget DEF Unleased
  <2> QED
    BY <2>2, <2>3
<1>6. CASE Crash
  <2>1. row' = row /\ ~Calm'
    BY <1>6 DEF Crash, Restart, Calm, TypeOK
  <2> QED
    BY <1>1, <2>1 DEF InBudget
<1>7. CASE Exit
  <2>1. row' = row /\ attempts = {}
    BY <1>7 DEF Exit, Restart
  <2> QED
    BY <1>1, <2>1, SameBudget DEF Unleased
<1>8. CASE attempts \subseteq attempts' /\ (row'[d] = row[d] \/ row'[d].state = "none")
  BY <1>1, <1>8, SameBudget, NoRowBudget DEF Unleased
<1>9. ASSUME \/ \E h \in Hooks : DeleteWebhook(h)
             \/ \E a \in Accounts : DeleteAccount(a)
             \/ \E D \in SUBSET DeadRows : PurgeDead(D)
      PROVE  attempts' = attempts /\ (row'[d] = row[d] \/ row'[d].state = "none")
  BY <1>9 DEF DeleteWebhook, DeleteAccount, PurgeDead, NoRow
<1> QED
  BY <1>2, <1>3, <1>4, <1>5, <1>6, <1>7, <1>8, <1>9 DEF Next, Emit, EmitBlocked,
     Dispatch, TakeEvent, SendFresh, CutShort, FinishEvent, StartDrain,
     DrainDeadline, DrainComplete, Retry, RetryTick, RetrySend, RetryStop, Api,
     SendTest, RedeliverCheck, SetPaused, SetRetention, Sweep, Expire, Cancel, vars

\* The schedule is used up exactly (RetryBudget): schedule, retryDue's count and
\* ClaimDeadDelivery's revival never leave a dead row with tries to spare, nor a
\* live one without any.
THEOREM ScheduleIsUsedUp == Spec => []RetryBudget
<1>1. Init => BudgetInv
  <2> SUFFICES ASSUME Init PROVE BudgetInv
    OBVIOUS
  <2>1. \A d \in Deliveries : row[d].state = "none"
    BY DEF Init, NoRow
  <2> QED
    BY <2>1 DEF Init, BudgetInv, CountInv, GoneInv, RetryBudget
<1>2. IInv /\ BudgetInv /\ [Next]_vars => BudgetInv'
  <2> SUFFICES ASSUME IInv, BudgetInv, [Next]_vars PROVE BudgetInv'
    OBVIOUS
  <2>1. CountInv' /\ GoneInv'
    BY CountStep, GoneStep DEF BudgetInv, IInv
  <2>2. \A d \in Deliveries : InBudget(d)'
    BY BudgetStep
  <2>3. RetryBudget'
    BY <2>2 DEF RetryBudget, InBudget, Calm
  <2> QED
    BY <2>1, <2>3 DEF BudgetInv
<1>3. BudgetInv => RetryBudget
  BY DEF BudgetInv
<1> QED
  BY <1>1, <1>2, <1>3, OwnershipInvariant, PTL DEF Spec
=============================================================================
