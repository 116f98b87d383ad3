------------------------------ MODULE Delivery ------------------------------
(***************************************************************************)
(* The outbound half of the server: internal/events.Dispatcher with the    *)
(* webhook_deliveries table of internal/store.  Producers Emit events into  *)
(* a bounded in-memory queue; one dispatch goroutine fans each event out to *)
(* its hooks and gives every hook one first attempt; a failed attempt is    *)
(* parked in the table and a retry goroutine re-sends it on a schedule until*)
(* it is accepted or dead; API requests send test events, redeliver dead    *)
(* deliveries, pause, resume and delete hooks and delete accounts.          *)
(*                                                                          *)
(* Covered: interleaving of the two goroutines with every API request, the  *)
(* bounded queue and worker pools, shutdown with its drain and deadline,    *)
(* crashes at any point, store calls that fail, a response that is lost     *)
(* after the subscriber accepted.                                           *)
(*                                                                          *)
(* Abstracted: one tenant (others meet it only in the queue and the pools); *)
(* a retry tick takes any subset of the live rows, which stands for every   *)
(* way clock, schedule and page limit can make rows due; the age cutoffs of *)
(* the hourly sweep are a free choice; the payload is the pair of event and *)
(* hook.  A claimed row is hidden from the tick while its redelivery is in  *)
(* flight, because the ten-minute lease is longer than any send (Unleased). *)
(***************************************************************************)
EXTENDS Naturals, Sequences, FiniteSets

CONSTANTS
    Events,        \* events a producer may emit, each at most once
    Tests,         \* webhook_test events an API request may send
    MessageEvents, \* the events that carry a message (mail_/chat_ received/sent)
    Hooks,         \* the tenant's registered webhooks
    FullHooks,     \* the hooks of kind "webhook": they get the whole payload
    Accounts,      \* the tenant's connected accounts
    AnyAccount,    \* account_id '' : a developer-wide hook
    AccountOf,     \* event -> the account it is about
    BoundTo,       \* hook -> the account it is bound to, or AnyAccount
    Filter,        \* hook -> the events its filter lets through
    Requests,      \* concurrent redeliver requests
    QueueCap,      \* capacity of Dispatcher.queue
    Workers,       \* DeliveryWorkers, the size of sem and of retrySem
    RetryLimit,    \* len(RetrySchedule)
    MaxCrashes,    \* bound on unclean process ends
    MaxFaults,     \* bound on store calls that return an error
    None           \* no event in hand

ASSUME DeliveryAssumption ==
    /\ MessageEvents \subseteq Events
    /\ Events \cap Tests = {}
    /\ None \notin Events \cup Tests
    /\ FullHooks \subseteq Hooks
    /\ AnyAccount \notin Accounts
    /\ AccountOf \in [Events -> Accounts]
    /\ BoundTo \in [Hooks -> Accounts \cup {AnyAccount}]
    /\ Filter \in [Hooks -> SUBSET Events]
    /\ Requests \cap {"fresh", "retry", "test"} = {}
    /\ QueueCap \in Nat \ {0}
    /\ Workers \in Nat \ {0}
    /\ RetryLimit \in Nat
    /\ MaxCrashes \in Nat
    /\ MaxFaults \in Nat

VARIABLES
    \* ---- the database ----
    hook,      \* hook -> "on", "paused" or "gone"
    accounts,  \* the accounts that exist
    retains,   \* does the developer's retention policy set a maximum age?
    row,       \* delivery -> its row in webhook_deliveries
    content,   \* event -> what is left of its message's content
    \* ---- the process ----
    emit,      \* event or test -> how far its emission has come
    queue,     \* Dispatcher.queue
    cur,       \* the event deliver is working on
    attempts,  \* the attempts whose POST is in flight
    batch,     \* rows this retry tick listed and has not reached
    held,      \* the retry waiting for a retrySem slot: at most one
    checked,   \* redeliver requests between their checks and their claim
    disp,      \* dispatch goroutine: "loop"; draining with time left ("drain"),
               \* with none ("cut"), or with hooks skipped for it ("skipped");
               \* returned with none skipped ("done") or some ("aborted")
    stopping,  \* dispCancel was called
    \* ---- the outside world and bookkeeping ----
    accepted,  \* deliveries their subscriber has taken in
    owed,      \* event or test -> hooks it was to be sent to
    purged,    \* dead deliveries the sweep removed
    crashes, faults

dbVars   == <<hook, accounts, retains, content>>
prodVars == <<emit, queue>>
loopVars == <<cur, disp>>
retryVars == <<batch, held>>
histVars == <<owed, purged, crashes>>
vars == <<dbVars, row, prodVars, loopVars, attempts, retryVars, checked,
          stopping, accepted, histVars, faults>>

Messages   == Events \cup Tests
Deliveries == Messages \X Hooks
Sources    == {"fresh", "retry", "test"} \cup Requests
Rows       == [state : {"none", "live", "dead"}, tries : Nat]
Attempts   == [dl : Deliveries, by : Sources, n : Nat]
Listings   == [dl : Deliveries, n : Nat]

NoRow   == [state |-> "none", tries |-> 0]
NoEvent == [ev |-> None, todo |-> {}, matched |-> {}, failed |-> FALSE]

TypeOK ==
    /\ hook \in [Hooks -> {"on", "paused", "gone"}]
    /\ accounts \subseteq Accounts
    /\ retains \in BOOLEAN
    /\ row \in [Deliveries -> Rows]
    /\ content \in [Events -> {"kept", "forwarded", "expired", "deleted"}]
    /\ emit \in [Messages -> {"new", "blocked", "queued", "taken", "dropped", "lost"}]
    /\ queue \in Seq(Events)
    /\ cur \in [ev : Events \cup {None}, todo : SUBSET Hooks,
                matched : SUBSET FullHooks, failed : BOOLEAN]
    /\ attempts \subseteq Attempts
    /\ batch \subseteq Listings
    /\ held \subseteq Listings
    /\ checked \subseteq [by : Requests, dl : Deliveries]
    /\ disp \in {"loop", "drain", "cut", "skipped", "done", "aborted"}
    /\ stopping \in BOOLEAN
    /\ accepted \subseteq Deliveries
    /\ owed \in [Messages -> SUBSET Hooks]
    /\ purged \subseteq Deliveries
    /\ crashes \in Nat
    /\ faults \in Nat

Init ==
    /\ hook = [h \in Hooks |-> "on"]
    /\ accounts = Accounts
    /\ retains = FALSE
    /\ row = [d \in Deliveries |-> NoRow]
    /\ content = [e \in Events |-> "kept"]
    /\ emit = [m \in Messages |-> "new"]
    /\ queue = <<>>
    /\ cur = NoEvent
    /\ attempts = {}
    /\ batch = {}
    /\ held = {}
    /\ checked = {}
    /\ disp = "loop"
    /\ stopping = FALSE
    /\ accepted = {}
    /\ owed = [m \in Messages |-> {}]
    /\ purged = {}
    /\ crashes = 0
    /\ faults = 0

-----------------------------------------------------------------------------
(***************************************************************************)
(* The store.  A call answers, or returns an error while the fault budget  *)
(* lasts; StoreCall(up) charges the budget for the answer `up`.             *)
(***************************************************************************)
StoreAnswers == {TRUE} \cup IF faults < MaxFaults THEN {FALSE} ELSE {}
StoreCall(up) == faults' = IF up THEN faults ELSE faults + 1

\* SaveDelivery: an upsert whose webhook_id must exist.
SaveDelivery(d, r, up) ==
    row' = IF up /\ hook[d[2]] # "gone" THEN [row EXCEPT ![d] = r] ELSE row

DeleteDelivery(d, up) ==
    row' = IF up THEN [row EXCEPT ![d] = NoRow] ELSE row

\* ListWebhooksFor with the subscribes and Paused tests of deliver's loop.
Listed(e) ==
    {h \in Hooks : /\ AccountOf[e] \in accounts
                   /\ hook[h] = "on"
                   /\ BoundTo[h] \in {AccountOf[e], AnyAccount}
                   /\ e \in Filter[h]}

\* The account_id a delivery is stored under.
DeliveryAccount(d) == IF d[1] \in Events THEN AccountOf[d[1]] ELSE BoundTo[d[2]]

\* Mutant: one try more than the schedule has entries.
ScheduledOnceMore(n) ==
    [state |-> IF n - 1 <= RetryLimit THEN "live" ELSE "dead", tries |-> n]

\* The row a failed attempt number n leaves: schedule's next-or-dead decision.
Scheduled(n) ==
    [state |-> IF n - 1 < RetryLimit THEN "live" ELSE "dead", tries |-> n]

-----------------------------------------------------------------------------
(***************************************************************************)
(* Producers.                                                               *)
(***************************************************************************)
Enqueue(e) ==
    /\ Len(queue) < QueueCap
    /\ queue' = Append(queue, e)
    /\ emit' = [emit EXCEPT ![e] = "queued"]

\* Emit's fast path, or the start of its bounded wait on a full queue.
Emit(e) ==
    /\ emit[e] = "new"
    /\ \/ Enqueue(e)
       \/ /\ Len(queue) = QueueCap
          /\ emit' = [emit EXCEPT ![e] = "blocked"]
          /\ UNCHANGED queue
    /\ UNCHANGED <<dbVars, row, loopVars, attempts, retryVars, checked,
                   stopping, accepted, histVars, faults>>

\* The wait ends with room in the queue, or after EmitBlock in a drop.
EmitBlocked(e) ==
    /\ emit[e] = "blocked"
    /\ \/ Enqueue(e)
       \/ /\ emit' = [emit EXCEPT ![e] = "dropped"]
          /\ UNCHANGED queue
    /\ UNCHANGED <<dbVars, row, loopVars, attempts, retryVars, checked,
                   stopping, accepted, histVars, faults>>

-----------------------------------------------------------------------------
(***************************************************************************)
(* The dispatch goroutine: Start's first loop, deliver and drain.           *)
(***************************************************************************)
By(s) == {a \in attempts : a.by = s}

\* Take the next event and list its hooks; a failed listing loses the event.
TakeEvent ==
    /\ disp \in {"loop", "drain", "cut"}
    /\ cur = NoEvent
    /\ queue # <<>>
    /\ queue' = Tail(queue)
    /\ LET e == Head(queue)
       IN  /\ emit' = [emit EXCEPT ![e] = "taken"]
           /\ \E up \in StoreAnswers :
                 /\ StoreCall(up)
                 /\ IF up
                    THEN /\ cur' = [NoEvent EXCEPT !.ev = e, !.todo = Listed(e)]
                         /\ owed' = [owed EXCEPT ![e] = Listed(e)]
                    ELSE UNCHANGED <<cur, owed>>
    /\ UNCHANGED <<dbVars, row, disp, attempts, retryVars, checked, stopping,
                   accepted, purged, crashes>>

\* Mutants: a thin hook counted as having had the full payload; one pool for
\* first attempts and retries.
SendFreshCountsThin(h) ==
    /\ cur.ev # None
    /\ h \in cur.todo
    /\ Cardinality(By("fresh")) < Workers
    /\ attempts' = attempts \cup {[dl |-> <<cur.ev, h>>, by |-> "fresh", n |-> 1]}
    /\ cur' = [cur EXCEPT !.todo = @ \ {h}, !.matched = @ \cup {h}]
    /\ UNCHANGED <<dbVars, row, prodVars, disp, retryVars, checked, stopping,
                   accepted, histVars, faults>>

SendFreshSharedPool(h) ==
    /\ Cardinality(By("fresh") \cup By("retry")) < Workers
    /\ h \in cur.todo
    /\ attempts' = attempts \cup {[dl |-> <<cur.ev, h>>, by |-> "fresh", n |-> 1]}
    /\ cur' = [cur EXCEPT !.todo = @ \ {h}, !.matched = @ \cup ({h} \cap FullHooks)]
    /\ UNCHANGED <<dbVars, row, prodVars, disp, retryVars, checked, stopping,
                   accepted, histVars, faults>>

\* Start the first attempt of one hook once sem has a slot.
SendFresh(h) ==
    /\ cur.ev # None
    /\ h \in cur.todo
    /\ Cardinality(By("fresh")) < Workers
    /\ attempts' = attempts \cup {[dl |-> <<cur.ev, h>>, by |-> "fresh", n |-> 1]}
    /\ cur' = [cur EXCEPT !.todo = @ \ {h}, !.matched = @ \cup ({h} \cap FullHooks)]
    /\ UNCHANGED <<dbVars, row, prodVars, disp, retryVars, checked, stopping,
                   accepted, histVars, faults>>

\* The drain's deadline passed while deliver waited for a slot: the hooks it
\* had not reached are skipped, and the return precedes the eviction.
CutShort ==
    /\ disp = "cut"
    /\ cur.todo # {}
    /\ cur' = [cur EXCEPT !.todo = {}, !.failed = TRUE]
    /\ disp' = "skipped"
    /\ UNCHANGED <<dbVars, row, prodVars, attempts, retryVars, checked,
                   stopping, accepted, histVars, faults>>

\* evictDelivered: blank the message if the policy asks for it.
EvictDelivered(e, up) ==
    content' = IF up /\ retains /\ e \in MessageEvents /\ content[e] = "kept"
               THEN [content EXCEPT ![e] = "forwarded"] ELSE content

\* Mutant: deliver returns without waiting for the POSTs it started.
FinishEventNoWait ==
    /\ cur.ev # None
    /\ cur.todo = {}
    /\ IF cur.matched # {} /\ ~cur.failed
       THEN \E up \in StoreAnswers : EvictDelivered(cur.ev, up) /\ StoreCall(up)
       ELSE UNCHANGED <<content, faults>>
    /\ cur' = NoEvent
    /\ disp' = CASE disp = "cut" -> "done" [] disp = "skipped" -> "aborted" [] OTHER -> disp
    /\ UNCHANGED <<hook, accounts, retains, row, prodVars, attempts, retryVars,
                   checked, stopping, accepted, histVars>>

\* Every hook has had its first attempt: decide on eviction; drain returns here
\* if its deadline has passed.
FinishEvent ==
    /\ cur.ev # None
    /\ cur.todo = {}
    /\ By("fresh") = {}
    /\ IF cur.matched # {} /\ ~cur.failed
       THEN \E up \in StoreAnswers : EvictDelivered(cur.ev, up) /\ StoreCall(up)
       ELSE UNCHANGED <<content, faults>>
    /\ cur' = NoEvent
    /\ disp' = CASE disp = "cut" -> "done" [] disp = "skipped" -> "aborted" [] OTHER -> disp
    /\ UNCHANGED <<hook, accounts, retains, row, prodVars, attempts, retryVars,
                   checked, stopping, accepted, histVars>>

\* dispCancel, after the HTTP server has stopped taking requests.
Cancel ==
    /\ ~stopping
    /\ stopping' = TRUE
    /\ UNCHANGED <<dbVars, row, prodVars, loopVars, attempts, retryVars, checked,
                   accepted, histVars, faults>>

\* The loop notices the cancellation between two events.
StartDrain ==
    /\ stopping
    /\ disp = "loop"
    /\ cur = NoEvent
    /\ disp' = IF queue = <<>> THEN "done" ELSE "drain"
    /\ UNCHANGED <<dbVars, row, prodVars, cur, attempts, retryVars, checked,
                   stopping, accepted, histVars, faults>>

DrainDeadline ==
    /\ disp = "drain"
    /\ disp' = "cut"
    /\ UNCHANGED <<dbVars, row, prodVars, cur, attempts, retryVars, checked,
                   stopping, accepted, histVars, faults>>

DrainComplete ==
    /\ disp \in {"drain", "cut"}
    /\ cur = NoEvent
    /\ queue = <<>>
    /\ disp' = "done"
    /\ UNCHANGED <<dbVars, row, prodVars, cur, attempts, retryVars, checked,
                   stopping, accepted, histVars, faults>>

-----------------------------------------------------------------------------
(***************************************************************************)
(* One attempt's POST ends: send, and what its caller does with the result. *)
(***************************************************************************)
\* A 2xx.  Only a stored delivery has a row to clear.
AttemptAccepted(a) ==
    /\ attempts' = attempts \ {a}
    /\ accepted' = accepted \cup {a.dl}
    /\ IF a.by \in {"fresh", "test"}
       THEN UNCHANGED <<row, faults>>
       ELSE \E up \in StoreAnswers : DeleteDelivery(a.dl, up) /\ StoreCall(up)
    /\ UNCHANGED <<dbVars, prodVars, loopVars, retryVars, checked, stopping, histVars>>

\* Mutant: a parked first attempt does not hold back the eviction.
AttemptFailedUnnoticed(a) ==
    /\ attempts' = attempts \ {a}
    /\ accepted' \in {accepted, accepted \cup {a.dl}}
    /\ \E up \in StoreAnswers : SaveDelivery(a.dl, Scheduled(a.n), up) /\ StoreCall(up)
    /\ UNCHANGED <<dbVars, prodVars, loopVars, retryVars, checked, stopping, histVars>>

\* Anything else, a 2xx whose response was lost included: enqueue or schedule.
AttemptFailed(a) ==
    /\ attempts' = attempts \ {a}
    /\ accepted' \in {accepted, accepted \cup {a.dl}}
    /\ \E up \in StoreAnswers : SaveDelivery(a.dl, Scheduled(a.n), up) /\ StoreCall(up)
    /\ cur' = IF a.by = "fresh" THEN [cur EXCEPT !.failed = TRUE] ELSE cur
    /\ UNCHANGED <<dbVars, prodVars, disp, retryVars, checked, stopping, histVars>>

-----------------------------------------------------------------------------
(***************************************************************************)
(* The retry goroutine: retryDue.                                           *)
(***************************************************************************)
\* Mutant: a claim that leaves the revived row due at once.
UnleasedNever(d) == TRUE

\* The claim's lease outlasts the redelivery it was taken for.
Unleased(d) == \A a \in attempts : a.by \in Requests => a.dl # d

\* DueDeliveries, apart from the clock: live rows of hooks that are not paused.
Due == {d \in Deliveries : row[d].state = "live" /\ hook[d[2]] # "paused" /\ Unleased(d)}

RetryTick(D) ==
    /\ ~stopping
    /\ batch = {} /\ held = {} /\ By("retry") = {}
    /\ D # {}
    /\ batch' = {[dl |-> d, n |-> row[d].tries] : d \in D}
    /\ UNCHANGED <<dbVars, row, prodVars, loopVars, attempts, held, checked,
                   stopping, accepted, histVars, faults>>

\* Mutants: a paused hook's row treated as one whose hook is gone; the attempt
\* count not advanced.
RetryCheckDropsPaused(x) ==
    /\ ~stopping
    /\ x \in batch
    /\ held = {}
    /\ batch' = batch \ {x}
    /\ \/ hook[x.dl[2]] # "on" /\ DeleteDelivery(x.dl, TRUE) /\ UNCHANGED held
       \/ hook[x.dl[2]] = "on" /\ held' = {[x EXCEPT !.n = @ + 1]} /\ UNCHANGED row
    /\ UNCHANGED <<dbVars, prodVars, loopVars, attempts, checked, stopping,
                   accepted, histVars, faults>>

RetryCheckNoCount(x) ==
    /\ ~stopping
    /\ x \in batch
    /\ held = {}
    /\ batch' = batch \ {x}
    /\ \/ hook[x.dl[2]] = "gone" /\ DeleteDelivery(x.dl, TRUE) /\ UNCHANGED held
       \/ hook[x.dl[2]] = "paused" /\ UNCHANGED <<row, held>>
       \/ hook[x.dl[2]] = "on" /\ held' = {x} /\ UNCHANGED row
    /\ UNCHANGED <<dbVars, prodVars, loopVars, attempts, checked, stopping,
                   accepted, histVars, faults>>

\* Re-read the hook of a listed delivery.  Any error counts as "hook removed".
RetryCheck(x) ==
    /\ ~stopping
    /\ x \in batch
    /\ held = {}
    /\ batch' = batch \ {x}
    /\ \E up \in StoreAnswers :
          /\ StoreCall(up)
          /\ \/ /\ ~up \/ hook[x.dl[2]] = "gone"
                /\ DeleteDelivery(x.dl, TRUE)
                /\ UNCHANGED held
             \/ /\ up /\ hook[x.dl[2]] = "paused"
                /\ UNCHANGED <<row, held>>
             \/ /\ up /\ hook[x.dl[2]] = "on"
                /\ held' = {[x EXCEPT !.n = @ + 1]}
                /\ UNCHANGED row
    /\ UNCHANGED <<dbVars, prodVars, loopVars, attempts, checked, stopping,
                   accepted, histVars>>

\* retrySem has a slot for the retry that waits.
RetrySend(x) ==
    /\ x \in held
    /\ Cardinality(By("retry")) < Workers
    /\ held' = {}
    /\ attempts' = attempts \cup {[dl |-> x.dl, by |-> "retry", n |-> x.n]}
    /\ UNCHANGED <<dbVars, row, prodVars, loopVars, batch, checked, stopping,
                   accepted, histVars, faults>>

\* Shutdown ends the tick between two deliveries, or instead of a slot.
RetryStop ==
    /\ stopping
    /\ batch \cup held # {}
    /\ batch' = {} /\ held' = {}
    /\ UNCHANGED <<dbVars, row, prodVars, loopVars, attempts, checked, stopping,
                   accepted, histVars, faults>>

-----------------------------------------------------------------------------
(***************************************************************************)
(* API requests and the hourly sweep.                                       *)
(***************************************************************************)
\* SendTest: one immediate attempt, whatever the hook's filter or pause.
SendTest(t, h) ==
    /\ ~stopping
    /\ emit[t] = "new"
    /\ hook[h] # "gone"
    /\ emit' = [emit EXCEPT ![t] = "taken"]
    /\ owed' = [owed EXCEPT ![t] = {h}]
    /\ attempts' = attempts \cup {[dl |-> <<t, h>>, by |-> "test", n |-> 1]}
    /\ UNCHANGED <<dbVars, row, queue, loopVars, retryVars, checked, stopping,
                   accepted, purged, crashes, faults>>

\* Redeliver up to its claim: the row is dead and inside the retention age.
RedeliverCheck(r, d) ==
    /\ ~stopping
    /\ By(r) = {} /\ \A c \in checked : c.by # r
    /\ row[d].state = "dead"
    /\ checked' = checked \cup {[by |-> r, dl |-> d]}
    /\ UNCHANGED <<dbVars, row, prodVars, loopVars, attempts, retryVars,
                   stopping, accepted, histVars, faults>>

\* ClaimDeadDelivery, one conditional write: if the row is still dead it is
\* revived with its old attempt count and sent; otherwise the request is refused.
RedeliverClaim(c) ==
    /\ c \in checked
    /\ checked' = checked \ {c}
    /\ IF row[c.dl].state = "dead"
       THEN /\ row' = [row EXCEPT ![c.dl].state = "live"]
            /\ attempts' = attempts \cup {[dl |-> c.dl, by |-> c.by, n |-> 1]}
       ELSE UNCHANGED <<row, attempts>>
    /\ UNCHANGED <<dbVars, prodVars, loopVars, retryVars, stopping, accepted,
                   histVars, faults>>

\* SetWebhookPaused touches the hook and none of its deliveries.
SetPaused(h, p) ==
    /\ hook[h] # "gone"
    /\ hook' = [hook EXCEPT ![h] = IF p THEN "paused" ELSE "on"]
    /\ UNCHANGED <<accounts, retains, content, row, prodVars, loopVars, attempts,
                   retryVars, checked, stopping, accepted, histVars, faults>>

\* The foreign key of webhook_deliveries cascades.
DeleteWebhook(h) ==
    /\ hook[h] # "gone"
    /\ hook' = [hook EXCEPT ![h] = "gone"]
    /\ row' = [d \in Deliveries |-> IF d[2] = h THEN NoRow ELSE row[d]]
    /\ UNCHANGED <<accounts, retains, content, prodVars, loopVars, attempts,
                   retryVars, checked, stopping, accepted, histVars, faults>>

\* One transaction: the account's queued deliveries, its hooks (and theirs),
\* the account, and with it its stored messages.
DeleteAccount(a) ==
    /\ a \in accounts
    /\ accounts' = accounts \ {a}
    /\ hook' = [h \in Hooks |-> IF BoundTo[h] = a THEN "gone" ELSE hook[h]]
    /\ row' = [d \in Deliveries |->
                 IF DeliveryAccount(d) = a \/ BoundTo[d[2]] = a THEN NoRow ELSE row[d]]
    /\ content' = [e \in Events |-> IF AccountOf[e] = a THEN "deleted" ELSE content[e]]
    /\ UNCHANGED <<retains, prodVars, loopVars, attempts, retryVars, checked,
                   stopping, accepted, histVars, faults>>

SetRetention ==
    /\ retains' = ~retains
    /\ UNCHANGED <<hook, accounts, content, row, prodVars, loopVars, attempts,
                   retryVars, checked, stopping, accepted, histVars, faults>>

\* PurgeDeadDeliveries: dead rows past either cutoff; live rows are not touched.
PurgeDead(D) ==
    /\ D # {}
    /\ row' = [d \in Deliveries |-> IF d \in D THEN NoRow ELSE row[d]]
    /\ purged' = purged \cup D
    /\ UNCHANGED <<dbVars, prodVars, loopVars, attempts, retryVars, checked,
                   stopping, accepted, owed, crashes, faults>>

\* Mutant: the sweep's cutoffs applied to live rows too.
AllRows == {d \in Deliveries : row[d].state # "none"}

DeadRows == {d \in Deliveries : row[d].state = "dead"}

\* EvictExpiredContent: messages that outlived the policy's maximum age.
Expire(e) ==
    /\ retains
    /\ e \in MessageEvents
    /\ content[e] = "kept"
    /\ content' = [content EXCEPT ![e] = "expired"]
    /\ UNCHANGED <<hook, accounts, retains, row, prodVars, loopVars, attempts,
                   retryVars, checked, stopping, accepted, histVars, faults>>

-----------------------------------------------------------------------------
(***************************************************************************)
(* The end of the process, and its next start.  Memory is lost, the         *)
(* database stays.                                                          *)
(***************************************************************************)
Restart ==
    /\ emit' = [m \in Messages |->
                  IF emit[m] \in {"blocked", "queued"} THEN "lost" ELSE emit[m]]
    /\ queue' = <<>>
    /\ cur' = NoEvent
    /\ attempts' = {}
    /\ batch' = {} /\ held' = {} /\ checked' = {}
    /\ disp' = "loop"
    /\ stopping' = FALSE
    /\ UNCHANGED <<dbVars, row, owed, purged, faults>>

\* Killed at any point, a shutdown that gave up included: some of the POSTs in
\* flight may have reached their subscriber.
Crash ==
    /\ crashes < MaxCrashes
    /\ \E S \in SUBSET attempts : accepted' = accepted \cup {a.dl : a \in S}
    /\ crashes' = crashes + 1
    /\ Restart

\* Mutant: an end that does not wait for the handlers of test and redeliver.
ExitInFlight ==
    /\ disp = "done"
    /\ batch = {} /\ held = {}
    /\ Restart
    /\ UNCHANGED <<accepted, crashes>>

\* The orderly end: the HTTP handlers have ended and dispatcher.Wait returned.
\* What the drain did not take, or was emitted after it, is lost.
Exit ==
    /\ disp = "done"
    /\ attempts = {} /\ batch = {} /\ held = {}
    /\ Restart
    /\ UNCHANGED <<accepted, crashes>>

Dispatch ==
    \/ TakeEvent \/ CutShort \/ FinishEvent
    \/ StartDrain \/ DrainDeadline \/ DrainComplete
    \/ \E h \in Hooks : SendFresh(h)

Retry ==
    \/ \E D \in SUBSET Due : RetryTick(D)
    \/ \E x \in batch : RetryCheck(x)
    \/ \E x \in held : RetrySend(x)
    \/ RetryStop

Api ==
    \/ \E t \in Tests, h \in Hooks : SendTest(t, h)
    \/ \E r \in Requests, d \in Deliveries : RedeliverCheck(r, d)
    \/ \E c \in checked : RedeliverClaim(c)
    \/ \E h \in Hooks, p \in BOOLEAN : SetPaused(h, p)
    \/ \E h \in Hooks : DeleteWebhook(h)
    \/ \E a \in Accounts : DeleteAccount(a)
    \/ SetRetention

Sweep ==
    \/ \E D \in SUBSET DeadRows : PurgeDead(D)
    \/ \E e \in Events : Expire(e)

Next ==
    \/ \E e \in Events : Emit(e) \/ EmitBlocked(e)
    \/ Dispatch
    \/ \E a \in attempts : AttemptAccepted(a) \/ AttemptFailed(a)
    \/ Retry
    \/ Api
    \/ Sweep
    \/ Cancel \/ Crash \/ Exit

Spec == Init /\ [][Next]_vars

(***************************************************************************)
(* Fairness.  Goroutines that can run do run, and a POST ends because the   *)
(* client has a timeout.  Nothing is assumed of requests, sweeps, faults or *)
(* shutdown.  The two halves are kept apart: what fresh events need must    *)
(* not rest on the retries.                                                 *)
(***************************************************************************)
Ends(d, by) == \E a \in By(by) : a.dl = d /\ (AttemptAccepted(a) \/ AttemptFailed(a))

FreshFairness ==
    /\ WF_vars(TakeEvent) /\ WF_vars(CutShort) /\ WF_vars(FinishEvent)
    /\ WF_vars(\E h \in Hooks : SendFresh(h))
    /\ \A d \in Deliveries : WF_vars(Ends(d, "fresh"))

\* DueDeliveries lists oldest first, so a row that stays due gets its turn.
RetryFairness ==
    /\ \A d \in Deliveries :
          /\ SF_vars(\E D \in SUBSET Due : d \in D /\ RetryTick(D))
          /\ \A s \in Sources \ {"fresh"} : WF_vars(Ends(d, s))
    /\ WF_vars(\E x \in batch : RetryCheck(x))
    /\ WF_vars(\E x \in held : RetrySend(x))

FairSpec == Spec /\ FreshFairness

-----------------------------------------------------------------------------
(***************************************************************************)
(* Properties.                                                              *)
(***************************************************************************)
\* A delivery is still somewhere: to be sent, being sent, or stored.
Carried(d) ==
    \/ d[1] = cur.ev /\ d[2] \in cur.todo
    \/ \E a \in attempts : a.dl = d
    \/ row[d].state # "none"

\* The tenant or the sweep took it away.
Withdrawn(d) == hook[d[2]] = "gone" \/ DeliveryAccount(d) \notin accounts \cup {AnyAccount}
                \/ d \in purged

\* At-least-once (send's comment): however fan-out, retries, redeliveries,
\* pauses, purges, clean shutdowns and restarts interleave, a hook the event was
\* listed for has accepted it or the delivery is still carried, unless it was
\* withdrawn.  A kill, a failing store and a drain that ran out of time are excepted.
AtLeastOnce ==
    (crashes = 0 /\ faults = 0 /\ disp \notin {"skipped", "aborted"}) =>
        \A m \in Messages : \A h \in owed[m] :
            <<m, h>> \in accepted \/ Carried(<<m, h>>) \/ Withdrawn(<<m, h>>)

\* At most one POST of a delivery is in flight, whichever of the dispatch loop,
\* the retry loop and the redeliver requests sends it (ClaimDeadDelivery).
SingleFlight ==
    \A a, b \in attempts : a.dl = b.dl => a = b

\* Per-producer order (deliver's comment): first attempts in flight all belong
\* to the event in hand, so none overtakes an earlier event's.
OneEventAtATime ==
    \A a \in By("fresh") : a.dl[1] = cur.ev

\* Content evicted on delivery (evictDelivered) was taken in by every hook the
\* event was listed for, one of them with the full payload, and no delivery row
\* holds another copy of it.
EvictedOnlyWhenForwarded ==
    \A e \in Events : content[e] = "forwarded" =>
        /\ owed[e] \cap FullHooks # {}
        /\ \A h \in owed[e] : <<e, h>> \in accepted
        /\ \A h \in Hooks : row[<<e, h>>].state = "none"

\* schedule and ClaimDeadDelivery: a row is dead only with its schedule used up;
\* a live row no redelivery is working on has a try left.  A kill or a store
\* error inside a redelivery leaves a revived row with its old count.
RetryBudget ==
    \A d \in Deliveries :
        /\ row[d].state = "dead" => row[d].tries > RetryLimit
        /\ (row[d].state = "live" /\ crashes = 0 /\ faults = 0 /\ Unleased(d))
              => row[d].tries \in 1 .. RetryLimit

\* "Kept for inspection" (DefaultRetrySchedule), "the queue survives restarts"
\* (README): while no store call fails, a row leaves the table only when its
\* subscriber accepted, its hook or account went, or it was dead and purged.
RowClearedOnlyWhenSettled ==
    [][\A d \in Deliveries :
         (row[d].state # "none" /\ row'[d].state = "none" /\ faults' = faults) =>
            \/ d \in accepted'
            \/ hook'[d[2]] = "gone"
            \/ DeliveryAccount(d) \notin accounts' \cup {AnyAccount}
            \/ d \in purged' /\ row[d].state = "dead"]_vars

\* retrySem's comment: an event in the queue is taken up and all its first
\* attempts end, although retries may hang in their own pool for ever (FairSpec
\* assumes nothing of them).
FreshNeverWaitsForRetries ==
    \A e \in Events :
        (emit[e] = "queued" \/ cur.ev = e)
            ~> ((emit[e] # "queued" /\ cur.ev # e) \/ stopping)

\* Once the retry half is fair too, a live row of a hook that is not paused is
\* re-sent until it is settled: accepted, dead or withdrawn.
LiveRowSettles == RetryFairness =>
    \A d \in Deliveries :
        row[d].state = "live" ~> \/ row[d].state # "live"
                                 \/ hook[d[2]] = "paused" \/ stopping

\* The dispatcher implements DeliveryPromise: what each delivery's promise is,
\* read off the queue, the attempts, the retry tick and the table.
Pending(d) == Carried(d) \/ \E x \in batch \cup held : x.dl = d

PromiseOf(d) ==
    IF d \in accepted THEN "accepted"
    ELSE IF d[2] \notin owed[d[1]] THEN "none"
    ELSE IF row[d].state = "dead" THEN "dead"
    ELSE IF Pending(d) THEN "pending" ELSE "void"

Promise == INSTANCE DeliveryPromise WITH
    promise   <- [d \in Deliveries |-> PromiseOf(d)],
    withdrawn <- {d \in Deliveries : Withdrawn(d)},
    broken    <- crashes > 0 \/ faults > 0 \/ disp \in {"skipped", "aborted"}

\* Every behaviour of the two goroutines, the API and the table is one of the
\* promise's: nothing owed silently vanishes, nothing settled is taken back.
PromiseKept == Promise!Spec

\* What the comment on store.DeleteAccount says: no delivery of a deleted
\* account is kept and retried.  The code does not keep it (see findings).
NoDeliveryOfDeletedAccount ==
    \A d \in Deliveries :
        DeliveryAccount(d) \notin accounts \cup {AnyAccount} => row[d].state = "none"
=============================================================================
