# A verification development of unified-messaging

TLA+ modules of the server in `src/`, TLC configurations that check them on small
instances, and TLAPS proofs of what matters most for every instance. The code is
the reference: every definition is translated from the Go source, and
`PROJECT.json` (`map`) names the lines each one stands for.

    tlasany Delivery.tla                                     parse
    tlc -workers 2 -config MCDelivery.cfg MCDelivery.tla     model-check
    tlapm DeliveryProofs.tla                                 check the proofs

## 1. The system

One Go process beside one SQL database. End users connect mailboxes (Outlook,
OAuth) and chat accounts (WhatsApp, a linked device); the server mirrors their
messages and tells developers about them through webhooks.

    phone / Graph ──> provider adapters ──> syncer (mail)  ──┐
                                       └──> chatsync (chat) ─┤ Emit
    HTTP clients ──> api ──> accounts, auth, store           ▼
                      │                               events.Dispatcher ──> subscribers
                      └─ test, redeliver, pause, delete ───────┘│
                                  store (SQL) <─────────────────┘

| Component (code) | State it keeps | Operations | Talks to |
|---|---|---|---|
| **delivery** (`internal/events`, `webhook_deliveries` in `internal/store/aux.go`) | bounded queue, two worker pools, one event in hand; rows that are live or dead | `Emit`, `deliver`, `drain`, `retryDue`, `SendTest`, `Redeliver`, hourly purge | every producer, subscribers, store |
| **chat runtime** (`internal/chatsync`) | map account → actor, ceiling, actor's failures and connection, inbox | `Start`, `Attach`, `Detach`, `Wait`, the run loop, the sink's callbacks | accounts, whatsapp adapter, dispatcher |
| **chat send, idempotency** (`api/handlers_chat.go`, `store/chat.go`) | message rows (temporary and real), reservations | `sendChatText`, `withIdempotency`, `replayOrConflict` | whatsapp adapter, the sink's echo |
| **account linking** (`api/handlers_link.go`, `whatsapp/link.go`) | link registry, OAuth state, provider session | claim, pump, finish, late result, sweep | accounts, chat runtime |
| **mail sync** (`syncer/syncer.go`) | wake channel, in-flight and pending sets, cursors | `Wake`, worker, poll, `syncScope` | outlook adapter, dispatcher |
| **mail subscriptions** (`syncer/subscriptions.go`) | subscription rows here and upstream | ensure, create, adopt, renew, lifecycle, remove | outlook adapter |
| **accounts and tokens** (`internal/accounts`) | tokens, chat sessions, account status, one lock per account | `Connect`, `AccessToken`, `ConnectLinked`, `MarkLoggedOut`, `DeleteLinked` | providers, store |
| **sessions and keys** (`internal/auth`) | sessions, API keys, password | log in, slide, change password, revoke | store, api |
| **API surface** (`internal/api`) | rate and miss caches, notification slots | routing, rendering, CSRF, request handlers | all of the above |
| **store** (`internal/store`) | the tables | one statement or transaction per call | everybody |
| **adapters** (`internal/provider/*`) | sockets, device keys (`whatsapp`); nothing (`outlook`) | translation to and from the wire | Graph, whatsmeow |
| **senders** (`internal/notify`, `internal/safehttp`) | nothing | sign, format and post one notification | subscribers |

What is hard in it: two goroutines and any number of requests working on one
delivery; a shutdown that drains within a deadline; actors of one account that
overlap while one unwinds; a dial that cannot be cancelled; state read in one SQL
statement and acted on in another; a provider that reports late, twice or never.
`PROJECT.json` (`hazards`) lists each at its line with the properties that cover it,
or why none does.

What makes each component correct: *delivery* - nothing owed is lost, nothing is
posted twice at once, order per producer, content evicted only when forwarded;
*chat runtime* - one serving actor per OK account, none after shutdown or delete,
failures end in service or a hand-back; *chat send* - one send per idempotency key,
one row and one event per message; *linking* - a paired device becomes an account or
is unlinked, one account per consent; *mail sync* - no message skipped, none announced
twice, a wake is never lost; *subscriptions* - one live subscription per account, none
for a deleted one; *tokens* - no refresh or reconnect loses the grant; *sessions* - a password change
leaves one session.

## 2. Modules

| Module | What it is |
|---|---|
| `Delivery` | the dispatcher, its table, and the requests and sweeps that touch it |
| `DeliveryPromise` | the abstract specification: what one delivery is promised |
| `MCDelivery` | small instances for TLC |
| `DeliveryProofs` | who may work on a delivery, and its schedule: `TypeOK`, `SingleFlight`, `OneEventAtATime`, `RowClearedOnlyWhenSettled`, `RetryBudget` |
| `DeliveryOutcomes` | what becomes of it: `AtLeastOnce`, the refinement `PromiseKept`, `EvictedOnlyWhenForwarded` |
| `ChatRuntime` | runtime, actors, and the callers that start and stop them |
| `MCChatRuntime` | small instances for TLC |
| `ChatRuntimeProofs` | all seven of its safety properties |
| `ChatMessages` | one chat's rows and all who write them: sends under a key, other requests, the actor's inbox, retention |
| `MCChatMessages` | its instance for TLC |
| `ChatMessagesProofs` | all seven of its properties |
| `MailSync` | the mirror of a mailbox: wakes, the worker, cursors |
| `PushSubscriptions` | the push subscription of a mailbox, here and at the provider |
| `MailProofs` | `CursorNeverAhead`, `NewsOnce`, `WakeIsRemembered`, `StoredSecretsAreOurs` and the types of both |
| `Tokens` | one grant: callers of `AccessToken`, and a `Connect` beside them |
| `LinkPairing` | connect links, browsers, pairing attempts, and the account they end in |
| `Sessions` | a developer's logins, sessions and password changes |
| `MCAccounts` | these five for TLC, one in focus at a time |
| `MCMail` | the mirror by itself, for the expected violation |
| `TokensProofs`, `LinkProofs`, `SessionsProofs` | `GrantSurvives`; `OneBrowserDrives`, `NoDeviceLingers`; `OldPasswordIsOut`; and the types of each |

Operators whose comment begins with "Mutant" are plausible bugs; `PROJECT.json`
(`mutants`) says which definition each replaces and which property then fails.

### Delivery and the code

| Variable | Code |
|---|---|
| `hook`, `accounts`, `retains` | `webhooks` (row, `paused`), `accounts`, the retention setting |
| `row` | `webhook_deliveries`: `state` is `none`, live or dead; `tries` is `attempts` |
| `content` | a message's content: kept, evicted on delivery, evicted by age, deleted |
| `emit`, `queue`, `cur` | `Dispatcher.queue`; `deliver`'s locals (hooks still to reach, hooks that had the full payload, whether one failed) |
| `attempts` | POSTs in flight, by whom: `fresh` (`sem`), `retry` (`retrySem`), `test`, or a redeliver request |
| `batch`, `held` | the page `retryDue` listed; the row that waits for a retry slot |
| `checked` | redeliver requests between their checks and `ClaimDeadDelivery` |
| `disp`, `stopping` | where the dispatch goroutine is between loop, drain and return; `dispCancel` |
| `accepted`, `owed`, `purged`, `crashes`, `faults` | bookkeeping for the properties |

An action is one handler, or one of the pieces a handler falls into where another
goroutine can come between: `Emit`/`EmitBlocked` (fast path, bounded wait),
`TakeEvent`/`SendFresh`/`CutShort`/`FinishEvent` (`deliver`), `StartDrain`/
`DrainDeadline`/`DrainComplete` (`drain`), `RetryTick`/`RetryCheck`/`RetrySend`/
`RetryStop` (`retryDue`), `AttemptAccepted`/`AttemptFailed` (`send` and what its
caller does with the result), `RedeliverCheck`/`RedeliverClaim`, `SendTest`,
`SetPaused`, `DeleteWebhook`, `DeleteAccount`, `SetRetention`, `PurgeDead`, `Expire`,
`Cancel`, `Crash`, `Exit`.

Abstractions, each of which only adds behaviours or leaves out what no property sees:

- One tenant: others meet it only in the queue and the pools, which a test event or
  another account's hook fills as well.
- A retry tick takes any subset of the due rows. That covers every way clock, schedule
  and the page limit of 100 can select rows. The sweep's age cut-offs are a free
  choice as well.
- The redeliver lease (ten minutes) outlasts any send, so a claimed row is hidden from
  the tick while its redelivery is in flight (`Unleased`).
- Marshalling an event and minting ids do not fail; an unknown hook kind is a refused
  attempt. A refused attempt may have been accepted with its answer lost.
- Once `stopping`, no test or redelivery begins; single-statement requests still may.
- The drain's deadline aborts POSTs under its context: that is `AttemptFailed`. A
  shutdown in which HTTP handlers outlive their 15 seconds ends as `Crash`.
- One failing store call at a time (`MaxFaults = 1` in the runs): two failures of one
  handler are not combined.

`DeliveryPromise` gives one delivery five states - none, pending, dead, accepted, void
- and lets it become void only if withdrawn (hook or account gone, purged when dead)
or when the promise is broken (a kill, a store error, a drain out of time).
`Delivery!PromiseKept` is the refinement: the state is read off queue, attempts, tick
and table (`PromiseOf`).

### ChatRuntime and the code

| Variable | Code |
|---|---|
| `status`, `session`, `devices` | `accounts.status`, `chat_sessions`, the device table of the whatsapp adapter |
| `slot` | `Runtime.actors` |
| `conns` | `whatsapp.Provider.conns`: where commands are sent |
| `actor[x].at` | the place in `run`: `start` (read the session), `dial` (`GetDevice`), `dialing`, `serving`, `closing`, `decide`, `backoff`, then `forget`, `unsession`, `mark` (`MarkLoggedOut`), `exit` |
| `actor[x].sock`, `.disc` | the client's socket; the one-deep channel of `sink.Disconnected` and what `run` makes of it |
| `actor[x].terminating`, `.stopped` | `terminate`, `a.cancel` |
| `call` | where each link, reconnect and delete is; `victim` is the actor `Detach` took out of the map and has not cancelled yet |
| `boot`, `ctxDone`, `waited` | `Start`'s list, the runtime's context, `Wait` returned |
| `refused`, `deleted` | bookkeeping: the last Attach failed; a delete has removed the account |

Callers are cut where another goroutine can come between: each SQL statement, each
section under `Runtime.mu`, each provider call. `Install` is the section of `Attach`
under the lock. Reading the session's device and forgetting it is one step: only the
device that was read is forgotten. A registered connection that another replaces is
disconnected at once (the code starts a goroutine for it) and hears nothing, as
whatsmeow reports no disconnect the client asked for. `Logout` may fail, and a
successful one closes the socket with or without a report. Abstracted: the inbox and
what the sink stores (see `ChatMessages`), the roster, the length of the backoff,
store errors.

### ChatMessages and the code

| Variable | Code |
|---|---|
| `row` | `chat_messages`, by provider id or temporary id |
| `unread`, `chat` | the `chats` row: the counter, and whether it is there and has a name |
| `idem` | `idempotency_keys`: free, reserved, or the recorded answer with its operation's hash |
| `send[s].at` | where a send is: `replay`, `open` (the operation begins), `sending`, `acking` (the provider has answered), `discard`, `finish`, `record`, `release` |
| `patch` | an edit between the provider's answer and the store |
| `actor` | serving, stopping or off; its inbox; the closure in hand after its first store calls |
| `wire` | ids the provider has accepted |
| `said`, `lostRename`, `purged` | bookkeeping: who announced what, renames that lost, keys purged |

A send is cut at each store and provider call: `Reserve`, `Open`, `Transmit`,
`Rename`/`DropTemp`, `FinishSend`, `Record` or `Release`. Delete, react and read check
nothing that changes once the row is there, so each is one action; an edit is two, because
retention can come between. The actor takes its inbox in order, one closure at a time;
`Skip` is a closure that fails in the store. Two actors overlap while an old one unwinds.
What `messageFrom` and `receiptStatus` make of a report is `SinkCall`. Any store call of
a send can fail (`Fault`). Abstracted: texts (first, edited, none), emojis, attendees,
members, flags, the clock of the chat.

### MailSync and the code

| Variable | Code |
|---|---|
| `box`, `gone` | the mailbox upstream: a version per message; those removed |
| `mail` | `emails` |
| `cursor`, `walked` | `sync_state`: what the provider remembers under the saved cursor |
| `grant`, `synced` | `accounts.status`, `last_synced_at` |
| `queue`, `inflight`, `pending` | the wake channel and the two sets of `Syncer`, of this account |
| `waker` | a `Wake` call between its unlock and its send |
| `run` | the worker: the scopes left, the page in hand, whether events are suppressed |
| `through` | API requests for one message: a GET or PATCH between what it reads (the row, or the message upstream) and its `UpsertEmail` |
| `news`, `owed`, `late`, `raced`, `skipped` | bookkeeping |

`Wake`, `Poll`, `WakeSend`, `SendEmail` and `Reconnect` are the callers (a `Reconnect`, like
any other, marks the account pending if a run is under way). The worker is not the only
writer of `emails`. `PatchEmail` changes the message upstream and reads the row; `GetEmail`
finds a row whose attachments `complete` goes on to list; `GetMiss` finds none, and
`GetMessage` fetches the message. Each then writes what it holds in `CacheEmail`, with no
lock between, whatever the worker has done meanwhile; after a fetched message `complete` may
write once more. A draft that is created and cached is an arrival and such a fetch. `Take`, `Scopes`,
`Fetch`, `Store`, `Announce`, `Remove`, `SetCursor`, `MarkSynced` and `Finish` are the
pieces of `runOnce`, `syncAccount` and `syncScope`. A cursor is a snapshot of its
folder, and a delta is the difference to now. `CallFails` is every way a Graph call can
fail for good; its retries take no state. A moved message has a new id at the provider,
so that a move is an arrival and a removal.

### PushSubscriptions and the code

| Variable | Code |
|---|---|
| `remote`, `life` | the provider's subscription, fresh or due for renewal |
| `local` | `subscriptions`: life and secret per id |
| `alive`, `status` | the account exists; its status |
| `proc` | where the reconcile loop and a request are in `EnsureSubscription` and the rest |

The rows a goroutine has read are data of its own, so a stale read is acted on as in the
code. The provider keeps one subscription per mailbox: a second `Create` is
`ErrSubscriptionExists`. `Reconcile` passes over an account that is not OK, as `reconcileSubscriptions` does
(`subscriptions.go:54`); any call may find the grant revoked (`Revoked`), and a connect sets
the status again. Of an account that is gone or not OK, calls may fail for want of a token
(`CallIsLost`).
A call takes seconds and a subscription lives for days, so nothing ages between `Create`
and the `SaveSubscription` that follows it (`NobodySaves`).

### Tokens, LinkPairing, Sessions and the code

`Tokens`: `good` and `given` are the provider's refresh tokens, `stored` the `tokens` row,
`standing` the account's status, `lock` the mutex of `lockFor`, `caller` the calls of
`AccessToken`, `consent` a `Connect` between its statements. The provider may rotate or
not, omit the refresh token, or lose its answer on the way (`Loss`, as are failing
stores, revocations and kills).

`LinkPairing`: `row` is `oauth_states`, `reg` the registry, `try` an attempt with its
`linkSession` and the place its pump has come to, `devices` the provider's device rows,
`number` the account all scans lead to, `ask` a browser's request that has claimed the
row. `TakeOAuthState` is two steps (SELECT, DELETE) and `ConnectLinked` four, as in the
code. `Finishing` names the places of `finishLink`; at each of them a call may fail, the
SELECT and DELETE of the take included (`FinishFails`), and the device is forgotten unless
the forget fails too. If the last read of `ConnectLinked` fails, the device that has just
been saved is forgotten as well (`SaveChatSession`).

`Sessions`: `password` is a version, `session` the `sessions` rows with their age,
`login` a `Login` that has not made its session, `call` a request under a cookie.
`ExtendSession`'s WHERE is `Extended`. `Logout` deletes its cookie's session without resolving
it, as `handleLogout` does. Passwords, hashes and API keys are left out.

`Tokens`, `LinkPairing`, `Sessions`, `MailSync` and `PushSubscriptions` share no variable.
`MCAccounts` checks them in one run: `focus` says which one a behaviour is of, and the others
stand still. That is the union of their state spaces, not a product. What couples them in the
code is taken into each: a grant that is revoked or renewed is an action of `MailSync`
and of `PushSubscriptions`, of the calls of `Tokens` too. The runs check the type
invariants of `MailSync` and `LinkPairing`, which say how parts are wired; those of
`PushSubscriptions`, `Tokens` and `Sessions` were checked once on the same instances and are
proved.

## 3. Runs

| Run | Checks | Instance |
|---|---|---|
| `delivery` | `TypeOK`, `AtLeastOnce`, `OneEventAtATime`, `EvictedOnlyWhenForwarded` | two events, a webhook for all and a notifier bound to the account; queue 1, one worker, one retry |
| `delivery_faults` | `SingleFlight`, `RetryBudget`, `RowClearedOnlyWhenSettled`, `PromiseKept` | one event, one test event, two redeliver requests, one kill, one store error |
| `delivery_live` | `FreshNeverWaitsForRetries`, `LiveRowSettles` | two events, one hook, one redeliver request |
| `delivery_deleted_account` | violates `NoDeliveryOfDeletedAccount` | as `delivery` |
| `chat_runtime` | `TypeOK`, `OneActorServes`, `QuietAfterWait`, `OKIsServed`, `DeletedStaysDark` | one linked number, one relink of it, two requests (reconnect or delete), two actors alive, give-up at the first failure |
| `chat_runtime_live` | `CeilingHeld`, `ServingIsReachable`, `GivesUpOrServes`, `CancelStopsAll` | as above with one request and one backoff before the give-up |
| `chat_messages` | `TypeOK`, `EvictedStaysBlank`, `NoSecondSendUnderKey`, `ReplayIsOwn`, `SendResolves`, `KeysAreReleased`, `AnnouncedOnce` | two sends under one key, one starting the chat; one other request; two own ids, one of a peer; two actors, inbox of 1; two among reports, store errors and kills |
| `accounts` | `GrantSurvives` | two callers, four tokens, a second consent, one loss |
| | `LinkTypeOK`, `NoDeviceLingers`, `OneBrowserDrives` | two links, two browsers, two attempts, one fault |
| | `OldPasswordIsOut` | two sessions, two requests, three passwords, one error |
| | `SyncTypeOK`, `CursorNeverAhead`, `NewsOnce`, `WakeIsRemembered` | two messages in two folders, one GET or PATCH at a time, channel of 1, two changes upstream or evictions, one trouble |
| | `StoredSecretsAreOurs` | three subscription ids, two requests, two mishaps |
| `accounts_live` | `PairingAnswers` | one link, one browser, two attempts, one fault |
| | `MailboxIsMirrored` | as `accounts`, one change |
| | `PushRecovers`, `DisconnectEndsPush` | as `accounts` |
| `mail_starved` | violates `PollIsSafetyNet` | no request, no change, no trouble |
| `chat_relink` | violates `LogoutForgetsOwnDevice` | as `chat_runtime_live` |
| `chat_replaced` | violates `ConnectedIsConnected` | as `chat_runtime_live` |

Why the bounds are enough. *Delivery*: two events are the fewest that can be out of
order or fill the queue behind one in hand; two hooks, of which one gets the full
payload, are the fewest for an eviction to be decided over a mixed result; one worker
makes waiting for a slot happen at once; one retry gives live, dead and revived rows.
Two redeliver requests are the fewest that compete for a dead row. Restarts are not
bounded (`Exit` returns to a fresh process). *ChatRuntime*: each caller may meet an old
and a new actor of one account, and two actor names are enough for that, since a name
is free again once its goroutine has ended; the ceiling of one account is contested
between the deleted account and the one its number gets next. Restart is unbounded and
gives each request a new chance. The safety properties of `chat_runtime` were also
checked once with two failures before the give-up and two requests (3.9 million states).

*ChatMessages*: two sends under one key are the fewest that compete for a reservation,
and the second may be the same operation or another; each may lose its rename to the echo
of the first actor or the second. The bound of two on reports, store errors and kills lets
any two of them meet (an echo and a receipt, a message and its edit, an echo and a
failing store call). *MailSync*: one message was there before the account and one comes later, each
in a folder of its own, so that one scope can fail while the other is walked; a channel
of one place is full as soon as another account waits. One GET or PATCH crosses the worker
at any of its steps, and another follows when it has ended. *PushSubscriptions*: three ids are
the row, the lost one and the new one; two requests are a connect and a deletion, or two
notifications; two mishaps are a revoked
grant and a failed delete, or a dropped subscription and a kill. *Tokens*: two
callers are the fewest that share a refresh token. *LinkPairing*: two attempts of one
link follow each other after a sweep or a failed dial, and two of different links meet in
`finishLink`; one browser knows both links, the other only the first. *Sessions*: the
session of the request and one to sign out, two changes that overlap.

Deadlock is checked in the delivery runs and switched off in the others: in the chat runtime
the process ends (after `WaitReturns` nothing need follow), and in the rest every request,
change and fault of the instance can have been spent.

**Fairness.** `Delivery!FairSpec`: the dispatch goroutine runs when it can, and a POST
ends, because the HTTP client has a timeout; nothing is assumed of requests, sweeps,
faults, shutdown, or of the retry half - so `FreshNeverWaitsForRetries` shows what
`retrySem`'s comment says, that fresh events do not rest on the retries.
`LiveRowSettles` adds `RetryFairness`: a tick that keeps finding a row due takes it
(strongly fair: `DueDeliveries` lists oldest first, and a row is hidden while its
lease runs). `ChatRuntime!FairSpec`: every actor that can step does; a dial ends, since
the library times out. Nothing is assumed of phones, servers or callers.
`MailSync!SyncFairness` is weak throughout: the worker goroutine runs, a `Wake` call returns,
and the ticker ticks for an account that is OK. Nothing is assumed of the room a wake finds
in the channel: `pollOnce` walks the accounts in one fixed order, does not skip those already
queued, and a wake that finds the channel full is dropped (`syncer.go:118`), so other accounts
may have taken the room each time (`OtherWake`).
`PushSubscriptions!PushFairness`: the ticker ticks, a request's goroutine runs, and time
passes. `LinkPairing!LinkFairness`: `StartLink` returns and the pump with its timer runs.
Nothing is assumed of users, the phone or faults.

`MailboxIsMirrored` (`MailSync!MirrorCatchesUp`, of the behaviours with the mirror in
focus) says: if the account stays OK from some time on, and the channel does not drop this
account's wakes for ever (`ChannelServes`: they find room again and again, or none is
dropped any more), the mirror in the end holds what the mailbox holds and stays so,
whatever was lost, failed or restarted. The second premise is what the code does not give
(`mail_starved`, finding 4). Two things are excepted, both in the code: a row that a GET or
PATCH has put back as it had read or fetched it before the worker wrote or removed it
(`raced`: no delta shows it again until the message changes), and a removal from before a
walk without a cursor (`skipped`), which a delta cannot show.

`PushRecovers` (`PushSubscriptions!PushComesBack`, of those with the subscription) is about
an account that stays connected, because that is the only one the loop ensures. `Revoked`
and a connect may come before that.

## 4. Proofs

Every type invariant, safety invariant, safety action property and refinement that a
passing run checks is also a theorem, for every value of the constants that satisfies the
assumptions in section 4.6.
`PROJECT.json` (`theorems`) lists them. Each inductive invariant was checked with TLC
first, on the instance of its run, and each module proves `Init => Inv` and
`Inv /\ [Next]_vars => Inv'` with one lemma or step per action.

### 4.1 Delivery

`DeliveryProofs`. `TypeCorrect`, `OnePostAtATime` (`SingleFlight`) and `ProducerOrderKept`
(`OneEventAtATime`) come from `IInv == TypeOK /\ Ownership`. `SingleFlight` is not
inductive: that a retry does not post a delivery already being posted depends on what
keeps everyone else off its row. `Ownership` says who may be working on a delivery:
`QueueInv` (the queue holds each queued event once), `UnsentInv` and `TodoInv` (a delivery
the fan-out has not reached has left no trace), `FirstInv` (a first attempt or a test
finds no row yet), `ListInv` (what the retry loop listed or holds is listed once, has no
POST open and is not dead) and `DeadInv` (a dead row has no POST open, so a redelivery
that revives it is alone).

- `NoRowVanishes` (`RowClearedOnlyWhenSettled`) is an action property: each action that
  can clear a row is shown to do so only for one of the reasons the property lists.
- `ScheduleIsUsedUp` (`RetryBudget`) adds that attempts are counted from one (`CountInv`)
  and that a hook that is gone has no rows (`GoneInv`); without the latter, a redelivery
  whose hook has just gone would end with a revived row past its schedule.

`DeliveryOutcomes`.

- `NothingOwedIsLost` (`AtLeastOnce`): everything queued, in flight, listed or stored is
  owed (`OwedInv`); then no step takes the last carrier of an owed delivery away without
  accepting or withdrawing it.
- `PromiseImplemented` (`PromiseKept`, the refinement `Spec => DeliveryPromise`): initial
  states map to initial states, and every step, including a kill and a failing store call,
  maps each delivery's state to itself or along one of `DeliveryPromise`'s actions. It
  needs `ListedInv`: what a tick has listed still has a live row or has been withdrawn,
  so a delivery that is only listed is pending and not void.
- `NothingEvictedEarly` (`EvictedOnlyWhenForwarded`): `HandInv` relates the counters of the
  fan-out to what has happened (while `failed` is unset, every owed hook is still to come,
  is being posted to, or has accepted, and has no row), `ForwardInv` says that what was
  evicted has nothing under way that could still write a row.

### 4.2 ChatRuntime

`ChatRuntimeProofs`. Base: `CInv == TypeOK /\ Shape`, with `ActorShape` (what an actor's
fields may be where it is in `run`), `CallShape` (whose actor a caller is about to cancel)
and `EntryShape` (what an entry of `actors` or `conns` refers to).

- `OneServesAnAccount` (`OneActorServes`): `LiveIsHeld`, an actor that is not on its way
  out is in its account's entry, or some caller has taken it out to cancel it. An entry
  has one actor, so of two one is about to be cancelled.
- `WaitIsFinal` (`QuietAfterWait`): nothing is installed once the context is done.
- `CommandsReachServer` (`ServingIsReachable`): whoever takes over a number's entry in
  `conns` has killed the socket that was there.
- `NeverAboveCeiling` (`CeilingHeld`): the set of live entries is finite, and grows only in
  `Install`, by one, below the ceiling (with `FiniteSetTheorems`).
- `DeletedIsDark` (`DeletedStaysDark`): the session row cannot outlive its account
  (`SessionHasAccount`), and an actor of an account that is gone is about to find no
  session, unless somebody is about to detach it (`GoneIsDark`).
- `OKHasAnActor` (`OKIsServed`): an account loses its last actor only in steps that mark it,
  stop the server, or are of a caller still at work on it.

### 4.3 ChatMessages

`ChatMessagesProofs`. Base: `BaseInv == TypeOK /\ PhaseInv /\ CheckedInv` - types, what a
request holds at each step, and that a row somebody checked is still there when it is
written. One lemma each says what a step may do to rows, requests, keys, closures and
announcements (`StepRows`, `SendMoves`, `KeysMove`, `DoingMoves`, `SaidMoves`); the
properties are argued from those.

- `EvictedIsBlank` (`EvictedStaysBlank`): no statement makes a blank evicted row show text.
- `ReplaysAreOwn` (`ReplayIsOwn`): a recorded answer is that of a send which has ended
  under that key with that operation (`AnswerInv`), and such a send stays.
- `SendsResolve` (`SendResolves`): `TempInv` (a temporary row is its request's, between
  insert and rename) and `LandedInv` (a request about to record has its message stored).
- `KeysReleased` (`KeysAreReleased`): a reservation changes hands only at its request.
- `AnnouncedAtMostOnce` (`AnnouncedOnce`): `MsgInv` (an actor announces after an insert that
  only one can have made), `ApiInv` (an id belongs to one send) and `EchoInv` (unless the
  rename lost, no actor has stored the echo).
- `OneSendPerKey` (`NoSecondSendUnderKey`, an action property): `KeyInv`, a keyed request in
  flight holds its key, no other with that key is in flight, and none has succeeded under
  it since the last purge.

### 4.4 Mail

`MailProofs`. The mirror:

- `CursorBehindRows` (`CursorNeverAhead`): `MInv` - versions are within the changes made
  (`Young`), saved cursor, page in hand and mailbox stand in that order (`InOrder`), what a
  page no longer has to store or remove is stored or removed (`Left`, `RowsGood`). Rows alone
  are not inductive, since a request that read one will write it back: a version is `Good`
  if it is not behind the cursor nor behind a page that is done with its message, and every
  request that is not late holds a good one (`HandsGood`). The theorem states that as well
  (`HandsBehindCursor`): such a request cannot undo a cursor that is saved before it writes.
- `MailAnnouncedOnce` (`NewsOnce`): `NInv`. What was announced, or a cursor has seen, is
  known (`KnownOnce`): its row is there, or it has left the mailbox and no page shows it.
  So `EmailExists` stops a second announcement whichever page is walked again. The first
  walk of a folder sees all of its backlog, and is quiet (`BacklogSeen`).
- `WakeRemembered` (`WakeIsRemembered`), for a channel of any capacity.
- `MirrorTypes` (`SyncTypeOK`), which includes that a run is in flight exactly while the
  worker is on the account.

The push subscription: `SecretsAreOurs` (`StoredSecretsAreOurs`) and `PushTypes`
(`PushTypeOK`, which includes that an account that has gone keeps no row), both from `PInv`:
a row is one of ours or none, and a goroutine about to save has an id to save.

### 4.5 Accounts

- `LinkProofs`. `LinkHasOneBrowser` (`OneBrowserDrives`) speaks of attempts that were
  dialled and is not inductive: the row, once claimed, keeps its browser until it is gone
  (`Parties`), and then nobody can claim it any more. `NoDeviceIsLeft` (`NoDeviceLingers`):
  the session of an attempt and its device fit its stage (`SessionsFit`), the account's
  device is of an attempt that is over (`Keeper`), one attempt connects at a time (`Alone`,
  unless `overlap`), so the device it read is the one it replaces (`Replacing`). `LinkTypes`
  (`LinkTypeOK`), with `Wired`: registry and consents point at their own link.
- `TokensProofs`. `GrantIsKept` (`GrantSurvives`): the mutex is held by whoever is past
  `Enter` and nobody else, tokens on their way were issued and are not given to two
  (`Issued`), and what is about to be redeemed or stored is good (`Custody`).
- `SessionsProofs`. `OldPasswordsSignOut` (`OldPasswordIsOut`): no version anybody holds is
  newer than the password (`NothingNewer`). `SessionTypes` (`SessTypeOK`).

### 4.6 Assumptions

The proofs use the named assumptions of the modules and nothing else: model values are
distinct from each other (`None` is no event, hook, device or row; a temporary id is no
provider id), constant functions have their domains, and capacities are positive where the
code makes them so. `ChatRuntimeAssumption` adds that two accounts do not start with the
same device and `MaxFailures` is positive; `ChatMessagesAssumption`, that ids of ours and of
peers are disjoint, that the markers `failed`, `conflict` and `killed` are no ids, and that a
report other than the roster has an id. No set is assumed finite. TLC evaluates each
assumption on every run.

### 4.7 Only model-checked

Liveness, because the proof system treats neither `ENABLED` nor fairness:
`FreshNeverWaitsForRetries`, `LiveRowSettles`, `GivesUpOrServes`, `CancelStopsAll`,
`MailboxIsMirrored`, `PushRecovers`, `DisconnectEndsPush`, `PairingAnswers`. The four
expected violations are TLC's counterexamples and have no theorem.

## 5. Findings

Four places where the code does not do what its comments say; each has a run that
TLC finds violated.

1. `delivery_deleted_account`: an attempt in flight across `DeleteAccount` that then
   fails inserts its delivery again (`schedule` upserts; only the hook must exist), so a
   deleted account's payload is kept and retried (`events.go:406`, `store.go:298`).
2. `chat_relink`: `MarkLoggedOut` forgets the device the session names by then. An
   actor that logs out around a relink destroys the new device (`accounts.go:271`).
3. `chat_replaced`: `whatsapp.Connect` lets a late dial of a detached actor displace
   its replacement's connection, which is never told (`conn.go:57`).
4. `mail_starved`: the poll is not the safety net the package comment promises
   (`syncer.go:5`). It wakes accounts in the order of their creation into a channel of 256
   that may still hold them, and drops what does not fit (`syncer.go:118`): with more
   mailboxes than that and a busy worker, the last ones can be dropped at every tick.

Met while modelling and left without a run of their own, because the source promises
nothing else or a property excepts them:

- `retryDue` deletes a live delivery on any error of `GetAnyWebhook`, a busy database
  included, where its comment has only a hook that was removed in mind (`events.go:437`).
  `RetryCheck` does so under a failing store call, and `RowClearedOnlyWhenSettled` and the
  promise except the steps in which the store fails.
- A GET of a message the sync has not reached stores it (`handlers_mail.go:230`), and the
  walk that brings it finds a row and takes it for an update (`store.go:516`): its
  `mail_received` event is never emitted. `NewsOnce` says at most once.
- `TakeOAuthState` reads and deletes in two statements (`aux.go:548`): two attempts whose
  results come together can both go on, and two `ConnectLinked` of one number can leave a
  device row without an account (`overlap` in `NoDeviceLingers`). A kill while a phone is
  pairing leaves one as well, and so does a forget that fails with the call before it
  (`excused`).
- If the account cannot be read back after `SaveChatSession` (`accounts.go:244`), the device
  it has just been given is forgotten, and the account stays OK with no device.
- A login that verified the old password before a change may make its session after it
  (`auth.go:153`; `racy` in `OldPasswordIsOut`).
- A send that reached the provider and then fails in the store releases its key
  (`handlers_chat.go:179`), and the client's retry sends again; a kill leaves a row marked
  `sending` and a reserved key that answers 409 until it is a day old and another keyed
  request succeeds (the only moment `PurgeIdempotency` is called).
- `SetMessageStatus` is unconditional (`chat.go:401`): a status can go back from `read` to
  `delivered` or `sent`; `UpsertChat` of a started chat empties the name a report gave it.
- The echo and the API may both announce a sent message when the rename loses
  (`lostRename` in `AnnouncedOnce`).
- A walk without a cursor cannot show removals, so their rows stay (`skipped`); a
  GET or PATCH that read or fetched a message before a sync and writes it after puts the old
  or removed row back (`raced`).
- A kill between `UpsertEmail` and `Emit` loses that message's event (`NewsOnce` says at
  most once).
- A notification that asks for reauthorization renews upstream and does not store the new
  expiry (`subscriptions.go:299`), so the next reconcile renews once more.
- A refresh of a dead token that ends after `Connect` has written flips the account
  back to CREDENTIALS with a good grant stored; excluded here because the dead token takes
  a revocation (`lost`).

## 6. Plan

Done: 1 `Delivery` with its promise; 2 `ChatRuntime`; 3 `ChatMessages`; 4 `LinkPairing`;
5 `MailSync`; 6 `PushSubscriptions`; 7 `Tokens`; 8 `Sessions`; and the proofs of all
their safety properties.

Next, in this order:

- Theorems: the safety cores of the liveness properties that can be had without
  `ENABLED` (for `DisconnectEndsPush`: what is left upstream after a delete is in somebody's
  hands).
- Models: `LinkPairing` composed with the link steps of `ChatRuntime`; folders that come
  and go and roles in `MailSync`; API keys with their negative cache in `Sessions`.
- An abstract mailbox mirror for `MailSync`, exactly-once send for `ChatMessages`.

All modules keep recursion out, so that they can be proved about.

## 7. Not modelled, and why

HTTP routing and rendering, web pages, docs, configuration, logging (`internal/web`,
`internal/logx`, `internal/config`): no state beyond start-up. Signing, formatting and
URL checks (`internal/notify`, `internal/safehttp`, `internal/secretbox`): pure
functions of text. Wire formats of Graph and whatsmeow (`internal/provider/*`): their
effects are inputs here. Migrations and the two SQL dialects: one statement is one atomic
step in either. Listings, paging and threads: they read one statement's snapshot and write
nothing. API keys, sign-up, redirect domains, names and settings: one statement each, no
interleaving that matters. Not in `MailSync`: folders that come and go, roles, the backfill
window; attachments and drafts only as far as they write a row (section 2). Not in
`ChatMessages`: archive and mute flags, members, the last-message time. The miss caches (of
API keys, and of messages a GET did not find) and the rate limits of `internal/api`: bounded
maps whose entries expire; a remembered miss is an answer `GetMessage` may give.
