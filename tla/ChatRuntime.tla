---------------------------- MODULE ChatRuntime ----------------------------
(***************************************************************************)
(* The chat half of the server: internal/chatsync.Runtime, which owns one   *)
(* actor (a goroutine with a connection) per linked account, and the        *)
(* callers that start, stop and outrun actors: Start at boot, the end of a  *)
(* device link (api.finishLink with accounts.ConnectLinked), the reconnect  *)
(* and delete requests, and the actor's own logout (accounts.MarkLoggedOut).*)
(*                                                                          *)
(* Every caller is cut at the points where another goroutine can come       *)
(* between two of its steps: each store statement, each section under       *)
(* Runtime.mu, each call into the provider.  Covered: dial failures, drops, *)
(* logouts from the phone, a dial that cannot be cancelled, shutdown,       *)
(* kill and restart at any point.                                           *)
(*                                                                          *)
(* Abstracted: the inbox and what the sink stores; the backoff's length;    *)
(* the roster; store errors.  Reading the session's device and forgetting   *)
(* it is one step.  Actor names are reused once nothing refers to the actor.*)
(***************************************************************************)
EXTENDS Naturals, FiniteSets

CONSTANTS
    Accounts,     \* account ids, the unused ones included
    Devices,      \* linked devices: the first sessions' and those to be paired
    Actors,       \* names for the actors alive at one time
    Requests,     \* reconnect and delete requests, made once in a process
    Linked,       \* account -> the device it is linked with at first, or None
    Number,       \* device to be paired -> the account with its phone number
    FreshId,      \* device to be paired -> the id a new account would get
    MaxAccounts,  \* Options.MaxAccounts
    MaxFailures,  \* maxFailures
    None

NewDevices == Devices \ {Linked[a] : a \in Accounts}
Callers    == NewDevices \cup Requests

ASSUME ChatRuntimeAssumption ==
    /\ None \notin Accounts \cup Devices \cup Actors
    /\ Devices \cap Requests = {}
    /\ Linked \in [Accounts -> Devices \cup {None}]
    /\ \A a, b \in Accounts : Linked[a] = Linked[b] => a = b \/ Linked[a] = None
    /\ Number \in [NewDevices -> Accounts]
    /\ FreshId \in [NewDevices -> Accounts]
    /\ MaxAccounts \in Nat \ {0}
    /\ MaxFailures \in Nat \ {0}

VARIABLES
    \* ---- the database ----
    status,    \* account -> "absent", "ok" or "credentials"
    session,   \* chat_sessions: account -> its device, or None
    devices,   \* the provider's own table: devices whose keys are held
    \* ---- the runtime and the provider ----
    slot,      \* Runtime.actors: account -> actor, or None
    conns,     \* whatsapp Provider.conns: account -> the actor commands reach
    actor,     \* actor -> its goroutine
    call,      \* link, reconnect or delete in progress -> how far it is
    boot,      \* accounts Start has listed and not attached yet
    ctxDone,   \* the runtime's context is cancelled
    waited,    \* Wait has returned
    \* ---- bookkeeping ----
    refused,   \* accounts whose last Attach returned an error
    deleted    \* accounts a delete request has removed

dbVars == <<status, session, devices>>
ctlVars == <<boot, ctxDone, waited, deleted>>
vars == <<dbVars, slot, conns, actor, call, refused, ctlVars>>

Unused == [acct |-> None, at |-> "unused", dev |-> None, sock |-> "none",
           disc |-> "none", failures |-> 0, terminating |-> FALSE, stopped |-> FALSE]
Idle == [at |-> "idle", op |-> None, acct |-> None, victim |-> None]

\* A row for each actor name, and one for each caller.
ActorRows == [acct : Accounts \cup {None},
              at : {"unused", "start", "dial", "dialing", "serving",
                    "closing", "decide", "backoff", "forget",
                    "unsession", "mark", "exit"},
              dev : Devices \cup {None},
              sock : {"none", "open", "dead"},
              disc : {"none", "dropped", "loggedOut", "stop"},
              failures : 0 .. MaxFailures - 1,
              terminating : BOOLEAN,
              stopped : BOOLEAN]
CallRows  == [at : {"idle", "upsert", "forget", "save",
                    "attach", "install", "take", "stop", "logout",
                    "unlink", "unsession", "delete", "done"},
              op : {"link", "reconnect", "delete", None},
              acct : Accounts \cup {None},
              victim : Actors \cup {None}]

TypeOK ==
    /\ status \in [Accounts -> {"absent", "ok", "credentials"}]
    /\ session \in [Accounts -> Devices \cup {None}]
    /\ devices \subseteq Devices
    /\ slot \in [Accounts -> Actors \cup {None}]
    /\ conns \in [Accounts -> Actors \cup {None}]
    /\ actor \in [Actors -> ActorRows]
    /\ call \in [Callers -> CallRows]
    /\ boot \subseteq Accounts
    /\ ctxDone \in BOOLEAN
    /\ waited \in BOOLEAN
    /\ refused \subseteq Accounts
    /\ deleted \subseteq Accounts

Init ==
    /\ status = [a \in Accounts |-> IF Linked[a] = None THEN "absent" ELSE "ok"]
    /\ session = Linked
    /\ devices = {Linked[a] : a \in Accounts} \ {None}
    /\ slot = [a \in Accounts |-> None]
    /\ conns = [a \in Accounts |-> None]
    /\ actor = [x \in Actors |-> Unused]
    /\ call = [c \in Callers |-> Idle]
    /\ boot = {a \in Accounts : status[a] = "ok"}
    /\ ctxDone = FALSE
    /\ waited = FALSE
    /\ refused = {}
    /\ deleted = {}

-----------------------------------------------------------------------------
Active(x) == actor[x].at # "unused"

\* a.ctx.Err() != nil
Cancelled(x) == actor[x].stopped \/ ctxDone

\* isTerminating
Terminating(x) == actor[x].terminating \/ Cancelled(x)

Live(x) == Active(x) /\ ~Terminating(x)

\* The actors HealthFor and liveCount see.
Slotted == {slot[a] : a \in Accounts} \ {None}

\* Mutant: the ceiling is checked with one too many.
LiveCountLessOne(a) ==
    LET n == Cardinality({x \in Slotted \ {slot[a]} : Live(x)})
    IN  IF n > 0 THEN n - 1 ELSE 0

\* liveCount, with the entry of account a evicted first.
LiveCount(a) == Cardinality({x \in Slotted \ {slot[a]} : Live(x)})

\* Not in use, and no caller is about to stop the actor that had this name.
FreeActors == {x \in Actors : ~Active(x) /\ \A c \in Callers : call[c].victim # x}

\* Mutants: an entry on its way out counts as attached; the context is not
\* looked at again under the lock.
InstallKeepsGhost(a) ==
    IF slot[a] # None
    THEN UNCHANGED <<slot, actor, refused>>
    ELSE IF ctxDone \/ LiveCount(a) >= MaxAccounts
    THEN /\ refused' = refused \cup {a}
         /\ UNCHANGED <<slot, actor>>
    ELSE \E x \in FreeActors :
            /\ slot' = [slot EXCEPT ![a] = x]
            /\ actor' = [actor EXCEPT ![x] = [Unused EXCEPT !.acct = a, !.at = "start"]]
            /\ refused' = refused \ {a}

InstallNoRecheck(a) ==
    IF slot[a] # None /\ ~Terminating(slot[a])
    THEN UNCHANGED <<slot, actor, refused>>
    ELSE IF LiveCount(a) >= MaxAccounts
    THEN /\ slot' = [slot EXCEPT ![a] = None]
         /\ refused' = refused \cup {a}
         /\ UNCHANGED actor
    ELSE \E x \in FreeActors :
            /\ slot' = [slot EXCEPT ![a] = x]
            /\ actor' = [actor EXCEPT ![x] = [Unused EXCEPT !.acct = a, !.at = "start"]]
            /\ refused' = refused \ {a}

\* Attach's section under Runtime.mu: keep a live actor, evict one on its way
\* out, re-check the context and the ceiling, install and start.
Install(a) ==
    IF slot[a] # None /\ ~Terminating(slot[a])
    THEN /\ refused' = refused \ {a}
         /\ UNCHANGED <<slot, actor>>
    ELSE IF ctxDone \/ LiveCount(a) >= MaxAccounts
    THEN /\ slot' = [slot EXCEPT ![a] = None]
         /\ refused' = refused \cup {a}
         /\ UNCHANGED actor
    ELSE \E x \in FreeActors :
            /\ slot' = [slot EXCEPT ![a] = x]
            /\ actor' = [actor EXCEPT ![x] = [Unused EXCEPT !.acct = a, !.at = "start"]]
            /\ refused' = refused \ {a}

\* Start, before the HTTP server listens: attach every account it listed.
Boot(a) ==
    /\ a \in boot
    /\ boot' = boot \ {a}
    /\ Install(a)
    /\ UNCHANGED <<dbVars, conns, call, ctxDone, waited, deleted>>

-----------------------------------------------------------------------------
(***************************************************************************)
(* The actor: run, serve, markLoggedOut and the goroutine around them.      *)
(***************************************************************************)
Move(x, at) == actor' = [actor EXCEPT ![x].at = at]

\* The attempt is over; what Decide makes of it.
Over(x, why) == actor' = [actor EXCEPT ![x].at = "decide", ![x].disc = why]

Dial(x) ==
    /\ actor[x].at = "start"
    /\ LET d == session[actor[x].acct]
       IN  IF d = None THEN Over(x, "loggedOut")
           ELSE actor' = [actor EXCEPT ![x].at = "dial", ![x].dev = d,
                                       ![x].disc = "none", ![x].sock = "none"]
    /\ UNCHANGED <<dbVars, slot, conns, call, refused, ctlVars>>

\* Connect's GetDevice, the one part of it that heeds a cancelled context.
LoadDevice(x) ==
    /\ actor[x].at = "dial"
    /\ CASE Cancelled(x) -> Over(x, "dropped")
         [] ~Cancelled(x) /\ actor[x].dev \notin devices -> Over(x, "loggedOut")
         [] OTHER -> actor' = [actor EXCEPT ![x].at = "dialing", ![x].sock = "open"]
    /\ UNCHANGED <<dbVars, slot, conns, call, refused, ctlVars>>

DialFails(x) ==
    /\ actor[x].at = "dialing"
    /\ actor' = [actor EXCEPT ![x].at = "decide", ![x].disc = "dropped", ![x].sock = "none"]
    /\ UNCHANGED <<dbVars, slot, conns, call, refused, ctlVars>>

\* The socket is up: register it.  A connection already registered for the
\* account is disconnected, which reports nothing to its sink.
Connected(x) ==
    /\ actor[x].at = "dialing"
    /\ LET a == actor[x].acct
       IN  /\ conns' = [conns EXCEPT ![a] = x]
           /\ actor' = [y \in Actors |->
                IF y = x THEN [actor[x] EXCEPT !.at = "serving"]
                ELSE IF y = conns[a] THEN [actor[y] EXCEPT !.sock = "dead"]
                ELSE actor[y]]
    /\ UNCHANGED <<dbVars, slot, call, refused, ctlVars>>

\* The provider reports the end of an open socket, once, from the handshake on.
Disconnected(x, why) ==
    /\ actor[x].sock = "open"
    /\ actor' = [actor EXCEPT ![x].sock = "dead",
                              ![x].disc = IF @ = "none" THEN why ELSE @]
    /\ UNCHANGED <<dbVars, slot, conns, call, refused, ctlVars>>

\* The connection has held for stableAfter.
Stabilised(x) ==
    /\ actor[x].at = "serving"
    /\ actor[x].failures > 0
    /\ actor' = [actor EXCEPT ![x].failures = 0]
    /\ UNCHANGED <<dbVars, slot, conns, call, refused, ctlVars>>

\* Mutant: serve ends on a report alone.
ServeEndsOnReport(x) ==
    /\ actor[x].at = "serving"
    /\ actor[x].disc # "none"
    /\ Move(x, "closing")
    /\ UNCHANGED <<dbVars, slot, conns, call, refused, ctlVars>>

\* serve ends: on the report, or on the context; with both, on either.
ServeEnds(x) ==
    /\ actor[x].at = "serving"
    /\ \/ actor[x].disc # "none" /\ Move(x, "closing")
       \/ /\ Cancelled(x)
          /\ actor' = [actor EXCEPT ![x].at = "closing", ![x].disc = "stop"]
    /\ UNCHANGED <<dbVars, slot, conns, call, refused, ctlVars>>

\* Mutant: Close drops whatever connection the account has.
CloseAny(x) ==
    /\ actor[x].at = "closing"
    /\ conns' = [conns EXCEPT ![actor[x].acct] = None]
    /\ actor' = [actor EXCEPT ![x].at = "decide", ![x].sock = "none"]
    /\ UNCHANGED <<dbVars, slot, call, refused, ctlVars>>

\* conn.Close, identity-checked.
Close(x) ==
    /\ actor[x].at = "closing"
    /\ conns' = [a \in Accounts |-> IF conns[a] = x THEN None ELSE conns[a]]
    /\ actor' = [actor EXCEPT ![x].at = "decide", ![x].sock = "none"]
    /\ UNCHANGED <<dbVars, slot, call, refused, ctlVars>>

\* Past the point of no return: terminate, which comes before anything else.
GiveUp(x) ==
    actor' = [actor EXCEPT ![x].at = "forget", ![x].terminating = TRUE,
                           ![x].disc = "none", ![x].failures = 0]

Leave(x) == actor' = [actor EXCEPT ![x] = [Unused EXCEPT !.acct = actor[x].acct,
                                                         !.at = "exit", !.stopped = TRUE]]

\* Mutant: a failed attempt is not counted.
DecideNoCount(x) ==
    /\ actor[x].at = "decide"
    /\ CASE actor[x].disc = "stop" -> Leave(x)
         [] actor[x].disc = "loggedOut" -> GiveUp(x)
         [] OTHER -> actor' = [actor EXCEPT ![x].at = "backoff", ![x].disc = "none",
                                            ![x].dev = None]
    /\ UNCHANGED <<dbVars, slot, conns, call, refused, ctlVars>>

\* Mutant: one attempt more than maxFailures.
DecideOnceMore(x) ==
    /\ actor[x].at = "decide"
    /\ CASE actor[x].disc = "stop" -> Leave(x)
         [] actor[x].disc = "loggedOut" -> GiveUp(x)
         [] OTHER ->
              LET n == actor[x].failures + 1
              IN  IF n > MaxFailures THEN GiveUp(x)
                  ELSE actor' = [actor EXCEPT ![x].at = "backoff", ![x].failures = n,
                                              ![x].disc = "none", ![x].dev = None]
    /\ UNCHANGED <<dbVars, slot, conns, call, refused, ctlVars>>

\* run's decision: stop, log out, or back off until the attempts are used up.
Decide(x) ==
    /\ actor[x].at = "decide"
    /\ CASE actor[x].disc = "stop" -> Leave(x)
         [] actor[x].disc = "loggedOut" -> GiveUp(x)
         [] OTHER ->
              LET n == actor[x].failures + 1
              IN  IF n >= MaxFailures THEN GiveUp(x)
                  ELSE actor' = [actor EXCEPT ![x].at = "backoff", ![x].failures = n,
                                              ![x].disc = "none", ![x].dev = None]
    /\ UNCHANGED <<dbVars, slot, conns, call, refused, ctlVars>>

\* The backoff sleep ends: on its timer, or on the context.
Wake(x) ==
    /\ actor[x].at = "backoff"
    /\ IF Cancelled(x) THEN Leave(x) ELSE Move(x, "start")
    /\ UNCHANGED <<dbVars, slot, conns, call, refused, ctlVars>>

\* MarkLoggedOut, first: forget the device the session names by now.
Forget(x) ==
    /\ actor[x].at = "forget"
    /\ LET a == actor[x].acct
       IN  IF status[a] = "absent"
           THEN Leave(x) /\ UNCHANGED devices
           ELSE Move(x, "unsession") /\ devices' = devices \ {session[a]}
    /\ UNCHANGED <<status, session, slot, conns, call, refused, ctlVars>>

Unsession(x) ==
    /\ actor[x].at = "unsession"
    /\ session' = [session EXCEPT ![actor[x].acct] = None]
    /\ Move(x, "mark")
    /\ UNCHANGED <<status, devices, slot, conns, call, refused, ctlVars>>

\* markCredentials, the status event and the return from run.
MarkCredentials(x) ==
    /\ actor[x].at = "mark"
    /\ status' = [status EXCEPT ![actor[x].acct] = IF @ = "absent" THEN @ ELSE "credentials"]
    /\ Leave(x)
    /\ UNCHANGED <<session, devices, slot, conns, call, refused, ctlVars>>

\* Mutant: remove clears the account's entry whoever holds it.
ExitRemovesAny(x) ==
    /\ actor[x].at = "exit"
    /\ slot' = [slot EXCEPT ![actor[x].acct] = None]
    /\ actor' = [actor EXCEPT ![x] = Unused]
    /\ UNCHANGED <<dbVars, conns, call, refused, ctlVars>>

\* The goroutine ends: remove, identity-checked, then wg.Done.
ActorExit(x) ==
    /\ actor[x].at = "exit"
    /\ slot' = [a \in Accounts |-> IF slot[a] = x THEN None ELSE slot[a]]
    /\ actor' = [actor EXCEPT ![x] = Unused]
    /\ UNCHANGED <<dbVars, conns, call, refused, ctlVars>>

Run(x) ==
    \/ Dial(x) \/ LoadDevice(x) \/ DialFails(x) \/ Connected(x)
    \/ ServeEnds(x) \/ Close(x) \/ Decide(x) \/ Wake(x)
    \/ Forget(x) \/ Unsession(x) \/ MarkCredentials(x) \/ ActorExit(x)

-----------------------------------------------------------------------------
(***************************************************************************)
(* The callers.  Step moves caller c on; the last step frees the caller.    *)
(***************************************************************************)
Step(c, at) == call' = [call EXCEPT ![c].at = at]
Finish(c) == call' = [call EXCEPT ![c] = [Idle EXCEPT !.at = "done"]]

\* ---- a device link comes to its end: finishLink and ConnectLinked ----
\* The phone scanned the code, so the provider holds the device's keys; an
\* account with its number, if AccountIDByEmail finds one, keeps its id.
LinkBegin(d) ==
    /\ boot = {}
    /\ call[d].at = "idle"
    /\ devices' = devices \cup {d}
    /\ LET a == IF status[Number[d]] # "absent" THEN Number[d] ELSE FreshId[d]
       IN  call' = [call EXCEPT ![d] = [Idle EXCEPT !.at = "upsert", !.op = "link", !.acct = a]]
    /\ UNCHANGED <<status, session, slot, conns, actor, refused, ctlVars>>

LinkUpsert(d) ==
    /\ call[d].at = "upsert"
    /\ status' = [status EXCEPT ![call[d].acct] = "ok"]
    /\ Step(d, "forget")
    /\ UNCHANGED <<session, devices, slot, conns, actor, refused, ctlVars>>

\* Drop the previous device.
LinkForget(d) ==
    /\ call[d].at = "forget"
    /\ devices' = devices \ ({session[call[d].acct]} \ {d})
    /\ Step(d, "save")
    /\ UNCHANGED <<status, session, slot, conns, actor, refused, ctlVars>>

\* SaveChatSession, whose account must exist; else the link fails and its
\* device is forgotten.
LinkSave(d) ==
    /\ call[d].at = "save"
    /\ IF status[call[d].acct] # "absent"
       THEN /\ session' = [session EXCEPT ![call[d].acct] = d]
            /\ Step(d, "attach")
            /\ UNCHANGED devices
       ELSE /\ devices' = devices \ {d}
            /\ Finish(d)
            /\ UNCHANGED session
    /\ UNCHANGED <<status, slot, conns, actor, refused, ctlVars>>

\* ---- the reconnect request ----
ReconnectBegin(r, a) ==
    /\ boot = {}
    /\ call[r].at = "idle"
    /\ status[a] = "ok"
    /\ call' = [call EXCEPT ![r] = [Idle EXCEPT !.at = "take", !.op = "reconnect", !.acct = a]]
    /\ UNCHANGED <<dbVars, slot, conns, actor, refused, ctlVars>>

\* ---- the delete request ----
DeleteBegin(r, a) ==
    /\ boot = {}
    /\ call[r].at = "idle"
    /\ status[a] # "absent"
    /\ call' = [call EXCEPT ![r] = [Idle EXCEPT !.at = "logout", !.op = "delete", !.acct = a]]
    /\ UNCHANGED <<dbVars, slot, conns, actor, refused, ctlVars>>

\* Logout through the registered connection, if there is one: it may fail; if
\* not, the device is unlinked and the socket closed, reported or not.
DeleteLogout(r) ==
    /\ call[r].at = "logout"
    /\ LET x == conns[call[r].acct]
       IN  \/ UNCHANGED <<devices, actor>>
           \/ /\ x # None
              /\ actor[x].sock = "open"
              /\ devices' = devices \ {actor[x].dev}
              /\ \E why \in {"none", "loggedOut"} :
                    actor' = [actor EXCEPT ![x].sock = "dead",
                                           ![x].disc = IF @ = "none" THEN why ELSE @]
    /\ Step(r, "unlink")
    /\ UNCHANGED <<status, session, slot, conns, refused, ctlVars>>

\* DeleteLinked: the device, then the session, then the account.
DeleteUnlink(r) ==
    /\ call[r].at = "unlink"
    /\ IF status[call[r].acct] = "absent"
       THEN Finish(r) /\ UNCHANGED devices
       ELSE devices' = devices \ {session[call[r].acct]} /\ Step(r, "unsession")
    /\ UNCHANGED <<status, session, slot, conns, actor, refused, ctlVars>>

DeleteSession(r) ==
    /\ call[r].at = "unsession"
    /\ session' = [session EXCEPT ![call[r].acct] = None]
    /\ Step(r, "delete")
    /\ UNCHANGED <<status, devices, slot, conns, actor, refused, ctlVars>>

\* Mutant: the request ends without Detach.
DeleteRowOnly(r) ==
    /\ call[r].at = "delete"
    /\ status' = [status EXCEPT ![call[r].acct] = "absent"]
    /\ session' = [session EXCEPT ![call[r].acct] = None]
    /\ deleted' = deleted \cup {call[r].acct}
    /\ Finish(r)
    /\ UNCHANGED <<devices, slot, conns, actor, boot, ctxDone, waited, refused>>

\* The row of chat_sessions, if a link has put one back, goes by cascade.
DeleteRow(r) ==
    /\ call[r].at = "delete"
    /\ status' = [status EXCEPT ![call[r].acct] = "absent"]
    /\ session' = [session EXCEPT ![call[r].acct] = None]
    /\ deleted' = deleted \cup {call[r].acct}
    /\ Step(r, "take")
    /\ UNCHANGED <<devices, slot, conns, actor, boot, ctxDone, waited, refused>>

\* ---- Detach, for a reconnect or a delete ----
\* Under Runtime.mu: take the entry out.
DetachTake(r) ==
    /\ call[r].at = "take"
    /\ LET a == call[r].acct
       IN  /\ call' = [call EXCEPT ![r].at = "stop", ![r].victim = slot[a]]
           /\ slot' = [slot EXCEPT ![a] = None]
    /\ UNCHANGED <<dbVars, conns, actor, refused, ctlVars>>

\* After the unlock: cancel the actor.
DetachStop(r) ==
    /\ call[r].at = "stop"
    /\ LET x == call[r].victim
       IN  actor' = IF x # None /\ Active(x)
                    THEN [actor EXCEPT ![x].stopped = TRUE] ELSE actor
    /\ IF call[r].op = "reconnect"
       THEN call' = [call EXCEPT ![r].at = "attach", ![r].victim = None]
       ELSE Finish(r)
    /\ UNCHANGED <<dbVars, slot, conns, refused, ctlVars>>

\* ---- Attach, for a link or a reconnect ----
\* Up to the lock: the context, and the account must exist.
AttachCheck(c) ==
    /\ call[c].at = "attach"
    /\ IF ctxDone \/ status[call[c].acct] = "absent"
       THEN Finish(c) /\ refused' = refused \cup {call[c].acct}
       ELSE Step(c, "install") /\ UNCHANGED refused
    /\ UNCHANGED <<dbVars, slot, conns, actor, ctlVars>>

AttachInstall(c) ==
    /\ call[c].at = "install"
    /\ Install(call[c].acct)
    /\ Finish(c)
    /\ UNCHANGED <<dbVars, conns, ctlVars>>

Link(d) == LinkUpsert(d) \/ LinkForget(d) \/ LinkSave(d)

Delete(r) ==
    DeleteLogout(r) \/ DeleteUnlink(r) \/ DeleteSession(r) \/ DeleteRow(r)

Proceed(c) ==
    \/ c \in NewDevices /\ Link(c)
    \/ c \in Requests /\ (Delete(c) \/ DetachTake(c) \/ DetachStop(c))
    \/ AttachCheck(c) \/ AttachInstall(c)

-----------------------------------------------------------------------------
(***************************************************************************)
(* Shutdown, kill and restart.                                              *)
(***************************************************************************)
CancelContext ==
    /\ ~ctxDone
    /\ ctxDone' = TRUE
    /\ UNCHANGED <<dbVars, slot, conns, actor, call, boot, waited, refused,
                   deleted>>

\* main waits for the actors after the HTTP server has stopped; a link that
\* finishes later is not waited for.
WaitReturns ==
    /\ ctxDone
    /\ boot = {}
    /\ ~waited
    /\ \A r \in Requests : call[r].at \in {"idle", "done"}
    /\ \A x \in Actors : ~Active(x)
    /\ waited' = TRUE
    /\ UNCHANGED <<dbVars, slot, conns, actor, call, boot, ctxDone, refused,
                   deleted>>

\* The process ends, orderly or not, and the next one lists the accounts.
Restart ==
    /\ slot' = [a \in Accounts |-> None]
    /\ conns' = [a \in Accounts |-> None]
    /\ actor' = [x \in Actors |-> Unused]
    /\ call' = [c \in Callers |->
                  IF c \in NewDevices /\ call[c].at # "idle"
                  THEN [Idle EXCEPT !.at = "done"] ELSE Idle]
    /\ boot' = {a \in Accounts : status[a] = "ok"}
    /\ ctxDone' = FALSE
    /\ waited' = FALSE
    /\ refused' = {}
    /\ UNCHANGED <<dbVars, deleted>>

Next ==
    \/ \E a \in Accounts : Boot(a)
    \/ \E x \in Actors : Run(x) \/ Stabilised(x)
    \/ \E x \in Actors, why \in {"dropped", "loggedOut"} : Disconnected(x, why)
    \/ \E d \in NewDevices : LinkBegin(d)
    \/ \E r \in Requests, a \in Accounts : ReconnectBegin(r, a) \/ DeleteBegin(r, a)
    \/ \E c \in Callers : Proceed(c)
    \/ CancelContext \/ WaitReturns \/ Restart

Spec == Init /\ [][Next]_vars

\* A goroutine that can run does run, and a dial ends: the library gives up on
\* one that does not answer.  Nothing is assumed of callers, phones or servers.
FairSpec == Spec /\ \A x \in Actors : WF_vars(Run(x))

-----------------------------------------------------------------------------
(***************************************************************************)
(* Properties.                                                              *)
(***************************************************************************)
Busy(a) == \E c \in Callers : call[c].acct = a /\ call[c].at \notin {"idle", "done"}

\* Attach's "already attached is a no-op" and the identity-checked remove: two
\* actors of one account never both serve it, however links, reconnects,
\* deletes and logouts cross; one of the two is about to be cancelled.
OneActorServes ==
    \A x, y \in Actors :
        (x # y /\ Live(x) /\ Live(y) /\ actor[x].acct = actor[y].acct) =>
            \E c \in Callers : call[c].victim \in {x, y}

\* The ceiling of Options.MaxAccounts holds for the accounts being served,
\* although the slot of an actor on its way out is given away at once.
CeilingHeld == Cardinality({x \in Slotted : Live(x)}) <= MaxAccounts

\* Attach's two looks at the context: once Wait has returned no actor runs, a
\* link that finishes during the shutdown notwithstanding.
QuietAfterWait == waited => \A x \in Actors : ~Active(x)

\* Attach's eviction of an entry on its way out: an account that is OK has an
\* actor, or one still logging it out, or somebody about to attach it, or was
\* refused one.  A link that began before its account was deleted is excepted.
OKIsServed ==
    \A a \in Accounts :
        (status[a] = "ok" /\ ~ctxDone /\ a \notin boot \cup refused \cup deleted) =>
            \/ \E x \in Actors : actor[x].acct = a /\ ~Cancelled(x) /\ actor[x].at # "exit"
            \/ Busy(a)

\* Close's identity check: an actor that serves on an open socket is the one
\* that the account's commands reach.
ServingIsReachable ==
    \A x \in Actors :
        (actor[x].at = "serving" /\ actor[x].sock = "open") => conns[actor[x].acct] = x

\* handleDeleteAccount's order, unlink before detach: when it has finished no
\* actor holds or dials a socket for the account, an Attach that crossed it
\* included; what is left finds no device.
DeletedStaysDark ==
    \A a \in deleted, x \in Actors :
        (status[a] = "absent" /\ ~Busy(a) /\ actor[x].acct = a /\ Live(x)) =>
            actor[x].at \in {"start", "decide"} /\ actor[x].sock = "none"

\* maxFailures: an account that keeps failing is served again or handed back.
GivesUpOrServes ==
    \A x \in Actors : actor[x].at = "backoff" ~> (actor[x].at = "serving" \/ ~Live(x))

\* stop's comment: the context alone ends every actor, wherever it is.
CancelStopsAll == ctxDone ~> ((\A x \in Actors : ~Active(x)) \/ ~ctxDone)

\* ConnectLinked "replaces the device", MarkLoggedOut is for when "the phone
\* removed the linked device": an actor's logout forgets the device that actor
\* was connected with.  The code does not keep it (see findings).
LogoutForgetsOwnDevice ==
    [][\A x \in Actors :
         (actor[x].at = "forget" /\ actor'[x].at = "unsession") =>
            devices \ devices' \subseteq {actor[x].dev}]_vars

\* HealthFor "reports an account's live connection state": an actor that says
\* connected, and is nobody's to stop, has a socket or is about to learn that it
\* lost it.  The code does not keep it (see findings).
ConnectedIsConnected ==
    \A x \in Actors :
        (actor[x].at = "serving" /\ Live(x) /\ ~Busy(actor[x].acct)) =>
            actor[x].sock = "open" \/ actor[x].disc # "none"
=============================================================================
