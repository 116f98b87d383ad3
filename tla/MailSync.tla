------------------------------ MODULE MailSync ------------------------------
(***************************************************************************)
(* The local mirror of one mailbox (internal/syncer/syncer.go): wakes from   *)
(* polls, notifications and API requests collapse into runs of one worker;   *)
(* a run walks each folder's delta from its saved cursor, stores each        *)
(* message, announces it and saves the cursor last.  Beside the worker API    *)
(* requests read a row, or fetch the message upstream, and write it back      *)
(* (handlers_mail.go), with no lock between, and retention evicts.           *)
(*                                                                          *)
(* A cursor is modelled by what the provider remembers under it: the version *)
(* of each message of the folder then, or that it had left.  A moved message gets a new  *)
(* id, so a move is an arrival and a removal.  The set of folders is fixed;  *)
(* roles and the two kinds of new mail are left out.  Of attachments only    *)
(* this is kept, that a GET which finds none listed writes the row again; a  *)
(* draft that is created and cached is an arrival and the GET of a miss.      *)
(***************************************************************************)
EXTENDS Naturals, Sequences, FiniteSets

CONSTANTS
    Msgs,        \* provider ids of messages
    Backlog,     \* those in the mailbox when the account is connected
    Folders,
    Home,        \* message -> the folder it arrives in
    Clients,     \* API requests for a message under way at once
    QueueCap,    \* capacity of the wake channel
    MaxChanges,  \* arrivals, changes and removals upstream, and evictions
    MaxTrouble   \* failing calls, expired cursors, revocations, kills, together

ASSUME MailSyncAssumption ==
    /\ Backlog \subseteq Msgs
    /\ Home \in [Msgs -> Folders]
    /\ QueueCap \in Nat \ {0} /\ MaxChanges \in Nat /\ MaxTrouble \in Nat

VARIABLES
    box,       \* upstream: message -> its version, 0 before it arrives
    gone,      \* upstream: messages removed
    mail,      \* emails: message -> [ver, evicted], version 0 if no row
    cursor,    \* sync_state: folder -> snapshot; nothing in it, no cursor
    walked,    \* folders that have a cursor
    grant,     \* accounts.status
    synced,    \* accounts.last_synced_at is set
    queue,     \* the wake channel: "me" or "other" account
    inflight, pending,
    waker,     \* a Wake call that has seen inflight unset
    run,       \* the worker
    through,   \* client -> its GET or PATCH, between reading and writing the row
    \* ---- bookkeeping ----
    news,      \* message -> new-mail events emitted
    owed,      \* a Wake returned or is sending, and no run has started since
    late,      \* clients whose row the worker has written since they read it
    raced,     \* rows a late client wrote, until the worker writes them again
    skipped,   \* removals a walk from nothing could not show
    changes, trouble

upstream == <<box, gone>>
account  == <<grant, synced>>
wakes    == <<queue, inflight, pending, waker, owed>>
mailAux  == <<late, raced, skipped>>
saved    == <<cursor, walked>>
syncVars == <<upstream, mail, saved, account, wakes, run, through, news,
              mailAux, changes, trouble>>

NoRow == [ver |-> 0, evicted |-> FALSE]
Empty == [m \in Msgs |-> 0]
Idle == [at |-> "idle", first |-> FALSE, todo |-> {}, in |-> {}, quiet |-> FALSE,
         page |-> Empty, changed |-> {}, removed |-> {}, new |-> {}]
Untouched == [at |-> "idle", ver |-> 0, m |-> {}]

Tombstone == MaxChanges + 2
Vers == 0 .. Tombstone
Snapshots == [Msgs -> Vers]

SyncTypeOK ==
    /\ box \in [Msgs -> Vers] /\ gone \subseteq Msgs
    /\ mail \in [Msgs -> [ver : Vers, evicted : BOOLEAN]]
    /\ cursor \in [Folders -> Snapshots]
    /\ grant \in {"OK", "CREDENTIALS"} /\ synced \in BOOLEAN
    /\ Len(queue) <= QueueCap /\ \A i \in 1 .. Len(queue) : queue[i] \in {"me", "other"}
    /\ inflight \in BOOLEAN /\ pending \in BOOLEAN
    /\ waker \in {"idle", "checked"}
    /\ \A c \in Clients : through[c].at \in {"idle", "missed", "fetched", "read"}
                          /\ through[c].ver \in Vers
    /\ run.at \in {"idle", "scopes", "walk", "apply", "end"}
    /\ run.todo \subseteq Folders /\ run.page \in Snapshots
    /\ run.in \subseteq Folders /\ Cardinality(run.in) <= 1
    /\ run.changed \cap run.removed = {} /\ run.new \subseteq Msgs
    /\ inflight <=> run.at # "idle"

SyncInit ==
    /\ box = [m \in Msgs |-> IF m \in Backlog THEN 1 ELSE 0]
    /\ gone = {}
    /\ mail = [m \in Msgs |-> NoRow]
    /\ cursor = [f \in Folders |-> Empty] /\ walked = {}
    /\ grant = "OK" /\ synced = FALSE
    /\ queue = <<>> /\ inflight = FALSE /\ pending = FALSE
    /\ waker = "checked"                      \* completeConnect wakes the account
    /\ run = Idle
    /\ through = [c \in Clients |-> Untouched]
    /\ news = [m \in Msgs |-> 0]
    /\ owed = TRUE
    /\ late = {} /\ raced = {} /\ skipped = {}
    /\ changes = 0 /\ trouble = 0

Held(m) == mail[m].ver > 0
Present(m) == box[m] > 0 /\ m \notin gone

\* What has become of the messages of folder f.
Now(f) == [m \in Msgs |-> IF Home[m] # f THEN 0 ELSE IF m \in gone THEN Tombstone ELSE box[m]]

Trouble == trouble < MaxTrouble /\ trouble' = trouble + 1
Change  == changes < MaxChanges /\ changes' = changes + 1

-----------------------------------------------------------------------------
(* Upstream, and the writers beside the worker.                             *)
Arrive(m) ==
    /\ box[m] = 0 /\ Change
    /\ box' = [box EXCEPT ![m] = 1]
    /\ UNCHANGED <<gone, mail, saved, account, wakes, run, through, news, mailAux, trouble>>

Touch(m) ==
    /\ Present(m) /\ Change
    /\ box' = [box EXCEPT ![m] = @ + 1]
    /\ UNCHANGED <<gone, mail, saved, account, wakes, run, through, news, mailAux, trouble>>

Discard(m) ==
    /\ Present(m) /\ Change
    /\ gone' = gone \cup {m}
    /\ UNCHANGED <<box, mail, saved, account, wakes, run, through, news, mailAux, trouble>>

\* UpsertEmail: content and participants of an evicted row stay blank.
UpsertEmail(m, v) == [mail EXCEPT ![m].ver = v]

ClientMoves(c, r) == through' = [through EXCEPT ![c] = r]
clientFrame == <<gone, saved, account, wakes, run, news, skipped, trouble>>

\* handlePatchEmail: the provider takes the change, then GetEmail.  Without a
\* row it ends there, which is Touch.
PatchEmail(c, m) ==
    /\ through[c].at = "idle" /\ Held(m) /\ Present(m) /\ Change
    /\ box' = [box EXCEPT ![m] = @ + 1]
    /\ ClientMoves(c, [at |-> "read", ver |-> mail[m].ver, m |-> {m}])
    /\ UNCHANGED <<clientFrame, mail, late, raced>>

\* handleGetEmail finds the row, and complete lists the attachments it lacks,
\* if the message is still there and its content is not evicted.
GetEmail(c, m) ==
    /\ through[c].at = "idle" /\ Held(m) /\ ~mail[m].evicted /\ Present(m)
    /\ ClientMoves(c, [at |-> "read", ver |-> mail[m].ver, m |-> {m}])
    /\ UNCHANGED <<clientFrame, box, changes, mail, late, raced>>

\* handleGetEmail finds no row.
GetMiss(c, m) ==
    /\ through[c].at = "idle" /\ ~Held(m) /\ Present(m)
    /\ ClientMoves(c, [at |-> "missed", ver |-> 0, m |-> {m}])
    /\ UNCHANGED <<clientFrame, box, changes, mail, late, raced>>

\* Its GetMessage, or an answer from mirrorMiss or an error.
GetMessage(c) ==
    /\ through[c].at = "missed"
    /\ \/ \E m \in through[c].m : Present(m) /\ ClientMoves(c, [at |-> "fetched", ver |-> box[m], m |-> {m}])
       \/ ClientMoves(c, Untouched)
    /\ UNCHANGED <<clientFrame, box, changes, mail, late, raced>>

\* The UpsertEmail of a fetched message, after which complete may go on to another, and that
\* of complete or handlePatchEmail, of the row as it was read.  An error is only logged.
CacheEmail(c) ==
    \E m \in through[c].m :
        /\ through[c].at \in {"fetched", "read"}
        /\ \/ /\ mail' = UpsertEmail(m, through[c].ver)
              /\ raced' = IF c \in late THEN raced \cup {m} ELSE raced
           \/ UNCHANGED <<mail, raced>>
        /\ \/ /\ through[c].at = "fetched" /\ Present(m)
              /\ ClientMoves(c, [through[c] EXCEPT !.at = "read"]) /\ UNCHANGED late
           \/ ClientMoves(c, Untouched) /\ late' = late \ {c}
        /\ UNCHANGED <<clientFrame, box, changes>>

\* EvictEmailContent.
EvictMail(m) ==
    /\ Held(m) /\ ~mail[m].evicted /\ Change
    /\ mail' = [mail EXCEPT ![m].evicted = TRUE]
    /\ UNCHANGED <<upstream, saved, account, wakes, run, through, news, mailAux, trouble>>

-----------------------------------------------------------------------------
(* Wake.                                                                    *)
wakeFrame == <<upstream, mail, saved, through, news, mailAux, changes>>

\* Wake up to its check of inflight: a run under way will be followed by another.
AskFor ==
    /\ waker = "idle"
    /\ owed' = TRUE
    /\ IF inflight THEN pending' = TRUE /\ UNCHANGED waker
       ELSE waker' = "checked" /\ UNCHANGED pending

\* handleResync and notifications call Wake.
Wake ==
    /\ AskFor
    /\ UNCHANGED <<wakeFrame, account, queue, inflight, run, trouble>>

\* pollOnce does for an account that is connected.
Poll == grant = "OK" /\ Wake

\* handleSendEmail, handleReply, handleForward, handleSendDraft: the provider
\* files what it sent, then Wake, so that the mirror shows it before the next poll.
SendEmail(m) ==
    /\ grant = "OK" /\ box[m] = 0 /\ Change
    /\ box' = [box EXCEPT ![m] = 1]
    /\ AskFor
    /\ UNCHANGED <<gone, mail, saved, account, queue, inflight, run, through, news, mailAux,
                   trouble>>

\* Mutant: the channel grows.
SendGrows(a) == queue' = Append(queue, a)

\* The select of Wake: a full channel drops the wakeup.
Send(a) == queue' = IF Len(queue) < QueueCap THEN Append(queue, a) ELSE queue

WakeSend ==
    /\ waker = "checked"
    /\ waker' = "idle"
    /\ Send("me")
    /\ owed' = (owed /\ Len(queue) < QueueCap)
    /\ UNCHANGED <<wakeFrame, account, inflight, pending, run, trouble>>

OtherWake ==
    /\ Len(queue) < QueueCap
    /\ Send("other")
    /\ UNCHANGED <<wakeFrame, account, inflight, pending, waker, owed, run, trouble>>

\* A user consents again: Connect, then Wake.
Reconnect ==
    /\ grant = "CREDENTIALS" /\ grant' = "OK"
    /\ AskFor
    /\ UNCHANGED <<wakeFrame, synced, queue, inflight, run, trouble>>

-----------------------------------------------------------------------------
(* The worker: runOnce and syncAccount.                                     *)
runFrame == <<upstream, through, queue, inflight, pending, waker, owed, changes>>

Take ==
    /\ run.at = "idle" /\ queue # <<>>
    /\ queue' = Tail(queue)
    /\ IF Head(queue) = "other" THEN UNCHANGED <<inflight, run, owed>>
       ELSE /\ inflight' = TRUE /\ owed' = FALSE
            /\ run' = [Idle EXCEPT !.at = IF grant = "OK" THEN "scopes" ELSE "end",
                                   !.first = ~synced]
    /\ UNCHANGED <<wakeFrame, account, pending, waker, trouble>>

End(r) == [r EXCEPT !.at = "end", !.todo = {}]

\* A refresh token the provider rejects: the account's status is flipped and
\* the run ends.  A call that fails otherwise does what fail says.
CallFails(fail) ==
    /\ Trouble
    /\ \/ grant' = "CREDENTIALS" /\ run' = End(run)
       \/ run' = fail /\ UNCHANGED grant

\* syncScopes.
Scopes ==
    /\ run.at = "scopes"
    /\ \/ run' = [run EXCEPT !.at = "walk", !.todo = Folders] /\ UNCHANGED <<grant, trouble>>
       \/ CallFails(End(run))
    /\ UNCHANGED <<runFrame, mail, saved, synced, news, mailAux>>

\* Mutant: a forced resync announces what it finds.
QuietFirstRun(initial) == run.first

\* Events are suppressed on a first run, a first walk and a forced resync.
Quiet(initial) == initial \/ run.first

\* syncScope up to SyncMessages' answer: what the folder's messages have become
\* since the cursor, or since nothing.
Delta(f, from, initial) ==
    LET now == Now(f)
    IN  [run EXCEPT !.at = "apply", !.todo = @ \ {f}, !.in = {f}, !.page = now,
                    !.quiet = Quiet(initial),
                    !.changed = {m \in Msgs : now[m] \notin {0, Tombstone, from[m]}},
                    !.removed = IF initial THEN {}
                                ELSE {m \in Msgs : now[m] = Tombstone /\ from[m] # Tombstone}]

Fetch(f) ==
    /\ run.at = "walk" /\ f \in run.todo
    /\ \/ /\ f \in walked
          /\ run' = Delta(f, cursor[f], FALSE)
          /\ UNCHANGED <<grant, skipped, trouble>>
       \/ /\ f \in walked => Trouble             \* ErrCursorExpired
          /\ f \notin walked => UNCHANGED trouble
          /\ run' = Delta(f, Empty, TRUE)
          /\ skipped' = skipped \cup {m \in gone : Home[m] = f}
          /\ UNCHANGED grant
       \/ CallFails([run EXCEPT !.todo = @ \ {f}]) /\ UNCHANGED skipped
    /\ UNCHANGED <<runFrame, mail, saved, synced, news, late, raced>>

\* The scope is left, its page stored or not; on with the next one.
Leave == [run EXCEPT !.at = "walk", !.in = {}, !.quiet = FALSE, !.page = Empty,
                     !.changed = {}, !.removed = {}, !.new = {}]

\* The worker writes the row of m: who read it before is late.
WorkerWrites(m, rows) ==
    /\ mail' = rows
    /\ late' = late \cup {c \in Clients : m \in through[c].m /\ through[c].ver > 0}
    /\ raced' = raced \ {m}

\* EmailExists and UpsertEmail of one changed message; a failure leaves the scope.
Store(m) ==
    /\ run.at = "apply" /\ m \in run.changed /\ run.new = {}
    /\ \/ /\ WorkerWrites(m, UpsertEmail(m, run.page[m]))
          /\ run' = [run EXCEPT !.changed = @ \ {m},
                                !.new = IF run.quiet \/ Held(m) THEN {} ELSE {m}]
          /\ UNCHANGED trouble
       \/ Trouble /\ run' = Leave /\ UNCHANGED <<mail, late, raced>>
    /\ UNCHANGED <<runFrame, account, saved, news, skipped>>

\* attachAttachments and Emit, after the row is stored.
Announce(m) ==
    /\ m \in run.new
    /\ news' = [news EXCEPT ![m] = @ + 1]
    /\ run' = [run EXCEPT !.new = {}]
    /\ UNCHANGED <<runFrame, mail, account, saved, mailAux, trouble>>

\* DeleteEmail of one removed message.
Remove(m) ==
    /\ run.at = "apply" /\ run.changed = {} /\ run.new = {} /\ m \in run.removed
    /\ \/ /\ WorkerWrites(m, [mail EXCEPT ![m] = NoRow])
          /\ run' = [run EXCEPT !.removed = @ \ {m}]
          /\ UNCHANGED trouble
       \/ Trouble /\ run' = Leave /\ UNCHANGED <<mail, late, raced>>
    /\ UNCHANGED <<runFrame, account, saved, news, skipped>>

\* Mutant: the cursor is saved before the page is stored.
PageStoredNever == run.at = "apply"

\* The end of syncScope is reached: SetCursor comes last.
PageStored == run.at = "apply" /\ run.changed = {} /\ run.removed = {} /\ run.new = {}

SetCursor(f) ==
    /\ PageStored /\ f \in run.in
    /\ \/ /\ cursor' = [cursor EXCEPT ![f] = run.page] /\ walked' = walked \cup {f}
          /\ UNCHANGED trouble
       \/ Trouble /\ UNCHANGED saved
    /\ run' = Leave
    /\ UNCHANGED <<runFrame, mail, account, news, mailAux>>

\* Every scope was tried: MarkSynced.
MarkSynced ==
    /\ run.at = "walk" /\ run.todo = {}
    /\ synced' = TRUE
    /\ run' = End(run)
    /\ UNCHANGED <<runFrame, mail, saved, grant, news, mailAux, trouble>>

\* Mutant: wakes that came during the run are forgotten.
FollowUpNever == UNCHANGED queue

\* runOnce wakes the account again if anybody asked meanwhile.
FollowUp == IF pending THEN Send("me") ELSE UNCHANGED queue

\* Mutant: a run that did not reach its end stays in flight.
FinishOnlyGood ==
    /\ run.at = "end"
    /\ inflight' = FALSE /\ pending' = FALSE
    /\ FollowUp
    /\ owed' = (owed /\ (pending => Len(queue) < QueueCap))
    /\ run' = Idle
    /\ synced
    /\ UNCHANGED <<wakeFrame, account, waker, trouble>>

\* The end of runOnce, whatever came of the run.
Finish ==
    /\ run.at = "end"
    /\ inflight' = FALSE /\ pending' = FALSE
    /\ FollowUp
    /\ owed' = (owed /\ (pending => Len(queue) < QueueCap))
    /\ run' = Idle
    /\ UNCHANGED <<wakeFrame, account, waker, trouble>>

\* The process dies and starts again on the same tables.
SyncKill ==
    /\ Trouble
    /\ queue' = <<>> /\ inflight' = FALSE /\ pending' = FALSE
    /\ waker' = "idle" /\ owed' = FALSE
    /\ run' = Idle
    /\ through' = [c \in Clients |-> Untouched] /\ late' = {}
    /\ UNCHANGED <<upstream, mail, saved, account, news, raced, skipped, changes>>

Walk ==
    \/ Take \/ Scopes \/ MarkSynced \/ Finish
    \/ \E f \in Folders : Fetch(f) \/ SetCursor(f)
    \/ \E m \in Msgs : Store(m) \/ Announce(m) \/ Remove(m)

ClientStep(c) ==
    \/ GetMessage(c) \/ CacheEmail(c)
    \/ \E m \in Msgs : PatchEmail(c, m) \/ GetEmail(c, m) \/ GetMiss(c, m)

SyncNext ==
    \/ Walk
    \/ \E m \in Msgs : Arrive(m) \/ Touch(m) \/ Discard(m) \/ SendEmail(m) \/ EvictMail(m)
    \/ \E c \in Clients : ClientStep(c)
    \/ Wake \/ WakeSend \/ OtherWake \/ Reconnect
    \/ SyncKill

\* The worker goroutine runs, a Wake call returns and the ticker ticks.  Nothing
\* is assumed of the room a wake finds: other accounts, polled in their fixed
\* order before this one, may have taken it whenever it comes.
SyncFairness == WF_syncVars(Walk) /\ WF_syncVars(WakeSend) /\ WF_syncVars(Poll)

SyncSpec == SyncInit /\ [][SyncNext]_syncVars /\ SyncFairness

-----------------------------------------------------------------------------
(***************************************************************************)
(* Properties.                                                              *)
(***************************************************************************)
\* syncScope saves its cursor last: whatever a saved cursor says was seen is in
\* the mirror, and whatever it says has left is not, but for rows that a GET or a
\* PATCH which had read them before the worker wrote them has put back (raced).
CursorNeverAhead ==
    \A f \in walked, m \in Msgs \ raced : Home[m] = f =>
        /\ m \notin gone => mail[m].ver >= cursor[f][m]
        /\ (cursor[f][m] = Tombstone /\ m \notin skipped) => ~Held(m)

\* quiet and EmailExists: mail that was there before the account is no news, and
\* new mail is news once, whatever is walked again.
NewsOnce == \A m \in Msgs : news[m] <= IF m \in Backlog THEN 0 ELSE 1

\* Wake, runOnce: a request for a sync is remembered until a run starts after it,
\* unless the channel was full.
WakeIsRemembered ==
    owed => waker = "checked" \/ pending \/ \E i \in 1 .. Len(queue) : queue[i] = "me"

\* The mirror holds what the mailbox holds, but for rows put back by a late GET
\* or PATCH and removals a walk from nothing cannot show.
Mirrored ==
    \A m \in Msgs \ raced :
        /\ Present(m) => mail[m].ver = box[m]
        /\ (m \in gone /\ m \notin skipped) => ~Held(m)

\* Wakes of this account find room again and again, or no more are dropped.
Roomy == Len(queue) < QueueCap
ChannelServes ==
    \/ []<><<WakeSend /\ Roomy>>_syncVars
    \/ <>[][~(WakeSend /\ ~Roomy)]_syncVars

\* syncAccount, runOnce: whatever was lost, failed or restarted, once nothing
\* changes upstream, the account stays connected and the channel does not drop all
\* its wakes for ever, the mirror holds what the mailbox holds.
MirrorCatchesUp == (<>[](grant = "OK") /\ ChannelServes) => <>[]Mirrored

\* The package comment: "a periodic incremental poll is the safety net that makes
\* eventual consistency actually eventual".  Polls and the worker being fair, the
\* mirror of a connected account holds what the mailbox holds in the end.
PollIsSafetyNet == <>[](grant = "OK") => <>[]Mirrored
=============================================================================
