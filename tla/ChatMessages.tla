---------------------------- MODULE ChatMessages ----------------------------
(***************************************************************************)
(* One chat of one linked account: its rows in chat_messages, and all who   *)
(* write them.  API requests send a text under an Idempotency-Key           *)
(* (handlers_chat.go withIdempotency, sendChatText), or edit, delete, react *)
(* to and mark messages read; the account's actor stores what the phone     *)
(* reports (whatsapp conn.handle, chatsync sink) in the order of its inbox; *)
(* retention blanks content.  Covered: echoes and replays, receipts in any  *)
(* order, an answer of the provider that is lost, two actors while an old   *)
(* one unwinds, kill and restart, one failing store call.                   *)
(*                                                                          *)
(* A handler is cut at each store and provider call another writer could    *)
(* come between.  Abstracted: texts (the first one, an edited one, none),   *)
(* the chat's clock, flags and members, attendees' profiles, paging.        *)
(***************************************************************************)
EXTENDS Naturals, Sequences, FiniteSets

CONSTANTS
    Sends,       \* API send requests; each names its temporary row as well
    Starts,      \* those of them that start the chat (POST /chats)
    Key,         \* request -> its Idempotency-Key, or None
    Opers,       \* request -> what operationHash may make of it: a set
    Patches,     \* API requests on a message, or on the chat's read mark
    PatchOps,    \* what they may do: subset of {"edit", "delete", "react", "read"}
    Own,         \* provider ids for messages sent from this account
    Peer,        \* provider ids for messages sent to it
    Wire,        \* what the phone may report: records [what, id]
    Actors,      \* names for the actors alive at one time
    InboxCap,    \* capacity of an inbox
    MaxEvents,   \* reports of the phone, failing store calls and kills, together
    None

Ids  == Own \cup Peer
Rows == Ids \cup Sends
AllOpers == (UNION {Opers[s] : s \in Sends}) \cup {None}
Keys == {Key[s] : s \in Sends} \ {None}
Bodies == {"text", "media", "setup", "machinery", "reaction", "revoke", "edit"}
Receipts == {"delivery", "read", "read-self", "played"}

\* A row of chat_messages.
Row == [mine : BOOLEAN, status : {"", "sending", "sent", "delivered", "read"},
        text : {"first", "second", "none"}, edited : BOOLEAN, deleted : BOOLEAN,
        evicted : BOOLEAN, hearts : SUBSET {"self", "peer"}]

ASSUME ChatMessagesAssumption ==
    /\ Starts \subseteq Sends
    /\ Sends \cap Ids = {} /\ Own \cap Peer = {}
    /\ None \notin Rows \cup Row
    /\ (Own \cup {None}) \cap {"failed", "conflict", "killed"} = {}
    /\ DOMAIN Key = Sends /\ DOMAIN Opers = Sends
    /\ PatchOps \subseteq {"edit", "delete", "react", "read"}
    /\ Wire \subseteq [what : Bodies \cup Receipts \cup {"roster"}, id : Ids \cup {None}]
    /\ \A e \in Wire : e.what # "roster" => e.id \in Ids
    /\ InboxCap \in Nat \ {0}
    /\ MaxEvents \in Nat

VARIABLES
    row,       \* chat_messages: provider id or temporary id -> row, or None
    unread,    \* chats.unread_count
    chat,      \* the chats row: "none", "bare" (no name) or "named"
    idem,      \* idempotency_keys: free, held, or the recorded answer
    send,      \* request -> where it is, the id the provider gave, the answer
    patch,     \* likewise
    actor,     \* actor -> state, inbox, and the closure it is in the middle of
    wire,      \* own ids the provider has accepted
    \* ---- bookkeeping ----
    said,      \* id -> message events emitted, by the actor and by the API
    lostRename, \* own ids the temporary row was not renamed to
    purged,    \* keys PurgeIdempotency has dropped
    reports, faults, kills

reqVars == <<idem, send, purged>>
auxVars == <<said, lostRename>>
bounds  == <<reports, faults, kills>>
vars == <<row, unread, chat, reqVars, patch, actor, wire, auxVars, bounds>>

NewSend == [at |-> "idle", oper |-> None, id |-> None, answer |-> None]
NewPatch == [at |-> "idle", id |-> None]
Free == [is |-> "none", oper |-> None, id |-> None]
Held == [Free EXCEPT !.is = "held"]
Off == [on |-> "off", inbox |-> <<>>, doing |-> None]

\* A row as UpsertChatMessage inserts it.
Fresh(mine, status) ==
    [mine |-> mine, status |-> status, text |-> "first", edited |-> FALSE,
     deleted |-> FALSE, evicted |-> FALSE, hearts |-> {}]

TypeOK ==
    /\ row \in [Rows -> Row \cup {None}]
    /\ unread \in Nat
    /\ chat \in {"none", "bare", "named"}
    /\ idem \in [Keys -> [is : {"none", "held", "answer"},
                           oper : AllOpers, id : Own \cup {None}]]
    /\ send \in [Sends -> [at : {"idle", "replay", "open", "sending", "acking", "discard",
                                 "finish", "record", "release", "done"},
                           oper : AllOpers, id : Own \cup {None},
                           answer : Own \cup {"failed", "conflict", "killed", None}]]
    /\ patch \in [Patches -> [at : {"idle", "edit", "done"}, id : Ids \cup {None}]]
    /\ actor \in [Actors -> [on : {"off", "serving", "stopping"}, inbox : Seq(Wire),
                             doing : Wire \cup {None}]]
    /\ \A x \in Actors : Len(actor[x].inbox) <= InboxCap
    /\ wire \subseteq Own
    /\ lostRename \subseteq Own
    /\ purged \subseteq Keys
    /\ said \in [Ids -> [actor : Nat, api : Nat]]
    /\ reports \in Nat /\ faults \in Nat /\ kills \in Nat

Init ==
    /\ row = [r \in Rows |-> None]
    /\ unread = 0
    /\ chat = "none"
    /\ idem = [k \in Keys |-> Free]
    /\ send = [s \in Sends |-> NewSend]
    /\ patch = [p \in Patches |-> NewPatch]
    /\ actor = [x \in Actors |-> Off]
    /\ wire = {}
    /\ said = [i \in Ids |-> [actor |-> 0, api |-> 0]]
    /\ lostRename = {}
    /\ purged = {}
    /\ reports = 0 /\ faults = 0 /\ kills = 0

-----------------------------------------------------------------------------
(* The statements of store/chat.go, as values of the row function.          *)

\* SetMessageStatus: unconditional, and nothing if there is no such row.
SetMessageStatus(i, status) ==
    IF row[i] = None THEN row ELSE [row EXCEPT ![i].status = status]

\* Mutant: the guard on evicted rows is missing.
EditUnguarded(i) == [row EXCEPT ![i].text = "second", ![i].edited = TRUE]

\* EditChatMessage: an evicted row does not match.
EditChatMessage(i) ==
    IF row[i].evicted THEN row
    ELSE [row EXCEPT ![i].text = "second", ![i].edited = TRUE]

RevokeChatMessage(i) == [row EXCEPT ![i].deleted = TRUE, ![i].text = "none"]

\* ApplyReaction's transaction: who's reaction is replaced or removed.
ApplyReaction(i, who, on) ==
    [row EXCEPT ![i].hearts = IF on THEN @ \cup {who} ELSE @ \ {who}]

\* provider connFor: some actor's connection is registered.
Connected == \E x \in Actors : actor[x].on = "serving"

\* A store call fails.
Room == reports + faults + kills < MaxEvents
Fault == Room /\ faults' = faults + 1 /\ UNCHANGED <<reports, kills>>

-----------------------------------------------------------------------------
(***************************************************************************)
(* A send: withIdempotency around handleSendChatMessage or handleStartChat. *)
(***************************************************************************)
Goto(s, at) == send' = [send EXCEPT ![s].at = at]
Answered(s, a) ==
    IF a \in Own THEN [send[s] EXCEPT !.at = "done", !.answer = a]
    ELSE [NewSend EXCEPT !.at = "done", !.answer = a]
Answer(s, a) == send' = [send EXCEPT ![s] = Answered(s, a)]
InFlight(s) == send[s].at \notin {"idle", "replay", "done"}

sendFrame == <<unread, patch, actor, wire, said>>

\* Mutant: a key that somebody holds is taken over.
ReserveTakesHeld(s, o) ==
    LET to(at) == send' = [send EXCEPT ![s].at = at, ![s].oper = o]
    IN  IF Key[s] = None THEN to("open") /\ UNCHANGED idem
        ELSE IF idem[Key[s]].is # "answer"
        THEN to("open") /\ idem' = [idem EXCEPT ![Key[s]] = Held]
        ELSE to("replay") /\ UNCHANGED idem

\* ReserveIdempotency: INSERT ... ON CONFLICT DO NOTHING; no header, no key.
Reserve(s, o) ==
    LET to(at) == send' = [send EXCEPT ![s].at = at, ![s].oper = o]
    IN  IF Key[s] = None THEN to("open") /\ UNCHANGED idem
        ELSE IF idem[Key[s]] = Free
        THEN to("open") /\ idem' = [idem EXCEPT ![Key[s]] = Held]
        ELSE to("replay") /\ UNCHANGED idem

Begin(s) ==
    /\ send[s].at = "idle"
    /\ \/ \E o \in Opers[s] : Reserve(s, o) /\ UNCHANGED bounds
       \/ Key[s] # None /\ Fault /\ Answer(s, "failed") /\ UNCHANGED idem
    /\ UNCHANGED <<row, chat, purged, lostRename, sendFrame>>

\* Mutant: the hash of the stored answer is not compared.
ReplayAny(s) ==
    IF idem[Key[s]].is # "answer" THEN Answer(s, "conflict")
    ELSE Answer(s, idem[Key[s]].id)

\* replayOrConflict.
Replayed(s) ==
    IF idem[Key[s]].is # "answer" \/ idem[Key[s]].oper # send[s].oper
    THEN Answer(s, "conflict")
    ELSE Answer(s, idem[Key[s]].id)

Replay(s) ==
    /\ send[s].at = "replay"
    /\ Replayed(s)
    /\ UNCHANGED <<row, chat, idem, purged, lostRename, sendFrame, bounds>>

\* GetChat, or StartDirect and the UpsertChat that leaves the name empty; then
\* sendChatText's temporary row, which nobody else looks at yet.
Open(s) ==
    /\ send[s].at = "open"
    /\ \/ /\ s \in Starts => Connected
          /\ s \notin Starts => chat # "none"
          /\ chat' = IF s \in Starts THEN "bare" ELSE chat
          /\ \/ /\ row' = [row EXCEPT ![s] = Fresh(TRUE, "sending")]
                /\ Goto(s, "sending") /\ UNCHANGED bounds
             \/ Fault /\ Goto(s, "release") /\ UNCHANGED row
       \/ /\ s \in Starts \/ chat = "none"
          /\ Goto(s, "release") /\ UNCHANGED <<row, chat, bounds>>
    /\ UNCHANGED <<idem, purged, lostRename, sendFrame>>

\* SendText, on the wire under an id of the provider's.
Transmit(s) ==
    /\ send[s].at = "sending"
    /\ Connected
    /\ \E i \in Own \ wire :
          /\ wire' = wire \cup {i}
          /\ send' = [send EXCEPT ![s].at = "acking", ![s].id = i]
    /\ UNCHANGED <<row, unread, chat, patch, actor, said, idem, purged, lostRename, bounds>>

\* DeleteChatMessageRow(tmp), its error ignored: SendText was refused, or its
\* answer did not come before the caller left, or the rename was lost.
DropTemp(s) ==
    /\ send[s].at \in {"sending", "acking", "discard"}
    /\ \/ row' = [row EXCEPT ![s] = None] /\ UNCHANGED bounds
       \/ Fault /\ UNCHANGED row
    /\ Goto(s, IF send[s].at = "discard" THEN "finish" ELSE "release")
    /\ UNCHANGED <<chat, idem, purged, lostRename, sendFrame>>

\* Mutant: a lost race leaves the temporary row behind.
RenameLeavesTemp(s) ==
    LET i == send[s].id
    IN  IF row[i] # None
        THEN Goto(s, "finish") /\ UNCHANGED row /\ lostRename' = lostRename \cup {i}
        ELSE /\ row' = [row EXCEPT ![i] = row[s], ![s] = None]
             /\ Goto(s, "finish") /\ UNCHANGED lostRename

\* RenameChatMessage: the id may be taken by the echo.
Renamed(s) ==
    LET i == send[s].id
    IN  IF row[i] # None
        THEN Goto(s, "discard") /\ UNCHANGED row /\ lostRename' = lostRename \cup {i}
        ELSE /\ row' = [row EXCEPT ![i] = row[s], ![s] = None]
             /\ Goto(s, "finish") /\ UNCHANGED lostRename

Rename(s) ==
    /\ send[s].at = "acking"
    /\ \/ Renamed(s) /\ UNCHANGED bounds
       \/ Fault /\ Goto(s, "discard") /\ UNCHANGED row /\ lostRename' = lostRename \cup {send[s].id}
    /\ UNCHANGED <<chat, idem, purged, sendFrame>>

\* SetMessageStatus(sent), BumpChat(0), GetChatMessage, GetChat, Emit.
FinishSend(s) ==
    LET i == send[s].id
    IN  /\ send[s].at = "finish"
        /\ \/ /\ row' = SetMessageStatus(i, "sent")
              /\ Goto(s, IF row[i] = None THEN "release" ELSE "record")
              /\ said' = IF row[i] = None THEN said ELSE [said EXCEPT ![i].api = @ + 1]
              /\ UNCHANGED bounds
           \/ /\ Fault /\ row' \in {row, SetMessageStatus(i, "sent")}
              /\ Goto(s, "release") /\ UNCHANGED said
        /\ UNCHANGED <<unread, chat, patch, actor, wire, idem, purged, lostRename>>

\* PurgeIdempotency: rows a day old, so none of a request still running.
Aged(k) == idem[k] # Free /\ \A s \in Sends : Key[s] = k => ~InFlight(s)

\* PutIdempotency, its error ignored, and the answer.
Record(s) ==
    /\ send[s].at = "record"
    /\ Answer(s, send[s].id)
    /\ IF Key[s] = None
       THEN UNCHANGED <<idem, purged, bounds>>
       ELSE \E old \in SUBSET {k \in Keys : Aged(k)} :
              /\ purged' = purged \cup old
              /\ \/ /\ idem' = [k \in Keys |->
                                  IF k = Key[s]
                                  THEN [is |-> "answer", oper |-> send[s].oper, id |-> send[s].id]
                                  ELSE IF k \in old THEN Free ELSE idem[k]]
                    /\ UNCHANGED bounds
                 \/ Fault /\ idem' = [k \in Keys |-> IF k \in old THEN Free ELSE idem[k]]
    /\ UNCHANGED <<row, chat, lostRename, sendFrame>>

\* Mutant: a failed operation keeps its key.
ReleaseNothing(s) ==
    /\ send[s].at = "release"
    /\ Answer(s, "failed")
    /\ UNCHANGED <<idem, row, chat, purged, lostRename, sendFrame, bounds>>

\* DeleteIdempotency after a failure, its error ignored.
Release(s) ==
    /\ send[s].at = "release"
    /\ Answer(s, "failed")
    /\ IF Key[s] = None
       THEN UNCHANGED <<idem, bounds>>
       ELSE \/ idem' = [idem EXCEPT ![Key[s]] = Free] /\ UNCHANGED bounds
            \/ Fault /\ UNCHANGED idem
    /\ UNCHANGED <<row, chat, purged, lostRename, sendFrame>>

SendStep(s) ==
    \/ Begin(s) \/ Replay(s) \/ Open(s) \/ Transmit(s) \/ DropTemp(s) \/ Rename(s)
    \/ FinishSend(s) \/ Record(s) \/ Release(s)

-----------------------------------------------------------------------------
(***************************************************************************)
(* The other requests: check and tell the provider, then write.             *)
(***************************************************************************)
patchFrame == <<chat, reqVars, actor, wire, auxVars, bounds>>

\* messageAndChat and what each handler refuses.
MayPatch(op, i) ==
    /\ row[i] # None
    /\ op \in {"edit", "delete"} => row[i].mine
    /\ op = "edit" => ~row[i].evicted

Patched(p) == patch' = [patch EXCEPT ![p] = [NewPatch EXCEPT !.at = "done"]]

\* The check, and Edit accepted by the provider.
PatchBegin(p, i) ==
    /\ patch[p].at = "idle" /\ "edit" \in PatchOps
    /\ Connected /\ MayPatch("edit", i)
    /\ patch' = [patch EXCEPT ![p] = [at |-> "edit", id |-> i]]
    /\ UNCHANGED <<row, unread, patchFrame>>

PatchApply(p) ==
    /\ patch[p].at = "edit"
    /\ row' = EditChatMessage(patch[p].id)
    /\ Patched(p)
    /\ UNCHANGED <<unread, patchFrame>>

\* The others check nothing that changes once the row is there, so that check,
\* provider and write are one step.
AtOnce(p, op) == patch[p].at = "idle" /\ op \in PatchOps /\ Connected /\ Patched(p)

DeleteMessage(p, i) ==
    /\ AtOnce(p, "delete") /\ MayPatch("delete", i)
    /\ row' = RevokeChatMessage(i)
    /\ UNCHANGED <<unread, patchFrame>>

React(p, i) ==
    /\ AtOnce(p, "react") /\ MayPatch("react", i)
    /\ \E on \in BOOLEAN : row' = ApplyReaction(i, "self", on)
    /\ UNCHANGED <<unread, patchFrame>>

\* handlePatchChat: MarkRead and ClearUnread; archived and muted are left out.
MarkRead(p) ==
    /\ AtOnce(p, "read") /\ chat # "none"
    /\ unread' = 0
    /\ UNCHANGED <<row, patchFrame>>

-----------------------------------------------------------------------------
(***************************************************************************)
(* What the phone reports, and the actor that stores it.                    *)
(***************************************************************************)
actFrame == <<reqVars, patch, lostRename>>

\* messageFrom and receiptStatus: which sink call a report becomes; key set-up
\* and protocol machinery become none.
SinkCall(e) ==
    CASE e.what \in {"text", "media"}      -> "Message"
      [] e.what = "reaction"               -> "Reaction"
      [] e.what = "revoke"                 -> "Deleted"
      [] e.what = "edit"                   -> "Edited"
      [] e.what \in {"delivery", "read", "read-self"} -> "Receipt"
      [] e.what = "roster"                 -> "roster"
      [] OTHER                             -> ""

ReceiptStatus(e) == IF e.what = "delivery" THEN "delivered" ELSE "read"

\* Mutant: the queue is a slice that grows.
EnqueueGrows(x, e) == actor' = [actor EXCEPT ![x].inbox = Append(@, e)]

\* sink.enqueue: a full inbox blocks the caller.
Enqueue(x, e) ==
    /\ Len(actor[x].inbox) < InboxCap
    /\ actor' = [actor EXCEPT ![x].inbox = Append(@, e)]

\* conn.handle and sink.enqueue; roster's closures come the same way.  A report
\* an actor that is stopping drops is as good as none.
Report(x, e) ==
    /\ actor[x].on # "off"
    /\ e.id \in Own => e.id \in wire
    /\ Room
    /\ SinkCall(e) # ""
    /\ reports' = reports + 1
    /\ Enqueue(x, e)
    /\ UNCHANGED <<row, unread, chat, wire, said, actFrame, faults, kills>>

\* chatOrExisting: a report without a name keeps the one there is.
ChatOrExisting(known) == IF chat = "named" THEN "named" ELSE known

\* The closure is done, or goes on after its first store calls.
Took(x, doing) ==
    actor' = [actor EXCEPT ![x].inbox = Tail(@), ![x].doing = doing]

\* Mutant: a message that is held already is announced as well.
TakeReplayed(x, e) ==
    /\ \E known \in IF e.id \in Peer THEN {"bare", "named"} ELSE {"bare"} :
          chat' = ChatOrExisting(known)
    /\ IF row[e.id] = None
       THEN row' = [row EXCEPT ![e.id] = Fresh(e.id \in Own, "")]
       ELSE UNCHANGED row
    /\ Took(x, e)
    /\ UNCHANGED unread

\* sink.Message, up to the insert: a message already held ends it.
TakeMessage(x, e) ==
    /\ \E known \in IF e.id \in Peer THEN {"bare", "named"} ELSE {"bare"} :
          chat' = ChatOrExisting(known)
    /\ IF row[e.id] = None
       THEN row' = [row EXCEPT ![e.id] = Fresh(e.id \in Own, "")] /\ Took(x, e)
       ELSE UNCHANGED row /\ Took(x, None)
    /\ UNCHANGED unread

\* sink.Receipt: the status, and a read one clears the counter.
TakeReceipt(x, e) ==
    /\ row' = SetMessageStatus(e.id, ReceiptStatus(e))
    /\ unread' = IF ReceiptStatus(e) = "read" THEN 0 ELSE unread
    /\ Took(x, None)
    /\ UNCHANGED chat

\* sink.Reaction: nothing to attach it to is not an error.
TakeReaction(x, e) ==
    /\ IF row[e.id] = None THEN UNCHANGED row
       ELSE \E on \in BOOLEAN : row' = ApplyReaction(e.id, "peer", on)
    /\ Took(x, None)
    /\ UNCHANGED <<unread, chat>>

\* sink.Edited and sink.Deleted, up to their checks.
TakeEdit(x, e) ==
    /\ LET m == row[e.id]
       IN  IF m = None THEN Took(x, None)
           ELSE IF m.evicted \/ (m.edited /\ m.text = "second") THEN Took(x, None)
           ELSE Took(x, e)
    /\ UNCHANGED <<row, unread, chat>>

TakeRevoke(x, e) ==
    /\ LET m == row[e.id]
       IN  IF m = None THEN Took(x, None)
           ELSE IF m.deleted THEN Took(x, None)
           ELSE Took(x, e)
    /\ UNCHANGED <<row, unread, chat>>

TakeRoster(x) == chat' = "named" /\ Took(x, None) /\ UNCHANGED <<row, unread>>

\* serve: one closure at a time; a cancelled actor may still take some.
Take(x) ==
    /\ actor[x].on \in {"serving", "stopping"}
    /\ actor[x].doing = None
    /\ actor[x].inbox # <<>>
    /\ LET e == Head(actor[x].inbox)
       IN  \/ SinkCall(e) = "Message" /\ TakeMessage(x, e)
           \/ SinkCall(e) = "Receipt" /\ TakeReceipt(x, e)
           \/ SinkCall(e) = "Reaction" /\ TakeReaction(x, e)
           \/ SinkCall(e) = "Edited" /\ TakeEdit(x, e)
           \/ SinkCall(e) = "Deleted" /\ TakeRevoke(x, e)
           \/ SinkCall(e) = "roster" /\ TakeRoster(x)
    /\ UNCHANGED <<wire, said, actFrame, bounds>>

\* The rest of the closure: bump and announce, write and announce.
Complete(x) ==
    LET e == actor[x].doing
    IN  /\ e # None
        /\ actor' = [actor EXCEPT ![x].doing = None]
        /\ \/ /\ SinkCall(e) = "Message"
              /\ unread' = IF e.id \in Own THEN unread ELSE unread + 1
              /\ said' = [said EXCEPT ![e.id].actor = @ + 1]
              /\ UNCHANGED row
           \/ SinkCall(e) = "Edited" /\ row' = EditChatMessage(e.id) /\ UNCHANGED <<unread, said>>
           \/ SinkCall(e) = "Deleted" /\ row' = RevokeChatMessage(e.id) /\ UNCHANGED <<unread, said>>
        /\ UNCHANGED <<chat, wire, actFrame, bounds>>

\* A store call of a closure fails: it is logged, and what is left of it skipped.
Skip(x) ==
    /\ actor[x].on # "off"
    /\ Fault
    /\ \/ actor[x].doing = None /\ actor[x].inbox # <<>> /\ Took(x, None)
       \/ /\ actor[x].doing # None /\ SinkCall(actor[x].doing) # "Message"
          /\ actor' = [actor EXCEPT ![x].doing = None]
    /\ UNCHANGED <<row, unread, chat, wire, said, actFrame>>

lifeFrame == <<row, unread, chat, wire, said, actFrame, bounds>>

\* Runtime.Attach: a new actor, with an inbox of its own.  The inbox outlives a
\* connection that is lost and dialled again, which is left out here.
Attach(x) ==
    /\ actor[x].on = "off"
    /\ \A y \in Actors : actor[y].on # "serving"
    /\ actor' = [actor EXCEPT ![x] = [Off EXCEPT !.on = "serving"]]
    /\ UNCHANGED lifeFrame

\* Detach, logout or shutdown cancels the actor.  One with nothing at hand is off
\* at once: what it could still take could have come before.
Stop(x) ==
    /\ actor[x].on = "serving"
    /\ actor' = [actor EXCEPT ![x].on = IF actor[x] = [Off EXCEPT !.on = "serving"]
                                        THEN "off" ELSE "stopping"]
    /\ UNCHANGED lifeFrame

\* What the inbox still holds is lost.
Leave(x) ==
    /\ actor[x].on = "stopping" /\ actor[x].doing = None
    /\ actor' = [actor EXCEPT ![x] = Off]
    /\ UNCHANGED lifeFrame

-----------------------------------------------------------------------------
\* EvictExpiredContent, or the dispatcher once every hook has had the message:
\* never the temporary row of a request still running.
Evict(r) ==
    /\ row[r] # None
    /\ r \in Sends => ~InFlight(r)
    /\ ~row[r].evicted
    /\ row' = [row EXCEPT ![r].evicted = TRUE, ![r].text = "none"]
    /\ UNCHANGED <<unread, chat, wire, actor, said, actFrame, bounds>>

\* The process dies; the next one starts on the same tables.
Kill ==
    /\ Room
    /\ kills' = kills + 1
    /\ send' = [s \in Sends |->
                  IF send[s].at \in {"idle", "done"} THEN send[s]
                  ELSE Answered(s, "killed")]
    /\ patch' = [p \in Patches |->
                   IF patch[p].at = "idle" THEN patch[p] ELSE [NewPatch EXCEPT !.at = "done"]]
    /\ actor' = [x \in Actors |-> Off]
    /\ UNCHANGED <<row, unread, chat, idem, purged, wire, auxVars, reports, faults>>

Next ==
    \/ \E s \in Sends : SendStep(s)
    \/ \E p \in Patches, i \in Ids : PatchBegin(p, i) \/ DeleteMessage(p, i) \/ React(p, i)
    \/ \E p \in Patches : PatchApply(p) \/ MarkRead(p)
    \/ \E x \in Actors, e \in Wire : Report(x, e)
    \/ \E x \in Actors : Take(x) \/ Complete(x) \/ Skip(x)
    \/ \E x \in Actors : Attach(x) \/ Stop(x) \/ Leave(x)
    \/ \E r \in Rows : Evict(r)
    \/ Kill

Spec == Init /\ [][Next]_vars

-----------------------------------------------------------------------------
(***************************************************************************)
(* Properties.                                                              *)
(***************************************************************************)
\* EditChatMessage's guard: content the retention policy destroyed never comes
\* back, although both editors check the row before they write it.
EvictedStaysBlank == \A r \in Rows : row[r] # None => (row[r].evicted => row[r].text = "none")

\* withIdempotency, ReserveIdempotency: nothing is sent under a key another
\* request holds, or that was answered with success and not purged since.
NoSecondSendUnderKey ==
    [][\A s \in Sends :
         (send[s].at = "sending" /\ send'[s].at = "acking" /\ Key[s] # None) =>
            \A t \in Sends \ {s} : Key[t] = Key[s] =>
                /\ ~InFlight(t)
                /\ send[t].answer \in Own => Key[s] \in purged]_vars

\* operationHash: a successful answer, replayed or not, names a message that
\* was sent for the same operation under the same key.
ReplayIsOwn ==
    \A s \in Sends : send[s].answer \in Own =>
        \E t \in Sends : send[t].oper = send[s].oper /\ Key[t] = Key[s] /\ send[t].id = send[s].answer

\* sendChatText: a request that was answered has left no temporary row, and one
\* answered with success has left the message, no longer marked as on its way.
SendResolves ==
    \A s \in Sends :
        /\ (send[s].at = "done" /\ send[s].answer # "killed" /\ faults = 0) => row[s] = None
        /\ send[s].answer \in Own =>
             row[send[s].answer] # None /\ row[send[s].answer].status # "sending"

\* withIdempotency: no key stays reserved by a request that has ended, unless
\* the process died or the store failed under it.
KeysAreReleased ==
    \A k \in Keys : idem[k] = Held =>
        (\E s \in Sends : Key[s] = k /\ InFlight(s)) \/ kills > 0 \/ faults > 0

\* sink.Message: replays, restarts and overlapping actors announce a message no
\* second time; a message of our own may be announced by the API as well, but
\* only if the rename lost to its echo, or failed.
AnnouncedOnce ==
    \A i \in Ids :
        /\ said[i].actor <= 1 /\ said[i].api <= 1
        /\ (said[i].actor = 1 /\ said[i].api = 1) => i \in lostRename
=============================================================================
