-------------------------- MODULE ChatMessagesProofs --------------------------
(***************************************************************************)
(* ChatMessages' properties, proved for every value of its constants.       *)
(*                                                                          *)
(* The base is BaseInv: the types, what a request holds at each of its      *)
(* steps, and that a row which was checked is still there when it is        *)
(* written.  StepRows says what one step may do to the rows, SendMoves,     *)
(* KeysMove, DoingMoves and SaidMoves what it may do to the rest; each      *)
(* property then has an invariant of its own, argued from those.            *)
(***************************************************************************)
EXTENDS ChatMessages, TLAPS

HasId == {"acking", "discard", "finish", "record"}

\* What a request's fields hold at each of its steps.
PhaseInv == \A s \in Sends :
    /\ send[s].at # "done" => send[s].answer = None
    /\ send[s].at \in HasId => send[s].id \in wire
    /\ send[s].at = "replay" => Key[s] \in Keys

\* A row somebody checked is still there when it is written: rows of provider
\* ids are never deleted.
Doing == {"Message", "Edited", "Deleted"}

CheckedInv ==
    /\ \A p \in Patches : patch[p].at = "edit" =>
         patch[p].id \in Ids /\ row[patch[p].id] # None
    /\ \A x \in Actors : actor[x].doing # None =>
         SinkCall(actor[x].doing) \in Doing /\ row[actor[x].doing.id] # None

Blank(m) == m.evicted => m.text = "none"

\* What the statements of store/chat.go may make of a row that exists.
KeptRow(m, n) ==
    /\ m \in Row /\ n \in Row
    /\ n.status = m.status \/ n.status \in {"sent", "delivered", "read"}
    /\ Blank(m) => Blank(n)

RowsKept ==
    /\ row' \in [Rows -> Row \cup {None}]
    /\ \A r \in Rows : row'[r] = row[r] \/ KeptRow(row[r], row'[r])

-----------------------------------------------------------------------------
(***************************************************************************)
(* The statements of the store.                                             *)
(***************************************************************************)
LEMMA NoneIsNoRow == None \notin Row /\ None \notin Rows /\ None \notin Own
BY ChatMessagesAssumption DEF Rows, Ids

LEMMA FreshType ==
  ASSUME NEW b \in BOOLEAN, NEW st \in {"", "sending"}
  PROVE  Fresh(b, st) \in Row /\ Blank(Fresh(b, st)) /\ Fresh(b, st).status = st
BY DEF Fresh, Row, Blank

LEMMA KeepAt ==
  ASSUME TypeOK, NEW i \in Rows, NEW m, KeptRow(row[i], m),
         row' = [row EXCEPT ![i] = m]
  PROVE  RowsKept
BY DEF TypeOK, RowsKept, KeptRow

LEMMA StatusKeeps ==
  ASSUME TypeOK, NEW i \in Rows, NEW st \in {"sent", "delivered", "read"},
         row' = SetMessageStatus(i, st)
  PROVE  RowsKept /\ (row[i] # None => row'[i].status = st)
<1>1. CASE row[i] = None
  BY <1>1 DEF SetMessageStatus, RowsKept, TypeOK
<1>2. CASE row[i] # None
  <2> DEFINE m == [row[i] EXCEPT !.status = st]
  <2>1. row[i] \in Row
    BY <1>2 DEF TypeOK
  <2>2. KeptRow(row[i], m) /\ m.status = st
    BY <2>1 DEF KeptRow, Row, Blank
  <2>3. row' = [row EXCEPT ![i] = m]
    BY <1>2 DEF SetMessageStatus
  <2>4. row'[i] = m
    BY <2>3 DEF TypeOK
  <2> HIDE DEF m
  <2> QED
    BY <2>2, <2>3, <2>4, KeepAt
<1> QED
  BY <1>1, <1>2

LEMMA EditKeeps ==
  ASSUME TypeOK, NEW i \in Rows, row[i] # None, row' = EditChatMessage(i)
  PROVE  RowsKept
<1>1. CASE row[i].evicted
  BY <1>1 DEF EditChatMessage, RowsKept, TypeOK
<1>2. CASE ~row[i].evicted
  <2> DEFINE m == [row[i] EXCEPT !.text = "second", !.edited = TRUE]
  <2>1. row[i] \in Row
    BY DEF TypeOK
  <2>2. KeptRow(row[i], m)
    BY <1>2, <2>1 DEF KeptRow, Row, Blank
  <2>3. row' = [row EXCEPT ![i] = m]
    BY <1>2, <2>1 DEF EditChatMessage, TypeOK
  <2> HIDE DEF m
  <2> QED
    BY <2>2, <2>3, KeepAt
<1> QED
  BY <1>1, <1>2

LEMMA RevokeKeeps ==
  ASSUME TypeOK, NEW i \in Rows, row[i] # None, row' = RevokeChatMessage(i)
  PROVE  RowsKept
<1> DEFINE m == [row[i] EXCEPT !.deleted = TRUE, !.text = "none"]
<1>1. row[i] \in Row
  BY DEF TypeOK
<1>2. KeptRow(row[i], m)
  BY <1>1 DEF KeptRow, Row, Blank
<1>3. row' = [row EXCEPT ![i] = m]
  BY <1>1 DEF RevokeChatMessage, TypeOK
<1> HIDE DEF m
<1> QED
  BY <1>2, <1>3, KeepAt

LEMMA ReactionKeeps ==
  ASSUME TypeOK, NEW i \in Rows, row[i] # None, NEW who \in {"self", "peer"},
         NEW on \in BOOLEAN, row' = ApplyReaction(i, who, on)
  PROVE  RowsKept
<1> DEFINE h == IF on THEN row[i].hearts \cup {who} ELSE row[i].hearts \ {who}
           m == [row[i] EXCEPT !.hearts = h]
<1>1. row[i] \in Row
  BY DEF TypeOK
<1>2. KeptRow(row[i], m)
  BY <1>1 DEF KeptRow, Row, Blank
<1>3. row' = [row EXCEPT ![i] = m]
  BY <1>1 DEF ApplyReaction, TypeOK
<1> HIDE DEF m
<1> QED
  BY <1>2, <1>3, KeepAt

LEMMA EvictKeeps ==
  ASSUME TypeOK, NEW r \in Rows, Evict(r)
  PROVE  RowsKept
<1> DEFINE m == [row[r] EXCEPT !.evicted = TRUE, !.text = "none"]
<1>1. row[r] \in Row
  BY DEF TypeOK, Evict
<1>2. KeptRow(row[r], m)
  BY <1>1 DEF KeptRow, Row, Blank
<1>3. row' = [row EXCEPT ![r] = m]
  BY <1>1 DEF Evict, TypeOK
<1> HIDE DEF m
<1> QED
  BY <1>2, <1>3, KeepAt

-----------------------------------------------------------------------------
(***************************************************************************)
(* One step, seen from the rows.                                            *)
(***************************************************************************)
\* sendChatText's temporary row; the same dropped, or renamed to the id the
\* provider gave; a message the actor stores.
Opened(s) == Open(s) /\ row' = [row EXCEPT ![s] = Fresh(TRUE, "sending")]
Dropped(s) == DropTemp(s) /\ row' = [row EXCEPT ![s] = None]
Named(s) == /\ Rename(s) /\ Renamed(s) /\ send[s].at = "acking"
            /\ row[send[s].id] = None
            /\ row' = [row EXCEPT ![send[s].id] = row[s], ![s] = None]
Stored(x, e) == /\ Take(x) /\ Took(x, e) /\ SinkCall(e) = "Message"
                /\ row[e.id] = None
                /\ row' = [row EXCEPT ![e.id] = Fresh(e.id \in Own, "")]

\* The report an actor takes, and the ones it can be in the middle of.
LEMMA InboxHead ==
  ASSUME TypeOK, NEW x \in Actors, actor[x].inbox # <<>>
  PROVE  Head(actor[x].inbox) \in Wire /\ Tail(actor[x].inbox) \in Seq(Wire)
BY DEF TypeOK

LEMMA SinkCallId ==
  ASSUME NEW e \in Wire, SinkCall(e) \in Doing \cup {"Receipt", "Reaction"}
  PROVE  e.id \in Ids /\ e.id \in Rows
BY ChatMessagesAssumption DEF SinkCall, Doing, Rows

LEMMA TakeRows ==
  ASSUME TypeOK, CheckedInv, NEW x \in Actors, Take(x)
  PROVE  RowsKept \/ \E e \in Wire : Stored(x, e)
<1> PICK e : e = Head(actor[x].inbox)
  OBVIOUS
<1>1. e \in Wire
  BY InboxHead DEF Take
<1>2. CASE SinkCall(e) = "Message" /\ TakeMessage(x, e)
  <2>1. CASE row[e.id] = None
    BY <1>1, <1>2, <2>1 DEF TakeMessage, Stored
  <2>2. CASE row[e.id] # None
    BY <1>2, <2>2 DEF TakeMessage, RowsKept, TypeOK
  <2> QED
    BY <2>1, <2>2
<1>3. CASE SinkCall(e) = "Receipt" /\ TakeReceipt(x, e)
  <2>1. e.id \in Rows
    BY <1>1, <1>3, SinkCallId
  <2>2. ReceiptStatus(e) \in {"sent", "delivered", "read"}
    BY DEF ReceiptStatus
  <2>3. row' = SetMessageStatus(e.id, ReceiptStatus(e))
    BY <1>3 DEF TakeReceipt
  <2> QED
    BY <2>1, <2>2, <2>3, StatusKeeps
<1>4. CASE SinkCall(e) = "Reaction" /\ TakeReaction(x, e)
  <2>1. e.id \in Rows
    BY <1>1, <1>4, SinkCallId
  <2>2. CASE row[e.id] = None
    BY <1>4, <2>2 DEF TakeReaction, RowsKept, TypeOK
  <2>3. CASE row[e.id] # None
    <3>1. PICK on \in BOOLEAN : row' = ApplyReaction(e.id, "peer", on)
      BY <1>4, <2>3 DEF TakeReaction
    <3> QED
      BY <2>1, <2>3, <3>1, ReactionKeeps
  <2> QED
    BY <2>2, <2>3
<1>5. CASE TakeEdit(x, e) \/ TakeRevoke(x, e)
  BY <1>5 DEF TakeEdit, TakeRevoke, RowsKept, TypeOK
<1>6. CASE TakeRoster(x)
  BY <1>6 DEF TakeRoster, RowsKept, TypeOK
<1> QED
  BY <1>2, <1>3, <1>4, <1>5, <1>6 DEF Take

LEMMA CompleteRows ==
  ASSUME TypeOK, CheckedInv, NEW x \in Actors, Complete(x)
  PROVE  RowsKept
<1> PICK e : e = actor[x].doing
  OBVIOUS
<1>1. e \in Wire /\ SinkCall(e) \in Doing /\ row[e.id] # None
  BY DEF Complete, TypeOK, CheckedInv
<1>2. e.id \in Rows
  BY <1>1, SinkCallId
<1>3. row' \in {row, EditChatMessage(e.id), RevokeChatMessage(e.id)}
  BY DEF Complete
<1> QED
  BY <1>1, <1>2, <1>3, EditKeeps, RevokeKeeps DEF RowsKept, TypeOK

LEMMA StepRows ==
  ASSUME TypeOK, PhaseInv, CheckedInv, [Next]_vars
  PROVE  \/ RowsKept
         \/ \E s \in Sends : Opened(s) \/ Dropped(s) \/ Named(s)
         \/ \E x \in Actors, e \in Wire : Stored(x, e)
<1> USE DEF patchFrame, actFrame, lifeFrame
<1> DEFINE Goal == \/ RowsKept
                   \/ \E s \in Sends : Opened(s) \/ Dropped(s) \/ Named(s)
                   \/ \E x \in Actors, e \in Wire : Stored(x, e)
<1> SUFFICES Goal
  OBVIOUS
<1>1. ASSUME row' = row PROVE Goal
  BY <1>1 DEF RowsKept, TypeOK
<1>2. ASSUME NEW s \in Sends, Open(s) PROVE Goal
  <2>1. row' = row \/ row' = [row EXCEPT ![s] = Fresh(TRUE, "sending")]
    BY <1>2 DEF Open
  <2> QED
    BY <1>1, <1>2, <2>1 DEF Opened
<1>3. ASSUME NEW s \in Sends, DropTemp(s) PROVE Goal
  <2>1. row' = row \/ row' = [row EXCEPT ![s] = None]
    BY <1>3 DEF DropTemp
  <2> QED
    BY <1>1, <1>3, <2>1 DEF Dropped
<1>4. ASSUME NEW s \in Sends, Rename(s) PROVE Goal
  <2>1. \/ row' = row
        \/ Renamed(s) /\ row[send[s].id] = None
             /\ row' = [row EXCEPT ![send[s].id] = row[s], ![s] = None]
    BY <1>4 DEF Rename, Renamed
  <2> QED
    BY <1>1, <1>4, <2>1 DEF Named, Rename
<1>5. ASSUME NEW s \in Sends, FinishSend(s) PROVE Goal
  <2>1. row' = row \/ row' = SetMessageStatus(send[s].id, "sent")
    BY <1>5 DEF FinishSend
  <2>2. send[s].id \in Rows
    BY <1>5 DEF FinishSend, PhaseInv, HasId, TypeOK, Rows, Ids
  <2>3. CASE row' = SetMessageStatus(send[s].id, "sent")
    BY <2>2, <2>3, StatusKeeps
  <2> QED
    BY <1>1, <2>1, <2>3
<1>6. ASSUME NEW p \in Patches, PatchApply(p) PROVE Goal
  <2>1. patch[p].id \in Rows /\ row[patch[p].id] # None
    BY <1>6 DEF PatchApply, CheckedInv, Rows
  <2> QED
    BY <1>6, <2>1, EditKeeps DEF PatchApply
<1>7. ASSUME NEW p \in Patches, NEW i \in Ids, DeleteMessage(p, i) PROVE Goal
  <2>1. i \in Rows /\ row[i] # None
    BY <1>7 DEF DeleteMessage, MayPatch, Rows
  <2> QED
    BY <1>7, <2>1, RevokeKeeps DEF DeleteMessage
<1>8. ASSUME NEW p \in Patches, NEW i \in Ids, React(p, i) PROVE Goal
  <2>1. i \in Rows /\ row[i] # None
    BY <1>8 DEF React, MayPatch, Rows
  <2>2. PICK on \in BOOLEAN : row' = ApplyReaction(i, "self", on)
    BY <1>8 DEF React
  <2> QED
    BY <2>1, <2>2, ReactionKeeps
<1>9. ASSUME NEW x \in Actors, Take(x) PROVE Goal
  BY <1>9, TakeRows
<1>10. ASSUME NEW x \in Actors, Complete(x) PROVE Goal
  BY <1>10, CompleteRows
<1>11. ASSUME NEW r \in Rows, Evict(r) PROVE Goal
  BY <1>11, EvictKeeps
<1> HIDE DEF Goal
<1> QED
  BY <1>1, <1>2, <1>3, <1>4, <1>5, <1>6, <1>7, <1>8, <1>9, <1>10, <1>11
     DEF Next, SendStep, Begin, Replay, Transmit, Record, Release, PatchBegin, MarkRead,
     Report, Skip, Attach, Stop, Leave, Kill, vars

-----------------------------------------------------------------------------
(***************************************************************************)
(* Types.                                                                   *)
(***************************************************************************)
RowType == row \in [Rows -> Row \cup {None}]

Places == {"idle", "replay", "open", "sending", "acking", "discard",
           "finish", "record", "release", "done"}
Answers == Own \cup {"failed", "conflict", "killed", None}
Request == [at : Places, oper : AllOpers, id : Own \cup {None}, answer : Answers]
Reserved == [is : {"none", "held", "answer"}, oper : AllOpers, id : Own \cup {None}]
ReqType == idem \in [Keys -> Reserved] /\ send \in [Sends -> Request] /\ purged \subseteq Keys

PatchType == patch \in [Patches -> [at : {"idle", "edit", "done"}, id : Ids \cup {None}]]
ActorType ==
    /\ actor \in [Actors -> [on : {"off", "serving", "stopping"}, inbox : Seq(Wire),
                             doing : Wire \cup {None}]]
    /\ \A x \in Actors : Len(actor[x].inbox) <= InboxCap
OtherType ==
    /\ unread \in Nat /\ chat \in {"none", "bare", "named"}
    /\ wire \subseteq Own /\ lostRename \subseteq Own
    /\ said \in [Ids -> [actor : Nat, api : Nat]]
    /\ reports \in Nat /\ faults \in Nat /\ kills \in Nat

LEMMA TypeParts == TypeOK <=> RowType /\ ReqType /\ PatchType /\ ActorType /\ OtherType
BY DEF TypeOK, RowType, ReqType, PatchType, ActorType, OtherType, Request, Reserved,
       Places, Answers

LEMMA RowTypeStep ==
  ASSUME TypeOK, PhaseInv, CheckedInv, [Next]_vars
  PROVE  RowType'
<1>1. CASE RowsKept
  BY <1>1 DEF RowsKept, RowType
<1>2. ASSUME NEW s \in Sends, Opened(s) PROVE RowType'
  BY <1>2, FreshType DEF Opened, RowType, TypeOK
<1>3. ASSUME NEW s \in Sends, Dropped(s) PROVE RowType'
  BY <1>3 DEF Dropped, RowType, TypeOK
<1>4. ASSUME NEW s \in Sends, Named(s) PROVE RowType'
  <2>1. s \in Rows /\ row[s] \in Row \cup {None}
    BY DEF TypeOK, Rows
  <2> QED
    BY <1>4, <2>1 DEF Named, RowType, TypeOK
<1>5. ASSUME NEW x \in Actors, NEW e \in Wire, Stored(x, e) PROVE RowType'
  <2>1. Fresh(e.id \in Own, "") \in Row
    <3> DEFINE b == (e.id \in Own)
    <3>1. b \in BOOLEAN
      OBVIOUS
    <3> HIDE DEF b
    <3>2. Fresh(b, "") \in Row
      BY <3>1, FreshType
    <3> QED
      BY <3>2 DEF b
  <2>2. /\ row \in [Rows -> Row \cup {None}]
        /\ row' = [row EXCEPT ![e.id] = Fresh(e.id \in Own, "")]
    BY <1>5 DEF Stored, TypeOK
  <2> QED
    BY <2>1, <2>2 DEF RowType
<1> QED
  BY <1>1, <1>2, <1>3, <1>4, <1>5, StepRows

LEMMA GotoType ==
  ASSUME TypeOK, NEW s \in Sends, NEW at \in Places, Goto(s, at)
  PROVE  send' \in [Sends -> Request]
<1>1. send \in [Sends -> Request]
  BY TypeParts DEF ReqType
<1> QED
  BY <1>1 DEF Goto, Request

LEMMA AnswerType ==
  ASSUME TypeOK, NEW s \in Sends, NEW a \in Answers
  PROVE  Answered(s, a) \in Request
<1>1. send[s] \in Request
  BY TypeParts DEF ReqType
<1>2. CASE a \in Own
  BY <1>1, <1>2 DEF Answered, Request, Places
<1>3. CASE a \notin Own
  <2>1. None \in AllOpers
    BY DEF AllOpers
  <2>2. Answered(s, a) = [at |-> "done", oper |-> None, id |-> None, answer |-> a]
    BY <1>3 DEF Answered, NewSend
  <2> QED
    BY <2>1, <2>2 DEF Request, Places
<1> QED
  BY <1>2, <1>3

LEMMA SendTypeStep ==
  ASSUME TypeOK, PhaseInv, NEW s \in Sends, SendStep(s)
  PROVE  send' \in [Sends -> Request]
<1> DEFINE Goal == send' \in [Sends -> Request]
<1> SUFFICES Goal
  OBVIOUS
<1>0. send \in [Sends -> Request]
  BY TypeParts DEF ReqType
<1>1. ASSUME NEW a \in Answers, Answer(s, a) PROVE Goal
  BY <1>0, <1>1, AnswerType DEF Answer
<1>2. ASSUME NEW at \in Places, Goto(s, at) PROVE Goal
  BY <1>2, GotoType
<1>3. {"failed", "conflict"} \subseteq Answers
  BY DEF Answers
<1>4. {"release", "sending", "discard", "finish", "record"} \subseteq Places
  BY DEF Places
<1>5. CASE Begin(s)
  <2>1. ASSUME NEW o \in Opers[s], Reserve(s, o) PROVE Goal
    <3>1. o \in AllOpers
      BY DEF AllOpers
    <3>2. send' = [send EXCEPT ![s].at = "open", ![s].oper = o]
            \/ send' = [send EXCEPT ![s].at = "replay", ![s].oper = o]
      BY <2>1 DEF Reserve
    <3> QED
      BY <1>0, <3>1, <3>2 DEF Request, Places
  <2> QED
    BY <1>1, <1>3, <1>5, <2>1 DEF Begin
<1>6. CASE Replay(s)
  <2>1. idem[Key[s]].is = "answer" => idem[Key[s]].id \in Own \cup {None}
    <3>1. Key[s] \in Keys
      BY <1>6 DEF Replay, PhaseInv
    <3>2. idem[Key[s]] \in Reserved
      BY <3>1, TypeParts DEF ReqType
    <3> QED
      BY <3>2 DEF Reserved
  <2> QED
    BY <1>1, <1>3, <1>6, <2>1 DEF Replay, Replayed, Answers
<1>7. CASE Open(s) \/ DropTemp(s) \/ Rename(s) \/ FinishSend(s)
  BY <1>2, <1>4, <1>7 DEF Open, DropTemp, Rename, Renamed, FinishSend
<1>8. CASE Transmit(s)
  <2>1. PICK i \in Own : send' = [send EXCEPT ![s].at = "acking", ![s].id = i]
    BY <1>8 DEF Transmit
  <2> QED
    BY <1>0, <2>1 DEF Request, Places
<1>9. CASE Record(s)
  <2>1. send[s].id \in Answers
    BY <1>0 DEF Request, Answers
  <2> QED
    BY <1>1, <1>9, <2>1 DEF Record
<1>10. CASE Release(s)
  BY <1>1, <1>3, <1>10 DEF Release
<1> HIDE DEF Goal
<1> QED
  BY <1>5, <1>6, <1>7, <1>8, <1>9, <1>10 DEF SendStep

LEMMA IdemTypeStep ==
  ASSUME TypeOK, PhaseInv, NEW s \in Sends, SendStep(s)
  PROVE  idem' \in [Keys -> Reserved] /\ purged' \subseteq Keys
<1> DEFINE Goal == idem' \in [Keys -> Reserved] /\ purged' \subseteq Keys
<1> SUFFICES Goal
  OBVIOUS
<1>0. idem \in [Keys -> Reserved] /\ purged \subseteq Keys
  BY TypeParts DEF ReqType
<1>1. Free \in Reserved /\ Held \in Reserved
  <2>1. None \in AllOpers
    BY DEF AllOpers
  <2> QED
    BY <2>1 DEF Free, Held, Reserved
<1>2. CASE UNCHANGED <<idem, purged>>
  BY <1>0, <1>2
<1>3. CASE Begin(s) \/ Release(s)
  <2>1. purged' = purged
    BY <1>3 DEF Begin, Release
  <2>2. \/ idem' = idem
        \/ idem' = [idem EXCEPT ![Key[s]] = Held]
        \/ idem' = [idem EXCEPT ![Key[s]] = Free]
    BY <1>3 DEF Begin, Release, Reserve
  <2> QED
    BY <1>0, <1>1, <2>1, <2>2
<1>4. CASE Record(s)
  <2>1. CASE Key[s] = None
    BY <1>0, <1>4, <2>1 DEF Record
  <2>2. CASE Key[s] # None
    <3> DEFINE a == [is |-> "answer", oper |-> send[s].oper, id |-> send[s].id]
    <3>1. a \in Reserved
      BY TypeParts DEF ReqType, Request, Reserved
    <3>2. PICK old \in SUBSET {k \in Keys : Aged(k)} :
             /\ purged' = purged \cup old
             /\ \/ idem' = [k \in Keys |-> IF k = Key[s] THEN a
                                           ELSE IF k \in old THEN Free ELSE idem[k]]
                \/ idem' = [k \in Keys |-> IF k \in old THEN Free ELSE idem[k]]
      BY <1>4, <2>2 DEF Record
    <3> HIDE DEF a
    <3> QED
      BY <1>0, <1>1, <3>1, <3>2
  <2> QED
    BY <2>1, <2>2
<1> HIDE DEF Goal
<1> QED
  BY <1>2, <1>3, <1>4 DEF SendStep, Replay, Open, Transmit, DropTemp, Rename, FinishSend

\* Which of a send's variables each of its steps may touch.
LEMMA SendFrame ==
  ASSUME NEW s \in Sends, SendStep(s)
  PROVE  /\ UNCHANGED <<unread, patch, actor>>
         /\ ~Transmit(s) => wire' = wire
         /\ ~FinishSend(s) => said' = said
         /\ ~Open(s) => chat' = chat
         /\ ~Rename(s) => lostRename' = lostRename
BY DEF SendStep, Begin, Replay, Open, Transmit, DropTemp, Rename, FinishSend, Record,
       Release, sendFrame

LEMMA OtherTypeSend ==
  ASSUME TypeOK, PhaseInv, NEW s \in Sends, SendStep(s)
  PROVE  OtherType'
<1>1. OtherType
  BY TypeParts
<1>2. send[s].id \in Own \cup {None}
  BY DEF TypeOK
<1>3. send[s].at \in HasId => send[s].id \in Own
  BY <1>1 DEF PhaseInv, OtherType
<1>4. wire' \subseteq Own
  BY <1>1, SendFrame DEF OtherType, Transmit
<1>5. chat' \in {"none", "bare", "named"}
  BY <1>1, SendFrame DEF OtherType, Open
<1>6. lostRename' \subseteq Own
  BY <1>1, <1>3, SendFrame DEF OtherType, Rename, Renamed, HasId
<1>7. said' \in [Ids -> [actor : Nat, api : Nat]]
  <2>1. CASE FinishSend(s)
    <3>1. send[s].id \in Ids
      BY <1>3, <2>1 DEF FinishSend, HasId, Ids
    <3>2. said' = said \/ said' = [said EXCEPT ![send[s].id].api = @ + 1]
      BY <2>1 DEF FinishSend
    <3> QED
      BY <1>1, <3>1, <3>2 DEF OtherType
  <2> QED
    BY <1>1, <2>1, SendFrame DEF OtherType
<1>8. reports' \in Nat /\ faults' \in Nat /\ kills' \in Nat
  <2>1. UNCHANGED bounds \/ Fault
    <3>1. CASE Record(s)
      BY <3>1 DEF Record
    <3>2. CASE ~Record(s)
      BY <3>2 DEF SendStep, Begin, Replay, Open, Transmit, DropTemp, Rename, FinishSend,
                  Release
    <3> QED
      BY <3>1, <3>2
  <2> QED
    BY <1>1, <2>1 DEF bounds, Fault, OtherType
<1>9. unread' \in Nat
  BY <1>1, SendFrame DEF OtherType
<1> QED
  BY <1>4, <1>5, <1>6, <1>7, <1>8, <1>9 DEF OtherType

\* A step of the other requests.
PatchStep(p) ==
    \/ \E i \in Ids : PatchBegin(p, i) \/ DeleteMessage(p, i) \/ React(p, i)
    \/ PatchApply(p) \/ MarkRead(p)

\* The actor after it took a report.
LEMMA TookType ==
  ASSUME TypeOK, NEW x \in Actors, actor[x].inbox # <<>>, NEW d \in Wire \cup {None},
         Took(x, d)
  PROVE  ActorType'
<1>1. actor \in [Actors -> [on : {"off", "serving", "stopping"}, inbox : Seq(Wire),
                            doing : Wire \cup {None}]]
      /\ \A y \in Actors : Len(actor[y].inbox) <= InboxCap
  BY DEF TypeOK
<1>2. Tail(actor[x].inbox) \in Seq(Wire) /\ Len(Tail(actor[x].inbox)) <= InboxCap
  BY <1>1, ChatMessagesAssumption
<1>3. actor' = [actor EXCEPT ![x].inbox = Tail(actor[x].inbox), ![x].doing = d]
  BY DEF Took
<1> QED
  BY <1>1, <1>2, <1>3 DEF ActorType

LEMMA TakeTypes ==
  ASSUME TypeOK, NEW x \in Actors, Take(x)
  PROVE  ActorType' /\ OtherType'
<1> PICK e : e = Head(actor[x].inbox)
  OBVIOUS
<1>1. e \in Wire
  BY InboxHead DEF Take
<1>2. Took(x, e) \/ Took(x, None)
  BY DEF Take, TakeMessage, TakeReceipt, TakeReaction, TakeEdit, TakeRevoke, TakeRoster
<1>3. ActorType'
  BY <1>1, <1>2, TookType DEF Take
<1>4. OtherType
  BY TypeParts
<1>5. unread' \in Nat
  <2>1. unread' = unread \/ unread' = 0
    <3>1. CASE TakeReceipt(x, e)
      BY <3>1 DEF TakeReceipt
    <3>2. CASE TakeMessage(x, e) \/ TakeReaction(x, e) \/ TakeRoster(x)
      BY <3>2 DEF TakeMessage, TakeReaction, TakeRoster
    <3>3. CASE TakeEdit(x, e) \/ TakeRevoke(x, e)
      BY <3>3 DEF TakeEdit, TakeRevoke
    <3> QED
      BY <3>1, <3>2, <3>3 DEF Take
  <2> QED
    BY <1>4, <2>1 DEF OtherType
<1>6. chat' \in {"none", "bare", "named"}
  <2>1. CASE TakeMessage(x, e)
    <3>1. PICK known \in {"bare", "named"} : chat' = ChatOrExisting(known)
      BY <2>1 DEF TakeMessage
    <3> QED
      BY <3>1 DEF ChatOrExisting
  <2>2. chat' = chat \/ chat' = "named" \/ TakeMessage(x, e)
    <3>1. CASE TakeReceipt(x, e) \/ TakeReaction(x, e) \/ TakeRoster(x)
      BY <3>1 DEF TakeReceipt, TakeReaction, TakeRoster
    <3>2. CASE TakeEdit(x, e) \/ TakeRevoke(x, e)
      BY <3>2 DEF TakeEdit, TakeRevoke
    <3> QED
      BY <3>1, <3>2 DEF Take
  <2> QED
    BY <1>4, <2>1, <2>2 DEF OtherType
<1> QED
  BY <1>3, <1>4, <1>5, <1>6 DEF Take, OtherType, actFrame, bounds

LEMMA CompleteTypes ==
  ASSUME TypeOK, CheckedInv, NEW x \in Actors, Complete(x)
  PROVE  ActorType' /\ OtherType'
<1>1. ActorType /\ OtherType
  BY TypeParts
<1>2. ActorType'
  BY <1>1 DEF Complete, ActorType
<1>3. actor[x].doing.id \in Ids
  BY SinkCallId DEF Complete, CheckedInv, TypeOK
<1>4. said' \in [Ids -> [actor : Nat, api : Nat]]
  <2>1. said' = said \/ said' = [said EXCEPT ![actor[x].doing.id].actor = @ + 1]
    BY DEF Complete
  <2> QED
    BY <1>1, <1>3, <2>1 DEF OtherType
<1>5. unread' \in Nat
  BY <1>1 DEF Complete, OtherType
<1> QED
  BY <1>1, <1>2, <1>4, <1>5 DEF Complete, OtherType, actFrame, bounds

LEMMA ReportTypes ==
  ASSUME TypeOK, NEW x \in Actors, NEW e \in Wire, Report(x, e)
  PROVE  ActorType' /\ OtherType'
<1>1. ActorType /\ OtherType
  BY TypeParts
<1> DEFINE q == actor[x].inbox
           q2 == Append(q, e)
<1>2. q \in Seq(Wire) /\ InboxCap \in Nat
  BY <1>1, ChatMessagesAssumption DEF ActorType
<1>3. Len(q) < InboxCap /\ actor' = [actor EXCEPT ![x].inbox = q2]
  BY DEF Report, Enqueue
<1>4. q2 \in Seq(Wire) /\ Len(q2) = Len(q) + 1 /\ Len(q) \in Nat
  BY <1>2
<1>5. Len(q2) <= InboxCap
  BY <1>2, <1>3, <1>4
<1>6. ActorType'
  <2> HIDE DEF q2
  <2> QED
    BY <1>1, <1>3, <1>4, <1>5 DEF ActorType
<1>7. /\ reports' = reports + 1
      /\ UNCHANGED <<unread, chat, wire, lostRename, said, faults, kills>>
  BY DEF Report, actFrame
<1> QED
  BY <1>1, <1>6, <1>7 DEF OtherType

LEMMA ActorTypesOther ==
  ASSUME TypeOK, NEW x \in Actors, Skip(x) \/ Attach(x) \/ Stop(x) \/ Leave(x)
  PROVE  ActorType' /\ OtherType'
<1>1. ActorType /\ OtherType
  BY TypeParts
<1>2. CASE Skip(x)
  <2>1. ActorType'
    <3>1. CASE actor[x].doing = None /\ actor[x].inbox # <<>> /\ Took(x, None)
      BY <3>1, TookType
    <3>2. CASE actor' = [actor EXCEPT ![x].doing = None]
      BY <1>1, <3>2 DEF ActorType
    <3> QED
      BY <1>2, <3>1, <3>2 DEF Skip
  <2> QED
    BY <1>1, <1>2, <2>1 DEF Skip, Fault, OtherType, actFrame
<1>3. CASE Attach(x) \/ Stop(x) \/ Leave(x)
  <2> DEFINE R == [on : {"off", "serving", "stopping"}, inbox : Seq(Wire),
                   doing : Wire \cup {None}]
             a == [on |-> "serving", inbox |-> <<>>, doing |-> None]
  <2>1. Off \in R /\ a \in R /\ Off.inbox = <<>> /\ a.inbox = <<>>
    BY DEF Off
  <2>2. \/ actor' = [actor EXCEPT ![x] = Off]
        \/ actor' = [actor EXCEPT ![x] = a]
        \/ actor' = [actor EXCEPT ![x].on = "off"]
        \/ actor' = [actor EXCEPT ![x].on = "stopping"]
    BY <1>3 DEF Attach, Stop, Leave, Off
  <2>3. Len(<<>>) = 0 /\ 0 <= InboxCap
    BY ChatMessagesAssumption
  <2>4. actor \in [Actors -> R] /\ \A y \in Actors : Len(actor[y].inbox) <= InboxCap
    BY <1>1 DEF ActorType
  <2>5. /\ actor' \in [Actors -> R]
        /\ \A y \in Actors : actor'[y].inbox = actor[y].inbox \/ actor'[y].inbox = <<>>
    <3>1. CASE actor' = [actor EXCEPT ![x] = Off] \/ actor' = [actor EXCEPT ![x] = a]
      <4> HIDE DEF a, R
      <4> QED
        BY <2>1, <2>4, <3>1
    <3>2. CASE actor' = [actor EXCEPT ![x].on = "off"]
      BY <2>4, <3>2
    <3>3. CASE actor' = [actor EXCEPT ![x].on = "stopping"]
      BY <2>4, <3>3
    <3> HIDE DEF a, R
    <3> QED
      BY <2>2, <3>1, <3>2, <3>3
  <2>7. ActorType'
    BY <2>3, <2>4, <2>5 DEF ActorType
  <2> QED
    BY <1>1, <1>3, <2>7 DEF Attach, Stop, Leave, lifeFrame, OtherType, actFrame, auxVars,
                            bounds
<1> QED
  BY <1>2, <1>3

LEMMA KillTypes ==
  ASSUME TypeOK, Kill
  PROVE  ReqType' /\ PatchType' /\ ActorType' /\ OtherType'
<1>1. ReqType /\ PatchType /\ ActorType /\ OtherType
  BY TypeParts
<1>2. \A s \in Sends : Answered(s, "killed") \in Request
  <2>1. "killed" \in Answers
    BY DEF Answers
  <2> QED
    BY <2>1, AnswerType
<1>3. send' \in [Sends -> Request]
  BY <1>1, <1>2 DEF Kill, ReqType
<1>4. patch' \in [Patches -> [at : {"idle", "edit", "done"}, id : Ids \cup {None}]]
  BY <1>1 DEF Kill, PatchType, NewPatch
<1>5. ActorType'
  BY ChatMessagesAssumption DEF Kill, ActorType, Off
<1> QED
  BY <1>1, <1>3, <1>4, <1>5 DEF Kill, ReqType, PatchType, OtherType, auxVars

LEMMA PatchTypes ==
  ASSUME TypeOK, NEW p \in Patches, PatchStep(p)
  PROVE  PatchType' /\ unread' \in Nat
                    /\ UNCHANGED <<chat, reqVars, actor, wire, auxVars, bounds>>
<1>1. PatchType /\ OtherType
  BY TypeParts
<1>2. (\E i \in Ids : patch' = [patch EXCEPT ![p] = [at |-> "edit", id |-> i]])
        \/ patch' = [patch EXCEPT ![p] = [at |-> "done", id |-> None]]
  BY DEF PatchStep, PatchBegin, DeleteMessage, React, PatchApply, MarkRead, AtOnce, Patched,
         NewPatch
<1>3. PatchType'
  BY <1>1, <1>2 DEF PatchType
<1> QED
  BY <1>1, <1>3 DEF OtherType, PatchStep, PatchBegin, DeleteMessage, React,
              PatchApply, MarkRead, patchFrame

LEMMA TypePartsNext ==
  RowType' /\ ReqType' /\ PatchType' /\ ActorType' /\ OtherType' => TypeOK'
BY TypeParts, PTL

LEMMA TypeStep ==
  ASSUME TypeOK, PhaseInv, CheckedInv, [Next]_vars
  PROVE  TypeOK'
<1> DEFINE Goal == ReqType' /\ PatchType' /\ ActorType' /\ OtherType'
<1>0. ReqType /\ PatchType /\ ActorType /\ OtherType
  BY TypeParts
<1>1. SUFFICES Goal
  BY RowTypeStep, TypeParts, TypePartsNext
<1>2. ASSUME NEW s \in Sends, SendStep(s) PROVE Goal
  BY <1>0, <1>2, SendTypeStep, IdemTypeStep, OtherTypeSend, SendFrame
     DEF ReqType, PatchType, ActorType
<1>3. ASSUME NEW p \in Patches, PatchStep(p) PROVE Goal
  BY <1>0, <1>3, PatchTypes DEF ReqType, ActorType, OtherType, reqVars, auxVars, bounds
<1>4. ASSUME UNCHANGED <<reqVars, patch>>, ActorType', OtherType' PROVE Goal
  BY <1>0, <1>4 DEF ReqType, PatchType, reqVars
<1>5. ASSUME NEW x \in Actors, Take(x) \/ Complete(x) PROVE Goal
  BY <1>4, <1>5, TakeTypes, CompleteTypes DEF Take, Complete, actFrame
<1>6. ASSUME NEW x \in Actors, NEW e \in Wire, Report(x, e) PROVE Goal
  BY <1>4, <1>6, ReportTypes DEF Report, actFrame
<1>7. ASSUME NEW x \in Actors, Skip(x) \/ Attach(x) \/ Stop(x) \/ Leave(x) PROVE Goal
  BY <1>4, <1>7, ActorTypesOther DEF Skip, Attach, Stop, Leave, lifeFrame, actFrame
<1>8. ASSUME NEW r \in Rows, Evict(r) PROVE Goal
  BY <1>0, <1>4, <1>8 DEF Evict, actFrame, auxVars, bounds, ActorType, OtherType
<1>9. CASE Kill
  BY <1>9, KillTypes
<1>10. CASE UNCHANGED vars
  BY <1>0, <1>4, <1>10 DEF vars, auxVars, bounds, ActorType, OtherType
<1> HIDE DEF Goal
<1> QED
  BY <1>2, <1>3, <1>5, <1>6, <1>7, <1>8, <1>9, <1>10 DEF Next, PatchStep

-----------------------------------------------------------------------------
(***************************************************************************)
(* Frames: whose step changes what.                                         *)
(***************************************************************************)
\* Only a request's own steps and a kill change what requests and keys are.
LEMMA ReqStep ==
  ASSUME [Next]_vars
  PROVE  (\E s \in Sends : SendStep(s)) \/ Kill \/ UNCHANGED <<reqVars, lostRename>>
<1>1. CASE \E p \in Patches : PatchStep(p)
  BY <1>1 DEF PatchStep, PatchBegin, DeleteMessage, React, PatchApply, MarkRead,
              patchFrame, auxVars
<1>2. CASE \E x \in Actors : Take(x) \/ Complete(x) \/ Skip(x) \/ \E e \in Wire : Report(x, e)
  BY <1>2 DEF Take, Complete, Skip, Report, actFrame
<1>3. CASE \E x \in Actors : Attach(x) \/ Stop(x) \/ Leave(x)
  BY <1>3 DEF Attach, Stop, Leave, lifeFrame, actFrame
<1>4. CASE \E r \in Rows : Evict(r)
  BY <1>4 DEF Evict, actFrame
<1>5. CASE UNCHANGED vars
  BY <1>5 DEF vars, auxVars
<1> QED
  BY <1>1, <1>2, <1>3, <1>4, <1>5 DEF Next, PatchStep

\* A request's step changes no other request.
LEMMA OthersStay ==
  ASSUME TypeOK, NEW s \in Sends, SendStep(s)
  PROVE  \A t \in Sends \ {s} : send'[t] = send[t]
<1>0. send \in [Sends -> Request]
  BY TypeParts DEF ReqType
<1>1. CASE \E m : send' = [send EXCEPT ![s] = m]
  BY <1>0, <1>1
<1>2. CASE \E at : Goto(s, at)
  BY <1>0, <1>2 DEF Goto
<1>3. CASE \E a : Answer(s, a)
  BY <1>1, <1>3 DEF Answer
<1>4. CASE Begin(s)
  BY <1>0, <1>3, <1>4 DEF Begin, Reserve
<1>5. CASE Transmit(s)
  BY <1>0, <1>5 DEF Transmit
<1>6. CASE Replay(s) \/ Record(s) \/ Release(s)
  BY <1>3, <1>6 DEF Replay, Replayed, Record, Release
<1>7. CASE Open(s) \/ DropTemp(s) \/ Rename(s) \/ FinishSend(s)
  BY <1>2, <1>7 DEF Open, DropTemp, Rename, Renamed, FinishSend
<1> QED
  BY <1>4, <1>5, <1>6, <1>7 DEF SendStep

\* Where a request's step takes it.
Moves(s) ==
    \/ Begin(s) /\ send[s].at = "idle"
         /\ send'[s].at \in {"open", "replay"}
         /\ send'[s].id = send[s].id /\ send'[s].answer = send[s].answer
         /\ send'[s].oper \in Opers[s]
         /\ (send'[s].at = "replay" => Key[s] # None)
    \/ Begin(s) /\ send[s].at = "idle" /\ Key[s] # None /\ Fault
         /\ send'[s] = Answered(s, "failed")
    \/ Replay(s) /\ send[s].at = "replay"
         /\ \/ send'[s] = Answered(s, "conflict")
            \/ /\ idem[Key[s]].is = "answer" /\ idem[Key[s]].oper = send[s].oper
               /\ send'[s] = Answered(s, idem[Key[s]].id)
    \/ Transmit(s) /\ send[s].at = "sending"
         /\ send'[s].at = "acking" /\ send'[s].id \in Own \ wire
         /\ wire' = wire \cup {send'[s].id}
         /\ send'[s].answer = send[s].answer /\ send'[s].oper = send[s].oper
    \/ Record(s) /\ send[s].at = "record" /\ send'[s] = Answered(s, send[s].id)
    \/ Release(s) /\ send[s].at = "release" /\ send'[s] = Answered(s, "failed")
    \/ \E at \in Places :
         /\ send'[s] = [send[s] EXCEPT !.at = at]
         /\ \/ Open(s) /\ send[s].at = "open" /\ at \in {"sending", "release"}
            \/ DropTemp(s) /\ send[s].at \in {"sending", "acking"} /\ at = "release"
            \/ DropTemp(s) /\ send[s].at = "discard" /\ at = "finish"
            \/ Rename(s) /\ send[s].at = "acking" /\ at \in {"discard", "finish"}
            \/ FinishSend(s) /\ send[s].at = "finish" /\ at \in {"record", "release"}

LEMMA SendMoves ==
  ASSUME TypeOK, NEW s \in Sends, SendStep(s)
  PROVE  Moves(s)
<1> DEFINE Goal == Moves(s)
<1> USE DEF Moves
<1> SUFFICES Goal
  OBVIOUS
<1>0. send \in [Sends -> Request]
  BY TypeParts DEF ReqType
<1>1. ASSUME NEW a, Answer(s, a) PROVE send'[s] = Answered(s, a)
  BY <1>0, <1>1 DEF Answer
<1>2. ASSUME NEW at, Goto(s, at) PROVE send'[s] = [send[s] EXCEPT !.at = at]
  BY <1>0, <1>2 DEF Goto
<1>3. CASE Begin(s)
  <2>1. ASSUME NEW o \in Opers[s], Reserve(s, o) PROVE Goal
    <3>1. \/ send' = [send EXCEPT ![s].at = "open", ![s].oper = o]
          \/ send' = [send EXCEPT ![s].at = "replay", ![s].oper = o] /\ Key[s] # None
      BY <2>1 DEF Reserve
    <3> QED
      BY <1>0, <1>3, <3>1 DEF Begin, Request
  <2> QED
    BY <1>1, <1>3, <2>1 DEF Begin
<1>4. CASE Replay(s)
  BY <1>1, <1>4 DEF Replay, Replayed
<1>5. CASE Transmit(s)
  <2>1. PICK i \in Own \ wire : /\ wire' = wire \cup {i}
                                /\ send' = [send EXCEPT ![s].at = "acking", ![s].id = i]
    BY <1>5 DEF Transmit
  <2>2. /\ send'[s].at = "acking" /\ send'[s].id = i
        /\ send'[s].answer = send[s].answer /\ send'[s].oper = send[s].oper
    BY <1>0, <2>1 DEF Request
  <2>3. send[s].at = "sending"
    BY <1>5 DEF Transmit
  <2> QED
    BY <1>5, <2>1, <2>2, <2>3
<1>6. CASE Record(s)
  BY <1>1, <1>6 DEF Record
<1>7. CASE Release(s)
  BY <1>1, <1>7 DEF Release
<1>8. CASE Open(s)
  BY <1>2, <1>8 DEF Open, Places
<1>9. CASE DropTemp(s)
  <2>1. CASE send[s].at = "discard"
    BY <1>2, <1>9, <2>1 DEF DropTemp, Places
  <2>2. CASE send[s].at # "discard"
    BY <1>2, <1>9, <2>2 DEF DropTemp, Places
  <2> QED
    BY <2>1, <2>2
<1>10. CASE Rename(s)
  BY <1>2, <1>10 DEF Rename, Renamed, Places
<1>11. CASE FinishSend(s)
  BY <1>2, <1>11 DEF FinishSend, Places
<1> HIDE DEF Goal, Moves
<1> QED
  BY <1>3, <1>4, <1>5, <1>6, <1>7, <1>8, <1>9, <1>10, <1>11 DEF SendStep

\* A kill ends every request that had begun.
LEMMA KillMoves ==
  ASSUME TypeOK, Kill, NEW s \in Sends
  PROVE  IF send[s].at \in {"idle", "done"} THEN send'[s] = send[s]
         ELSE send'[s] = Answered(s, "killed")
BY DEF Kill

LEMMA AnsweredFields ==
  ASSUME TypeOK, NEW s \in Sends, NEW a
  PROVE  /\ Answered(s, a).at = "done" /\ Answered(s, a).answer = a
         /\ a \in Own => Answered(s, a).id = send[s].id /\ Answered(s, a).oper = send[s].oper
         /\ a \notin Own => Answered(s, a).id = None /\ Answered(s, a).oper = None
<1>1. send[s] \in Request
  BY TypeParts DEF ReqType
<1>2. CASE a \in Own
  BY <1>1, <1>2 DEF Answered, Request
<1>3. CASE a \notin Own
  BY <1>3 DEF Answered, NewSend
<1> QED
  BY <1>2, <1>3

\* What the provider accepted stays accepted.
LEMMA WireGrows ==
  ASSUME [Next]_vars
  PROVE  wire \subseteq wire'
<1>1. CASE \E s \in Sends : SendStep(s)
  BY <1>1, SendFrame DEF Transmit
<1>2. CASE \E p \in Patches : PatchStep(p)
  BY <1>2 DEF PatchStep, PatchBegin, DeleteMessage, React, PatchApply, MarkRead, patchFrame
<1>3. CASE \E x \in Actors : Take(x) \/ Complete(x) \/ Skip(x) \/ \E e \in Wire : Report(x, e)
  BY <1>3 DEF Take, Complete, Skip, Report
<1>4. CASE \E x \in Actors : Attach(x) \/ Stop(x) \/ Leave(x)
  BY <1>4 DEF Attach, Stop, Leave, lifeFrame
<1>5. CASE (\E r \in Rows : Evict(r)) \/ Kill \/ UNCHANGED vars
  BY <1>5 DEF Evict, Kill, vars
<1> QED
  BY <1>1, <1>2, <1>3, <1>4, <1>5 DEF Next, PatchStep

LEMMA PhaseStep ==
  ASSUME TypeOK, PhaseInv, [Next]_vars
  PROVE  PhaseInv'
<1> SUFFICES ASSUME NEW s \in Sends
             PROVE  /\ send'[s].at # "done" => send'[s].answer = None
                    /\ send'[s].at \in HasId => send'[s].id \in wire'
                    /\ send'[s].at = "replay" => Key[s] \in Keys
  BY DEF PhaseInv
<1>1. CASE send'[s] = send[s]
  BY <1>1, WireGrows DEF PhaseInv
<1>2. CASE SendStep(s)
  <2>1. send[s] \in Request
    BY TypeParts DEF ReqType
  <2>2. CASE send'[s].at = "done"
    BY <2>2 DEF HasId
  <2>3. CASE send'[s].at # "done"
    <3>1. CASE Begin(s) /\ send[s].at = "idle"
                /\ send'[s].at \in {"open", "replay"}
                /\ send'[s].answer = send[s].answer
                /\ (send'[s].at = "replay" => Key[s] # None)
      <4>1. send'[s].answer = None
        BY <3>1 DEF PhaseInv
      <4>2. Key[s] # None => Key[s] \in Keys
        BY DEF Keys
      <4> QED
        BY <3>1, <4>1, <4>2 DEF HasId
    <3>2. CASE Transmit(s) /\ send[s].at = "sending" /\ send'[s].at = "acking"
                /\ send'[s].answer = send[s].answer /\ wire' = wire \cup {send'[s].id}
      BY <3>2 DEF PhaseInv
    <3>3. ASSUME NEW at \in {"discard", "finish", "record", "sending", "release"},
                 send'[s] = [send[s] EXCEPT !.at = at],
                 send[s].at \in {"open", "sending", "acking", "discard", "finish"},
                 at \in HasId => send[s].at \in HasId
          PROVE  /\ send'[s].answer = None
                 /\ send'[s].at \in HasId => send'[s].id \in wire'
                 /\ send'[s].at # "replay"
      BY <2>1, <3>3, WireGrows DEF PhaseInv, Request
    <3>4. \/ send'[s].at = "done"
          \/ Begin(s) /\ send[s].at = "idle"
                /\ send'[s].at \in {"open", "replay"}
                /\ send'[s].answer = send[s].answer
                /\ (send'[s].at = "replay" => Key[s] # None)
          \/ Transmit(s) /\ send[s].at = "sending" /\ send'[s].at = "acking"
                /\ send'[s].answer = send[s].answer /\ wire' = wire \cup {send'[s].id}
          \/ \E at \in {"discard", "finish", "record", "sending", "release"} :
                 /\ send'[s] = [send[s] EXCEPT !.at = at]
                 /\ send[s].at \in {"open", "sending", "acking", "discard", "finish"}
                 /\ (at \in HasId => send[s].at \in HasId)
      <4>1. \/ \E a : send'[s] = Answered(s, a)
            \/ Begin(s) /\ send[s].at = "idle"
                  /\ send'[s].at \in {"open", "replay"}
                  /\ send'[s].answer = send[s].answer
                  /\ (send'[s].at = "replay" => Key[s] # None)
            \/ Transmit(s) /\ send[s].at = "sending" /\ send'[s].at = "acking"
                  /\ send'[s].answer = send[s].answer /\ wire' = wire \cup {send'[s].id}
            \/ \E at \in {"discard", "finish", "record", "sending", "release"} :
                   /\ send'[s] = [send[s] EXCEPT !.at = at]
                   /\ send[s].at \in {"open", "sending", "acking", "discard", "finish"}
                   /\ (at \in HasId => send[s].at \in HasId)
        BY <1>2, SendMoves DEF Moves, HasId
      <4> QED
        BY <4>1, AnsweredFields
    <3> QED
      BY <2>3, <3>1, <3>2, <3>3, <3>4
  <2> QED
    BY <2>2, <2>3
<1>3. CASE Kill
  BY <1>1, <1>3, KillMoves, AnsweredFields DEF HasId
<1>4. CASE \E t \in Sends \ {s} : SendStep(t)
  BY <1>1, <1>4, OthersStay
<1>5. CASE UNCHANGED <<reqVars, lostRename>>
  BY <1>1, <1>5 DEF reqVars
<1> QED
  BY <1>2, <1>3, <1>4, <1>5, ReqStep

\* Rows of provider ids are never deleted.
LEMMA IdRowsStay ==
  ASSUME TypeOK, PhaseInv, CheckedInv, [Next]_vars, NEW i \in Ids, row[i] # None
  PROVE  row'[i] # None
<1>0. i \in Rows /\ i \notin Sends
  BY ChatMessagesAssumption DEF Rows
<1>1. CASE RowsKept
  BY <1>0, <1>1, NoneIsNoRow DEF RowsKept, KeptRow
<1>2. ASSUME NEW s \in Sends, Opened(s) \/ Dropped(s) PROVE row'[i] # None
  BY <1>0, <1>2 DEF Opened, Dropped, TypeOK
<1>3. ASSUME NEW s \in Sends, Named(s) PROVE row'[i] # None
  BY <1>0, <1>3 DEF Named, TypeOK
<1>4. ASSUME NEW x \in Actors, NEW e \in Wire, Stored(x, e) PROVE row'[i] # None
  BY <1>0, <1>4 DEF Stored, TypeOK
<1> QED
  BY <1>1, <1>2, <1>3, <1>4, StepRows

LEMMA StoredRow ==
  ASSUME TypeOK, NEW x \in Actors, NEW e \in Wire, Stored(x, e)
  PROVE  row'[e.id] = Fresh(e.id \in Own, "") /\ row'[e.id] # None
<1>1. e.id \in Rows
  BY SinkCallId DEF Stored, Doing
<1>2. row'[e.id] = Fresh(e.id \in Own, "")
  BY <1>1 DEF Stored, TypeOK
<1> DEFINE b == (e.id \in Own)
<1>3. b \in BOOLEAN
  OBVIOUS
<1>4. Fresh(b, "") \in Row
  <2> HIDE DEF b
  <2> QED
    BY <1>3, FreshType
<1> QED
  BY <1>2, <1>4, NoneIsNoRow

\* What an actor is in the middle of after a step: the same, nothing, a message
\* it has stored with the step, or a write it has checked with it.
DoingMove(x) ==
    \/ actor'[x].doing = actor[x].doing
    \/ actor'[x].doing = None
    \/ \E e \in Wire : Stored(x, e) /\ actor'[x].doing = e
    \/ \E e \in Wire : /\ Take(x) /\ Took(x, e) /\ actor'[x].doing = e
                       /\ SinkCall(e) \in {"Edited", "Deleted"} /\ row[e.id] # None
                       /\ row' = row

LEMMA DoingMoves ==
  ASSUME TypeOK, [Next]_vars, NEW x \in Actors
  PROVE  DoingMove(x)
<1> DEFINE Goal == DoingMove(x)
<1> USE DEF DoingMove
<1> SUFFICES Goal
  OBVIOUS
<1>0. ActorType
  BY TypeParts
<1>1. ASSUME actor' = actor PROVE Goal
  BY <1>1
<1>2. ASSUME NEW y \in Actors \ {x}, NEW m, actor' = [actor EXCEPT ![y] = m] PROVE Goal
  BY <1>0, <1>2 DEF ActorType
<1>3. ASSUME NEW y \in Actors, NEW d, Took(y, d)
      PROVE  actor'[x].doing = IF x = y THEN d ELSE actor[x].doing
  BY <1>0, <1>3 DEF ActorType, Took
<1>4. ASSUME NEW y \in Actors, Take(y) PROVE Goal
  <2> PICK e : e = Head(actor[y].inbox)
    OBVIOUS
  <2>1. e \in Wire
    BY <1>4, InboxHead DEF Take
  <2>2. CASE Took(y, None)
    BY <1>3, <2>2
  <2>3. CASE ~Took(y, None) /\ Took(y, e)
    <3>1. \/ Stored(y, e)
          \/ SinkCall(e) \in {"Edited", "Deleted"} /\ row[e.id] # None /\ row' = row
      <4>1. CASE SinkCall(e) = "Message" /\ TakeMessage(y, e)
        BY <1>4, <2>3, <4>1 DEF TakeMessage, Stored
      <4>2. CASE SinkCall(e) = "Edited" /\ TakeEdit(y, e)
        BY <2>3, <4>2 DEF TakeEdit
      <4>3. CASE SinkCall(e) = "Deleted" /\ TakeRevoke(y, e)
        BY <2>3, <4>3 DEF TakeRevoke
      <4>4. CASE TakeReceipt(y, e) \/ TakeReaction(y, e) \/ TakeRoster(y)
        BY <2>3, <4>4 DEF TakeReceipt, TakeReaction, TakeRoster
      <4> QED
        BY <1>4, <4>1, <4>2, <4>3, <4>4 DEF Take
    <3> QED
      BY <1>3, <1>4, <2>1, <2>3, <3>1
  <2>4. Took(y, e) \/ Took(y, None)
    BY <1>4 DEF Take, TakeMessage, TakeReceipt, TakeReaction, TakeEdit, TakeRevoke, TakeRoster
  <2> QED
    BY <2>2, <2>3, <2>4
<1>5. ASSUME NEW y \in Actors, Complete(y) PROVE Goal
  BY <1>0, <1>5 DEF Complete, ActorType
<1>6. ASSUME NEW y \in Actors, Skip(y) PROVE Goal
  <2>1. CASE Took(y, None)
    BY <1>3, <2>1
  <2>2. CASE actor' = [actor EXCEPT ![y].doing = None]
    BY <1>0, <2>2 DEF ActorType
  <2> QED
    BY <1>6, <2>1, <2>2 DEF Skip
<1>7. ASSUME NEW y \in Actors, NEW e \in Wire, Report(y, e) PROVE Goal
  BY <1>0, <1>7 DEF Report, Enqueue, ActorType
<1>8. ASSUME NEW y \in Actors, Attach(y) \/ Stop(y) \/ Leave(y) PROVE Goal
  <2>1. CASE Stop(y)
    BY <1>0, <2>1 DEF Stop, ActorType
  <2>2. CASE Attach(y) \/ Leave(y)
    <3> DEFINE a == [Off EXCEPT !.on = "serving"]
    <3>1. a.doing = None /\ Off.doing = None
      BY DEF Off
    <3>2. actor' = [actor EXCEPT ![y] = a] \/ actor' = [actor EXCEPT ![y] = Off]
      BY <2>2 DEF Attach, Leave
    <3> HIDE DEF a
    <3> QED
      BY <1>0, <3>1, <3>2 DEF ActorType
  <2> QED
    BY <1>8, <2>1, <2>2
<1>9. CASE Kill
  BY <1>9 DEF Kill, Off
<1>10. ASSUME NEW s \in Sends, SendStep(s) PROVE Goal
  BY <1>1, <1>10, SendFrame
<1>11. CASE \E p \in Patches : PatchStep(p)
  BY <1>1, <1>11, PatchTypes
<1>12. CASE (\E r \in Rows : Evict(r)) \/ UNCHANGED vars
  BY <1>1, <1>12 DEF Evict, vars
<1> HIDE DEF Goal, DoingMove
<1> QED
  BY <1>4, <1>5, <1>6, <1>7, <1>8, <1>9, <1>10, <1>11, <1>12 DEF Next, PatchStep

LEMMA CheckedStep ==
  ASSUME TypeOK, PhaseInv, CheckedInv, [Next]_vars
  PROVE  CheckedInv'
<1>1. ASSUME NEW x \in Actors, actor'[x].doing # None
      PROVE  SinkCall(actor'[x].doing) \in Doing /\ row'[actor'[x].doing.id] # None
  <2>1. CASE actor'[x].doing = actor[x].doing
    <3> PICK e : e = actor[x].doing
      OBVIOUS
    <3>1. e \in Wire /\ SinkCall(e) \in Doing /\ row[e.id] # None
      BY <1>1, <2>1 DEF CheckedInv, TypeOK
    <3>2. e.id \in Ids
      BY <3>1, SinkCallId
    <3> QED
      BY <2>1, <3>1, <3>2, IdRowsStay
  <2>2. ASSUME NEW e \in Wire, Stored(x, e), actor'[x].doing = e
        PROVE  SinkCall(actor'[x].doing) \in Doing /\ row'[actor'[x].doing.id] # None
    BY <2>2, StoredRow DEF Stored, Doing
  <2>3. ASSUME NEW e \in Wire, actor'[x].doing = e, SinkCall(e) \in {"Edited", "Deleted"},
               row[e.id] # None, row' = row
        PROVE  SinkCall(actor'[x].doing) \in Doing /\ row'[actor'[x].doing.id] # None
    BY <2>3 DEF Doing
  <2> QED
    BY <1>1, <2>1, <2>2, <2>3, DoingMoves DEF DoingMove
<1>2. ASSUME NEW p \in Patches, patch'[p].at = "edit"
      PROVE  patch'[p].id \in Ids /\ row'[patch'[p].id] # None
  <2>1. CASE patch'[p] = patch[p]
    BY <1>2, <2>1, IdRowsStay DEF CheckedInv
  <2>2. ASSUME NEW i \in Ids, PatchBegin(p, i)
        PROVE  patch'[p].id \in Ids /\ row'[patch'[p].id] # None
    BY <2>2 DEF PatchBegin, MayPatch, TypeOK
  <2>3. patch'[p] = patch[p] \/ \E i \in Ids : PatchBegin(p, i)
    <3>0. PatchType
      BY TypeParts
    <3>1. CASE \E q \in Patches, i \in Ids : PatchBegin(q, i)
      BY <3>0, <3>1 DEF PatchBegin, PatchType
    <3>2. CASE \E q \in Patches : \/ \E i \in Ids : DeleteMessage(q, i) \/ React(q, i)
                                  \/ PatchApply(q) \/ MarkRead(q)
      BY <1>2, <3>0, <3>2 DEF DeleteMessage, React, PatchApply, MarkRead, AtOnce, Patched,
                              NewPatch, PatchType
    <3>3. CASE \E s \in Sends : SendStep(s)
      BY <3>3, SendFrame
    <3>4. CASE \E x \in Actors : Take(x) \/ Complete(x) \/ Skip(x) \/ \E e \in Wire : Report(x, e)
      BY <3>4 DEF Take, Complete, Skip, Report, actFrame
    <3>5. CASE \E x \in Actors : Attach(x) \/ Stop(x) \/ Leave(x)
      BY <3>5 DEF Attach, Stop, Leave, lifeFrame, actFrame
    <3>6. CASE (\E r \in Rows : Evict(r)) \/ UNCHANGED vars
      BY <3>6 DEF Evict, vars, actFrame
    <3>7. CASE Kill
      BY <1>2, <3>7 DEF Kill, NewPatch
    <3> QED
      BY <3>1, <3>2, <3>3, <3>4, <3>5, <3>6, <3>7 DEF Next
  <2> QED
    BY <2>1, <2>2, <2>3
<1> QED
  BY <1>1, <1>2 DEF CheckedInv

\* The base that every further argument rests on.
BaseInv == TypeOK /\ PhaseInv /\ CheckedInv

LEMMA BaseInit == Init => BaseInv
<1> SUFFICES ASSUME Init PROVE BaseInv
  OBVIOUS
<1>1. None \in AllOpers /\ 0 <= InboxCap
  BY ChatMessagesAssumption DEF AllOpers
<1>2. ReqType
  BY <1>1 DEF Init, ReqType, Free, NewSend, Request, Reserved, Places, Answers
<1>3. RowType /\ PatchType /\ ActorType /\ OtherType
  BY <1>1 DEF Init, RowType, PatchType, ActorType, OtherType, NewPatch, Off
<1>4. PhaseInv /\ CheckedInv
  BY DEF Init, PhaseInv, CheckedInv, NewSend, NewPatch, Off, HasId
<1> QED
  BY <1>2, <1>3, <1>4, TypeParts DEF BaseInv

LEMMA BaseStep ==
  ASSUME BaseInv, [Next]_vars
  PROVE  BaseInv'
BY TypeStep, PhaseStep, CheckedStep DEF BaseInv

LEMMA BaseAlways == Spec => []BaseInv
BY BaseInit, BaseStep, PTL DEF Spec

\* Every reachable state has the types the tables and the requests declare;
\* an inbox never holds more than its capacity.
THEOREM TypeCorrect == Spec => []TypeOK
<1>1. BaseInv => TypeOK
  BY DEF BaseInv
<1> QED
  BY <1>1, BaseAlways, PTL

-----------------------------------------------------------------------------
(***************************************************************************)
(* Evicted content.                                                         *)
(***************************************************************************)
LEMMA EvictedStep ==
  ASSUME BaseInv, EvictedStaysBlank, [Next]_vars
  PROVE  EvictedStaysBlank'
<1> SUFFICES ASSUME NEW r \in Rows, row'[r] # None PROVE Blank(row'[r])
  BY DEF EvictedStaysBlank, Blank
<1>0. \A q \in Rows : row[q] # None => Blank(row[q])
  BY DEF EvictedStaysBlank, Blank
<1>t. TypeOK /\ PhaseInv /\ CheckedInv
  BY DEF BaseInv
<1>1. CASE RowsKept
  BY <1>0, <1>1, NoneIsNoRow DEF RowsKept, KeptRow
<1>2. ASSUME NEW s \in Sends, Opened(s) PROVE Blank(row'[r])
  BY <1>0, <1>2, <1>t, FreshType DEF Opened, TypeOK
<1>3. ASSUME NEW s \in Sends, Dropped(s) PROVE Blank(row'[r])
  BY <1>0, <1>3, <1>t DEF Dropped, TypeOK
<1>4. ASSUME NEW s \in Sends, Named(s) PROVE Blank(row'[r])
  <2>1. s \in Rows
    BY DEF Rows
  <2>2. row'[r] = row[r] \/ row'[r] = row[s] \/ row'[r] = None
    BY <1>4, <1>t DEF Named, TypeOK
  <2> QED
    BY <1>0, <2>1, <2>2
<1>5. ASSUME NEW x \in Actors, NEW e \in Wire, Stored(x, e) PROVE Blank(row'[r])
  <2>1. CASE r = e.id
    <3> DEFINE b == (e.id \in Own)
    <3>1. b \in BOOLEAN
      OBVIOUS
    <3>2. Blank(Fresh(b, ""))
      <4> HIDE DEF b
      <4> QED
        BY <3>1, FreshType
    <3> QED
      BY <1>5, <1>t, <2>1, <3>2, StoredRow
  <2>2. CASE r # e.id
    BY <1>0, <1>5, <1>t, <2>2 DEF Stored, TypeOK
  <2> QED
    BY <2>1, <2>2
<1> QED
  BY <1>1, <1>2, <1>3, <1>4, <1>5, <1>t, StepRows

\* EditChatMessage's guard: no writer, whichever it checked and when, brings
\* back content that retention destroyed.
THEOREM EvictedIsBlank == Spec => []EvictedStaysBlank
<1>1. Init => EvictedStaysBlank
  BY DEF Init, EvictedStaysBlank
<1> QED
  BY <1>1, EvictedStep, BaseAlways, PTL DEF Spec

-----------------------------------------------------------------------------
(***************************************************************************)
(* Answers and keys.                                                        *)
(***************************************************************************)
\* A request that was answered is never touched again.
LEMMA DoneStays ==
  ASSUME TypeOK, [Next]_vars, NEW s \in Sends, send[s].at = "done"
  PROVE  send'[s] = send[s]
<1>1. ASSUME NEW t \in Sends, SendStep(t) PROVE send'[s] = send[s]
  <2>1. CASE t = s
    <3>1. Moves(s)
      BY <1>1, <2>1, SendMoves
    <3>2. FALSE
      BY <3>1 DEF Moves
    <3> QED
      BY <3>2
  <2>2. CASE t # s
    BY <1>1, <2>2, OthersStay
  <2> QED
    BY <2>1, <2>2
<1>2. CASE Kill
  BY <1>2, KillMoves
<1>3. CASE UNCHANGED <<reqVars, lostRename>>
  BY <1>3 DEF reqVars
<1> QED
  BY <1>1, <1>2, <1>3, ReqStep

\* A request is answered by Begin, Replay, Record, Release or a kill; only the
\* replay and the record answer with a message.
LEMMA AnswerMoves ==
  ASSUME TypeOK, PhaseInv, [Next]_vars, NEW s \in Sends, send'[s].answer \in Own
  PROVE  \/ send'[s] = send[s]
         \/ Record(s) /\ send[s].at = "record" /\ send'[s] = Answered(s, send[s].id)
         \/ Replay(s) /\ send[s].at = "replay" /\ idem[Key[s]].is = "answer"
              /\ idem[Key[s]].oper = send[s].oper /\ send'[s] = Answered(s, idem[Key[s]].id)
<1>0. None \notin Own /\ "failed" \notin Own /\ "conflict" \notin Own /\ "killed" \notin Own
  BY NoneIsNoRow, ChatMessagesAssumption
<1>1. ASSUME NEW a \in {"failed", "conflict", "killed"}, send'[s] = Answered(s, a) PROVE FALSE
  BY <1>0, <1>1, AnsweredFields
<1>2. ASSUME NEW t \in Sends, SendStep(t), t # s PROVE send'[s] = send[s]
  BY <1>2, OthersStay
<1>3. CASE SendStep(s)
  <2>0. send[s] \in Request
    BY TypeParts DEF ReqType
  <2>1. send[s].at # "done" => send[s].answer \notin Own
    BY <1>0 DEF PhaseInv
  <2>2. ASSUME NEW at \in Places, send'[s] = [send[s] EXCEPT !.at = at]
        PROVE  send'[s].answer = send[s].answer
    BY <2>0, <2>2 DEF Request
  <2>3. Moves(s)
    BY <1>3, SendMoves
  <2> QED
    BY <1>1, <2>1, <2>2, <2>3 DEF Moves
<1>4. CASE Kill
  BY <1>1, <1>4, KillMoves
<1>5. CASE UNCHANGED <<reqVars, lostRename>>
  BY <1>5 DEF reqVars
<1> QED
  BY <1>2, <1>3, <1>4, <1>5, ReqStep

\* Who changes a key, and to what.
KeyMoves(k) ==
    \/ idem'[k] = idem[k]
    \/ \E s \in Sends : /\ Begin(s) /\ Key[s] = k /\ idem[k] = Free
                        /\ idem'[k] = Held /\ send'[s].at = "open"
    \/ \E s \in Sends : Release(s) /\ Key[s] = k /\ idem'[k] = Free
    \/ \E s \in Sends : /\ Record(s) /\ Key[s] = k
                        /\ idem'[k] = [is |-> "answer", oper |-> send[s].oper, id |-> send[s].id]
    \/ Aged(k) /\ k \in purged' /\ idem'[k] = Free

LEMMA KeysMove ==
  ASSUME TypeOK, [Next]_vars, NEW k \in Keys
  PROVE  KeyMoves(k) /\ purged \subseteq purged'
<1> DEFINE Goal == KeyMoves(k) /\ purged \subseteq purged'
<1> SUFFICES Goal
  OBVIOUS
<1>0. idem \in [Keys -> Reserved] /\ send \in [Sends -> Request]
  BY TypeParts DEF ReqType
<1>1. CASE UNCHANGED <<idem, purged>>
  BY <1>1 DEF KeyMoves
<1>2. ASSUME NEW s \in Sends, Begin(s) PROVE Goal
  <2>1. purged' = purged
    BY <1>2 DEF Begin
  <2>2. CASE idem' = [idem EXCEPT ![Key[s]] = Held] /\ idem[Key[s]] = Free
             /\ (\E o : send' = [send EXCEPT ![s].at = "open", ![s].oper = o])
    <3>1. send'[s].at = "open"
      BY <1>0, <2>2 DEF Request
    <3>2. CASE Key[s] = k
      BY <1>0, <1>2, <2>1, <2>2, <3>1, <3>2 DEF KeyMoves
    <3>3. CASE Key[s] # k
      BY <1>0, <2>1, <2>2, <3>3 DEF KeyMoves
    <3> QED
      BY <3>2, <3>3
  <2>3. CASE idem' = idem
    BY <1>1, <2>1, <2>3
  <2> QED
    BY <1>2, <2>2, <2>3 DEF Begin, Reserve
<1>3. ASSUME NEW s \in Sends, Release(s) PROVE Goal
  <2>1. purged' = purged
    BY <1>3 DEF Release
  <2>2. idem' = idem \/ idem' = [idem EXCEPT ![Key[s]] = Free]
    BY <1>3 DEF Release
  <2> QED
    BY <1>0, <1>3, <2>1, <2>2 DEF KeyMoves
<1>4. ASSUME NEW s \in Sends, Record(s) PROVE Goal
  <2>1. CASE Key[s] = None
    BY <1>1, <1>4, <2>1 DEF Record
  <2>2. CASE Key[s] # None
    <3> DEFINE a == [is |-> "answer", oper |-> send[s].oper, id |-> send[s].id]
    <3>1. PICK old \in SUBSET {j \in Keys : Aged(j)} :
             /\ purged' = purged \cup old
             /\ \/ idem' = [j \in Keys |-> IF j = Key[s] THEN a
                                           ELSE IF j \in old THEN Free ELSE idem[j]]
                \/ idem' = [j \in Keys |-> IF j \in old THEN Free ELSE idem[j]]
      BY <1>4, <2>2 DEF Record
    <3>2. \/ idem'[k] = idem[k]
          \/ idem'[k] = a /\ k = Key[s]
          \/ idem'[k] = Free /\ Aged(k) /\ k \in purged'
      <4> HIDE DEF a
      <4> QED
        BY <3>1
    <3> QED
      BY <1>4, <3>1, <3>2 DEF KeyMoves
  <2> QED
    BY <2>1, <2>2
<1>5. ASSUME NEW s \in Sends,
             Replay(s) \/ Open(s) \/ Transmit(s) \/ DropTemp(s) \/ Rename(s) \/ FinishSend(s)
      PROVE Goal
  BY <1>1, <1>5 DEF Replay, Open, Transmit, DropTemp, Rename, FinishSend
<1>6. CASE Kill \/ UNCHANGED <<reqVars, lostRename>>
  BY <1>1, <1>6 DEF Kill, reqVars
<1> HIDE DEF Goal
<1> QED
  BY <1>2, <1>3, <1>4, <1>5, <1>6, ReqStep DEF SendStep

\* What a recorded answer, and an answer given, go back to: a request of the
\* same key and operation that was answered with the message it sent.
SentBy(k, oper, id) == \E t \in Sends :
    /\ Key[t] = k /\ send[t].at = "done"
    /\ send[t].oper = oper /\ send[t].id = id /\ send[t].answer = id

AnswerInv ==
    /\ \A k \in Keys : idem[k].is = "answer" =>
         idem[k].id \in Own /\ SentBy(k, idem[k].oper, idem[k].id)
    /\ \A s \in Sends : send[s].answer \in Own =>
         SentBy(Key[s], send[s].oper, send[s].answer)

LEMMA SentByStays ==
  ASSUME TypeOK, [Next]_vars, NEW k, NEW oper, NEW id, SentBy(k, oper, id)
  PROVE  SentBy(k, oper, id)'
BY DoneStays DEF SentBy

LEMMA RecordSent ==
  ASSUME BaseInv, [Next]_vars, NEW s \in Sends, Record(s)
  PROVE  /\ send[s].id \in Own /\ send[s].at = "record"
         /\ send'[s] = Answered(s, send[s].id)
         /\ send'[s].oper = send[s].oper /\ send'[s].answer = send[s].id
         /\ send'[s].id = send[s].id
         /\ SentBy(Key[s], send[s].oper, send[s].id)'
<1>0. TypeOK /\ PhaseInv
  BY DEF BaseInv
<1>1. send[s].at = "record" /\ Answer(s, send[s].id)
  BY DEF Record
<1>2. send[s].id \in Own
  BY <1>0, <1>1 DEF PhaseInv, HasId, TypeOK
<1>3. send'[s] = Answered(s, send[s].id)
  BY <1>0, <1>1, TypeParts DEF Answer, ReqType
<1>4. send'[s].at = "done" /\ send'[s].answer = send[s].id /\ send'[s].id = send[s].id
      /\ send'[s].oper = send[s].oper
  BY <1>0, <1>2, <1>3, AnsweredFields
<1> QED
  BY <1>1, <1>2, <1>3, <1>4 DEF SentBy

LEMMA AnswerStep ==
  ASSUME BaseInv, AnswerInv, [Next]_vars
  PROVE  AnswerInv'
<1>0. TypeOK /\ PhaseInv
  BY DEF BaseInv
<1>1. ASSUME NEW k \in Keys, idem'[k].is = "answer"
      PROVE  idem'[k].id \in Own /\ SentBy(k, idem[k].oper, idem[k].id)'
  <2>1. CASE idem'[k] = idem[k]
    <3>1. idem[k].id \in Own /\ SentBy(k, idem[k].oper, idem[k].id)
      BY <1>1, <2>1 DEF AnswerInv
    <3> PICK o, i : o = idem[k].oper /\ i = idem[k].id
      OBVIOUS
    <3>2. SentBy(k, o, i)'
      BY <1>0, <3>1, SentByStays
    <3> QED
      BY <2>1, <3>1, <3>2
  <2>2. ASSUME NEW s \in Sends, Record(s), Key[s] = k,
               idem'[k] = [is |-> "answer", oper |-> send[s].oper, id |-> send[s].id]
        PROVE  idem'[k].id \in Own /\ SentBy(k, idem[k].oper, idem[k].id)'
    <3> PICK o, i : o = send[s].oper /\ i = send[s].id
      OBVIOUS
    <3>1. i \in Own /\ SentBy(k, o, i)'
      BY <2>2, RecordSent DEF SentBy
    <3> QED
      BY <2>2, <3>1
  <2>3. idem'[k] # Held /\ idem'[k] # Free
    BY <1>1 DEF Held, Free
  <2> QED
    BY <1>0, <2>1, <2>2, <2>3, KeysMove DEF KeyMoves
<1>2. ASSUME NEW s \in Sends, send'[s].answer \in Own
      PROVE  SentBy(Key[s], send[s].oper, send[s].answer)'
  <2>1. CASE send'[s] = send[s]
    <3> PICK o, i : o = send[s].oper /\ i = send[s].answer
      OBVIOUS
    <3>1. SentBy(Key[s], o, i)'
      BY <1>0, <1>2, <2>1, SentByStays DEF AnswerInv
    <3> QED
      BY <2>1, <3>1
  <2>2. CASE Record(s)
    <3> PICK o, i : o = send[s].oper /\ i = send[s].id
      OBVIOUS
    <3>1. SentBy(Key[s], o, i)' /\ send'[s].oper = o /\ send'[s].answer = i
      BY <2>2, RecordSent DEF SentBy
    <3> QED
      BY <3>1
  <2>3. CASE Replay(s) /\ send[s].at = "replay" /\ idem[Key[s]].is = "answer"
             /\ idem[Key[s]].oper = send[s].oper /\ send'[s] = Answered(s, idem[Key[s]].id)
    <3>1. Key[s] \in Keys
      BY <1>0, <2>3 DEF PhaseInv
    <3> PICK o, i : o = send[s].oper /\ i = idem[Key[s]].id
      OBVIOUS
    <3>2. i \in Own /\ SentBy(Key[s], o, i)
      BY <2>3, <3>1 DEF AnswerInv
    <3>3. SentBy(Key[s], o, i)'
      BY <1>0, <3>2, SentByStays
    <3>4. send'[s].oper = o /\ send'[s].answer = i
      BY <1>0, <2>3, <3>2, AnsweredFields
    <3> QED
      BY <3>3, <3>4
  <2> QED
    BY <1>0, <1>2, <2>1, <2>2, <2>3, AnswerMoves
<1> QED
  BY <1>1, <1>2 DEF AnswerInv

LEMMA AnswerAlways == Spec => []AnswerInv
<1>1. Init => AnswerInv
  BY NoneIsNoRow DEF Init, AnswerInv, Free, NewSend
<1> QED
  BY <1>1, AnswerStep, BaseAlways, PTL DEF Spec

\* operationHash and replayOrConflict: an answer with a message, whether first
\* given or replayed, is the answer to the same operation under the same key.
THEOREM ReplaysAreOwn == Spec => []ReplayIsOwn
<1>1. AnswerInv => ReplayIsOwn
  BY DEF AnswerInv, ReplayIsOwn, SentBy
<1> QED
  BY <1>1, AnswerAlways, PTL

-----------------------------------------------------------------------------
(***************************************************************************)
(* Temporary rows, and the rows an answer names.                            *)
(***************************************************************************)
LEMMA CountsGrow ==
  ASSUME BaseInv, [Next]_vars
  PROVE  /\ faults' \in Nat /\ kills' \in Nat
         /\ (faults' = 0 => faults = 0 /\ ~Fault)
         /\ (kills' = 0 => kills = 0 /\ ~Kill)
<1>0. TypeOK
  BY DEF BaseInv
<1>1. faults \in Nat /\ kills \in Nat
  BY <1>0 DEF TypeOK
<1>2. \/ Fault \/ (Kill /\ kills' = kills + 1 /\ faults' = faults)
      \/ UNCHANGED <<faults, kills>>
  <2>1. ASSUME NEW s \in Sends, SendStep(s) PROVE UNCHANGED bounds \/ Fault
    <3>1. CASE Record(s)
      BY <3>1 DEF Record
    <3>2. CASE ~Record(s)
      BY <2>1, <3>2 DEF SendStep, Begin, Replay, Open, Transmit, DropTemp, Rename, FinishSend,
                        Release
    <3> QED
      BY <3>1, <3>2
  <2>2. ASSUME NEW p \in Patches, PatchStep(p) PROVE UNCHANGED bounds
    BY <1>0, <2>2, PatchTypes
  <2>3. CASE \E x \in Actors : Take(x) \/ Complete(x) \/ \E e \in Wire : Report(x, e)
    BY <2>3 DEF Take, Complete, Report, bounds
  <2>4. CASE \E x \in Actors : Skip(x)
    BY <2>4 DEF Skip
  <2>5. CASE \E x \in Actors : Attach(x) \/ Stop(x) \/ Leave(x)
    BY <2>5 DEF Attach, Stop, Leave, lifeFrame, bounds
  <2>6. CASE (\E r \in Rows : Evict(r)) \/ UNCHANGED vars
    BY <2>6 DEF Evict, vars, bounds
  <2>7. CASE Kill
    BY <2>7 DEF Kill
  <2> QED
    BY <2>1, <2>2, <2>3, <2>4, <2>5, <2>6, <2>7 DEF Next, PatchStep, bounds
<1>3. CASE Fault
  <2>1. faults' = faults + 1 /\ kills' = kills
    BY <1>3 DEF Fault
  <2>2. ~Kill
    <3>1. Kill => kills' = kills + 1
      BY DEF Kill
    <3> QED
      BY <1>1, <2>1, <3>1
  <2> QED
    BY <1>1, <2>1, <2>2
<1>4. CASE Kill /\ kills' = kills + 1 /\ faults' = faults
  <2>1. ~Fault
    <3>1. Fault => kills' = kills
      BY DEF Fault
    <3> QED
      BY <1>1, <1>4, <3>1
  <2> QED
    BY <1>1, <1>4, <2>1
<1>5. CASE UNCHANGED <<faults, kills>>
  <2>1. ~Fault
    <3>1. Fault => faults' = faults + 1
      BY DEF Fault
    <3> QED
      BY <1>1, <1>5, <3>1
  <2>2. ~Kill
    <3>1. Kill => kills' = kills + 1
      BY DEF Kill
    <3> QED
      BY <1>1, <1>5, <3>1
  <2> QED
    BY <1>1, <1>5, <2>1, <2>2
<1> QED
  BY <1>2, <1>3, <1>4, <1>5

Landed(i) == row[i] # None /\ row[i].status # "sending"

LandedInv == \A s \in Sends :
    /\ send[s].at = "record" => Landed(send[s].id)
    /\ send[s].answer \in Own => Landed(send[s].answer)

\* A temporary row is its request's, between the insert and the rename.
TempInv == \A s \in Sends :
    row[s] # None /\ faults = 0 =>
       send[s].at \in {"sending", "acking", "discard"} \/ send[s].answer = "killed"

LEMMA LandedStays ==
  ASSUME BaseInv, [Next]_vars, NEW i \in Ids, Landed(i)
  PROVE  Landed(i)'
<1>t. TypeOK /\ PhaseInv /\ CheckedInv
  BY DEF BaseInv
<1>0. i \in Rows /\ i \notin Sends
  BY ChatMessagesAssumption DEF Rows
<1>1. CASE RowsKept
  BY <1>0, <1>1, NoneIsNoRow DEF RowsKept, KeptRow, Landed
<1>2. ASSUME NEW s \in Sends, Opened(s) \/ Dropped(s) PROVE row'[i] = row[i]
  BY <1>0, <1>2, <1>t DEF Opened, Dropped, TypeOK
<1>3. ASSUME NEW s \in Sends, Named(s) PROVE row'[i] = row[i]
  BY <1>0, <1>3, <1>t DEF Named, TypeOK, Landed
<1>4. ASSUME NEW x \in Actors, NEW e \in Wire, Stored(x, e) PROVE row'[i] = row[i]
  BY <1>0, <1>4, <1>t DEF Stored, TypeOK, Landed
<1> QED
  BY <1>1, <1>2, <1>3, <1>4, <1>t, StepRows DEF Landed

LEMMA LandedStep ==
  ASSUME BaseInv, AnswerInv, LandedInv, [Next]_vars
  PROVE  LandedInv'
<1>t. TypeOK /\ PhaseInv
  BY DEF BaseInv
<1>o. Own \subseteq Ids /\ Own \subseteq Rows
  BY DEF Ids, Rows
<1>1. ASSUME NEW s \in Sends, send'[s].answer \in Own
      PROVE  Landed(send[s].answer)'
  <2> PICK i : i = send'[s].answer
    OBVIOUS
  <2>1. SUFFICES Landed(i)
    BY <1>1, <1>o, LandedStays DEF Landed
  <2>2. CASE send'[s] = send[s]
    BY <1>1, <2>2 DEF LandedInv
  <2>3. CASE Record(s)
    BY <2>3, RecordSent DEF LandedInv
  <2>4. CASE Replay(s) /\ send[s].at = "replay" /\ idem[Key[s]].is = "answer"
             /\ send'[s] = Answered(s, idem[Key[s]].id)
    <3>1. i = idem[Key[s]].id /\ Key[s] \in Keys
      BY <1>t, <2>4, AnsweredFields DEF PhaseInv
    <3>2. i \in Own /\ \E t \in Sends : send[t].answer = i
      BY <2>4, <3>1 DEF AnswerInv, SentBy
    <3> QED
      BY <3>2 DEF LandedInv
  <2> QED
    BY <1>1, <1>t, <2>2, <2>3, <2>4, AnswerMoves
<1>2. ASSUME NEW s \in Sends, send'[s].at = "record"
      PROVE  Landed(send[s].id)'
  <2>1. CASE send'[s] = send[s]
    <3> PICK i : i = send[s].id
      OBVIOUS
    <3>1. i \in Ids
      BY <1>2, <1>t, <1>o, <2>1 DEF PhaseInv, HasId, TypeOK
    <3>2. Landed(i)
      BY <1>2, <2>1 DEF LandedInv
    <3> QED
      BY <2>1, <3>1, <3>2, LandedStays DEF Landed
  <2>2. CASE FinishSend(s)
    <3>0. send[s].at = "finish"
      BY <2>2 DEF FinishSend
    <3> PICK i : i = send[s].id
      OBVIOUS
    <3>1. i \in Rows
      BY <1>t, <1>o, <3>0 DEF PhaseInv, HasId, TypeOK
    <3>2. Goto(s, "record") /\ row[i] # None /\ row' = SetMessageStatus(i, "sent")
      <4>1. ASSUME Goto(s, "release") PROVE FALSE
        BY <1>2, <1>t, <4>1, TypeParts DEF Goto, ReqType, Request
      <4> QED
        BY <2>2, <4>1 DEF FinishSend
    <3>3. row'[i].status = "sent"
      BY <1>t, <3>1, <3>2, StatusKeeps
    <3>4. row'[i] # None
      BY <1>t, <3>1, <3>2, StatusKeeps, NoneIsNoRow DEF RowsKept, KeptRow
    <3>5. send'[s].id = i
      BY <1>t, <3>2, TypeParts DEF Goto, ReqType, Request
    <3> QED
      BY <3>3, <3>4, <3>5 DEF Landed
  <2>3. send'[s] = send[s] \/ FinishSend(s)
    <3>1. CASE SendStep(s)
      <4>1. send[s] \in Request
        BY <1>t, TypeParts DEF ReqType
      <4>2. ASSUME NEW at, send'[s] = [send[s] EXCEPT !.at = at] PROVE at = "record"
        BY <1>2, <4>1, <4>2 DEF Request
      <4>3. \A a : send'[s] # Answered(s, a)
        BY <1>2, <1>t, AnsweredFields
      <4>4. Moves(s)
        BY <1>t, <3>1, SendMoves
      <4> QED
        BY <1>2, <4>2, <4>3, <4>4 DEF Moves
    <3>2. CASE \E t \in Sends \ {s} : SendStep(t)
      BY <1>t, <3>2, OthersStay
    <3>3. CASE Kill
      BY <1>2, <1>t, <3>3, KillMoves, AnsweredFields
    <3>4. CASE UNCHANGED <<reqVars, lostRename>>
      BY <3>4 DEF reqVars
    <3> QED
      BY <3>1, <3>2, <3>3, <3>4, ReqStep
  <2> QED
    BY <2>1, <2>2, <2>3
<1> QED
  BY <1>1, <1>2 DEF LandedInv

LEMMA TempStep ==
  ASSUME BaseInv, TempInv, [Next]_vars
  PROVE  TempInv'
<1>t. TypeOK /\ PhaseInv /\ CheckedInv
  BY DEF BaseInv
<1> SUFFICES ASSUME NEW s \in Sends, row'[s] # None, faults' = 0
             PROVE  \/ send'[s].at \in {"sending", "acking", "discard"}
                    \/ send'[s].answer = "killed"
  BY DEF TempInv
<1>f. faults = 0 /\ ~Fault
  BY CountsGrow
<1>r. s \in Rows /\ s \notin Ids /\ send[s] \in Request
  BY <1>t, ChatMessagesAssumption, TypeParts DEF Rows, ReqType
<1>1. CASE row[s] = None
  <2>1. Opened(s)
    <3>1. ~RowsKept
      BY <1>1, <1>r, NoneIsNoRow DEF RowsKept, KeptRow
    <3>2. ASSUME NEW t \in Sends, Opened(t) PROVE t = s
      BY <1>1, <1>r, <1>t, <3>2 DEF Opened, TypeOK
    <3>3. ASSUME NEW t \in Sends, Dropped(t) PROVE FALSE
      BY <1>1, <1>r, <1>t, <3>3 DEF Dropped, TypeOK
    <3>4. ASSUME NEW t \in Sends, Named(t) PROVE FALSE
      <4>1. send[t].id \in Ids
        BY <1>t, <3>4 DEF Named, PhaseInv, HasId, TypeOK, Ids
      <4> QED
        BY <1>1, <1>r, <1>t, <3>4, <4>1 DEF Named, TypeOK
    <3>5. ASSUME NEW x \in Actors, NEW e \in Wire, Stored(x, e) PROVE FALSE
      <4>1. e.id \in Ids
        BY <3>5, SinkCallId DEF Stored, Doing
      <4> QED
        BY <1>1, <1>r, <1>t, <3>5, <4>1 DEF Stored, TypeOK
    <3> QED
      BY <1>t, <3>1, <3>2, <3>3, <3>4, <3>5, StepRows
  <2>2. row' # row
    BY <1>1
  <2>3. Goto(s, "sending")
    BY <2>1, <2>2 DEF Opened, Open
  <2> QED
    BY <1>t, <2>3, TypeParts DEF Goto, ReqType, Request
<1>2. CASE row[s] # None
  <2>1. send[s].at \in {"sending", "acking", "discard"} \/ send[s].answer = "killed"
    BY <1>2, <1>f DEF TempInv
  <2>2. CASE send'[s] = send[s]
    BY <2>1, <2>2
  <2>3. CASE send[s].answer = "killed"
    <3>1. send[s].at = "done"
      BY <1>t, <2>3, ChatMessagesAssumption DEF PhaseInv
    <3> QED
      BY <1>t, <2>3, <3>1, DoneStays
  <2>4. CASE SendStep(s) /\ send[s].at \in {"sending", "acking", "discard"}
    <3>1. ~DropTemp(s)
      BY <1>f, <1>r, <1>t DEF DropTemp, TypeOK
    <3>2. ASSUME Rename(s) PROVE send'[s].at = "discard"
      <4>1. CASE Goto(s, "discard")
        BY <1>t, <4>1, TypeParts DEF Goto, ReqType, Request
      <4>2. CASE row' = [row EXCEPT ![send[s].id] = row[s], ![s] = None]
        BY <1>r, <1>t, <4>2 DEF TypeOK
      <4> QED
        BY <1>f, <3>2, <4>1, <4>2 DEF Rename, Renamed
    <3>3. Moves(s)
      BY <1>t, <2>4, SendMoves
    <3> QED
      BY <2>4, <3>1, <3>2, <3>3 DEF Moves
  <2>5. CASE Kill
    BY <1>t, <2>5, KillMoves, AnsweredFields, <2>1
  <2>6. CASE \E t \in Sends \ {s} : SendStep(t)
    BY <1>t, <2>2, <2>6, OthersStay
  <2>7. CASE UNCHANGED <<reqVars, lostRename>>
    BY <2>2, <2>7 DEF reqVars
  <2> QED
    BY <2>1, <2>3, <2>4, <2>5, <2>6, <2>7, ReqStep
<1> QED
  BY <1>1, <1>2

LEMMA ResolveAlways == Spec => [](LandedInv /\ TempInv)
<1>1. Init => LandedInv /\ TempInv
  BY NoneIsNoRow DEF Init, LandedInv, TempInv, NewSend, Rows
<1> QED
  BY <1>1, LandedStep, TempStep, AnswerAlways, BaseAlways, PTL DEF Spec

\* sendChatText: an answered request has left no temporary row behind, unless the
\* process died or the store failed, and a message named in an answer is stored
\* and no longer marked as on its way.
THEOREM SendsResolve == Spec => []SendResolves
<1>1. BaseInv /\ LandedInv /\ TempInv => SendResolves
  BY DEF LandedInv, TempInv, SendResolves, Landed
<1> QED
  BY <1>1, ResolveAlways, BaseAlways, PTL

-----------------------------------------------------------------------------
(***************************************************************************)
(* Keys.                                                                    *)
(***************************************************************************)
LEMMA ReleasedStep ==
  ASSUME BaseInv, KeysAreReleased, [Next]_vars
  PROVE  KeysAreReleased'
<1>t. TypeOK /\ PhaseInv
  BY DEF BaseInv
<1> SUFFICES ASSUME NEW k \in Keys, idem'[k] = Held, ~(kills' > 0), ~(faults' > 0)
             PROVE  \E s \in Sends : Key[s] = k /\ InFlight(s)'
  BY DEF KeysAreReleased
<1>1. kills = 0 /\ faults = 0 /\ ~Kill /\ ~Fault
  BY CountsGrow
<1>2. CASE idem'[k] = idem[k]
  <2>1. PICK s \in Sends : Key[s] = k /\ InFlight(s)
    BY <1>1, <1>2 DEF KeysAreReleased
  <2>2. CASE send'[s] = send[s]
    BY <2>1, <2>2 DEF InFlight
  <2>3. CASE SendStep(s)
    <3>0. k # None /\ idem \in [Keys -> Reserved] /\ send[s] \in Request
      BY <1>t, TypeParts DEF Keys, ReqType
    <3>1. ~Release(s)
      <4>1. Release(s) => idem' = [idem EXCEPT ![k] = Free]
        BY <1>1, <2>1, <3>0 DEF Release
      <4>2. idem' = [idem EXCEPT ![k] = Free] => idem'[k] = Free
        BY <3>0
      <4> QED
        BY <4>1, <4>2 DEF Free, Held
    <3>2. ~Record(s)
      <4>1. Record(s) => idem'[k] = [is |-> "answer", oper |-> send[s].oper, id |-> send[s].id]
        BY <1>1, <2>1, <3>0 DEF Record
      <4> QED
        BY <4>1 DEF Held, Free
    <3>3. Moves(s)
      BY <1>t, <2>3, SendMoves
    <3>4. ASSUME NEW at, send'[s] = [send[s] EXCEPT !.at = at],
                 at \in {"sending", "release", "finish", "discard", "record"}
          PROVE  InFlight(s)'
      BY <3>0, <3>4 DEF InFlight, Request
    <3> QED
      BY <1>1, <2>1, <3>1, <3>2, <3>3, <3>4 DEF Moves, InFlight
  <2>4. send'[s] = send[s] \/ SendStep(s)
    BY <1>1, <1>t, ReqStep, OthersStay DEF reqVars
  <2> QED
    BY <2>1, <2>2, <2>3, <2>4
<1>3. CASE \E s \in Sends : Begin(s) /\ Key[s] = k /\ send'[s].at = "open"
  BY <1>3 DEF InFlight
<1>4. Held # Free /\ \A o, i : Held # [is |-> "answer", oper |-> o, id |-> i]
  BY DEF Held, Free
<1>5. KeyMoves(k)
  BY <1>t, KeysMove
<1> QED
  BY <1>2, <1>3, <1>4, <1>5 DEF KeyMoves

\* withIdempotency: no key stays reserved by a request that has ended, unless
\* the process died or the store failed under it.
THEOREM KeysReleased == Spec => []KeysAreReleased
<1>1. Init => KeysAreReleased
  BY DEF Init, KeysAreReleased, Free, Held
<1> QED
  BY <1>1, ReleasedStep, BaseAlways, PTL DEF Spec

-----------------------------------------------------------------------------
(***************************************************************************)
(* Announcements.                                                           *)
(***************************************************************************)
\* The actor has stored the message and not announced it yet.
Telling(x, i) ==
    actor[x].doing # None /\ SinkCall(actor[x].doing) = "Message" /\ actor[x].doing.id = i

\* No actor has announced the message, and none is about to.
Quiet(i) == said[i].actor = 0 /\ \A x \in Actors : ~Telling(x, i)

\* An actor announces a message after an insert that only one can have made.
MsgInv == \A i \in Ids :
    /\ said[i].actor <= 1
    /\ said[i].actor = 1 => row[i] # None
    /\ \A x \in Actors : Telling(x, i) =>
         said[i].actor = 0 /\ \A y \in Actors : Telling(y, i) => x = y

\* The API announces a message at the end of the one send that has its id.
ApiInv ==
    /\ \A i \in Ids : said[i].api <= 1 /\ (said[i].api = 1 => i \in wire /\ row[i] # None)
    /\ \A s, t \in Sends :
         send[s].at \in HasId /\ send[t].at \in HasId /\ send[s].id = send[t].id => s = t
    /\ \A s \in Sends : send[s].at \in HasId \ {"record"} => said[send[s].id].api = 0

\* Unless the rename lost, the id had no row until the send gave it one, so no
\* actor has stored the echo.
EchoInv ==
    /\ \A s \in Sends : send[s].at \in {"sending", "acking"} => row[s] # None
    /\ \A s \in Sends : send[s].at = "discard" => send[s].id \in lostRename
    /\ \A s \in Sends : send[s].at = "finish" /\ send[s].id \notin lostRename =>
         row[send[s].id] # None /\ Quiet(send[s].id)
    /\ \A i \in Ids \ lostRename : said[i].api = 1 => Quiet(i)

\* Who announces a message: the actor that is telling it, or the API at the end
\* of the send that has its id.
SaidMove(i) ==
    \/ said'[i] = said[i]
    \/ \E x \in Actors :
          /\ Complete(x) /\ Telling(x, i) /\ actor'[x].doing = None
          /\ said'[i].actor = said[i].actor + 1 /\ said'[i].api = said[i].api
    \/ \E s \in Sends :
          /\ FinishSend(s) /\ send[s].at = "finish" /\ send[s].id = i
          /\ row[i] # None /\ send'[s].at = "record"
          /\ said'[i].actor = said[i].actor /\ said'[i].api = said[i].api + 1

LEMMA SaidMoves ==
  ASSUME TypeOK, [Next]_vars, NEW i \in Ids
  PROVE  SaidMove(i)
<1> DEFINE Goal == SaidMove(i)
<1> USE DEF SaidMove
<1> SUFFICES Goal
  OBVIOUS
<1>0. said \in [Ids -> [actor : Nat, api : Nat]] /\ ActorType /\ send \in [Sends -> Request]
  BY TypeParts DEF TypeOK, ReqType
<1>1. ASSUME said' = said PROVE Goal
  BY <1>1
<1>2. ASSUME NEW x \in Actors, Complete(x) PROVE Goal
  <2> PICK e : e = actor[x].doing
    OBVIOUS
  <2>1. CASE said' = [said EXCEPT ![e.id].actor = @ + 1] /\ SinkCall(e) = "Message"
    <3>1. CASE e.id = i
      <4>1. actor'[x].doing = None
        BY <1>0, <1>2 DEF Complete, ActorType
      <4>2. said'[i].actor = said[i].actor + 1 /\ said'[i].api = said[i].api
        BY <1>0, <2>1, <3>1
      <4>3. Telling(x, i)
        BY <1>2, <2>1, <3>1 DEF Complete, Telling
      <4> QED
        BY <1>2, <4>1, <4>2, <4>3
    <3>2. CASE e.id # i
      BY <1>0, <2>1, <3>2
    <3> QED
      BY <3>1, <3>2
  <2> QED
    BY <1>1, <1>2, <2>1 DEF Complete
<1>3. ASSUME NEW s \in Sends, FinishSend(s) PROVE Goal
  <2> PICK j : j = send[s].id
    OBVIOUS
  <2>1. CASE said' = [said EXCEPT ![j].api = @ + 1] /\ row[j] # None /\ Goto(s, "record")
    <3>1. CASE j = i
      <4>1. send'[s].at = "record"
        BY <1>0, <2>1 DEF Goto, Request
      <4>2. said'[i].actor = said[i].actor /\ said'[i].api = said[i].api + 1
        BY <1>0, <2>1, <3>1
      <4>3. send[s].at = "finish"
        BY <1>3 DEF FinishSend
      <4> QED
        BY <1>3, <2>1, <3>1, <4>1, <4>2, <4>3
    <3>2. CASE j # i
      BY <1>0, <2>1, <3>2
    <3> QED
      BY <3>1, <3>2
  <2> QED
    BY <1>1, <1>3, <2>1 DEF FinishSend
<1>4. ASSUME NEW s \in Sends, SendStep(s), ~FinishSend(s) PROVE Goal
  BY <1>1, <1>4, SendFrame
<1>5. CASE \E p \in Patches : PatchStep(p)
  BY <1>1, <1>5, PatchTypes DEF auxVars
<1>6. CASE \E x \in Actors : Take(x) \/ Skip(x) \/ \E e \in Wire : Report(x, e)
  BY <1>1, <1>6 DEF Take, Skip, Report
<1>7. CASE \E x \in Actors : Attach(x) \/ Stop(x) \/ Leave(x)
  BY <1>1, <1>7 DEF Attach, Stop, Leave, lifeFrame
<1>8. CASE (\E r \in Rows : Evict(r)) \/ Kill \/ UNCHANGED vars
  BY <1>1, <1>8 DEF Evict, Kill, vars, auxVars
<1> HIDE DEF Goal, SaidMove
<1> QED
  BY <1>2, <1>3, <1>4, <1>5, <1>6, <1>7, <1>8 DEF Next, PatchStep

\* An actor begins to announce a message only with the insert of its row.
LEMMA TellingMoves ==
  ASSUME BaseInv, [Next]_vars, NEW i \in Ids, NEW x \in Actors, Telling(x, i)'
  PROVE  \/ Telling(x, i) /\ actor'[x].doing = actor[x].doing
         \/ \E e \in Wire : Stored(x, e) /\ e.id = i /\ actor'[x].doing = e
<1>t. TypeOK
  BY DEF BaseInv
<1>1. CASE actor'[x].doing = actor[x].doing
  BY <1>1 DEF Telling
<1>2. CASE actor'[x].doing = None
  BY <1>2 DEF Telling
<1>3. ASSUME NEW e \in Wire, Stored(x, e), actor'[x].doing = e
      PROVE  e.id = i
  BY <1>3 DEF Telling
<1>4. ASSUME NEW e \in Wire, actor'[x].doing = e, SinkCall(e) \in {"Edited", "Deleted"}
      PROVE  FALSE
  BY <1>4 DEF Telling
<1> QED
  BY <1>1, <1>2, <1>3, <1>4, <1>t, DoingMoves DEF DoingMove

LEMMA ToldRow ==
  ASSUME BaseInv, NEW i \in Ids, NEW x \in Actors, Telling(x, i)
  PROVE  row[i] # None
BY DEF BaseInv, CheckedInv, Telling

LEMMA StoredSaid ==
  ASSUME BaseInv, NEW x \in Actors, NEW e \in Wire, Stored(x, e)
  PROVE  /\ said' = said
         /\ \A y \in Actors \ {x} : actor'[y] = actor[y]
BY DEF BaseInv, TypeOK, Stored, Take, Took

LEMMA MsgStep ==
  ASSUME BaseInv, MsgInv, [Next]_vars
  PROVE  MsgInv'
<1>t. TypeOK /\ PhaseInv /\ CheckedInv
  BY DEF BaseInv
<1> SUFFICES ASSUME NEW i \in Ids
             PROVE  /\ said'[i].actor <= 1
                    /\ said'[i].actor = 1 => row'[i] # None
                    /\ \A x \in Actors : Telling(x, i)' =>
                         said'[i].actor = 0 /\ \A y \in Actors : Telling(y, i)' => x = y
  BY DEF MsgInv
<1>0. said[i].actor \in Nat
  BY <1>t DEF TypeOK
<1>1. CASE said'[i].actor = said[i].actor
  <2>1. said'[i].actor <= 1 /\ (said'[i].actor = 1 => row'[i] # None)
    BY <1>1, <1>t, IdRowsStay DEF MsgInv
  <2>2. ASSUME NEW x \in Actors, Telling(x, i)'
        PROVE  said'[i].actor = 0 /\ \A y \in Actors : Telling(y, i)' => x = y
    <3>1. ASSUME NEW z \in Actors, NEW e \in Wire, Stored(z, e), e.id = i
          PROVE  said'[i].actor = 0 /\ \A y \in Actors : Telling(y, i)' => y = z
      <4>1. row[i] = None
        BY <3>1 DEF Stored
      <4>2. said[i].actor = 0
        BY <1>0, <4>1 DEF MsgInv
      <4>3. \A y \in Actors \ {z} : ~Telling(y, i)'
        BY <3>1, <4>1, StoredSaid, ToldRow DEF Telling
      <4> QED
        BY <1>1, <4>2, <4>3
    <3>2. CASE \A y \in Actors : Telling(y, i)' => Telling(y, i)
      BY <1>1, <2>2, <3>2 DEF MsgInv
    <3> QED
      BY <2>2, <3>1, <3>2, TellingMoves
  <2> QED
    BY <2>1, <2>2
<1>2. ASSUME NEW z \in Actors, Complete(z), Telling(z, i), actor'[z].doing = None,
             said'[i].actor = said[i].actor + 1
      PROVE  /\ said'[i].actor = 1 /\ row'[i] # None
             /\ \A x \in Actors : ~Telling(x, i)'
  <2>1. said[i].actor = 0 /\ \A y \in Actors : Telling(y, i) => y = z
    BY <1>2 DEF MsgInv
  <2>2. row'[i] # None
    BY <1>2, <1>t, ToldRow, IdRowsStay
  <2>3. ASSUME NEW x \in Actors, Telling(x, i)' PROVE FALSE
    <3>1. x # z
      BY <1>2, <2>3 DEF Telling
    <3>2. actor'[x] = actor[x]
      BY <1>2, <1>t, <3>1 DEF Complete, TypeOK
    <3> QED
      BY <2>1, <2>3, <3>1, <3>2 DEF Telling
  <2> QED
    BY <1>2, <2>1, <2>2, <2>3
<1> QED
  BY <1>1, <1>2, <1>t, SaidMoves DEF SaidMove

LEMMA QuietStays ==
  ASSUME BaseInv, [Next]_vars, NEW i \in Ids, row[i] # None, Quiet(i)
  PROVE  Quiet(i)'
<1>t. TypeOK
  BY DEF BaseInv
<1>1. said'[i].actor = 0
  BY <1>t, SaidMoves DEF Quiet, SaidMove
<1>2. \A x \in Actors : ~Telling(x, i)'
  BY TellingMoves DEF Quiet, Stored
<1> QED
  BY <1>1, <1>2 DEF Quiet

\* How a request comes to hold a provider's id, and what it does with it.
LEMMA HolderMoves ==
  ASSUME BaseInv, [Next]_vars, NEW s \in Sends, send'[s].at \in HasId
  PROVE  \/ send'[s] = send[s]
         \/ Transmit(s) /\ send'[s].at = "acking" /\ send'[s].id \in Own \ wire
              /\ wire' = wire \cup {send'[s].id}
         \/ send'[s].id = send[s].id /\ Rename(s) /\ send[s].at = "acking"
              /\ send'[s].at \in {"discard", "finish"}
         \/ send'[s].id = send[s].id /\ DropTemp(s) /\ send[s].at = "discard"
              /\ send'[s].at = "finish"
         \/ send'[s].id = send[s].id /\ FinishSend(s) /\ send[s].at = "finish"
              /\ send'[s].at = "record"
<1>t. TypeOK
  BY DEF BaseInv
<1>0. send[s] \in Request
  BY <1>t, TypeParts DEF ReqType
<1>1. \A a : send'[s] # Answered(s, a)
  BY <1>t, AnsweredFields DEF HasId
<1>2. CASE SendStep(s)
  <2>1. ASSUME NEW at \in Places, send'[s] = [send[s] EXCEPT !.at = at]
        PROVE  send'[s].at = at /\ send'[s].id = send[s].id
    BY <1>0, <2>1 DEF Request
  <2>2. Moves(s)
    BY <1>2, <1>t, SendMoves
  <2>3. send'[s].at \notin {"open", "replay", "release", "sending"}
    BY DEF HasId
  <2> QED
    BY <1>1, <2>1, <2>2, <2>3 DEF Moves
<1>3. CASE Kill
  BY <1>1, <1>3, <1>t, KillMoves
<1>4. CASE \E t \in Sends \ {s} : SendStep(t)
  BY <1>4, <1>t, OthersStay
<1>5. CASE UNCHANGED <<reqVars, lostRename>>
  BY <1>5 DEF reqVars
<1> QED
  BY <1>2, <1>3, <1>4, <1>5, ReqStep

LEMMA ApiStep ==
  ASSUME BaseInv, ApiInv, [Next]_vars
  PROVE  ApiInv'
<1>t. TypeOK /\ PhaseInv /\ CheckedInv
  BY DEF BaseInv
<1>o. \A s \in Sends : send[s].at \in HasId => send[s].id \in wire /\ send[s].id \in Ids
  BY <1>t DEF PhaseInv, TypeOK, Ids
<1>s. \A i \in Ids : said[i].api \in Nat
  BY <1>t DEF TypeOK
<1>1. ASSUME NEW i \in Ids
      PROVE  said'[i].api <= 1 /\ (said'[i].api = 1 => i \in wire' /\ row'[i] # None)
  <2>1. CASE said'[i].api = said[i].api
    BY <1>t, <2>1, IdRowsStay, WireGrows DEF ApiInv
  <2>2. ASSUME NEW s \in Sends, send[s].at = "finish", send[s].id = i, row[i] # None,
               said'[i].api = said[i].api + 1
        PROVE  said'[i].api = 1 /\ i \in wire' /\ row'[i] # None
    <3>1. said[i].api = 0 /\ i \in wire
      BY <1>o, <2>2 DEF ApiInv, HasId
    <3> QED
      BY <1>t, <2>2, <3>1, IdRowsStay, WireGrows
  <2> QED
    BY <1>t, <2>1, <2>2, SaidMoves DEF SaidMove
<1>2. ASSUME NEW s \in Sends, NEW t \in Sends, send'[s].at \in HasId, send'[t].at \in HasId,
             send'[s].id = send'[t].id
      PROVE  s = t
  <2>1. ASSUME NEW a \in Sends, NEW b \in Sends, a # b, Transmit(a), send'[a].id \notin wire,
               send'[b].at \in HasId
        PROVE  send'[b].id # send'[a].id
    <3>1. send'[b] = send[b]
      BY <1>t, <2>1, OthersStay DEF SendStep
    <3> QED
      BY <1>o, <2>1, <3>1
  <2>2. ASSUME NEW a \in Sends, send'[a].at \in HasId, ~(Transmit(a) /\ send'[a].id \notin wire)
        PROVE  send[a].at \in HasId /\ send'[a].id = send[a].id
    BY <2>2, HolderMoves DEF HasId
  <2> QED
    BY <1>2, <2>1, <2>2 DEF ApiInv
<1>3. ASSUME NEW s \in Sends, send'[s].at \in HasId \ {"record"}
      PROVE  said'[send'[s].id].api = 0
  <2> PICK i : i = send'[s].id
    OBVIOUS
  <2>1. CASE Transmit(s) /\ i \in Own \ wire
    <3>1. i \in Ids /\ said[i].api = 0
      BY <1>s, <2>1 DEF ApiInv, Ids
    <3>2. said' = said
      BY <2>1 DEF Transmit
    <3> QED
      BY <3>1, <3>2
  <2>2. CASE send[s].at \in HasId \ {"record"} /\ send[s].id = i
    <3>1. said[i].api = 0 /\ i \in Ids
      BY <1>o, <2>2 DEF ApiInv
    <3>2. ASSUME NEW z \in Sends, send[z].at = "finish", send[z].id = i, send'[z].at = "record"
          PROVE  FALSE
      <4>1. z = s
        BY <2>2, <3>2 DEF ApiInv, HasId
      <4> QED
        BY <1>3, <3>2, <4>1
    <3>3. said'[i].api = said[i].api
      BY <1>t, <3>1, <3>2, SaidMoves DEF SaidMove
    <3> QED
      BY <3>1, <3>3
  <2> QED
    BY <1>3, <2>1, <2>2, HolderMoves DEF HasId
<1> QED
  BY <1>1, <1>2, <1>3 DEF ApiInv

LEMMA LostGrows ==
  ASSUME [Next]_vars
  PROVE  lostRename \subseteq lostRename'
<1>1. ASSUME NEW s \in Sends, SendStep(s) PROVE lostRename \subseteq lostRename'
  BY <1>1, SendFrame DEF Rename, Renamed
<1> QED
  BY <1>1, ReqStep DEF Kill, auxVars

\* The rename as it is when it wins, and when it does not.
LEMMA RenameMoves ==
  ASSUME BaseInv, NEW s \in Sends, Rename(s)
  PROVE  \/ send'[s].at = "discard" /\ send'[s].id = send[s].id /\ send[s].id \in lostRename'
         \/ send'[s].at = "finish" /\ send'[s].id = send[s].id /\ row[send[s].id] = None
              /\ row' = [row EXCEPT ![send[s].id] = row[s], ![s] = None]
<1>1. send[s] \in Request /\ send \in [Sends -> Request]
  BY TypeParts DEF BaseInv, ReqType
<1>2. ASSUME NEW at, Goto(s, at) PROVE send'[s].at = at /\ send'[s].id = send[s].id
  BY <1>1, <1>2 DEF Goto, Request
<1> QED
  BY <1>2 DEF Rename, Renamed

LEMMA EchoStep ==
  ASSUME BaseInv, MsgInv, ApiInv, EchoInv, [Next]_vars
  PROVE  EchoInv'
<1>t. TypeOK /\ PhaseInv /\ CheckedInv
  BY DEF BaseInv
<1>o. \A s \in Sends : send[s].at \in HasId => send[s].id \in Own
  BY <1>t DEF PhaseInv, TypeOK
<1>w. Own \subseteq Ids /\ Own \subseteq Rows /\ \A s \in Sends : s \in Rows /\ s \notin Ids
  BY ChatMessagesAssumption DEF Ids, Rows
<1>q. send \in [Sends -> Request]
  BY <1>t, TypeParts DEF ReqType
<1>1. ASSUME NEW s \in Sends, send'[s].at \in {"sending", "acking"}
      PROVE  row'[s] # None
  <2>1. CASE Open(s) /\ row' = [row EXCEPT ![s] = Fresh(TRUE, "sending")]
    <3>1. row'[s] = Fresh(TRUE, "sending")
      BY <1>t, <1>w, <2>1 DEF TypeOK
    <3> QED
      BY <3>1, FreshType, NoneIsNoRow
  <2>2. CASE send[s].at \in {"sending", "acking"} /\ row[s] # None
    <3>1. CASE RowsKept
      BY <1>w, <2>2, <3>1, NoneIsNoRow DEF RowsKept, KeptRow
    <3>2. ASSUME NEW z \in Sends, Opened(z) PROVE row'[s] # None
      BY <1>t, <1>w, <2>2, <3>2, FreshType, NoneIsNoRow DEF Opened, TypeOK
    <3>3. ASSUME NEW z \in Sends, Dropped(z) PROVE row'[s] # None
      <4>1. z # s
        <5>1. CASE z = s
          <6>1. Goto(s, "release") \/ Goto(s, "finish")
            BY <3>3, <5>1 DEF Dropped, DropTemp
          <6> QED
            BY <1>1, <1>q, <6>1 DEF Goto, Request
        <5> QED
          BY <5>1
      <4> QED
        BY <1>t, <1>w, <2>2, <3>3, <4>1 DEF Dropped, TypeOK
    <3>4. ASSUME NEW z \in Sends, Named(z) PROVE row'[s] # None
      <4>1. z # s
        <5>1. CASE z = s
          BY <1>1, <3>4, <5>1, RenameMoves DEF Named
        <5> QED
          BY <5>1
      <4>2. send[z].id \in Ids
        BY <1>o, <1>w, <3>4 DEF Named, HasId
      <4> QED
        BY <1>t, <1>w, <2>2, <3>4, <4>1, <4>2 DEF Named, TypeOK
    <3>5. ASSUME NEW x \in Actors, NEW e \in Wire, Stored(x, e) PROVE row'[s] # None
      <4>1. e.id \in Ids
        BY <3>5, SinkCallId DEF Stored, Doing
      <4> QED
        BY <1>t, <1>w, <2>2, <3>5, <4>1 DEF Stored, TypeOK
    <3> QED
      BY <1>t, <3>1, <3>2, <3>3, <3>4, <3>5, StepRows
  <2>3. \/ Open(s) /\ row' = [row EXCEPT ![s] = Fresh(TRUE, "sending")]
        \/ send[s].at \in {"sending", "acking"}
    <3>1. CASE SendStep(s)
      <4>1. ASSUME Open(s) PROVE row' = [row EXCEPT ![s] = Fresh(TRUE, "sending")]
        <5>1. ASSUME Goto(s, "release") PROVE FALSE
          BY <1>1, <1>q, <5>1 DEF Goto, Request
        <5> QED
          BY <4>1, <5>1 DEF Open
      <4>2. \A a : send'[s] # Answered(s, a)
        BY <1>1, <1>t, AnsweredFields
      <4>3. ASSUME NEW at, send'[s] = [send[s] EXCEPT !.at = at]
            PROVE  at \in {"sending", "acking"}
        BY <1>1, <1>q, <4>3 DEF Request
      <4>4. Moves(s)
        BY <1>t, <3>1, SendMoves
      <4> QED
        BY <1>1, <4>1, <4>2, <4>3, <4>4 DEF Moves
    <3>2. CASE Kill
      BY <1>1, <1>t, <3>2, KillMoves, AnsweredFields
    <3>3. CASE \E z \in Sends \ {s} : SendStep(z)
      BY <1>1, <1>t, <3>3, OthersStay
    <3>4. CASE UNCHANGED <<reqVars, lostRename>>
      BY <1>1, <3>4 DEF reqVars
    <3> QED
      BY <3>1, <3>2, <3>3, <3>4, ReqStep
  <2> QED
    BY <2>1, <2>2, <2>3 DEF EchoInv
<1>2. ASSUME NEW s \in Sends, send'[s].at = "discard"
      PROVE  send'[s].id \in lostRename'
  <2>1. CASE send'[s] = send[s]
    BY <1>2, <2>1, LostGrows DEF EchoInv
  <2>2. CASE Rename(s)
    BY <1>2, <2>2, RenameMoves
  <2> QED
    BY <1>2, <2>1, <2>2, HolderMoves DEF HasId
<1>3. ASSUME NEW s \in Sends, send'[s].at = "finish", send'[s].id \notin lostRename'
      PROVE  row'[send'[s].id] # None /\ Quiet(send[s].id)'
  <2> PICK i : i = send'[s].id
    OBVIOUS
  <2>1. CASE send'[s] = send[s]
    <3>1. i \in Ids /\ row[i] # None /\ Quiet(i)
      BY <1>3, <1>o, <1>w, <2>1, LostGrows DEF EchoInv, HasId
    <3>2. Quiet(i)'
      BY <3>1, QuietStays
    <3> QED
      BY <1>t, <3>1, <3>2, IdRowsStay DEF Quiet, Telling
  <2>2. CASE Rename(s)
    <3>1. row[i] = None /\ i = send[s].id /\ row' = [row EXCEPT ![i] = row[s], ![s] = None]
      BY <1>3, <2>2, RenameMoves
    <3>2. send[s].at = "acking"
      BY <2>2 DEF Rename
    <3>3. i \in Ids /\ i \in Rows /\ i # s /\ row[s] # None
      BY <1>o, <1>w, <3>1, <3>2 DEF HasId, EchoInv
    <3>4. row'[i] # None
      BY <1>t, <3>1, <3>3 DEF TypeOK
    <3>5. said[i].actor = 0
      BY <1>t, <3>1, <3>3 DEF MsgInv, TypeOK
    <3>6. \A x \in Actors : ~Telling(x, i)
      BY <3>1, <3>3, ToldRow
    <3>7. said' = said /\ actor' = actor
      BY <2>2 DEF Rename, sendFrame
    <3> QED
      BY <3>4, <3>5, <3>6, <3>7 DEF Quiet, Telling
  <2>3. CASE DropTemp(s) /\ send[s].at = "discard" /\ send[s].id = i
    BY <1>3, <2>3, LostGrows DEF EchoInv
  <2> QED
    BY <1>3, <2>1, <2>2, <2>3, HolderMoves DEF HasId
<1>4. ASSUME NEW i \in Ids, i \notin lostRename', said'[i].api = 1
      PROVE  Quiet(i)'
  <2>1. CASE said[i].api = 1
    BY <1>4, <2>1, LostGrows, QuietStays DEF EchoInv, ApiInv
  <2>2. CASE said[i].api # 1
    <3>1. PICK s \in Sends : send[s].at = "finish" /\ send[s].id = i /\ row[i] # None
      BY <1>4, <1>t, <2>2, SaidMoves DEF SaidMove
    <3> QED
      BY <1>4, <3>1, LostGrows, QuietStays DEF EchoInv
  <2> QED
    BY <2>1, <2>2
<1> QED
  BY <1>1, <1>2, <1>3, <1>4 DEF EchoInv

SaidInv == MsgInv /\ ApiInv /\ EchoInv

LEMMA SaidAlways == Spec => []SaidInv
<1>1. Init => SaidInv
  <2> SUFFICES ASSUME Init PROVE SaidInv
    OBVIOUS
  <2>1. \A x \in Actors, i \in Ids : ~Telling(x, i)
    BY DEF Init, Telling, Off
  <2>2. \A s \in Sends : send[s].at = "idle"
    BY DEF Init, NewSend
  <2>3. \A i \in Ids : said[i].actor = 0 /\ said[i].api = 0
    BY DEF Init
  <2> QED
    BY <2>1, <2>2, <2>3 DEF SaidInv, MsgInv, ApiInv, EchoInv, HasId
<1>2. BaseInv /\ SaidInv /\ [Next]_vars => SaidInv'
  BY MsgStep, ApiStep, EchoStep DEF SaidInv
<1> QED
  BY <1>1, <1>2, BaseAlways, PTL DEF Spec

\* sink.Message announces a message no second time, whatever is replayed,
\* restarted or overlaps; and the API and the actor both announce a message of
\* our own only if the rename lost to its echo, or failed.
THEOREM AnnouncedAtMostOnce == Spec => []AnnouncedOnce
<1>1. BaseInv /\ SaidInv => AnnouncedOnce
  BY DEF SaidInv, MsgInv, ApiInv, EchoInv, Quiet, AnnouncedOnce
<1> QED
  BY <1>1, SaidAlways, BaseAlways, PTL

-----------------------------------------------------------------------------
(***************************************************************************)
(* One request in flight under a key.                                       *)
(***************************************************************************)
Others(s) == {t \in Sends \ {s} : Key[t] = Key[s]}

KeyInv == \A s \in Sends : Key[s] # None =>
    /\ InFlight(s) => /\ idem[Key[s]] = Held
                      /\ \A t \in Others(s) : ~InFlight(t)
                      /\ \A t \in Others(s) : send[t].answer \in Own => Key[s] \in purged
    /\ send[s].answer \in Own /\ idem[Key[s]] = Free => Key[s] \in purged

\* A request that has a key gets past the reservation only by making it.
LEMMA FlightBegins ==
  ASSUME BaseInv, [Next]_vars, NEW s \in Sends, Key[s] # None, InFlight(s)', ~InFlight(s)
  PROVE  /\ idem[Key[s]] = Free /\ idem'[Key[s]] = Held
         /\ \A t \in Sends \ {s} : send'[t] = send[t]
<1>t. TypeOK
  BY DEF BaseInv
<1>q. idem \in [Keys -> Reserved] /\ send \in [Sends -> Request] /\ Key[s] \in Keys
  BY <1>t, TypeParts DEF ReqType, Keys
<1>1. \A a : send'[s] # Answered(s, a)
  BY <1>t, AnsweredFields DEF InFlight
<1>2. SendStep(s)
  <2>1. send'[s] # send[s]
    BY DEF InFlight
  <2> QED
    BY <1>1, <1>t, <2>1, ReqStep, OthersStay, KillMoves DEF reqVars
<1>3. Begin(s) /\ send'[s].at = "open"
  <2>1. Moves(s)
    BY <1>2, <1>t, SendMoves
  <2> QED
    BY <1>1, <2>1 DEF Moves, InFlight
<1>4. idem[Key[s]] = Free /\ idem' = [idem EXCEPT ![Key[s]] = Held]
  <2>1. ~Answer(s, "failed")
    BY <1>1, <1>q DEF Answer
  <2>2. PICK o : Reserve(s, o)
    BY <1>3, <2>1 DEF Begin
  <2>3. send' # [send EXCEPT ![s].at = "replay", ![s].oper = o]
    BY <1>3, <1>q DEF Request
  <2> QED
    BY <2>2, <2>3 DEF Reserve
<1> QED
  BY <1>2, <1>4, <1>q, <1>t, OthersStay

LEMMA KeyStep ==
  ASSUME BaseInv, KeyInv, [Next]_vars
  PROVE  KeyInv'
<1>t. TypeOK /\ PhaseInv
  BY DEF BaseInv
<1>d. Held # Free /\ Free.is # "answer" /\ Held.is # "answer"
      /\ \A o, i : [is |-> "answer", oper |-> o, id |-> i] # Free
  BY DEF Held, Free
<1> SUFFICES ASSUME NEW s \in Sends, Key[s] # None
             PROVE  /\ InFlight(s)' => /\ idem'[Key[s]] = Held
                                       /\ \A t \in Others(s) : ~InFlight(t)'
                                       /\ \A t \in Others(s) : send'[t].answer \in Own => Key[s] \in purged'
                    /\ send'[s].answer \in Own /\ idem'[Key[s]] = Free => Key[s] \in purged'
  BY DEF KeyInv, Others
<1> PICK k \in Keys : k = Key[s]
  BY DEF Keys
<1>k. KeyMoves(k) /\ purged \subseteq purged'
  BY <1>t, KeysMove
<1>a. \A z \in Sends : /\ Release(z) => send[z].at = "release"
                       /\ Record(z) => send[z].at = "record"
  BY DEF Release, Record
<1>f. ASSUME NEW z \in Sends, Key[z] = k, Release(z) \/ Record(z)
      PROVE  InFlight(z) /\ ~InFlight(z)'
  <2>1. InFlight(z)
    BY <1>a, <1>f DEF InFlight
  <2>2. send'[z].at = "done"
    <3>1. \E a : Answer(z, a)
      BY <1>f DEF Release, Record
    <3> QED
      BY <1>t, <3>1, AnsweredFields, TypeParts DEF Answer, ReqType
  <2> QED
    BY <2>1, <2>2 DEF InFlight
<1>1. ASSUME InFlight(s)', InFlight(s)
      PROVE  /\ idem'[Key[s]] = Held
             /\ \A t \in Others(s) : ~InFlight(t)'
             /\ \A t \in Others(s) : send'[t].answer \in Own => Key[s] \in purged'
  <2>1. idem[k] = Held /\ \A t \in Others(s) : ~InFlight(t)
    BY <1>1 DEF KeyInv
  <2>2. ~Aged(k)
    BY <1>1 DEF Aged
  <2>3. \A z \in Sends : Key[z] = k => ~Release(z) /\ ~Record(z)
    BY <1>1, <1>f, <2>1 DEF Others
  <2>4. idem'[k] = Held
    BY <1>d, <1>k, <2>1, <2>2, <2>3 DEF KeyMoves
  <2>5. ASSUME NEW t \in Others(s), InFlight(t)' PROVE FALSE
    BY <1>d, <2>1, <2>5, FlightBegins DEF Others
  <2>6. ASSUME NEW t \in Others(s), send'[t].answer \in Own PROVE k \in purged'
    <3>1. t \in Sends /\ Key[t] = k
      BY DEF Others
    <3>2. send'[t] = send[t]
      BY <1>d, <1>t, <2>1, <2>3, <2>6, <3>1, AnswerMoves
    <3> QED
      BY <1>1, <1>k, <2>6, <3>2 DEF KeyInv
  <2> QED
    BY <2>4, <2>5, <2>6
<1>2. ASSUME InFlight(s)', ~InFlight(s)
      PROVE  /\ idem'[Key[s]] = Held
             /\ \A t \in Others(s) : ~InFlight(t)'
             /\ \A t \in Others(s) : send'[t].answer \in Own => Key[s] \in purged'
  <2>1. idem[k] = Free /\ idem'[k] = Held /\ \A t \in Sends \ {s} : send'[t] = send[t]
    BY <1>2, FlightBegins
  <2>2. ASSUME NEW t \in Others(s)
        PROVE  ~InFlight(t)' /\ (send'[t].answer \in Own => k \in purged')
    <3>1. t \in Sends /\ Key[t] = k /\ k # None /\ send'[t] = send[t]
      BY <2>1 DEF Others
    <3> QED
      BY <1>d, <1>k, <2>1, <3>1 DEF KeyInv, InFlight
  <2> QED
    BY <2>1, <2>2
<1>3. ASSUME send'[s].answer \in Own, idem'[k] = Free
      PROVE  k \in purged'
  <2>1. CASE Aged(k) /\ k \in purged'
    BY <2>1
  <2>2. CASE idem[k] = Free
    <3>1. send'[s] = send[s]
      <4>1. ~Record(s)
        BY <1>d, <1>f, <2>2 DEF KeyInv
      <4> QED
        BY <1>3, <1>d, <1>t, <2>2, <4>1, AnswerMoves
    <3> QED
      BY <1>3, <1>k, <2>2, <3>1 DEF KeyInv
  <2>3. ASSUME NEW z \in Sends, Release(z), Key[z] = k PROVE k \in purged'
    <3>1. InFlight(z) /\ idem[k] = Held /\ k # None
      BY <1>f, <2>3 DEF KeyInv
    <3>2. s # z
      <4>1. CASE s = z
        <5>1. Answer(z, "failed")
          BY <2>3 DEF Release
        <5>2. send'[z] = Answered(z, "failed")
          BY <1>t, <5>1, TypeParts DEF Answer, ReqType
        <5>3. send'[z].answer = "failed"
          BY <1>t, <5>2, AnsweredFields
        <5> QED
          BY <1>3, <4>1, <5>3, ChatMessagesAssumption
      <4> QED
        BY <4>1
    <3>3. ~Record(s)
      BY <1>f, <3>1, <3>2, <2>3 DEF KeyInv, Others
    <3>4. send'[s] = send[s]
      BY <1>3, <1>d, <1>t, <3>1, <3>3, AnswerMoves
    <3> QED
      BY <1>3, <1>k, <2>3, <3>1, <3>2, <3>4 DEF KeyInv, Others
  <2> QED
    BY <1>3, <1>d, <1>k, <2>1, <2>2, <2>3 DEF KeyMoves
<1> QED
  BY <1>1, <1>2, <1>3

LEMMA KeyAlways == Spec => []KeyInv
<1>1. Init => KeyInv
  BY NoneIsNoRow DEF Init, KeyInv, InFlight, NewSend, Others
<1> QED
  BY <1>1, KeyStep, BaseAlways, PTL DEF Spec

\* ReserveIdempotency: a text goes out under a key only while no other request
\* of the key is in flight, and none was answered with success, unless its
\* record was purged since.
THEOREM OneSendPerKey == Spec => NoSecondSendUnderKey
<1>1. KeyInv => \A s \in Sends :
         (send[s].at = "sending" /\ send'[s].at = "acking" /\ Key[s] # None) =>
            \A t \in Sends \ {s} : Key[t] = Key[s] =>
                /\ ~InFlight(t)
                /\ send[t].answer \in Own => Key[s] \in purged
  BY DEF KeyInv, InFlight, Others
<1> QED
  BY <1>1, KeyAlways, PTL DEF NoSecondSendUnderKey

=============================================================================
