------------------------------ MODULE MailProofs ------------------------------
(***************************************************************************)
(* Theorems about the mirror of a mailbox, for any number of messages,       *)
(* folders, changes and faults: a saved cursor is never ahead of the rows,   *)
(* new mail is announced once, a wake is remembered; and about the push      *)
(* subscription: every stored secret is ours, an account that has gone keeps *)
(* no row.                                                                  *)
(*                                                                          *)
(* A page is applied row by row while the mailbox moves on, so the first     *)
(* needs to know how the cursor, the page in hand and the mailbox relate     *)
(* (InOrder: in this order, a removal being the latest version of all), and  *)
(* that what is left of the page is all that separates it from a row (Good): *)
(* of the rows there are (RowsGood), and of those a request has read and may *)
(* still write, unless the worker has written them since (HandsGood).  The   *)
(* second needs to know that whatever was announced, or was there before the *)
(* account, is found again when it is walked again: it is in the rows, or    *)
(* has left the mailbox for good (KnownOnce, BacklogSeen).                   *)
(***************************************************************************)
EXTENDS MailSync, PushSubscriptions, FiniteSetTheorems, TLAPS

MailRows == [ver : Nat, evicted : BOOLEAN]
Pages == [Msgs -> Nat]
RunRows == [at : {"idle", "scopes", "walk", "apply", "end"}, first : BOOLEAN,
            todo : SUBSET Folders, in : SUBSET Folders, quiet : BOOLEAN, page : Pages,
            changed : SUBSET Msgs, removed : SUBSET Msgs, new : SUBSET Msgs]
Hands == [at : {"idle", "missed", "fetched", "read"}, ver : Nat, m : SUBSET Msgs]

MShape ==
    /\ box \in Pages /\ gone \subseteq Msgs
    /\ mail \in [Msgs -> MailRows]
    /\ cursor \in [Folders -> Pages] /\ walked \subseteq Folders
    /\ run \in RunRows
    /\ through \in [Clients -> Hands]
    /\ synced \in BOOLEAN
    /\ changes \in Nat

\* A request about to write has a row, and not the lack of one.
Rewrites == \A c \in Clients : through[c].at \in {"fetched", "read"} => through[c].ver > 0

\* Versions are bounded by the changes made, so a removal comes after all of them.
Young == changes <= MaxChanges /\ \A m \in Msgs : box[m] <= 1 + changes

\* What cursors and pages say was so, and has only moved on since.
InOrder ==
    /\ \A f \in Folders, m \in Msgs : cursor[f][m] <= Now(f)[m]
    /\ run.at = "apply" =>
         \A f \in run.in, m \in Msgs : cursor[f][m] <= run.page[m] /\ run.page[m] <= Now(f)[m]

\* What is left of the page.
Left ==
    run.at = "apply" =>
        /\ run.in # {}
        /\ \A m \in run.changed : run.page[m] \notin {0, Tombstone}
        /\ \A m \in run.removed : run.page[m] = Tombstone

\* Row m may be of version v: it is no older than the cursor, and than the page in
\* hand but for what is left of it.
BehindCursor(m, v) ==
    \A f \in walked : Home[m] = f =>
        /\ m \notin gone => v >= cursor[f][m]
        /\ (cursor[f][m] = Tombstone /\ m \notin skipped) => v = 0

BehindPage(m, v) ==
    run.at = "apply" => \A f \in run.in : Home[m] = f =>
        /\ (m \notin gone /\ m \notin run.changed) => v >= run.page[m]
        /\ (run.page[m] = Tombstone /\ m \notin skipped /\ m \notin run.removed) => v = 0

Good(m, v) == BehindCursor(m, v) /\ BehindPage(m, v)

RowsGood == \A m \in Msgs \ raced : Good(m, mail[m].ver)
HandsGood ==
    \A c \in Clients \ late :
        through[c].ver > 0 => \A m \in through[c].m \ raced : Good(m, through[c].ver)

Mirror == RowsGood /\ HandsGood

\* The part of it that the theorem states of a request.
HandsBehindCursor ==
    \A c \in Clients \ late :
        through[c].ver > 0 => \A m \in through[c].m \ raced : BehindCursor(m, through[c].ver)

MInv == MShape /\ Rewrites /\ Young /\ InOrder /\ Left /\ Mirror

LEMMA Bounds == Tombstone \in Nat /\ MaxChanges + 1 < Tombstone /\ Tombstone > 0
  BY MailSyncAssumption DEF Tombstone

LEMMA NowIs ==
  ASSUME NEW f, NEW m \in Msgs
  PROVE  Now(f)[m] = IF Home[m] # f THEN 0 ELSE IF m \in gone THEN Tombstone ELSE box[m]
  BY DEF Now

LEMMA IdleRow == Idle \in RunRows /\ Idle.at = "idle"
  BY DEF Idle, RunRows, Pages, Empty

LEMMA IdleHands == Untouched \in Hands /\ Untouched.at = "idle" /\ Untouched.ver = 0 /\ Untouched.m = {}
  BY DEF Untouched, Hands

LEMMA MInvInit == SyncInit => MInv
  <1> SUFFICES ASSUME SyncInit PROVE MInv OBVIOUS
  <1>1. MShape
    BY IdleRow, IdleHands, MailSyncAssumption
       DEF SyncInit, MShape, Pages, MailRows, NoRow, Empty
  <1>2. Young BY MailSyncAssumption DEF SyncInit, Young
  <1>3. InOrder
    <2>1. run.at # "apply" BY IdleRow DEF SyncInit
    <2>2. ASSUME NEW f \in Folders, NEW m \in Msgs PROVE cursor[f][m] <= Now(f)[m]
      <3>1. cursor[f][m] = 0 BY DEF SyncInit, Empty
      <3>2. Now(f)[m] \in Nat BY NowIs, Bounds, <1>1 DEF MShape, Pages
      <3> QED BY <3>1, <3>2
    <2> QED BY <2>1, <2>2 DEF InOrder
  <1>4. Left BY IdleRow DEF SyncInit, Left
  <1>5. RowsGood BY IdleRow DEF SyncInit, RowsGood, Good, BehindCursor, BehindPage
  <1>6. Rewrites /\ HandsGood BY IdleHands DEF SyncInit, Rewrites, HandsGood
  <1> QED BY <1>1, <1>2, <1>3, <1>4, <1>5, <1>6 DEF MInv, Mirror

-----------------------------------------------------------------------------
(* What becomes of Good.                                                    *)

\* The mailbox moves on, or the worker does with no page in hand.
LEMMA GoodKept ==
  ASSUME UNCHANGED saved, gone \subseteq gone', skipped \subseteq skipped',
         run' = run \/ run'.at # "apply"
  PROVE  \A m, v : Good(m, v) => Good(m, v)'
  <1> SUFFICES ASSUME NEW m, NEW v, Good(m, v) PROVE Good(m, v)' OBVIOUS
  <1>1. BehindCursor(m, v)' BY DEF Good, BehindCursor, saved
  <1>2. BehindPage(m, v)' BY DEF Good, BehindPage
  <1> QED BY <1>1, <1>2 DEF Good

\* Rows and requests are left alone.
LEMMA MirrorKept ==
  ASSUME MShape, Mirror, UNCHANGED <<mail, late, raced>>,
         through' = through \/ through' = [c \in Clients |-> Untouched],
         \A m \in Msgs, v \in Nat : Good(m, v) => Good(m, v)'
  PROVE  Mirror'
  <1>1. \A m \in Msgs : mail[m].ver \in Nat BY DEF MShape, MailRows
  <1>2. RowsGood' BY <1>1 DEF Mirror, RowsGood
  <1>3. HandsGood'
    <2>1. CASE through' = through
      <3>1. \A c \in Clients : through[c].ver \in Nat /\ through[c].m \subseteq Msgs
        BY DEF MShape, Hands
      <3> QED BY <2>1, <3>1 DEF Mirror, HandsGood
    <2>2. CASE through' = [c \in Clients |-> Untouched]
      BY <2>2, IdleHands DEF HandsGood
    <2> QED BY <2>1, <2>2
  <1> QED BY <1>2, <1>3 DEF Mirror

\* What the provider holds is as good as a row of it can be.
LEMMA FetchedIsGood ==
  ASSUME MInv, NEW m \in Msgs, Present(m)
  PROVE  Good(m, box[m]) /\ box[m] \in Nat
  <1>1. m \notin gone /\ box[m] \in Nat /\ box[m] < Tombstone /\ Tombstone \in Nat
    BY Bounds, MailSyncAssumption DEF MInv, MShape, Young, Pages, Present
  <1>2. \A f \in Folders : Home[m] = f => Now(f)[m] = box[m] BY <1>1, NowIs
  <1>3. walked \subseteq Folders /\ run.in \subseteq Folders
        /\ \A f \in Folders : cursor[f][m] \in Nat /\ run.page[m] \in Nat
    BY DEF MInv, MShape, RunRows, Pages
  <1>4. BehindCursor(m, box[m])
    <2> SUFFICES ASSUME NEW f \in walked, Home[m] = f
                 PROVE  box[m] >= cursor[f][m] /\ cursor[f][m] # Tombstone
      BY DEF BehindCursor
    <2>1. f \in Folders /\ cursor[f][m] \in Nat BY <1>3
    <2>2. cursor[f][m] <= box[m] BY <1>2, <2>1 DEF MInv, InOrder
    <2> QED BY <1>1, <2>1, <2>2
  <1>5. BehindPage(m, box[m])
    <2> SUFFICES ASSUME run.at = "apply", NEW f \in run.in, Home[m] = f
                 PROVE  box[m] >= run.page[m] /\ run.page[m] # Tombstone
      BY DEF BehindPage
    <2>1. f \in Folders /\ run.page[m] \in Nat BY <1>3
    <2>2. run.page[m] <= Now(f)[m] BY DEF MInv, InOrder
    <2>3. run.page[m] <= box[m] BY <1>2, <2>1, <2>2
    <2> QED BY <1>1, <2>1, <2>3
  <1> QED BY <1>1, <1>4, <1>5 DEF Good

-----------------------------------------------------------------------------
(* The mailbox moves on.                                                    *)

\* Versions grow, messages leave; nothing else happens, or a request reads.
LEMMA MovesOn ==
  ASSUME MInv, UNCHANGED <<saved, run, synced, skipped>>,
         mail' \in [Msgs -> MailRows],
         through' \in [Clients -> Hands], Rewrites',
         box' \in Pages, gone' \subseteq Msgs, changes' \in Nat, Young',
         gone \subseteq gone', \A m \in Msgs : box[m] <= box'[m],
         Mirror'
  PROVE  MInv'
  <1>1. MShape' BY DEF MInv, MShape, saved
  <1>2. \A f \in Folders, m \in Msgs : Now(f)[m] <= Now(f)'[m] /\ Now(f)[m] \in Nat /\ Now(f)'[m] \in Nat
    BY NowIs, Bounds, MailSyncAssumption DEF MInv, MShape, Young, Pages, Now
  <1>3. InOrder'
    <2>1. \A f \in Folders, m \in Msgs : cursor[f][m] \in Nat /\ run.page[m] \in Nat
      BY DEF MInv, MShape, RunRows, Pages
    <2>2. run.in \subseteq Folders BY DEF MInv, MShape, RunRows
    <2> QED BY <1>2, <2>1, <2>2 DEF MInv, InOrder, saved
  <1>4. Left' BY DEF MInv, Left
  <1> QED BY <1>1, <1>3, <1>4 DEF MInv

LEMMA UpstreamStep ==
  ASSUME MInv, NEW m \in Msgs, Arrive(m) \/ Touch(m) \/ Discard(m) \/ SendEmail(m)
  PROVE  MInv'
  <1>1. UNCHANGED <<mail, saved, run, through, mailAux, synced>> /\ changes' = changes + 1
        /\ changes < MaxChanges
    BY DEF Arrive, Touch, Discard, SendEmail, Change, account
  <1>2. /\ \A o \in Msgs : box'[o] = box[o] \/ (o = m /\ box'[o] = box[o] + 1)
        /\ box' \in Pages
    BY DEF Arrive, Touch, Discard, SendEmail, MInv, MShape, Pages
  <1>3. gone \subseteq gone' /\ gone' \subseteq Msgs
    BY DEF Arrive, Touch, Discard, SendEmail, MInv, MShape
  <1>4. Young' BY <1>1, <1>2, MailSyncAssumption DEF MInv, MShape, Young, Pages
  <1>5. \A o \in Msgs : box[o] <= box'[o] BY <1>2 DEF MInv, MShape, Pages
  <1>6. changes' \in Nat BY <1>1 DEF MInv, MShape
  <1>7. Mirror'
    <2>1. \A o, v : Good(o, v) => Good(o, v)' BY <1>1, <1>3, GoodKept DEF mailAux
    <2> QED BY <1>1, <2>1, MirrorKept DEF MInv, mailAux
  <1>8. Rewrites' /\ through' \in [Clients -> Hands] /\ mail' \in [Msgs -> MailRows]
    BY <1>1 DEF MInv, MShape, Rewrites
  <1>9. UNCHANGED <<saved, run, synced, skipped>> BY <1>1 DEF mailAux
  <1> QED BY <1>2, <1>3, <1>4, <1>5, <1>6, <1>7, <1>8, <1>9, MovesOn

-----------------------------------------------------------------------------
(* Rows are written beside the worker.                                      *)

LEMMA NowSame == ASSUME UNCHANGED upstream PROVE \A f \in Folders : Now(f)' = Now(f)
  BY DEF upstream, Now

LEMMA OrderSame ==
  ASSUME InOrder, UNCHANGED <<upstream, saved, run>>
  PROVE  InOrder'
  <1>1. cursor' = cursor /\ run' = run BY DEF saved
  <1>2. \A f \in Folders : Now(f)' = Now(f) BY NowSame
  <1>3. \A f \in Folders, m \in Msgs : (cursor[f][m] <= Now(f)[m])' BY <1>1, <1>2 DEF InOrder
  <1>4. ASSUME run'.at = "apply", NEW f \in run'.in, NEW m \in Msgs
        PROVE  (cursor[f][m] <= run.page[m] /\ run.page[m] <= Now(f)[m])'
    <2>1. Now(f)' = Now(f) BY DEF upstream, Now
    <2> QED BY <1>1, <1>4, <2>1 DEF InOrder
  <1> QED BY <1>3, <1>4 DEF InOrder

\* A request reads the row, finds none, or fetches the message.
LEMMA ClientReads ==
  ASSUME MInv, NEW c \in Clients, NEW m \in Msgs,
         PatchEmail(c, m) \/ GetEmail(c, m) \/ GetMiss(c, m)
  PROVE  MInv'
  <1>1. UNCHANGED <<mail, saved, run, synced, mailAux, gone>>
    BY DEF PatchEmail, GetEmail, GetMiss, clientFrame, account, mailAux
  <1>2. /\ \A o \in Msgs : box'[o] = box[o] \/ (o = m /\ box'[o] = box[o] + 1 /\ changes' = changes + 1)
        /\ box' \in Pages /\ changes' \in Nat
        /\ changes' = changes \/ (changes' = changes + 1 /\ changes < MaxChanges)
    BY DEF PatchEmail, GetEmail, GetMiss, Change, MInv, MShape, Pages
  <1>3. Young' BY <1>2, MailSyncAssumption DEF MInv, MShape, Young, Pages
  <1>4. \A o \in Msgs : box[o] <= box'[o] BY <1>2 DEF MInv, MShape, Pages
  <1>5. PICK r \in Hands : /\ through' = [through EXCEPT ![c] = r]
                           /\ \/ r.at = "read" /\ Held(m) /\ r.ver = mail[m].ver /\ r.m = {m}
                              \/ r.at = "missed" /\ r.ver = 0
    <2>1. mail[m].ver \in Nat BY DEF MInv, MShape, MailRows
    <2>2. [at |-> "read", ver |-> mail[m].ver, m |-> {m}] \in Hands
          /\ [at |-> "missed", ver |-> 0, m |-> {m}] \in Hands
      BY <2>1 DEF Hands
    <2> QED BY <2>2 DEF PatchEmail, GetEmail, GetMiss, ClientMoves
  <1>6. /\ through' \in [Clients -> Hands] /\ through'[c] = r
        /\ \A d \in Clients \ {c} : through'[d] = through[d]
    BY <1>5 DEF MInv, MShape
  <1>7. Rewrites' BY <1>5, <1>6 DEF MInv, Rewrites, Held
  <1>8. \A o, v : Good(o, v) => Good(o, v)' BY <1>1, GoodKept DEF mailAux
  <1>9. RowsGood' BY <1>1, <1>8 DEF MInv, Mirror, RowsGood, mailAux
  <1>10. HandsGood'
    <2> SUFFICES ASSUME NEW d \in Clients \ late, through'[d].ver > 0,
                        NEW o \in through'[d].m \ raced
                 PROVE  Good(o, through[d].ver)'
      BY <1>1 DEF HandsGood, mailAux
    <2>1. CASE d = c
      <3>1. r.ver = mail[m].ver /\ r.m = {m} /\ o = m BY <1>5, <1>6, <2>1
      <3>2. Good(m, r.ver) BY <3>1 DEF MInv, Mirror, RowsGood
      <3>3. Good(m, r.ver)' BY <1>8, <3>2
      <3> QED BY <1>6, <2>1, <3>1, <3>3
    <2>2. CASE d # c
      <3>1. PICK v : v = through[d].ver OBVIOUS
      <3>2. through'[d].ver = v /\ Good(o, v) BY <1>6, <2>2, <3>1 DEF MInv, Mirror, HandsGood
      <3>3. Good(o, v)' BY <1>8, <3>2
      <3> QED BY <3>2, <3>3
    <2> QED BY <2>1, <2>2
  <1>11. UNCHANGED <<saved, run, synced, skipped>> /\ gone' = gone BY <1>1 DEF mailAux
  <1>12. gone' \subseteq Msgs /\ mail' \in [Msgs -> MailRows] BY <1>1 DEF MInv, MShape
  <1> QED BY <1>2, <1>3, <1>4, <1>6, <1>7, <1>9, <1>10, <1>11, <1>12, MovesOn DEF Mirror

\* Steps of a request that leave the mailbox alone.
LEMMA BoxStays ==
  ASSUME MInv, UNCHANGED <<upstream, saved, run, synced, skipped, changes>>,
         mail' \in [Msgs -> MailRows], through' \in [Clients -> Hands], Rewrites', Mirror'
  PROVE  MInv'
  <1>1. Young' BY DEF MInv, Young, upstream
  <1>2. \A m \in Msgs : box[m] <= box'[m] BY DEF MInv, MShape, Pages, upstream
  <1> QED BY <1>1, <1>2, MovesOn DEF MInv, MShape, upstream

LEMMA GetMessageStep == ASSUME MInv, NEW c \in Clients, GetMessage(c) PROVE MInv'
  <1>1. /\ UNCHANGED <<upstream, saved, run, synced, mail, late, raced, skipped, changes>>
        /\ through[c].m \subseteq Msgs
    BY DEF GetMessage, clientFrame, account, upstream, MInv, MShape, Hands
  <1>2. PICK r \in Hands :
          /\ through' = [through EXCEPT ![c] = r]
          /\ \/ r.at = "idle" /\ r.ver = 0
             \/ \E m \in Msgs : Present(m) /\ r.at = "fetched" /\ r.ver = box[m] /\ r.m = {m}
    <2>1. CASE ClientMoves(c, Untouched) BY <2>1, IdleHands DEF ClientMoves
    <2>2. ASSUME NEW m \in through[c].m, Present(m),
                 ClientMoves(c, [at |-> "fetched", ver |-> box[m], m |-> {m}])
          PROVE  \E r \in Hands :
                   /\ through' = [through EXCEPT ![c] = r]
                   /\ \/ r.at = "idle" /\ r.ver = 0
                      \/ \E o \in Msgs : Present(o) /\ r.at = "fetched" /\ r.ver = box[o] /\ r.m = {o}
      <3>1. m \in Msgs /\ box[m] \in Nat BY <1>1 DEF MInv, MShape, Pages
      <3>2. [at |-> "fetched", ver |-> box[m], m |-> {m}] \in Hands BY <3>1 DEF Hands
      <3> QED BY <2>2, <3>1, <3>2 DEF ClientMoves
    <2> QED BY <2>1, <2>2 DEF GetMessage
  <1>3. /\ through' \in [Clients -> Hands] /\ through'[c] = r
        /\ \A d \in Clients \ {c} : through'[d] = through[d]
    BY <1>2 DEF MInv, MShape
  <1>4. Rewrites' BY <1>2, <1>3 DEF MInv, Rewrites, Present
  <1>5. \A o, v : Good(o, v) => Good(o, v)' BY <1>1, GoodKept DEF upstream
  <1>6. RowsGood' BY <1>1, <1>5 DEF MInv, Mirror, RowsGood
  <1>7. HandsGood'
    <2> SUFFICES ASSUME NEW d \in Clients \ late, through'[d].ver > 0,
                        NEW o \in through'[d].m \ raced
                 PROVE  Good(o, through[d].ver)'
      BY <1>1 DEF HandsGood
    <2>1. CASE d = c
      <3>1. PICK m \in Msgs : Present(m) /\ r.ver = box[m] /\ r.m = {m} BY <1>2, <1>3, <2>1
      <3>2. Good(m, r.ver) BY <3>1, FetchedIsGood
      <3>3. Good(m, r.ver)' BY <1>5, <3>2
      <3>4. o = m BY <1>3, <2>1, <3>1
      <3> QED BY <1>3, <2>1, <3>3, <3>4
    <2>2. CASE d # c
      <3>1. PICK v : v = through[d].ver OBVIOUS
      <3>2. through'[d].ver = v /\ Good(o, v) BY <1>3, <2>2, <3>1 DEF MInv, Mirror, HandsGood
      <3>3. Good(o, v)' BY <1>5, <3>2
      <3> QED BY <3>2, <3>3
    <2> QED BY <2>1, <2>2
  <1>8. mail' \in [Msgs -> MailRows] BY <1>1 DEF MInv, MShape
  <1> QED BY <1>1, <1>3, <1>4, <1>6, <1>7, <1>8, BoxStays DEF Mirror

\* A request writes: what it has in hand is as good as the row, or it is late.
LEMMA CacheEmailStep == ASSUME MInv, NEW c \in Clients, CacheEmail(c) PROVE MInv'
  <1>1. PICK m \in through[c].m :
          /\ through[c].at \in {"fetched", "read"}
          /\ \/ /\ mail' = UpsertEmail(m, through[c].ver)
                /\ raced' = IF c \in late THEN raced \cup {m} ELSE raced
             \/ UNCHANGED <<mail, raced>>
          /\ \/ ClientMoves(c, [through[c] EXCEPT !.at = "read"]) /\ UNCHANGED late
             \/ ClientMoves(c, Untouched) /\ late' = late \ {c}
    BY DEF CacheEmail
  <1>2. UNCHANGED <<upstream, saved, run, synced, skipped, changes>>
    BY DEF CacheEmail, clientFrame, account, upstream
  <1>3. through[c] \in Hands /\ m \in Msgs /\ through[c].ver \in Nat BY DEF MInv, MShape, Hands
  <1>4. through[c].ver > 0 BY <1>1 DEF MInv, Rewrites
  <1>5. PICK r \in Hands : /\ through' = [through EXCEPT ![c] = r]
                           /\ r.at \in {"fetched", "read"} => r.ver > 0
                           /\ \/ r.ver = 0
                              \/ r.ver = through[c].ver /\ r.m = through[c].m /\ late' = late
    <2>1. CASE ClientMoves(c, [through[c] EXCEPT !.at = "read"]) /\ UNCHANGED late
      <3> DEFINE q == [through[c] EXCEPT !.at = "read"]
      <3>1. q \in Hands /\ q.ver = through[c].ver /\ q.m = through[c].m BY <1>3 DEF Hands
      <3>2. through' = [through EXCEPT ![c] = q] BY <2>1 DEF ClientMoves
      <3> HIDE DEF q
      <3> QED BY <1>4, <2>1, <3>1, <3>2
    <2>2. CASE ClientMoves(c, Untouched) BY <2>2, IdleHands DEF ClientMoves
    <2> QED BY <1>1, <2>1, <2>2
  <1>6. /\ through' \in [Clients -> Hands] /\ through'[c] = r
        /\ \A d \in Clients \ {c} : through'[d] = through[d]
    BY <1>5 DEF MInv, MShape
  <1>7. Rewrites' BY <1>5, <1>6 DEF MInv, Rewrites
  <1>8. \A o, v : Good(o, v) => Good(o, v)' BY <1>2, GoodKept DEF upstream
  <1>9. /\ mail' \in [Msgs -> MailRows] /\ raced \subseteq raced'
        /\ \A o \in Msgs : \/ mail'[o].ver = mail[o].ver
                           \/ o = m /\ mail'[m].ver = through[c].ver
                              /\ raced' = IF c \in late THEN raced \cup {m} ELSE raced
    <2>1. CASE UNCHANGED <<mail, raced>> BY <2>1 DEF MInv, MShape
    <2>2. CASE /\ mail' = UpsertEmail(m, through[c].ver)
               /\ raced' = IF c \in late THEN raced \cup {m} ELSE raced
      BY <1>3, <2>2 DEF UpsertEmail, MInv, MShape, MailRows
    <2> QED BY <1>1, <2>1, <2>2
  <1>10. RowsGood'
    <2> SUFFICES ASSUME NEW o \in Msgs \ raced' PROVE Good(o, mail[o].ver)'
      BY DEF RowsGood
    <2>1. CASE mail'[o].ver = mail[o].ver
      <3>1. PICK v : v = mail[o].ver OBVIOUS
      <3>2. Good(o, v)' BY <1>8, <1>9, <3>1 DEF MInv, Mirror, RowsGood
      <3> QED BY <2>1, <3>1, <3>2
    <2>2. CASE o = m /\ mail'[m].ver = through[c].ver
               /\ raced' = IF c \in late THEN raced \cup {m} ELSE raced
      <3>1. c \notin late /\ m \notin raced BY <2>2
      <3>2. PICK v : v = through[c].ver OBVIOUS
      <3>3. Good(m, v) BY <1>1, <1>4, <3>1, <3>2 DEF MInv, Mirror, HandsGood
      <3>4. Good(m, v)' BY <1>8, <3>3
      <3> QED BY <2>2, <3>2, <3>4
    <2> QED BY <1>9, <2>1, <2>2
  <1>11. HandsGood'
    <2> SUFFICES ASSUME NEW d \in Clients \ late', through'[d].ver > 0,
                        NEW o \in through'[d].m \ raced'
                 PROVE  Good(o, through[d].ver)'
      BY DEF HandsGood
    <2>1. d \notin late /\ through'[d].ver = through[d].ver /\ through'[d].m = through[d].m
      <3>1. CASE d = c BY <1>5, <1>6, <3>1
      <3>2. CASE d # c BY <1>1, <1>6, <3>2
      <3> QED BY <3>1, <3>2
    <2>2. PICK v : v = through[d].ver OBVIOUS
    <2>3. Good(o, v) BY <1>9, <2>1, <2>2 DEF MInv, Mirror, HandsGood
    <2>4. Good(o, v)' BY <1>8, <2>3
    <2> QED BY <2>1, <2>2, <2>4
  <1> QED BY <1>2, <1>6, <1>7, <1>9, <1>10, <1>11, BoxStays DEF Mirror

\* Nothing this proof speaks of changes, but for the content of a row.
LEMMA EvictStep == ASSUME MInv, NEW m \in Msgs, EvictMail(m) PROVE MInv'
  <1>1. UNCHANGED <<upstream, saved, synced, run, through, mailAux>>
        /\ changes < MaxChanges /\ changes' = changes + 1
    BY DEF EvictMail, Change, account
  <1>2. /\ mail' \in [Msgs -> MailRows]
        /\ \A o \in Msgs : mail'[o].ver = mail[o].ver
    BY DEF EvictMail, MInv, MShape, MailRows
  <1>3. \A o, v : Good(o, v) => Good(o, v)' BY <1>1, GoodKept DEF upstream, mailAux
  <1>4. RowsGood'
    <2> SUFFICES ASSUME NEW o \in Msgs \ raced PROVE Good(o, mail[o].ver)'
      BY <1>1 DEF RowsGood, mailAux
    <2>1. PICK v : v = mail[o].ver OBVIOUS
    <2>2. Good(o, v)' BY <1>3, <2>1 DEF MInv, Mirror, RowsGood
    <2> QED BY <1>2, <2>1, <2>2
  <1>5. HandsGood' BY <1>1, <1>3 DEF MInv, Mirror, HandsGood, mailAux
  <1>6. Rewrites' /\ through' \in [Clients -> Hands] BY <1>1 DEF MInv, MShape, Rewrites
  <1>7. UNCHANGED <<saved, run, synced, skipped>> BY <1>1 DEF mailAux
  <1>8. changes' \in Nat /\ Young'
    BY <1>1, MailSyncAssumption DEF MInv, MShape, Young, Pages, upstream
  <1>9. box' \in Pages /\ gone' \subseteq Msgs /\ gone \subseteq gone'
        /\ \A o \in Msgs : box[o] <= box'[o]
    BY <1>1 DEF MInv, MShape, Pages, upstream
  <1> QED BY <1>2, <1>4, <1>5, <1>6, <1>7, <1>8, <1>9, MovesOn DEF Mirror

-----------------------------------------------------------------------------
(* The worker.                                                              *)

\* A step that ends with no page in hand and leaves the mirror alone.
LEMMA NoPage ==
  ASSUME MInv, run' \in RunRows, run'.at # "apply",
         UNCHANGED <<upstream, mail, saved, raced, changes>>, synced' \in BOOLEAN,
         skipped \subseteq skipped',
         \/ UNCHANGED <<through, late>>
         \/ through' = [c \in Clients |-> Untouched]
  PROVE  MInv'
  <1>1. MShape' BY IdleHands DEF MInv, MShape, upstream, saved
  <1>2. Rewrites' BY IdleHands DEF MInv, Rewrites
  <1>3. InOrder' BY NowSame DEF MInv, InOrder, saved
  <1>4. Young' /\ Left' BY DEF MInv, Young, Left, upstream
  <1>5. \A m, v : Good(m, v) => Good(m, v)' BY GoodKept DEF upstream
  <1>6. RowsGood' BY <1>5 DEF MInv, Mirror, RowsGood
  <1>7. HandsGood'
    <2>1. CASE UNCHANGED <<through, late>> BY <1>5, <2>1 DEF MInv, Mirror, HandsGood
    <2>2. CASE through' = [c \in Clients |-> Untouched] BY <2>2, IdleHands DEF HandsGood
    <2> QED BY <2>1, <2>2
  <1> QED BY <1>1, <1>2, <1>3, <1>4, <1>6, <1>7 DEF MInv, Mirror

LEMMA RunMoves ==
  ASSUME NEW r \in RunRows
  PROVE  /\ End(r) \in RunRows /\ End(r).at = "end"
         /\ \A todo \in SUBSET Folders :
              /\ [r EXCEPT !.todo = todo] \in RunRows /\ [r EXCEPT !.todo = todo].at = r.at
              /\ [r EXCEPT !.at = "walk", !.todo = todo] \in RunRows
              /\ [r EXCEPT !.at = "walk", !.todo = todo].at = "walk"
  BY DEF End, RunRows

LEMMA LeaveRow == ASSUME run \in RunRows PROVE Leave \in RunRows /\ Leave.at = "walk"
  BY DEF Leave, RunRows, Empty, Pages

LEMMA TakeStep == ASSUME MInv, Take PROVE MInv'
  <1>1. run \in RunRows /\ run.at = "idle" BY DEF Take, MInv, MShape
  <1>2. run' \in RunRows /\ run'.at # "apply"
    <2>1. CASE UNCHANGED run BY <1>1, <2>1
    <2>2. CASE run' = [Idle EXCEPT !.at = IF grant = "OK" THEN "scopes" ELSE "end",
                                   !.first = ~synced]
      BY <2>2, IdleRow DEF RunRows
    <2> QED BY <2>1, <2>2 DEF Take
  <1> QED BY <1>2, NoPage DEF Take, wakeFrame, account, mailAux, MInv, MShape

\* Steps that end the run, or walk on.
LEMMA PagelessStep ==
  ASSUME MInv, Scopes \/ MarkSynced \/ Finish \/ SyncKill
  PROVE  MInv'
  <1>1. run \in RunRows BY DEF MInv, MShape
  <1>2. run' \in RunRows /\ run'.at # "apply"
    <2>1. CASE Scopes
      <3>1. \/ run' = [run EXCEPT !.at = "walk", !.todo = Folders]
            \/ run' = End(run)
        BY <2>1 DEF Scopes, CallFails
      <3>2. CASE run' = End(run) BY <1>1, <3>2, RunMoves
      <3>3. CASE run' = [run EXCEPT !.at = "walk", !.todo = Folders]
        BY <1>1, <3>3 DEF RunRows
      <3> QED BY <3>1, <3>2, <3>3
    <2>2. CASE MarkSynced BY <1>1, <2>2, RunMoves DEF MarkSynced
    <2>3. CASE Finish BY <2>3, IdleRow DEF Finish
    <2>4. CASE SyncKill BY <2>4, IdleRow DEF SyncKill
    <2> QED BY <2>1, <2>2, <2>3, <2>4
  <1>3. /\ UNCHANGED <<upstream, mail, saved, raced, skipped, changes>> /\ synced' \in BOOLEAN
        /\ \/ UNCHANGED <<through, late>>
           \/ through' = [c \in Clients |-> Untouched]
    BY DEF Scopes, MarkSynced, Finish, SyncKill, runFrame, wakeFrame, account, mailAux, MInv, MShape
  <1> QED BY <1>2, <1>3, NoPage

\* A page is fetched: what it leaves out was in the rows already.
LEMMA FetchesPage ==
  ASSUME MInv, NEW f \in Folders, NEW from \in Pages, NEW initial \in BOOLEAN,
         run' = Delta(f, from, initial),
         UNCHANGED <<upstream, mail, saved, account, through, late, raced, changes>>,
         IF initial THEN from = Empty /\ {m \in gone : Home[m] = f} \subseteq skipped'
         ELSE f \in walked /\ from = cursor[f],
         skipped \subseteq skipped'
  PROVE  MInv'
  <1>1. run \in RunRows BY DEF MInv, MShape
  <1>2. Now(f) \in Pages /\ \A m \in Msgs : (m \notin gone => Now(f)[m] # Tombstone)
    BY NowIs, Bounds, MailSyncAssumption DEF Now, MInv, MShape, Young, Pages
  <1>3. /\ run' \in RunRows /\ run'.at = "apply" /\ run'.in = {f} /\ run'.page = Now(f)
        /\ run'.changed = {m \in Msgs : Now(f)[m] \notin {0, Tombstone, from[m]}}
        /\ run'.removed = IF initial THEN {}
                          ELSE {m \in Msgs : Now(f)[m] = Tombstone /\ from[m] # Tombstone}
    BY <1>1, <1>2 DEF Delta, Quiet, RunRows
  <1>4. MShape' BY <1>3 DEF MInv, MShape, upstream, saved, account
  <1>5. Young' BY DEF MInv, Young, upstream
  <1>6. InOrder'
    <2>1. \A g \in Folders : Now(g)' = Now(g) BY NowSame
    <2>2. \A m \in Msgs : Now(f)[m] \in Nat BY <1>2 DEF Pages
    <2>3. cursor' = cursor BY DEF saved
    <2> QED BY <1>3, <2>1, <2>2, <2>3 DEF MInv, InOrder
  <1>7. Left' BY <1>3 DEF Left
  <1>8. ASSUME NEW m \in Msgs, NEW v \in Nat, Good(m, v) PROVE Good(m, v)'
    <2>1. BehindCursor(m, v)' BY <1>8 DEF Good, BehindCursor, upstream, saved
    <2>2. BehindPage(m, v)'
      <3> SUFFICES ASSUME Home[m] = f
                   PROVE  /\ (m \notin gone /\ m \notin run'.changed) => v >= Now(f)[m]
                          /\ (Now(f)[m] = Tombstone /\ m \notin skipped' /\ m \notin run'.removed)
                                => v = 0
        BY <1>3 DEF BehindPage, upstream
      <3>1. ASSUME m \notin gone, m \notin run'.changed PROVE v >= Now(f)[m]
        <4>1. Now(f)[m] = 0 \/ Now(f)[m] = from[m] BY <1>2, <1>3, <3>1
        <4>2. CASE initial BY <4>1, <4>2 DEF Empty
        <4>3. CASE ~initial BY <1>8, <3>1, <4>1, <4>3 DEF Good, BehindCursor
        <4> QED BY <4>2, <4>3
      <3>2. ASSUME Now(f)[m] = Tombstone, m \notin skipped', m \notin run'.removed PROVE v = 0
        <4>1. m \in gone BY <1>2, <3>2
        <4>2. ~initial BY <3>2, <4>1
        <4>3. cursor[f][m] = Tombstone BY <1>3, <3>2, <4>2
        <4> QED BY <1>8, <3>2, <4>2, <4>3 DEF Good, BehindCursor
      <3> QED BY <3>1, <3>2
    <2> QED BY <2>1, <2>2 DEF Good
  <1>9. Mirror' BY <1>8, MirrorKept DEF MInv
  <1>10. Rewrites' BY DEF MInv, Rewrites
  <1> QED BY <1>4, <1>5, <1>6, <1>7, <1>9, <1>10 DEF MInv

LEMMA FetchStep == ASSUME MInv, NEW f \in Folders, Fetch(f) PROVE MInv'
  <1>1. /\ UNCHANGED <<upstream, mail, saved, synced, through, late, raced, changes>>
        /\ run.at = "walk" /\ run \in RunRows
    BY DEF Fetch, runFrame, MInv, MShape
  <1>2. CASE f \in walked /\ run' = Delta(f, cursor[f], FALSE) /\ UNCHANGED <<grant, skipped>>
    BY <1>1, <1>2, FetchesPage DEF MInv, MShape, account
  <1>3. CASE /\ run' = Delta(f, Empty, TRUE) /\ UNCHANGED grant
             /\ skipped' = skipped \cup {m \in gone : Home[m] = f}
    <2>1. Empty \in Pages BY DEF Empty, Pages
    <2> QED BY <1>1, <1>3, <2>1, FetchesPage DEF account
  <1>4. CASE CallFails([run EXCEPT !.todo = @ \ {f}]) /\ UNCHANGED skipped
    <2>1. run' = End(run) \/ run' = [run EXCEPT !.todo = @ \ {f}] BY <1>4 DEF CallFails
    <2>2. run' \in RunRows /\ run'.at # "apply"
      <3>1. CASE run' = End(run) BY <1>1, <3>1, RunMoves
      <3>2. CASE run' = [run EXCEPT !.todo = @ \ {f}] BY <1>1, <3>2 DEF RunRows
      <3> QED BY <2>1, <3>1, <3>2
    <2> QED BY <1>1, <1>4, <2>2, NoPage DEF MInv, MShape
  <1> QED BY <1>2, <1>3, <1>4 DEF Fetch

\* The folder in hand is that of every message left in the page.
LEMMA AtHome ==
  ASSUME MInv, run.at = "apply", NEW m \in run.changed \cup run.removed, NEW f \in run.in
  PROVE  m \in Msgs /\ Home[m] = f /\ (m \in run.removed => m \in gone)
  <1>1. m \in Msgs /\ f \in Folders /\ run.page[m] \in Nat
    BY DEF MInv, MShape, RunRows, Pages
  <1>2. run.page[m] # 0 /\ (m \in run.removed => run.page[m] = Tombstone)
    BY Bounds DEF MInv, Left
  <1>3. run.page[m] <= Now(f)[m] BY <1>1 DEF MInv, InOrder
  <1>4. box[m] \in Nat /\ box[m] < Tombstone
    BY <1>1, Bounds, MailSyncAssumption DEF MInv, MShape, Young, Pages
  <1> QED BY <1>1, <1>2, <1>3, <1>4, NowIs, Bounds

\* The worker takes message m off the page after it has written its row: what was
\* good of another message is, the row is, and who had read it before is late.
LEMMA Applied ==
  ASSUME MInv, run.at = "apply", NEW m \in Msgs, NEW row \in MailRows,
         WorkerWrites(m, [mail EXCEPT ![m] = row]),
         run' \in RunRows, run'.at = "apply", run'.in = run.in, run'.page = run.page,
         run'.changed \subseteq run.changed, run'.removed \subseteq run.removed,
         run.changed \ {m} \subseteq run'.changed, run.removed \ {m} \subseteq run'.removed,
         m \notin gone => row.ver >= run.page[m],
         run.page[m] = Tombstone => row.ver = 0,
         \A f \in run.in : Home[m] = f,
         UNCHANGED <<upstream, saved, account, through, skipped, changes>>
  PROVE  MInv'
  <1>1. /\ mail' \in [Msgs -> MailRows] /\ mail'[m] = row
        /\ \A o \in Msgs \ {m} : mail'[o] = mail[o]
    BY DEF WorkerWrites, MInv, MShape
  <1>2. MShape' BY <1>1 DEF MInv, MShape, upstream, saved, account
  <1>3. Young' /\ Rewrites' BY DEF MInv, Young, Rewrites, upstream
  <1>4. InOrder'
    <2>1. \A g \in Folders : Now(g)' = Now(g) BY NowSame
    <2>2. run.in \subseteq Folders BY DEF MInv, MShape, RunRows
    <2>3. cursor' = cursor BY DEF saved
    <2> QED BY <2>1, <2>2, <2>3 DEF MInv, InOrder
  <1>5. Left' BY DEF MInv, Left
  <1>6. ASSUME NEW o \in Msgs \ {m}, NEW v, Good(o, v) PROVE Good(o, v)'
    <2>1. BehindCursor(o, v)' BY <1>6 DEF Good, BehindCursor, upstream, saved
    <2>2. BehindPage(o, v)' BY <1>6 DEF Good, BehindPage, upstream
    <2> QED BY <2>1, <2>2 DEF Good
  <1>7. ASSUME NEW v, v = row.ver PROVE Good(m, v)'
    <2>1. BehindPage(m, v)' BY <1>7 DEF BehindPage, upstream
    <2>2. BehindCursor(m, v)'
      <3> SUFFICES ASSUME NEW f \in walked, Home[m] = f
                   PROVE  /\ m \notin gone => v >= cursor[f][m]
                          /\ (cursor[f][m] = Tombstone /\ m \notin skipped) => v = 0
        BY DEF BehindCursor, upstream, saved
      <3>1. PICK g \in run.in : Home[m] = g BY DEF MInv, Left
      <3>2. f \in Folders /\ g = f BY <3>1 DEF MInv, MShape
      <3>3. cursor[f][m] <= run.page[m] /\ run.page[m] <= Now(f)[m]
        BY <3>1, <3>2 DEF MInv, InOrder
      <3>4. cursor[f][m] \in Nat /\ run.page[m] \in Nat /\ box[m] \in Nat /\ box[m] < Tombstone
            /\ row.ver \in Nat
        BY <3>2, Bounds, MailSyncAssumption DEF MInv, MShape, RunRows, Pages, Young, MailRows
      <3>5. run.page[m] <= Tombstone BY <3>3, <3>4, NowIs, Bounds
      <3>6. cursor[f][m] = Tombstone => run.page[m] = Tombstone BY <3>3, <3>4, <3>5, Bounds
      <3> QED BY <1>7, <3>3, <3>4, <3>6
    <2> QED BY <2>1, <2>2 DEF Good
  <1>8. RowsGood'
    <2> SUFFICES ASSUME NEW o \in Msgs \ raced' PROVE Good(o, mail[o].ver)'
      BY DEF RowsGood
    <2>1. PICK v : v = mail'[o].ver OBVIOUS
    <2>2. Good(o, v)'
      <3>1. CASE o = m BY <1>1, <1>7, <2>1, <3>1
      <3>2. CASE o # m
        <4>1. v = mail[o].ver /\ o \notin raced BY <1>1, <2>1, <3>2 DEF WorkerWrites
        <4>2. Good(o, v) BY <4>1 DEF MInv, Mirror, RowsGood
        <4> QED BY <1>6, <3>2, <4>2
      <3> QED BY <3>1, <3>2
    <2> QED BY <2>1, <2>2
  <1>9. HandsGood'
    <2> SUFFICES ASSUME NEW d \in Clients \ late', through'[d].ver > 0,
                        NEW o \in through'[d].m \ raced'
                 PROVE  Good(o, through[d].ver)'
      BY DEF HandsGood
    <2>1. d \notin late /\ m \notin through[d].m BY DEF WorkerWrites
    <2>2. o \in Msgs \ {m} /\ o \notin raced BY <2>1 DEF WorkerWrites, MInv, MShape, Hands
    <2>3. PICK v : v = through[d].ver OBVIOUS
    <2>4. Good(o, v) BY <2>1, <2>2, <2>3 DEF MInv, Mirror, HandsGood
    <2>5. Good(o, v)' BY <1>6, <2>2, <2>4
    <2> QED BY <2>3, <2>5
  <1> QED BY <1>2, <1>3, <1>4, <1>5, <1>8, <1>9 DEF MInv, Mirror

LEMMA LeaveStep ==
  ASSUME MInv, run' = Leave,
         UNCHANGED <<upstream, mail, saved, account, through, late, raced, skipped, changes>>
  PROVE  MInv'
  BY LeaveRow, NoPage DEF MInv, MShape, account

LEMMA StoreStep == ASSUME MInv, NEW m \in Msgs, Store(m) PROVE MInv'
  <1>1. /\ run.at = "apply" /\ m \in run.changed /\ run \in RunRows
        /\ UNCHANGED <<upstream, saved, account, through, skipped, changes>>
    BY DEF Store, runFrame, MInv, MShape
  <1>2. CASE run' = Leave /\ UNCHANGED <<mail, late, raced>> BY <1>1, <1>2, LeaveStep
  <1>3. CASE /\ WorkerWrites(m, UpsertEmail(m, run.page[m]))
             /\ run' = [run EXCEPT !.changed = @ \ {m},
                                   !.new = IF run.quiet \/ Held(m) THEN {} ELSE {m}]
    <2> DEFINE v == [mail[m] EXCEPT !.ver = run.page[m]]
    <2>1. run.page[m] \in Nat BY <1>1 DEF RunRows, Pages
    <2>2. v \in MailRows /\ v.ver = run.page[m] BY <2>1 DEF MInv, MShape, MailRows
    <2>3. UpsertEmail(m, run.page[m]) = [mail EXCEPT ![m] = v] BY DEF UpsertEmail, MInv, MShape
    <2>4. /\ run' \in RunRows /\ run'.at = "apply" /\ run'.in = run.in /\ run'.page = run.page
          /\ run'.changed = run.changed \ {m} /\ run'.removed = run.removed
      BY <1>1, <1>3 DEF RunRows
    <2>5. run.page[m] # Tombstone /\ \A f \in run.in : Home[m] = f
      BY <1>1, AtHome DEF MInv, Left
    <2> HIDE DEF v
    <2>6. v.ver >= run.page[m] BY <2>1, <2>2
    <2>7. /\ run'.changed \subseteq run.changed /\ run'.removed \subseteq run.removed
          /\ run.changed \ {m} \subseteq run'.changed /\ run.removed \ {m} \subseteq run'.removed
      BY <2>4
    <2>8. WorkerWrites(m, [mail EXCEPT ![m] = v]) BY <1>3, <2>3
    <2> QED BY <1>1, <2>2, <2>4, <2>5, <2>6, <2>7, <2>8, Applied
  <1> QED BY <1>2, <1>3 DEF Store

LEMMA RemoveStep == ASSUME MInv, NEW m \in Msgs, Remove(m) PROVE MInv'
  <1>1. /\ run.at = "apply" /\ m \in run.removed /\ run \in RunRows /\ run.changed = {}
        /\ UNCHANGED <<upstream, saved, account, through, skipped, changes>>
    BY DEF Remove, runFrame, MInv, MShape
  <1>2. CASE run' = Leave /\ UNCHANGED <<mail, late, raced>> BY <1>1, <1>2, LeaveStep
  <1>3. CASE WorkerWrites(m, [mail EXCEPT ![m] = NoRow]) /\ run' = [run EXCEPT !.removed = @ \ {m}]
    <2>1. NoRow \in MailRows /\ NoRow.ver = 0 BY DEF NoRow, MailRows
    <2>2. /\ run' \in RunRows /\ run'.at = "apply" /\ run'.in = run.in /\ run'.page = run.page
          /\ run'.changed = run.changed /\ run'.removed = run.removed \ {m}
      BY <1>1, <1>3 DEF RunRows
    <2>3. m \in gone /\ \A f \in run.in : Home[m] = f BY <1>1, AtHome DEF MInv, Left
    <2> QED BY <1>1, <1>3, <2>1, <2>2, <2>3, Applied
  <1> QED BY <1>2, <1>3 DEF Remove

LEMMA AnnounceStep == ASSUME MInv, NEW m \in Msgs, Announce(m) PROVE MInv'
  <1>1. UNCHANGED <<upstream, mail, account, saved, mailAux, through, changes>>
        /\ run \in RunRows /\ run' = [run EXCEPT !.new = {}]
    BY DEF Announce, runFrame, MInv, MShape
  <1>2. /\ run' \in RunRows /\ run'.at = run.at /\ run'.in = run.in /\ run'.page = run.page
        /\ run'.changed = run.changed /\ run'.removed = run.removed
    BY <1>1 DEF RunRows
  <1>3. MShape' BY <1>1, <1>2 DEF MInv, MShape, upstream, saved, account
  <1>4. InOrder'
    <2>1. \A g \in Folders : Now(g)' = Now(g) BY <1>1, NowSame
    <2>2. run.in \subseteq Folders BY <1>1 DEF RunRows
    <2>3. cursor' = cursor BY <1>1 DEF saved
    <2> QED BY <1>2, <2>1, <2>2, <2>3 DEF MInv, InOrder
  <1>5. Young' /\ Left' /\ Rewrites' BY <1>1, <1>2 DEF MInv, Young, Left, Rewrites, upstream
  <1>6. ASSUME NEW o \in Msgs, NEW v \in Nat, Good(o, v) PROVE Good(o, v)'
    BY <1>1, <1>2, <1>6 DEF Good, BehindCursor, BehindPage, upstream, saved, mailAux
  <1>7. Mirror' BY <1>1, <1>6, MirrorKept DEF MInv, mailAux
  <1> QED BY <1>3, <1>4, <1>5, <1>7 DEF MInv

\* The page is stored: the cursor may say so.
LEMMA SetCursorStep == ASSUME MInv, NEW f \in Folders, SetCursor(f) PROVE MInv'
  <1>1. /\ run.at = "apply" /\ run.changed = {} /\ run.removed = {} /\ f \in run.in
        /\ run' = Leave /\ UNCHANGED <<upstream, mail, account, through, mailAux, changes>>
    BY DEF SetCursor, PageStored, runFrame
  <1>2. CASE UNCHANGED saved BY <1>1, <1>2, LeaveStep DEF mailAux
  <1>3. CASE cursor' = [cursor EXCEPT ![f] = run.page] /\ walked' = walked \cup {f}
    <2>1. run' \in RunRows /\ run'.at # "apply" BY <1>1, LeaveRow DEF MInv, MShape
    <2>2. run.page \in Pages BY DEF MInv, MShape, RunRows
    <2>3. cursor' \in [Folders -> Pages] BY <1>3, <2>2 DEF MInv, MShape
    <2>4. \A g \in Folders : cursor'[g] = IF g = f THEN run.page ELSE cursor[g]
      BY <1>3 DEF MInv, MShape
    <2>5. MShape' BY <1>1, <1>3, <2>1, <2>3 DEF MInv, MShape, upstream, account
    <2>6. InOrder'
      <3>1. \A g \in Folders : Now(g)' = Now(g) BY <1>1, NowSame
      <3>2. \A m \in Msgs : run.page[m] <= Now(f)[m] BY <1>1 DEF MInv, InOrder
      <3> QED BY <2>1, <2>4, <3>1, <3>2 DEF MInv, InOrder
    <2>7. Young' /\ Left' /\ Rewrites'
      BY <1>1, <2>1 DEF MInv, Young, Left, Rewrites, upstream
    <2>8. ASSUME NEW m \in Msgs, NEW v \in Nat, Good(m, v) PROVE Good(m, v)'
      <3>1. BehindPage(m, v)' BY <2>1 DEF BehindPage
      <3>2. BehindCursor(m, v)'
        <4> SUFFICES ASSUME NEW g \in walked \cup {f}, Home[m] = g
                     PROVE  /\ m \notin gone => v >= cursor'[g][m]
                            /\ (cursor'[g][m] = Tombstone /\ m \notin skipped) => v = 0
          BY <1>1, <1>3 DEF BehindCursor, upstream, mailAux
        <4>1. CASE g = f BY <1>1, <2>4, <2>8, <4>1 DEF Good, BehindPage
        <4>2. CASE g # f
          <5>1. g \in walked /\ g \in Folders BY <4>2 DEF MInv, MShape
          <5> QED BY <2>4, <2>8, <4>2, <5>1 DEF Good, BehindCursor
        <4> QED BY <4>1, <4>2
      <3> QED BY <3>1, <3>2 DEF Good
    <2>9. Mirror' BY <1>1, <2>8, MirrorKept DEF MInv, mailAux
    <2> QED BY <2>5, <2>6, <2>7, <2>9 DEF MInv
  <1> QED BY <1>2, <1>3 DEF SetCursor

\* Nothing this proof speaks of changes.
LEMMA NothingMoves ==
  ASSUME MInv, UNCHANGED <<upstream, mail, saved, through, mailAux, changes, run, synced>>
  PROVE  MInv'
  <1>1. \A m, v : Good(m, v) => Good(m, v)' BY GoodKept DEF upstream, mailAux
  <1>2. Mirror' BY <1>1, MirrorKept DEF MInv, mailAux
  <1>3. mail' \in [Msgs -> MailRows] /\ through' \in [Clients -> Hands] /\ Rewrites'
    BY DEF MInv, MShape, Rewrites
  <1> QED BY <1>2, <1>3, BoxStays DEF mailAux

\* Wakes and reconnects are such steps.
LEMMA WakeStep == ASSUME MInv, Wake \/ WakeSend \/ OtherWake \/ Reconnect PROVE MInv'
  BY NothingMoves DEF Wake, WakeSend, OtherWake, Reconnect, wakeFrame, account

LEMMA MInvStep == ASSUME MInv, [SyncNext]_syncVars PROVE MInv'
  <1>1. CASE UNCHANGED syncVars BY <1>1, NothingMoves DEF syncVars, account
  <1>2. CASE Walk
    BY <1>2, TakeStep, PagelessStep, FetchStep, SetCursorStep, StoreStep, AnnounceStep, RemoveStep
       DEF Walk
  <1>3. CASE \E c \in Clients : ClientStep(c)
    BY <1>3, ClientReads, GetMessageStep, CacheEmailStep DEF ClientStep
  <1> QED BY <1>1, <1>2, <1>3, PagelessStep, UpstreamStep, EvictStep, WakeStep DEF SyncNext

\* syncScope saves the cursor of a folder last, when the page is stored: whatever a
\* saved cursor says was seen, or has left, the rows say too; so does whatever a GET or
\* a PATCH has read or fetched and may still write, unless the worker has written
\* that row since (handleGetEmail, complete, handlePatchEmail take no lock).
THEOREM CursorBehindRows == SyncSpec => [](CursorNeverAhead /\ HandsBehindCursor)
  <1>1. SyncInit => MInv BY MInvInit
  <1>2. MInv /\ [SyncNext]_syncVars => MInv' BY MInvStep
  <1>3. MInv => CursorNeverAhead /\ HandsBehindCursor
    <2> SUFFICES ASSUME MInv PROVE CursorNeverAhead /\ HandsBehindCursor OBVIOUS
    <2>1. CursorNeverAhead
      <3> SUFFICES ASSUME NEW f \in walked, NEW m \in Msgs \ raced, Home[m] = f
                   PROVE  /\ m \notin gone => mail[m].ver >= cursor[f][m]
                          /\ (cursor[f][m] = Tombstone /\ m \notin skipped) => ~Held(m)
        BY DEF CursorNeverAhead
      <3>1. BehindCursor(m, mail[m].ver) BY DEF MInv, Mirror, RowsGood, Good
      <3> QED BY <3>1 DEF BehindCursor, Held
    <2>2. HandsBehindCursor BY DEF MInv, Mirror, HandsGood, HandsBehindCursor, Good
    <2> QED BY <2>1, <2>2
  <1> QED BY <1>1, <1>2, <1>3, PTL DEF SyncSpec

-----------------------------------------------------------------------------
(* News.                                                                    *)

\* The row of m is there, or m has left and no page in hand still shows it.
Known(m) == Held(m) \/ (m \in gone /\ (run.at = "apply" => m \notin run.changed))

\* What was announced, what a cursor has seen, and what has been taken off the
\* page is known, so EmailExists finds it whenever it comes up again.
KnownOnce ==
    \A m \in Msgs :
        /\ news[m] >= 1 => Known(m)
        /\ \A f \in walked : (Home[m] = f /\ cursor[f][m] # 0) => Known(m)
        /\ run.at = "apply" =>
             \A f \in run.in : (Home[m] = f /\ run.page[m] # 0 /\ m \notin run.changed) => Known(m)

\* A message about to be announced is stored, and was never announced.
NewIsNew == \A m \in run.new : m \notin Backlog /\ news[m] = 0 /\ Held(m)

\* The first walk of a folder sees all of its backlog, and is quiet.
BacklogSeen ==
    /\ \A m \in Backlog :
         /\ box[m] > 0
         /\ \A f \in walked : Home[m] = f => cursor[f][m] # 0
         /\ run.at = "apply" => \A f \in run.in : Home[m] = f => run.page[m] # 0
    /\ (run.at = "apply" /\ ~run.quiet) => run.in \subseteq walked

NInv ==
    /\ news \in [Msgs -> Nat] /\ NewsOnce
    /\ KnownOnce /\ NewIsNew /\ BacklogSeen

\* Steps that announce nothing and drop no row, with the page they found or none.
LEMMA NoNews ==
  ASSUME MInv, MInv', NInv, UNCHANGED <<news, saved>>,
         run' = run \/ (run'.at # "apply" /\ run'.new \subseteq run.new),
         gone \subseteq gone', \A m \in Msgs : box[m] <= box'[m],
         \A m \in Msgs : Held(m) => Held(m)'
  PROVE  NInv'
  <1>1. \A m \in Msgs : Known(m) => Known(m)' BY DEF Known
  <1>2. news' = news /\ cursor' = cursor /\ walked' = walked BY DEF saved
  <1>3. news' \in [Msgs -> Nat] /\ NewsOnce' BY <1>2 DEF NInv, NewsOnce
  <1>4. KnownOnce' BY <1>1, <1>2 DEF NInv, KnownOnce
  <1>5. NewIsNew'
    <2>1. run.new \subseteq Msgs BY DEF MInv, MShape, RunRows
    <2> QED BY <1>2, <2>1 DEF NInv, NewIsNew
  <1>6. BacklogSeen'
    <2>1. \A m \in Backlog : box'[m] > 0
      <3>1. \A m \in Msgs : box[m] \in Nat /\ box'[m] \in Nat BY DEF MInv, MShape, Pages
      <3> QED BY <3>1, MailSyncAssumption DEF NInv, BacklogSeen
    <2> QED BY <1>2, <2>1 DEF NInv, BacklogSeen
  <1> QED BY <1>3, <1>4, <1>5, <1>6 DEF NInv

LEMMA NewsBeside ==
  ASSUME MInv, MInv', NInv,
         \/ \E m \in Msgs : Arrive(m) \/ Touch(m) \/ Discard(m) \/ SendEmail(m) \/ EvictMail(m)
         \/ \E c \in Clients : ClientStep(c)
         \/ Wake \/ WakeSend \/ OtherWake \/ Reconnect
  PROVE  NInv'
  <1>1. UNCHANGED <<news, saved, run>> /\ gone \subseteq gone'
    BY DEF ClientStep, PatchEmail, GetEmail, GetMiss, GetMessage, CacheEmail, clientFrame,
           Arrive, Touch, Discard, SendEmail, EvictMail, Wake, WakeSend, OtherWake, Reconnect,
           wakeFrame, upstream
  <1>2. \A m \in Msgs : box[m] <= box'[m]
    <2>1. \/ box' = box
          \/ \E o \in Msgs : box' = [box EXCEPT ![o] = @ + 1]
          \/ \E o \in Msgs : box[o] = 0 /\ box' = [box EXCEPT ![o] = 1]
      BY DEF Change, ClientStep, PatchEmail, GetEmail, GetMiss, GetMessage, CacheEmail, clientFrame,
             Arrive, Touch, Discard, SendEmail, EvictMail, Wake, WakeSend, OtherWake, Reconnect,
             wakeFrame, upstream
    <2> QED BY <2>1 DEF MInv, MShape, Pages
  <1>3. \A m \in Msgs : Held(m) => Held(m)'
    <2>1. \/ mail' = mail
          \/ \E o \in Msgs : mail' = [mail EXCEPT ![o].evicted = TRUE]
          \/ \E c \in Clients : \E o : /\ through[c].ver > 0
                                      /\ mail' = [mail EXCEPT ![o].ver = through[c].ver]
      BY DEF ClientStep, PatchEmail, GetEmail, GetMiss, GetMessage, CacheEmail, clientFrame,
             Arrive, Touch, Discard, SendEmail, EvictMail, Wake, WakeSend, OtherWake, Reconnect,
             wakeFrame, UpsertEmail, MInv, Rewrites
    <2> QED BY <2>1 DEF Held, MInv, MShape, MailRows
  <1> QED BY <1>1, <1>2, <1>3, NoNews

\* The worker between pages, or giving one up.
LEMMA NewsNoPage ==
  ASSUME MInv, MInv', NInv, UNCHANGED <<upstream, mail, saved, news>>,
         run'.at # "apply", run'.new \subseteq run.new
  PROVE  NInv'
  <1>1. \A m \in Msgs : box[m] <= box'[m] BY DEF upstream, MInv, MShape, Pages
  <1> QED BY <1>1, NoNews DEF upstream, Held

LEMMA NewsPageless ==
  ASSUME MInv, MInv', NInv, Take \/ Scopes \/ MarkSynced \/ Finish \/ SyncKill
  PROVE  NInv'
  <1>1. run \in RunRows BY DEF MInv, MShape
  <1>2. UNCHANGED <<upstream, mail, saved, news>>
    BY DEF Take, Scopes, MarkSynced, Finish, SyncKill, runFrame, wakeFrame
  <1>3. run'.at # "apply" /\ run'.new \subseteq run.new
    <2>1. CASE Take
      <3>1. run.at = "idle" BY <2>1 DEF Take
      <3>2. \/ run' = run
            \/ run' = [Idle EXCEPT !.at = IF grant = "OK" THEN "scopes" ELSE "end",
                                   !.first = ~synced]
        BY <2>1 DEF Take
      <3> QED BY <3>1, <3>2 DEF Idle
    <2>2. CASE Scopes
      <3>1. \/ run' = [run EXCEPT !.at = "walk", !.todo = Folders]
            \/ run' = End(run)
        BY <2>2 DEF Scopes, CallFails
      <3> QED BY <1>1, <3>1 DEF End, RunRows
    <2>3. CASE MarkSynced BY <1>1, <2>3 DEF MarkSynced, End, RunRows
    <2>4. CASE Finish BY <2>4 DEF Finish, Idle
    <2>5. CASE SyncKill BY <2>5 DEF SyncKill, Idle
    <2> QED BY <2>1, <2>2, <2>3, <2>4, <2>5
  <1> QED BY <1>2, <1>3, NewsNoPage

LEMMA NewsLeaves ==
  ASSUME MInv, MInv', NInv, run' = Leave, UNCHANGED <<upstream, mail, saved, news>>
  PROVE  NInv'
  <1>1. Leave.at = "walk" /\ Leave.new = {} BY DEF Leave, MInv, MShape, RunRows
  <1> QED BY <1>1, NewsNoPage

\* What a page shows as it is, and not as changed, the cursor has seen.
LEMMA NewsFetched ==
  ASSUME MInv, MInv', NInv, NEW f \in Folders, NEW from \in Pages, NEW initial \in BOOLEAN,
         run' = Delta(f, from, initial), run.at = "walk",
         UNCHANGED <<upstream, mail, saved, news>>,
         IF initial THEN from = Empty ELSE f \in walked /\ from = cursor[f]
  PROVE  NInv'
  <1>1. run \in RunRows BY DEF MInv, MShape
  <1>2. /\ run'.at = "apply" /\ run'.in = {f} /\ run'.page = Now(f) /\ run'.new = run.new
        /\ run'.quiet = Quiet(initial)
        /\ run'.changed = {m \in Msgs : Now(f)[m] \notin {0, Tombstone, from[m]}}
    BY <1>1 DEF Delta, RunRows
  <1>3. cursor' = cursor /\ walked' = walked /\ box' = box /\ gone' = gone /\ mail' = mail
        /\ news' = news
    BY DEF saved, upstream
  <1>4. \A m \in Msgs : m \in gone => m \notin run'.changed
    BY <1>2, NowIs DEF MInv
  <1>5. \A m \in Msgs : Known(m) => Known(m)' BY <1>3, <1>4 DEF Known, Held
  <1>6. KnownOnce'
    <2> SUFFICES ASSUME NEW m \in Msgs
                 PROVE  /\ news[m] >= 1 => Known(m)'
                        /\ \A g \in walked : (Home[m] = g /\ cursor[g][m] # 0) => Known(m)'
                        /\ (Home[m] = f /\ Now(f)[m] # 0 /\ m \notin run'.changed) => Known(m)'
      BY <1>2, <1>3 DEF KnownOnce
    <2>1. /\ news[m] >= 1 => Known(m)'
          /\ \A g \in walked : (Home[m] = g /\ cursor[g][m] # 0) => Known(m)'
      BY <1>5 DEF NInv, KnownOnce
    <2>2. ASSUME Home[m] = f, Now(f)[m] # 0, m \notin run'.changed PROVE Known(m)'
      <3>1. Now(f)[m] = Tombstone \/ Now(f)[m] = from[m] BY <1>2, <2>2
      <3>2. CASE m \in gone BY <1>3, <1>4, <3>2 DEF Known
      <3>3. CASE m \notin gone
        <4>1. Now(f)[m] = box[m] /\ box[m] # Tombstone
          BY <2>2, <3>3, NowIs, Bounds, MailSyncAssumption DEF MInv, MShape, Young, Pages
        <4>2. from[m] # 0 BY <2>2, <3>1, <4>1
        <4>3. f \in walked /\ cursor[f][m] # 0 BY <4>2 DEF Empty
        <4> QED BY <2>1, <2>2, <4>3
      <3> QED BY <3>2, <3>3
    <2> QED BY <2>1, <2>2
  <1>7. NewIsNew' BY <1>2, <1>3 DEF NInv, NewIsNew, Held
  <1>8. BacklogSeen'
    <2>1. \A m \in Backlog : Home[m] = f => Now(f)[m] # 0
      BY NowIs, Bounds, MailSyncAssumption DEF NInv, BacklogSeen
    <2>2. ~run'.quiet => f \in walked BY <1>2 DEF Quiet
    <2> QED BY <1>2, <1>3, <2>1, <2>2 DEF NInv, BacklogSeen
  <1> QED BY <1>3, <1>6, <1>7, <1>8 DEF NInv, NewsOnce

LEMMA NewsFetch == ASSUME MInv, MInv', NInv, NEW f \in Folders, Fetch(f) PROVE NInv'
  <1>1. /\ UNCHANGED <<upstream, mail, saved, news>>
        /\ run.at = "walk" /\ run \in RunRows
    BY DEF Fetch, runFrame, MInv, MShape
  <1>2. CASE f \in walked /\ run' = Delta(f, cursor[f], FALSE)
    BY <1>1, <1>2, NewsFetched DEF MInv, MShape
  <1>3. CASE run' = Delta(f, Empty, TRUE)
    <2>1. Empty \in Pages BY DEF Empty, Pages
    <2> QED BY <1>1, <1>3, <2>1, NewsFetched
  <1>4. CASE CallFails([run EXCEPT !.todo = @ \ {f}])
    <2>1. run' = End(run) \/ run' = [run EXCEPT !.todo = @ \ {f}] BY <1>4 DEF CallFails
    <2>2. run'.at # "apply" /\ run'.new \subseteq run.new BY <1>1, <2>1 DEF End, RunRows
    <2> QED BY <1>1, <2>2, NewsNoPage
  <1> QED BY <1>2, <1>3, <1>4 DEF Fetch

\* EmailExists is asked before the row is written: news it has never been.
LEMMA NewsStore == ASSUME MInv, MInv', NInv, NEW m \in Msgs, Store(m) PROVE NInv'
  <1>1. /\ run.at = "apply" /\ m \in run.changed /\ run \in RunRows
        /\ UNCHANGED <<upstream, saved, news>>
    BY DEF Store, runFrame, MInv, MShape
  <1>2. CASE run' = Leave /\ UNCHANGED mail BY <1>1, <1>2, NewsLeaves
  <1>3. CASE /\ WorkerWrites(m, UpsertEmail(m, run.page[m]))
             /\ run' = [run EXCEPT !.changed = @ \ {m},
                                   !.new = IF run.quiet \/ Held(m) THEN {} ELSE {m}]
    <2>1. /\ run'.at = "apply" /\ run'.in = run.in /\ run'.page = run.page
          /\ run'.quiet = run.quiet /\ run'.changed = run.changed \ {m}
          /\ run'.new = IF run.quiet \/ Held(m) THEN {} ELSE {m}
      BY <1>1, <1>3 DEF RunRows
    <2>2. run.page[m] \in Nat /\ run.page[m] # 0
      BY <1>1 DEF MInv, Left, RunRows, Pages
    <2>3. /\ Held(m)'
          /\ \A o \in Msgs : Held(o) => Held(o)'
      BY <1>3, <2>2 DEF WorkerWrites, Held, UpsertEmail, MInv, MShape, MailRows
    <2>4. cursor' = cursor /\ walked' = walked /\ box' = box /\ gone' = gone /\ news' = news
      BY <1>1 DEF saved, upstream
    <2>5. ASSUME NEW o \in Msgs, Known(o) PROVE Known(o)'
      <3>1. CASE Held(o) BY <2>3, <3>1 DEF Known
      <3>2. CASE o \in gone /\ o \notin run.changed BY <2>1, <2>4, <3>2 DEF Known
      <3> QED BY <1>1, <2>5, <3>1, <3>2 DEF Known
    <2>6. KnownOnce'
      <3> SUFFICES ASSUME NEW o \in Msgs
                   PROVE  /\ news[o] >= 1 => Known(o)'
                          /\ \A g \in walked : (Home[o] = g /\ cursor[g][o] # 0) => Known(o)'
                          /\ \A g \in run.in : (Home[o] = g /\ run.page[o] # 0
                                                /\ o \notin run.changed \ {m}) => Known(o)'
        BY <2>1, <2>4 DEF KnownOnce
      <3>1. CASE o = m BY <2>3, <3>1 DEF Known
      <3>2. CASE o # m BY <1>1, <2>5, <3>2 DEF NInv, KnownOnce
      <3> QED BY <3>1, <3>2
    <2>7. NewIsNew'
      <3> SUFFICES ASSUME ~run.quiet, ~Held(m) PROVE m \notin Backlog /\ news[m] = 0
        BY <2>1, <2>3, <2>4 DEF NewIsNew
      <3>1. ~Known(m) BY <1>1 DEF Known
      <3>2. news[m] = 0 BY <3>1 DEF NInv, KnownOnce
      <3>3. m \notin Backlog
        <4>1. PICK f \in run.in : Home[m] = f /\ f \in walked
          <5>1. run.in # {} /\ run.in \subseteq walked BY <1>1 DEF MInv, Left, NInv, BacklogSeen
          <5>2. \A f \in run.in : Home[m] = f BY <1>1, AtHome
          <5> QED BY <5>1, <5>2
        <4>2. cursor[f][m] = 0 BY <3>1, <4>1 DEF NInv, KnownOnce
        <4> QED BY <4>1, <4>2 DEF NInv, BacklogSeen
      <3> QED BY <3>2, <3>3
    <2>8. BacklogSeen' BY <1>1, <2>1, <2>4 DEF NInv, BacklogSeen
    <2> QED BY <1>1, <2>4, <2>6, <2>7, <2>8 DEF NInv, NewsOnce
  <1> QED BY <1>2, <1>3 DEF Store

LEMMA NewsAnnounce == ASSUME MInv, MInv', NInv, NEW m \in Msgs, Announce(m) PROVE NInv'
  <1>1. /\ m \in run.new /\ run \in RunRows
        /\ run' = [run EXCEPT !.new = {}] /\ news' = [news EXCEPT ![m] = @ + 1]
        /\ UNCHANGED <<upstream, mail, saved>>
    BY DEF Announce, runFrame, MInv, MShape
  <1>2. /\ run'.at = run.at /\ run'.in = run.in /\ run'.page = run.page
        /\ run'.quiet = run.quiet /\ run'.changed = run.changed /\ run'.new = {}
    BY <1>1 DEF RunRows
  <1>3. m \notin Backlog /\ news[m] = 0 /\ Held(m) BY <1>1 DEF NInv, NewIsNew
  <1>4. /\ news' \in [Msgs -> Nat] /\ news'[m] = 1
        /\ \A o \in Msgs : o # m => news'[o] = news[o]
    BY <1>1, <1>3 DEF NInv
  <1>5. cursor' = cursor /\ walked' = walked /\ box' = box /\ gone' = gone /\ mail' = mail
    BY <1>1 DEF saved, upstream
  <1>6. \A o \in Msgs : Known(o)' <=> Known(o) BY <1>2, <1>5 DEF Known, Held
  <1>7. NewsOnce'
    <2> SUFFICES ASSUME NEW o \in Msgs PROVE news'[o] <= IF o \in Backlog THEN 0 ELSE 1
      BY DEF NewsOnce
    <2>1. CASE o = m BY <1>3, <1>4, <2>1
    <2>2. CASE o # m BY <1>4, <2>2 DEF NInv, NewsOnce
    <2> QED BY <2>1, <2>2
  <1>8. KnownOnce'
    <2>1. Known(m) BY <1>3 DEF Known
    <2>2. \A o \in Msgs : news'[o] >= 1 => Known(o)' BY <1>4, <1>6, <2>1 DEF NInv, KnownOnce
    <2> QED BY <1>2, <1>5, <1>6, <2>2 DEF NInv, KnownOnce
  <1>9. NewIsNew' /\ BacklogSeen'
    BY <1>1, <1>2, <1>5 DEF NInv, NewIsNew, BacklogSeen
  <1> QED BY <1>4, <1>7, <1>8, <1>9 DEF NInv

\* A row is deleted when its message has left, and no page shows that again.
LEMMA NewsRemove == ASSUME MInv, MInv', NInv, NEW m \in Msgs, Remove(m) PROVE NInv'
  <1>1. /\ run.at = "apply" /\ m \in run.removed /\ run \in RunRows /\ run.changed = {}
        /\ run.new = {} /\ UNCHANGED <<upstream, saved, news>>
    BY DEF Remove, runFrame, MInv, MShape
  <1>2. CASE run' = Leave /\ UNCHANGED mail BY <1>1, <1>2, NewsLeaves
  <1>3. CASE WorkerWrites(m, [mail EXCEPT ![m] = NoRow]) /\ run' = [run EXCEPT !.removed = @ \ {m}]
    <2>1. /\ run'.at = "apply" /\ run'.in = run.in /\ run'.page = run.page
          /\ run'.quiet = run.quiet /\ run'.changed = {} /\ run'.new = {}
      BY <1>1, <1>3 DEF RunRows
    <2>2. m \in gone
      <3>1. PICK f \in run.in : TRUE BY <1>1 DEF MInv, Left
      <3> QED BY <1>1, <3>1, AtHome
    <2>3. cursor' = cursor /\ walked' = walked /\ box' = box /\ gone' = gone /\ news' = news
      BY <1>1 DEF saved, upstream
    <2>4. ASSUME NEW o \in Msgs, Known(o) PROVE Known(o)'
      <3>1. CASE o = m BY <2>1, <2>2, <2>3, <3>1 DEF Known
      <3>2. CASE o # m BY <1>3, <2>1, <2>3, <2>4, <3>2 DEF WorkerWrites, Known, Held, MInv, MShape
      <3> QED BY <3>1, <3>2
    <2>5. KnownOnce' BY <1>1, <2>1, <2>3, <2>4 DEF NInv, KnownOnce
    <2>6. NewIsNew' /\ BacklogSeen'
      BY <1>1, <2>1, <2>3 DEF NInv, NewIsNew, BacklogSeen
    <2> QED BY <2>3, <2>5, <2>6 DEF NInv, NewsOnce
  <1> QED BY <1>2, <1>3 DEF Remove

LEMMA NewsCursor == ASSUME MInv, MInv', NInv, NEW f \in Folders, SetCursor(f) PROVE NInv'
  <1>1. /\ run.at = "apply" /\ run.changed = {} /\ run.new = {} /\ f \in run.in /\ run \in RunRows
        /\ run' = Leave /\ UNCHANGED <<upstream, mail, news>>
    BY DEF SetCursor, PageStored, runFrame, MInv, MShape
  <1>2. CASE UNCHANGED saved BY <1>1, <1>2, NewsLeaves
  <1>3. CASE cursor' = [cursor EXCEPT ![f] = run.page] /\ walked' = walked \cup {f}
    <2>1. run'.at = "walk" /\ run'.new = {} BY <1>1 DEF Leave, RunRows
    <2>2. \A g \in Folders : cursor'[g] = IF g = f THEN run.page ELSE cursor[g]
      BY <1>3 DEF MInv, MShape
    <2>3. box' = box /\ gone' = gone /\ mail' = mail /\ news' = news BY <1>1 DEF upstream
    <2>4. \A m \in Msgs : Known(m) => Known(m)' BY <2>1, <2>3 DEF Known, Held
    <2>5. walked \subseteq Folders BY DEF MInv, MShape
    <2>6. KnownOnce'
      <3> SUFFICES ASSUME NEW m \in Msgs
                   PROVE  /\ news[m] >= 1 => Known(m)'
                          /\ \A g \in walked \cup {f} :
                               (Home[m] = g /\ cursor'[g][m] # 0) => Known(m)'
        BY <1>3, <2>1, <2>3 DEF KnownOnce
      <3>1. news[m] >= 1 => Known(m)' BY <2>4 DEF NInv, KnownOnce
      <3>2. ASSUME NEW g \in walked \cup {f}, Home[m] = g, cursor'[g][m] # 0 PROVE Known(m)
        <4>1. CASE g = f BY <1>1, <2>2, <3>2, <4>1 DEF NInv, KnownOnce
        <4>2. CASE g # f
          <5>1. g \in walked /\ g \in Folders BY <2>5, <4>2
          <5>2. cursor[g][m] # 0 BY <2>2, <3>2, <4>2, <5>1
          <5> QED BY <3>2, <5>1, <5>2 DEF NInv, KnownOnce
        <4> QED BY <4>1, <4>2
      <3> QED BY <2>4, <3>1, <3>2
    <2>7. BacklogSeen'
      <3> SUFFICES ASSUME NEW m \in Backlog, NEW g \in walked \cup {f}, Home[m] = g
                   PROVE  cursor'[g][m] # 0
        BY <1>3, <2>1, <2>3 DEF NInv, BacklogSeen
      <3>1. CASE g = f BY <1>1, <2>2, <3>1 DEF NInv, BacklogSeen
      <3>2. CASE g # f
        <4>1. g \in walked /\ g \in Folders BY <2>5, <3>2
        <4> QED BY <2>2, <3>2, <4>1 DEF NInv, BacklogSeen
      <3> QED BY <3>1, <3>2
    <2>8. NewIsNew' BY <1>1, <2>1 DEF NInv, NewIsNew
    <2> QED BY <2>3, <2>6, <2>7, <2>8 DEF NInv, NewsOnce
  <1> QED BY <1>2, <1>3 DEF SetCursor

LEMMA NInvInit == SyncInit => NInv
  BY IdleRow, MailSyncAssumption
     DEF SyncInit, NInv, NewsOnce, KnownOnce, NewIsNew, BacklogSeen, Idle

LEMMA NInvStep == ASSUME MInv, MInv', NInv, [SyncNext]_syncVars PROVE NInv'
  <1>1. CASE UNCHANGED syncVars
    <2>1. UNCHANGED <<upstream, mail, saved, news, run>> BY <1>1 DEF syncVars
    <2>2. \A m \in Msgs : box[m] <= box'[m] BY <2>1 DEF upstream, MInv, MShape, Pages
    <2> QED BY <2>1, <2>2, NoNews DEF upstream, Held
  <1>2. CASE Walk
    BY <1>2, NewsPageless, NewsFetch, NewsCursor, NewsStore, NewsAnnounce, NewsRemove DEF Walk
  <1> QED BY <1>1, <1>2, NewsPageless, NewsBeside DEF SyncNext

\* quiet and EmailExists: for any number of messages, folders, changes and
\* faults, whatever is walked again after an expired cursor, a failed scope or a
\* kill, the backlog is never announced and new mail at most once.
THEOREM MailAnnouncedOnce == SyncSpec => []NewsOnce
  <1>1. SyncInit => MInv /\ NInv BY MInvInit, NInvInit
  <1>2. MInv /\ NInv /\ [SyncNext]_syncVars => MInv' /\ NInv' BY MInvStep, NInvStep
  <1>3. NInv => NewsOnce BY DEF NInv
  <1> QED BY <1>1, <1>2, <1>3, PTL DEF SyncSpec

-----------------------------------------------------------------------------
(* Wakes.                                                                   *)
WInv == queue \in Seq({"me", "other"}) /\ WakeIsRemembered

LEMMA Appended ==
  ASSUME queue \in Seq({"me", "other"}), NEW a \in {"me", "other"}, queue' = Append(queue, a)
  PROVE  /\ queue' \in Seq({"me", "other"})
         /\ \E i \in 1 .. Len(queue') : queue'[i] = a
         /\ \A i \in 1 .. Len(queue) : i \in 1 .. Len(queue') /\ queue'[i] = queue[i]
  <1>1. Len(queue') = Len(queue) + 1 /\ queue'[Len(queue) + 1] = a OBVIOUS
  <1>2. Len(queue) + 1 \in 1 .. Len(queue') BY <1>1
  <1> QED BY <1>1, <1>2

LEMMA WInvStep == ASSUME WInv, [SyncNext]_syncVars PROVE WInv'
  <1> USE DEF WInv, WakeIsRemembered
  <1>1. CASE UNCHANGED wakes BY <1>1 DEF wakes
  <1>2. CASE Wake \/ Reconnect \/ \E m \in Msgs : SendEmail(m)
    BY <1>2 DEF Wake, Reconnect, SendEmail, AskFor
  <1>3. CASE WakeSend
    <2>1. CASE Len(queue) < QueueCap
      <3>1. queue' = Append(queue, "me") BY <1>3, <2>1 DEF WakeSend, Send
      <3> QED BY <3>1, Appended
    <2>2. CASE ~(Len(queue) < QueueCap) BY <1>3, <2>2 DEF WakeSend, Send
    <2> QED BY <2>1, <2>2
  <1>4. CASE OtherWake
    <2>1. queue' = Append(queue, "other") BY <1>4 DEF OtherWake, Send
    <2>2. UNCHANGED <<owed, waker, pending>> BY <1>4 DEF OtherWake
    <2> QED BY <2>1, <2>2, Appended
  <1>5. CASE Take
    <2>1. queue # <<>> /\ queue' = Tail(queue) BY <1>5 DEF Take
    <2>2. queue' \in Seq({"me", "other"}) BY <2>1
    <2>3. CASE Head(queue) = "other"
      <3>1. UNCHANGED <<owed, waker, pending>> BY <1>5, <2>3 DEF Take
      <3>2. ASSUME NEW i \in 1 .. Len(queue), queue[i] = "me"
            PROVE  \E j \in 1 .. Len(queue') : queue'[j] = "me"
        <4>1. i # 1 BY <2>1, <2>3, <3>2
        <4>2. i - 1 \in 1 .. Len(queue') /\ queue'[i - 1] = queue[i] BY <2>1, <4>1
        <4> QED BY <3>2, <4>2
      <3> QED BY <2>2, <3>1, <3>2
    <2>4. CASE Head(queue) # "other" BY <1>5, <2>2, <2>4 DEF Take
    <2> QED BY <2>3, <2>4
  <1>6. CASE Finish
    <2>1. owed' = (owed /\ (pending => Len(queue) < QueueCap)) /\ FollowUp /\ UNCHANGED waker
      BY <1>6 DEF Finish
    <2>2. CASE pending /\ Len(queue) < QueueCap
      <3>1. queue' = Append(queue, "me") BY <2>1, <2>2 DEF FollowUp, Send
      <3> QED BY <3>1, Appended
    <2>3. CASE pending /\ ~(Len(queue) < QueueCap) BY <2>1, <2>3 DEF FollowUp, Send
    <2>4. CASE ~pending BY <2>1, <2>4 DEF FollowUp
    <2> QED BY <2>2, <2>3, <2>4
  <1>7. CASE SyncKill BY <1>7 DEF SyncKill
  <1>8. CASE \/ Scopes \/ MarkSynced
             \/ \E f \in Folders : Fetch(f) \/ SetCursor(f)
             \/ \E m \in Msgs : Store(m) \/ Announce(m) \/ Remove(m) \/ Arrive(m) \/ Touch(m)
                                \/ Discard(m) \/ EvictMail(m)
             \/ \E c \in Clients : ClientStep(c)
    <2>1. UNCHANGED wakes
      BY <1>8 DEF Scopes, MarkSynced, Fetch, SetCursor, Store, Announce, Remove, Arrive, Touch,
                  Discard, EvictMail, ClientStep, PatchEmail, GetEmail, GetMiss, GetMessage,
                  CacheEmail, clientFrame, runFrame, wakes
    <2> QED BY <1>1, <2>1
  <1> QED BY <1>1, <1>2, <1>3, <1>4, <1>5, <1>6, <1>7, <1>8 DEF SyncNext, Walk, syncVars

\* Wake, runOnce: for any queue and any faults, a request for a sync is waiting
\* somewhere until a run starts after it, or the full channel has dropped it.
THEOREM WakeRemembered == SyncSpec => []WakeIsRemembered
  <1>1. SyncInit => WInv BY DEF SyncInit, WInv, WakeIsRemembered
  <1>2. WInv => WakeIsRemembered BY DEF WInv
  <1> QED BY <1>1, <1>2, WInvStep, PTL DEF SyncSpec
-----------------------------------------------------------------------------
(* Types.                                                                   *)

\* The wake channel and the flags of runOnce.
WakeTypes ==
    /\ queue \in Seq({"me", "other"}) /\ Len(queue) <= QueueCap
    /\ pending \in BOOLEAN /\ waker \in {"idle", "checked"} /\ grant \in {"OK", "CREDENTIALS"}

\* Nothing is remembered that the provider never said.
VersionTypes ==
    /\ \A m \in Msgs : mail[m].ver \in Vers
    /\ \A f \in Folders : cursor[f] \in Snapshots
    /\ \A c \in Clients : through[c].ver \in Vers

\* A run works on one folder at most.
OnOnePage(r) ==
    /\ r.page \in Snapshots
    /\ r.in = {} \/ \E f \in Folders : r.in = {f}
    /\ r.changed \cap r.removed = {}

RunTypes == OnOnePage(run) /\ inflight \in BOOLEAN /\ (inflight <=> run.at # "idle")

SyncTypes == WakeTypes /\ VersionTypes /\ RunTypes

LEMMA Sent ==
  ASSUME WakeTypes, NEW a \in {"me", "other"}, Send(a)
  PROVE  queue' \in Seq({"me", "other"}) /\ Len(queue') <= QueueCap
  <1>1. CASE Len(queue) < QueueCap
    <2>1. queue' = Append(queue, a) BY <1>1 DEF Send
    <2>2. queue' \in Seq({"me", "other"}) /\ Len(queue') = Len(queue) + 1 BY <2>1 DEF WakeTypes
    <2> QED BY <1>1, <2>2, MailSyncAssumption DEF WakeTypes
  <1>2. CASE ~(Len(queue) < QueueCap) BY <1>2 DEF Send, WakeTypes
  <1> QED BY <1>1, <1>2

LEMMA WakeTypesStep == ASSUME WakeTypes, [SyncNext]_syncVars PROVE WakeTypes'
  <1>1. CASE UNCHANGED <<wakes, grant>> BY <1>1 DEF WakeTypes, wakes
  <1>2. CASE Wake \/ Reconnect \/ \E m \in Msgs : SendEmail(m)
    BY <1>2 DEF Wake, Reconnect, SendEmail, AskFor, WakeTypes, account
  <1>3. CASE WakeSend
    <2>1. Send("me") /\ waker' = "idle" /\ UNCHANGED <<pending, grant>>
      BY <1>3 DEF WakeSend, account
    <2> QED BY <2>1, Sent DEF WakeTypes
  <1>4. CASE OtherWake
    <2>1. Send("other") /\ UNCHANGED <<waker, pending, grant>> BY <1>4 DEF OtherWake, account
    <2> QED BY <2>1, Sent DEF WakeTypes
  <1>5. CASE Take
    <2>1. queue # <<>> /\ queue' = Tail(queue) /\ UNCHANGED <<waker, pending, grant>>
      BY <1>5 DEF Take, account
    <2>2. queue' \in Seq({"me", "other"}) /\ Len(queue') = Len(queue) - 1
      BY <2>1 DEF WakeTypes
    <2> QED BY <2>1, <2>2, MailSyncAssumption DEF WakeTypes
  <1>6. CASE Finish
    <2>1. pending' = FALSE /\ UNCHANGED <<waker, grant>> /\ FollowUp
      BY <1>6 DEF Finish, account
    <2>2. CASE pending BY <2>1, <2>2, Sent DEF FollowUp, WakeTypes
    <2>3. CASE ~pending BY <2>1, <2>3 DEF FollowUp, WakeTypes
    <2> QED BY <2>2, <2>3
  <1>7. CASE SyncKill
    <2>1. queue' = <<>> /\ pending' = FALSE /\ waker' = "idle" /\ UNCHANGED grant
      BY <1>7 DEF SyncKill, account
    <2>2. queue' \in Seq({"me", "other"}) /\ Len(queue') = 0 BY <2>1
    <2>3. 0 <= QueueCap BY MailSyncAssumption
    <2> QED BY <2>1, <2>2, <2>3 DEF WakeTypes
  <1>8. CASE Scopes \/ \E f \in Folders : Fetch(f)
    <2>1. UNCHANGED wakes /\ grant' \in {grant, "CREDENTIALS"}
      BY <1>8 DEF Scopes, Fetch, CallFails, runFrame, wakes
    <2> QED BY <2>1 DEF WakeTypes, wakes
  <1>9. CASE \/ MarkSynced \/ \E f \in Folders : SetCursor(f)
             \/ \E m \in Msgs : Store(m) \/ Announce(m) \/ Remove(m) \/ Arrive(m) \/ Touch(m)
                                \/ Discard(m) \/ EvictMail(m)
             \/ \E c \in Clients : ClientStep(c)
    <2>1. UNCHANGED <<wakes, grant>>
      BY <1>9 DEF MarkSynced, SetCursor, Store, Announce, Remove, Arrive, Touch, Discard, EvictMail,
                  ClientStep, PatchEmail, GetEmail, GetMiss, GetMessage, CacheEmail, clientFrame,
                  runFrame, wakes, account
    <2> QED BY <1>1, <2>1
  <1>10. CASE UNCHANGED syncVars BY <1>1, <1>10 DEF syncVars, account
  <1> QED BY <1>2, <1>3, <1>4, <1>5, <1>6, <1>7, <1>8, <1>9, <1>10 DEF SyncNext, Walk

LEMMA SomeVers == 0 \in Vers /\ Empty \in Snapshots /\ Vers \subseteq Nat
  BY Bounds DEF Vers, Empty, Snapshots

LEMMA NowSnapshot == ASSUME MInv, NEW f PROVE Now(f) \in Snapshots
  BY Bounds, MailSyncAssumption DEF MInv, MShape, Young, Pages, Now, Snapshots, Vers

\* Steps outside the worker.
Beside ==
    \/ \E m \in Msgs : Arrive(m) \/ Touch(m) \/ Discard(m) \/ SendEmail(m) \/ EvictMail(m)
    \/ \E c \in Clients : ClientStep(c)
    \/ Wake \/ WakeSend \/ OtherWake \/ Reconnect

LEMMA BesideFrame ==
  ASSUME Beside
  PROVE  /\ UNCHANGED <<saved, run, inflight>>
         /\ \/ UNCHANGED mail
            \/ \E m \in Msgs : mail' = [mail EXCEPT ![m].evicted = TRUE]
            \/ \E c \in Clients : \E m : mail' = [mail EXCEPT ![m].ver = through[c].ver]
         /\ UNCHANGED through \/ \E c \in Clients : ClientStep(c)
  <1>1. CASE \E c \in Clients : ClientStep(c)
    <2>1. PICK c \in Clients : ClientStep(c) BY <1>1
    <2>2. UNCHANGED <<saved, run, inflight>>
      BY <2>1 DEF ClientStep, PatchEmail, GetEmail, GetMiss, GetMessage, CacheEmail, clientFrame, wakes
    <2>3. UNCHANGED mail \/ \E m : mail' = [mail EXCEPT ![m].ver = through[c].ver]
      BY <2>1 DEF ClientStep, PatchEmail, GetEmail, GetMiss, GetMessage, CacheEmail, UpsertEmail
    <2> QED BY <1>1, <2>2, <2>3
  <1>2. CASE \/ \E m \in Msgs : Arrive(m) \/ Touch(m) \/ Discard(m) \/ SendEmail(m) \/ EvictMail(m)
             \/ Wake \/ WakeSend \/ OtherWake \/ Reconnect
    BY <1>2 DEF Arrive, Touch, Discard, SendEmail, EvictMail, Wake, WakeSend, OtherWake, Reconnect,
                wakeFrame, wakes
  <1> QED BY <1>1, <1>2 DEF Beside

\* What a request holds is what a row, the provider or it itself has held.
LEMMA ClientVersions ==
  ASSUME MInv, VersionTypes, NEW c \in Clients, ClientStep(c)
  PROVE  \E q : through' = [through EXCEPT ![c] = q] /\ q.ver \in Vers
  <1>1. \A m \in Msgs : box[m] \in Vers /\ mail[m].ver \in Vers
    BY Bounds, MailSyncAssumption DEF MInv, MShape, Young, Pages, Vers, VersionTypes
  <1>2. ASSUME NEW m \in Msgs, NEW at,
               \/ ClientMoves(c, [at |-> at, ver |-> mail[m].ver, m |-> {m}])
               \/ ClientMoves(c, [at |-> at, ver |-> box[m], m |-> {m}])
               \/ ClientMoves(c, [at |-> at, ver |-> 0, m |-> {m}])
        PROVE  \E q : through' = [through EXCEPT ![c] = q] /\ q.ver \in Vers
    BY <1>1, <1>2, SomeVers DEF ClientMoves
  <1>3. CASE ClientMoves(c, Untouched) BY <1>3, IdleHands, SomeVers DEF ClientMoves
  <1>4. CASE ClientMoves(c, [through[c] EXCEPT !.at = "read"])
    <2>1. [through[c] EXCEPT !.at = "read"].ver = through[c].ver BY DEF MInv, MShape, Hands
    <2> QED BY <1>4, <2>1 DEF ClientMoves, VersionTypes
  <1>5. CASE \E m \in Msgs : PatchEmail(c, m) \/ GetEmail(c, m) \/ GetMiss(c, m)
    BY <1>2, <1>5 DEF PatchEmail, GetEmail, GetMiss
  <1>6. CASE GetMessage(c)
    <2>1. through[c].m \subseteq Msgs BY DEF MInv, MShape, Hands
    <2> QED BY <1>2, <1>3, <1>6, <2>1 DEF GetMessage
  <1>7. CASE CacheEmail(c) BY <1>3, <1>4, <1>7 DEF CacheEmail
  <1> QED BY <1>5, <1>6, <1>7 DEF ClientStep

LEMMA VersionStep ==
  ASSUME MInv, VersionTypes, RunTypes, [SyncNext]_syncVars
  PROVE  VersionTypes'
  <1>1. \/ Walk \/ Beside \/ SyncKill \/ UNCHANGED syncVars BY DEF SyncNext, Beside
  <1>2. \A m \in Msgs : run.page[m] \in Vers BY DEF RunTypes, OnOnePage, Snapshots
  <1>3. \A m \in Msgs : mail'[m].ver \in Vers
    <2>1. \/ UNCHANGED mail
          \/ \E m \in Msgs : mail' = [mail EXCEPT ![m].evicted = TRUE]
          \/ \E c \in Clients : \E m : mail' = [mail EXCEPT ![m].ver = through[c].ver]
          \/ \E m \in Msgs : mail' = [mail EXCEPT ![m].ver = run.page[m]]
          \/ \E m \in Msgs : mail' = [mail EXCEPT ![m] = NoRow]
      <3>1. CASE Walk
        BY <3>1 DEF Walk, Take, Scopes, MarkSynced, Finish, Fetch, SetCursor, Store, Announce, Remove,
                    WorkerWrites, wakeFrame, UpsertEmail
      <3>2. CASE SyncKill \/ UNCHANGED syncVars BY <3>2 DEF SyncKill, syncVars
      <3> QED BY <1>1, <3>1, <3>2, BesideFrame
    <2> QED BY <1>2, <2>1, SomeVers DEF VersionTypes, NoRow, MInv, MShape, MailRows
  <1>4. \A f \in Folders : cursor'[f] \in Snapshots
    <2>1. \/ cursor' = cursor
          \/ \E f \in Folders : cursor' = [cursor EXCEPT ![f] = run.page]
      <3>1. CASE Walk
        BY <3>1 DEF Walk, Take, Scopes, MarkSynced, Finish, Fetch, SetCursor, Store, Announce, Remove,
                    wakeFrame, saved
      <3>2. CASE SyncKill \/ UNCHANGED syncVars BY <3>2 DEF SyncKill, syncVars, saved
      <3> QED BY <1>1, <3>1, <3>2, BesideFrame DEF saved
    <2> QED BY <2>1 DEF VersionTypes, RunTypes, OnOnePage, MInv, MShape
  <1>5. \A c \in Clients : through'[c].ver \in Vers
    <2>1. through \in [Clients -> Hands] /\ \A c \in Clients : through[c].ver \in Vers
      BY DEF MInv, MShape, VersionTypes
    <2>2. CASE Walk \/ UNCHANGED syncVars
      <3>1. UNCHANGED through
        BY <2>2 DEF Walk, Take, Scopes, MarkSynced, Finish, Fetch, SetCursor, Store, Announce, Remove,
                    wakeFrame, runFrame, syncVars
      <3> QED BY <2>1, <3>1
    <2>3. CASE SyncKill BY <2>3, IdleHands, SomeVers DEF SyncKill
    <2>4. CASE Beside
      <3>1. CASE UNCHANGED through BY <2>1, <3>1
      <3>2. ASSUME NEW c \in Clients, ClientStep(c) PROVE \A d \in Clients : through'[d].ver \in Vers
        BY <2>1, <3>2, ClientVersions
      <3> QED BY <2>4, <3>1, <3>2, BesideFrame
    <2> QED BY <1>1, <2>2, <2>3, <2>4
  <1> QED BY <1>3, <1>4, <1>5 DEF VersionTypes

\* The moves of the worker that keep it on its page, or take it off.
LEMMA PageMoves ==
  ASSUME MInv, RunTypes
  PROVE  /\ OnOnePage(Idle) /\ Idle.at = "idle"
         /\ OnOnePage(Leave) /\ Leave.at = "walk"
         /\ OnOnePage(End(run)) /\ End(run).at = "end"
  <1>1. run \in RunRows BY DEF MInv, MShape
  <1>2. OnOnePage(Idle) /\ Idle.at = "idle" BY SomeVers DEF OnOnePage, Idle
  <1>3. OnOnePage(Leave) /\ Leave.at = "walk" BY <1>1, SomeVers DEF OnOnePage, Leave, RunRows
  <1>4. OnOnePage(End(run)) /\ End(run).at = "end"
    BY <1>1 DEF RunTypes, OnOnePage, End, RunRows
  <1> QED BY <1>2, <1>3, <1>4

LEMMA DeltaPage ==
  ASSUME MInv, NEW f \in Folders, NEW from, NEW initial
  PROVE  OnOnePage(Delta(f, from, initial)) /\ Delta(f, from, initial).at = "apply"
  <1>1. run \in RunRows BY DEF MInv, MShape
  <1> DEFINE d == Delta(f, from, initial)
  <1>2. /\ d.at = "apply" /\ d.in = {f} /\ d.page = Now(f)
        /\ d.changed = {m \in Msgs : Now(f)[m] \notin {0, Tombstone, from[m]}}
        /\ d.removed = IF initial THEN {}
                       ELSE {m \in Msgs : Now(f)[m] = Tombstone /\ from[m] # Tombstone}
    BY <1>1 DEF Delta, RunRows
  <1> HIDE DEF d
  <1>3. d.changed \cap d.removed = {} BY <1>2
  <1> QED BY <1>2, <1>3, NowSnapshot DEF OnOnePage, d

LEMMA RunTypesStep == ASSUME MInv, RunTypes, [SyncNext]_syncVars PROVE RunTypes'
  <1>1. run \in RunRows BY DEF MInv, MShape
  <1>2. CASE UNCHANGED <<run, inflight>> BY <1>2 DEF RunTypes
  <1>3. CASE Take
    <2>1. CASE UNCHANGED <<run, inflight>> BY <1>2, <2>1
    <2>2. CASE /\ inflight' = TRUE
               /\ run' = [Idle EXCEPT !.at = IF grant = "OK" THEN "scopes" ELSE "end",
                                      !.first = ~synced]
      <3>1. OnOnePage(run') /\ run'.at # "idle" BY <2>2, SomeVers DEF Idle, OnOnePage
      <3> QED BY <2>2, <3>1 DEF RunTypes
    <2> QED BY <1>3, <2>1, <2>2 DEF Take
  <1>4. CASE Scopes \/ MarkSynced
    <2>1. /\ run.at # "idle" /\ UNCHANGED inflight
          /\ run' = End(run) \/ run' = [run EXCEPT !.at = "walk", !.todo = Folders]
      BY <1>4 DEF Scopes, MarkSynced, CallFails, runFrame
    <2>2. CASE run' = End(run) BY <2>1, <2>2, PageMoves DEF RunTypes
    <2>3. CASE run' = [run EXCEPT !.at = "walk", !.todo = Folders]
      <3>1. OnOnePage(run') /\ run'.at = "walk" BY <1>1, <2>3 DEF RunTypes, OnOnePage, RunRows
      <3> QED BY <2>1, <3>1 DEF RunTypes
    <2> QED BY <2>1, <2>2, <2>3
  <1>5. CASE Finish \/ SyncKill
    <2>1. run' = Idle /\ inflight' = FALSE BY <1>5 DEF Finish, SyncKill
    <2> QED BY <2>1, PageMoves DEF RunTypes
  <1>6. ASSUME NEW f \in Folders, Fetch(f) PROVE RunTypes'
    <2>1. run.at = "walk" /\ UNCHANGED inflight BY <1>6 DEF Fetch, runFrame
    <2>2. \/ \E from, initial : run' = Delta(f, from, initial)
          \/ run' = End(run) \/ run' = [run EXCEPT !.todo = @ \ {f}]
      BY <1>6 DEF Fetch, CallFails
    <2>3. CASE \E from, initial : run' = Delta(f, from, initial)
      BY <2>1, <2>3, DeltaPage DEF RunTypes
    <2>4. CASE run' = End(run) BY <2>1, <2>4, PageMoves DEF RunTypes
    <2>5. CASE run' = [run EXCEPT !.todo = @ \ {f}]
      <3>1. OnOnePage(run') /\ run'.at = "walk"
        BY <1>1, <2>1, <2>5 DEF RunTypes, OnOnePage, RunRows
      <3> QED BY <2>1, <3>1 DEF RunTypes
    <2> QED BY <2>2, <2>3, <2>4, <2>5
  <1>7. CASE \E m \in Msgs : Store(m) \/ Announce(m) \/ Remove(m)
    <2>1. PICK m \in Msgs : Store(m) \/ Announce(m) \/ Remove(m) BY <1>7
    <2>2. /\ UNCHANGED inflight
          /\ \/ run' = Leave /\ run.at = "apply"
             \/ run' = [run EXCEPT !.changed = @ \ {m},
                                   !.new = IF run.quiet \/ Held(m) THEN {} ELSE {m}]
             \/ run' = [run EXCEPT !.new = {}]
             \/ run' = [run EXCEPT !.removed = @ \ {m}]
      BY <2>1 DEF Store, Announce, Remove, runFrame
    <2>3. CASE run' = Leave /\ run.at = "apply" BY <2>2, <2>3, PageMoves DEF RunTypes
    <2>4. CASE run' = [run EXCEPT !.changed = @ \ {m},
                                  !.new = IF run.quiet \/ Held(m) THEN {} ELSE {m}]
      <3>1. OnOnePage(run') /\ run'.at = run.at BY <1>1, <2>4 DEF RunTypes, OnOnePage, RunRows
      <3> QED BY <2>2, <3>1 DEF RunTypes
    <2>5. CASE run' = [run EXCEPT !.new = {}]
      <3>1. OnOnePage(run') /\ run'.at = run.at BY <1>1, <2>5 DEF RunTypes, OnOnePage, RunRows
      <3> QED BY <2>2, <3>1 DEF RunTypes
    <2>6. CASE run' = [run EXCEPT !.removed = @ \ {m}]
      <3>1. OnOnePage(run') /\ run'.at = run.at BY <1>1, <2>6 DEF RunTypes, OnOnePage, RunRows
      <3> QED BY <2>2, <3>1 DEF RunTypes
    <2> QED BY <2>2, <2>3, <2>4, <2>5, <2>6
  <1>8. CASE \E f \in Folders : SetCursor(f)
    <2>1. run.at = "apply" /\ run' = Leave /\ UNCHANGED inflight
      BY <1>8 DEF SetCursor, PageStored, runFrame
    <2> QED BY <2>1, PageMoves DEF RunTypes
  <1>9. CASE Beside BY <1>2, <1>9, BesideFrame
  <1> QED BY <1>2, <1>3, <1>4, <1>5, <1>6, <1>7, <1>8, <1>9 DEF SyncNext, Walk, Beside, syncVars, wakes

\* For any number of messages, folders, changes and faults, every variable keeps
\* its type, a run is in flight exactly while the worker is on the account, and it
\* works on one folder at a time.
THEOREM MirrorTypes == SyncSpec => []SyncTypeOK
  <1>1. SyncInit => MInv /\ SyncTypes
    <2> SUFFICES ASSUME SyncInit PROVE SyncTypes BY MInvInit
    <2>1. WakeTypes
      <3>1. queue \in Seq({"me", "other"}) /\ Len(queue) = 0 BY DEF SyncInit
      <3>2. 0 <= QueueCap BY MailSyncAssumption
      <3>3. pending = FALSE /\ waker = "checked" /\ grant = "OK" BY DEF SyncInit
      <3> QED BY <3>1, <3>2, <3>3 DEF WakeTypes
    <2>2. VersionTypes BY SomeVers, IdleHands DEF SyncInit, VersionTypes, NoRow
    <2>3. RunTypes BY SomeVers DEF SyncInit, RunTypes, OnOnePage, Idle
    <2> QED BY <2>1, <2>2, <2>3 DEF SyncTypes
  <1>2. MInv /\ SyncTypes /\ [SyncNext]_syncVars => MInv' /\ SyncTypes'
    BY MInvStep, WakeTypesStep, VersionStep, RunTypesStep DEF SyncTypes
  <1>3. MInv /\ SyncTypes => SyncTypeOK
    <2> SUFFICES ASSUME MInv, SyncTypes PROVE SyncTypeOK OBVIOUS
    <2>1. box \in [Msgs -> Vers]
      BY Bounds, MailSyncAssumption DEF MInv, MShape, Young, Pages, Vers
    <2>2. mail \in [Msgs -> [ver : Vers, evicted : BOOLEAN]]
      BY DEF SyncTypes, VersionTypes, MInv, MShape, MailRows
    <2>3. cursor \in [Folders -> Snapshots] BY DEF SyncTypes, VersionTypes, MInv, MShape
    <2>4. /\ run \in RunRows /\ gone \subseteq Msgs /\ synced \in BOOLEAN BY DEF MInv, MShape
    <2>5. Cardinality(run.in) <= 1
      <3>1. CASE run.in = {} BY <3>1, FS_EmptySet
      <3>2. ASSUME NEW f \in Folders, run.in = {f} PROVE Cardinality(run.in) <= 1
        <4>1. Cardinality({f}) = 1 BY FS_Singleton
        <4> QED BY <3>2, <4>1
      <3> QED BY <3>1, <3>2 DEF SyncTypes, RunTypes, OnOnePage
    <2>6. /\ Len(queue) <= QueueCap /\ \A i \in 1 .. Len(queue) : queue[i] \in {"me", "other"}
      BY DEF SyncTypes, WakeTypes
    <2>7. \A c \in Clients : through[c].at \in {"idle", "missed", "fetched", "read"}
                            /\ through[c].ver \in Vers
      BY DEF SyncTypes, VersionTypes, MInv, MShape, Hands
    <2> QED BY <2>1, <2>2, <2>3, <2>4, <2>5, <2>6, <2>7
            DEF SyncTypeOK, SyncTypes, WakeTypes, RunTypes, OnOnePage, RunRows
  <1> QED BY <1>1, <1>2, <1>3, PTL DEF SyncSpec
-----------------------------------------------------------------------------
(* The push subscription.  A row is one of ours or none, and no goroutine    *)
(* that is still under way writes one for an account that has gone.         *)

SubRows == {NoSub, Ours("fresh"), Ours("due")}
ProcRows == [at : {"idle", "look", "create", "adopt", "save", "renew", "remove"},
             todo : SUBSET Subs, fresh : SUBSET Subs, sub : Subs \cup {Nobody},
             retried : BOOLEAN, result : {"none", "ok", "failed"}]

\* The goroutines, and the id of what one of them is about to save.
ProcTypes ==
    /\ proc \in [Procs -> ProcRows]
    /\ \A p \in Procs : proc[p].at = "save" => proc[p].sub \in Subs

RowTypes ==
    /\ remote \in Subs \cup {Nobody} /\ life \in {"fresh", "due"} /\ alive \in BOOLEAN
    /\ local \in [Subs -> SubRows]
    /\ ~alive => \A s \in Subs : local[s] = NoSub

PInv == ProcTypes /\ RowTypes

LEMMA SubFields ==
  /\ NoSub.life = "none" /\ NoSub.secret = "none"
  /\ \A l : Ours(l).life = l /\ Ours(l).secret = "ours"
  /\ \A q \in SubRows : q = NoSub \/ q.secret = "ours"
  BY DEF NoSub, Ours, SubRows

LEMMA LookRow ==
  /\ Look \in ProcRows /\ Look.at = "look"
  /\ \A ss \in SUBSET Subs : [Look EXCEPT !.todo = ss] \in ProcRows
                             /\ [Look EXCEPT !.todo = ss].at = "look"
  /\ [Look EXCEPT !.at = "remove"] \in ProcRows /\ [Look EXCEPT !.at = "remove"].at = "remove"
  <1>1. Rows \subseteq Subs BY DEF Rows
  <1>2. {s \in Subs : local[s].life = "fresh"} \subseteq Subs OBVIOUS
  <1> QED BY <1>1, <1>2 DEF Look, Done, ProcRows

LEMMA DoneRow ==
  /\ Done \in ProcRows /\ Done.at = "idle"
  /\ \A result \in {"ok", "failed"} : /\ [Done EXCEPT !.result = result] \in ProcRows
                                      /\ [Done EXCEPT !.result = result].at = "idle"
  /\ \A s \in Subs : /\ [Done EXCEPT !.at = "renew", !.sub = s] \in ProcRows
                     /\ [Done EXCEPT !.at = "renew", !.sub = s].at = "renew"
  BY DEF Done, ProcRows

LEMMA StepTypes ==
  ASSUME ProcTypes, NEW p \in Procs, NEW r \in ProcRows, Step(p, r), r.at = "save" => r.sub \in Subs
  PROVE  ProcTypes'
  BY DEF ProcTypes, Step

LEMMA ReturnTypes ==
  ASSUME ProcTypes, NEW p \in Procs, NEW result \in {"ok", "failed"}, Return(p, result)
  PROVE  ProcTypes'
  <1> DEFINE r == [Done EXCEPT !.result = result]
  <1>1. Step(p, r) BY DEF Return
  <1>2. r \in ProcRows /\ r.at = "idle" BY DoneRow
  <1> HIDE DEF r
  <1> QED BY <1>1, <1>2, StepTypes

\* A goroutine goes on with what it holds.
LEMMA ProcMoves ==
  ASSUME ProcTypes, NEW p \in Procs
  PROVE  /\ \A s \in Subs : LET r == [proc[p] EXCEPT !.todo = @ \ {s}]
                            IN  r \in ProcRows /\ r.at = proc[p].at /\ r.sub = proc[p].sub
         /\ \A s \in Subs : LET r == [proc[p] EXCEPT !.at = "save", !.sub = s]
                            IN  r \in ProcRows /\ r.sub = s
         /\ \A s \in Subs \cup {Nobody} :
              LET r == [proc[p] EXCEPT !.at = "adopt", !.sub = s, !.retried = TRUE]
              IN  r \in ProcRows /\ r.at = "adopt"
         /\ LET r == [proc[p] EXCEPT !.at = "create", !.sub = Nobody]
            IN  r \in ProcRows /\ r.at = "create"
  <1>1. proc[p] \in ProcRows BY DEF ProcTypes
  <1> QED BY <1>1 DEF ProcRows

LEMMA RowStored ==
  ASSUME RowTypes, alive, NEW s \in Subs, local' = [local EXCEPT ![s] = Ours("fresh")],
         remote' \in Subs \cup {Nobody}, life' \in {"fresh", "due"}, alive' = alive
  PROVE  RowTypes'
  BY DEF RowTypes, SubRows

LEMMA RowDropped ==
  ASSUME RowTypes, NEW s \in Subs, local' = [local EXCEPT ![s] = NoSub],
         remote' \in Subs \cup {Nobody}, life' \in {"fresh", "due"}, alive' = alive
  PROVE  RowTypes'
  BY DEF RowTypes, SubRows

LEMMA RowKept ==
  ASSUME RowTypes, UNCHANGED local,
         remote' \in Subs \cup {Nobody}, life' \in {"fresh", "due"}, alive' = alive
  PROVE  RowTypes'
  BY DEF RowTypes

LEMMA LookAtStep ==
  ASSUME PInv, NEW p \in Procs, NEW s \in Subs, LookAt(p, s)
  PROVE  PInv'
  <1> USE DEF PInv
  <1>1. remote \in Subs \cup {Nobody} /\ life \in {"fresh", "due"} /\ UNCHANGED <<remote, alive>>
    BY DEF RowTypes, LookAt, owner
  <1>2. CASE Return(p, "ok") /\ UNCHANGED <<life, local>>
    BY <1>1, <1>2, ReturnTypes, RowKept
  <1>3. CASE /\ life' = "fresh"
             /\ IF alive THEN local' = [local EXCEPT ![s] = Ours("fresh")] ELSE UNCHANGED local
             /\ Return(p, IF alive THEN "ok" ELSE "failed")
    <2>1. CASE alive BY <1>1, <1>3, <2>1, ReturnTypes, RowStored
    <2>2. CASE ~alive BY <1>1, <1>3, <2>2, ReturnTypes, RowKept
    <2> QED BY <2>1, <2>2
  <1>4. CASE /\ local' = [local EXCEPT ![s] = NoSub] /\ UNCHANGED life
             /\ Step(p, [proc[p] EXCEPT !.todo = @ \ {s}])
    <2> DEFINE r == [proc[p] EXCEPT !.todo = @ \ {s}]
    <2>1. r \in ProcRows /\ r.at = proc[p].at /\ r.sub = proc[p].sub BY ProcMoves
    <2>2. Step(p, r) BY <1>4
    <2>3. proc[p].at = "look" BY DEF LookAt
    <2> HIDE DEF r
    <2> QED BY <1>1, <1>4, <2>1, <2>2, <2>3, StepTypes, RowDropped
  <1> QED BY <1>2, <1>3, <1>4 DEF LookAt

LEMMA CreateStep == ASSUME PInv, NEW p \in Procs, Create(p) PROVE PInv'
  <1> USE DEF PInv
  <1>1. remote \in Subs \cup {Nobody} /\ life \in {"fresh", "due"} /\ UNCHANGED <<alive, local>>
    BY DEF RowTypes, Create, Conflict, owner
  <1>2. ASSUME NEW s \in Unused, remote' = s, life' = "fresh",
               Step(p, [proc[p] EXCEPT !.at = "save", !.sub = s])
        PROVE  PInv'
    <2> DEFINE r == [proc[p] EXCEPT !.at = "save", !.sub = s]
    <2>1. s \in Subs BY DEF Unused
    <2>2. r \in ProcRows /\ r.sub = s BY <2>1, ProcMoves
    <2>3. Step(p, r) BY <1>2
    <2> HIDE DEF r
    <2> QED BY <1>1, <1>2, <2>1, <2>2, <2>3, StepTypes, RowKept
  <1>3. CASE Conflict(p) /\ UNCHANGED <<remote, life>>
    <2>1. CASE Return(p, "failed") BY <1>1, <1>3, <2>1, ReturnTypes, RowKept
    <2>2. CASE Step(p, [proc[p] EXCEPT !.at = "adopt", !.sub = remote, !.retried = TRUE])
      <3> DEFINE r == [proc[p] EXCEPT !.at = "adopt", !.sub = remote, !.retried = TRUE]
      <3>1. r \in ProcRows /\ r.at = "adopt" BY <1>1, ProcMoves
      <3>2. Step(p, r) BY <2>2
      <3> HIDE DEF r
      <3> QED BY <1>1, <1>3, <3>1, <3>2, StepTypes, RowKept
    <2> QED BY <1>3, <2>1, <2>2 DEF Conflict
  <1>4. CASE Return(p, "failed") /\ UNCHANGED <<remote, life, local>>
    BY <1>1, <1>4, ReturnTypes, RowKept
  <1> QED BY <1>2, <1>3, <1>4 DEF Create

LEMMA AdoptStep == ASSUME PInv, NEW p \in Procs, Adopt(p) PROVE PInv'
  <1> DEFINE r == [proc[p] EXCEPT !.at = "create", !.sub = Nobody]
  <1>1. r \in ProcRows /\ r.at = "create" BY ProcMoves DEF PInv
  <1>2. Step(p, r) /\ UNCHANGED <<life, local, alive>> BY DEF Adopt, owner
  <1>3. remote' \in Subs \cup {Nobody} /\ life \in {"fresh", "due"} BY DEF Adopt, PInv, RowTypes
  <1> HIDE DEF r
  <1> QED BY <1>1, <1>2, <1>3, StepTypes, RowKept DEF PInv

LEMMA SaveStep == ASSUME PInv, NEW p \in Procs, Save(p) PROVE PInv'
  <1>1. proc[p].sub \in Subs BY DEF Save, PInv, ProcTypes
  <1>2. remote \in Subs \cup {Nobody} /\ life \in {"fresh", "due"} /\ UNCHANGED <<remote, life, alive>>
    BY DEF Save, PInv, RowTypes, owner
  <1>3. \/ Return(p, "ok") \/ Return(p, "failed")
    BY DEF Save
  <1>4. \/ alive /\ local' = [local EXCEPT ![proc[p].sub] = Ours("fresh")]
        \/ UNCHANGED local
    BY DEF Save
  <1>5. ProcTypes' BY <1>3, ReturnTypes DEF PInv
  <1>6. RowTypes' BY <1>1, <1>2, <1>4, RowStored, RowKept DEF PInv
  <1> QED BY <1>5, <1>6 DEF PInv

LEMMA LifecycleStep == ASSUME PInv, NEW s \in Subs, Lifecycle(s) PROVE PInv'
  <1>1. remote \in Subs \cup {Nobody} /\ life \in {"fresh", "due"} /\ UNCHANGED <<remote, life, alive>>
    BY DEF Lifecycle, PInv, RowTypes, owner
  <1>2. Request \in Procs BY DEF Procs
  <1>3. CASE /\ local' = [local EXCEPT ![s] = NoSub]
             /\ Step(Request, [Look EXCEPT !.todo = Rows \ {s}])
    <2> DEFINE r == [Look EXCEPT !.todo = Rows \ {s}]
    <2>1. r \in ProcRows /\ r.at = "look"
      <3>1. Rows \ {s} \in SUBSET Subs BY DEF Rows
      <3> QED BY <3>1, LookRow
    <2>2. Step(Request, r) BY <1>3
    <2> HIDE DEF r
    <2> QED BY <1>1, <1>2, <1>3, <2>1, <2>2, StepTypes, RowDropped DEF PInv
  <1>4. CASE Step(Request, [Done EXCEPT !.at = "renew", !.sub = s]) /\ UNCHANGED local
    <2> DEFINE r == [Done EXCEPT !.at = "renew", !.sub = s]
    <2>1. r \in ProcRows /\ r.at = "renew" BY DoneRow
    <2>2. Step(Request, r) BY <1>4
    <2> HIDE DEF r
    <2> QED BY <1>1, <1>2, <1>4, <2>1, <2>2, StepTypes, RowKept DEF PInv
  <1> QED BY <1>3, <1>4 DEF Lifecycle

\* A connect, a reconcile and a deletion begin by reading the rows.
LEMMA LookStep == ASSUME PInv, Reconcile \/ ConnectEnsures \/ DeleteBegins PROVE PInv'
  <1>1. PICK p \in Procs : Step(p, Look) \/ Step(p, [Look EXCEPT !.at = "remove"])
    BY DEF Reconcile, ConnectEnsures, DeleteBegins, Procs
  <1>2. UNCHANGED <<remote, life, local, alive>>
    BY DEF Reconcile, ConnectEnsures, DeleteBegins, owner
  <1>3. ProcTypes'
    <2>1. CASE Step(p, Look) BY <2>1, LookRow, StepTypes DEF PInv
    <2>2. CASE Step(p, [Look EXCEPT !.at = "remove"])
      <3> DEFINE r == [Look EXCEPT !.at = "remove"]
      <3>1. Step(p, r) /\ r \in ProcRows /\ r.at = "remove" BY <2>2, LookRow
      <3> HIDE DEF r
      <3> QED BY <3>1, StepTypes DEF PInv
    <2> QED BY <1>1, <2>1, <2>2
  <1> QED BY <1>2, <1>3, RowKept DEF PInv, RowTypes

LEMMA ReauthorizeStep == ASSUME PInv, Reauthorize PROVE PInv'
  <1>1. Request \in Procs BY DEF Procs
  <1>2. Return(Request, "ok") \/ Return(Request, "failed") BY DEF Reauthorize
  <1>3. UNCHANGED <<remote, local, alive>> /\ life' \in {"fresh", "due"}
    BY DEF Reauthorize, PInv, RowTypes, owner
  <1> QED BY <1>1, <1>2, <1>3, ReturnTypes, RowKept DEF PInv, RowTypes

LEMMA RemoveSubscriptionStep ==
  ASSUME PInv, NEW s \in Subs, RemoveSubscription(s)
  PROVE  PInv'
  <1> DEFINE r == [proc[Request] EXCEPT !.todo = @ \ {s}]
  <1>1. Request \in Procs BY DEF Procs
  <1>2. r \in ProcRows /\ r.at = proc[Request].at /\ r.sub = proc[Request].sub
    BY <1>1, ProcMoves DEF PInv
  <1>3. Step(Request, r) /\ proc[Request].at = "remove" /\ local' = [local EXCEPT ![s] = NoSub]
    BY DEF RemoveSubscription
  <1>4. remote' \in Subs \cup {Nobody} /\ life \in {"fresh", "due"} /\ UNCHANGED <<life, alive>>
    BY DEF RemoveSubscription, PInv, RowTypes, owner
  <1> HIDE DEF r
  <1> QED BY <1>1, <1>2, <1>3, <1>4, StepTypes, RowDropped DEF PInv

LEMMA DeleteMailStep == ASSUME PInv, DeleteMailAccount PROVE PInv'
  <1>1. Request \in Procs /\ Return(Request, "ok") BY DEF Procs, DeleteMailAccount
  <1>2. RowTypes' BY DEF DeleteMailAccount, PInv, RowTypes, SubRows
  <1> QED BY <1>1, <1>2, ReturnTypes DEF PInv

\* Time and the provider touch no goroutine, and make no row.
LEMMA OutsideStep ==
  ASSUME PInv, Ages \/ Lapses \/ RowAges \/ ProviderDrops \/ Revoked
  PROVE  PInv'
  <1>1. ProcTypes' BY DEF Ages, Lapses, RowAges, ProviderDrops, Revoked, PInv, ProcTypes
  <1>2. CASE Lapses \/ ProviderDrops \/ Revoked
    BY <1>1, <1>2, RowKept DEF Lapses, ProviderDrops, Revoked, PInv, RowTypes, owner
  <1>3. CASE Ages \/ RowAges
    <2>1. local' = [s \in Subs |-> IF local[s].life = "fresh" THEN [local[s] EXCEPT !.life = "due"]
                                   ELSE local[s]]
      BY <1>3 DEF Ages, RowAges
    <2>2. remote' = remote /\ life' \in {"fresh", "due"} /\ alive' = alive
      BY <1>3 DEF Ages, RowAges, PInv, RowTypes, owner
    <2>3. ASSUME NEW s \in Subs
          PROVE  local'[s] \in SubRows /\ (local[s] = NoSub => local'[s] = NoSub)
      <3>1. local[s] \in SubRows BY DEF PInv, RowTypes
      <3>2. [Ours("fresh") EXCEPT !.life = "due"] = Ours("due") BY DEF Ours
      <3>3. CASE local[s].life = "fresh"
        <4>1. local[s] = Ours("fresh") BY <3>1, <3>3, SubFields DEF SubRows
        <4>2. local[s] # NoSub BY <3>3, SubFields
        <4> QED BY <2>1, <3>2, <3>3, <4>1, <4>2 DEF SubRows
      <3>4. CASE local[s].life # "fresh" BY <2>1, <3>1, <3>4
      <3> QED BY <3>3, <3>4
    <2>4. local' \in [Subs -> SubRows] BY <2>1, <2>3
    <2>5. RowTypes' BY <2>2, <2>3, <2>4 DEF PInv, RowTypes
    <2> QED BY <1>1, <2>5 DEF PInv
  <1> QED BY <1>2, <1>3

LEMMA PushKillStep == ASSUME PInv, PushKill PROVE PInv'
  <1>1. ProcTypes' BY DoneRow DEF PushKill, ProcTypes
  <1> QED BY <1>1, RowKept DEF PushKill, PInv, RowTypes, owner

LEMMA PInvStep == ASSUME PInv, [PushNext]_pushVars PROVE PInv'
  <1>1. CASE UNCHANGED pushVars BY <1>1 DEF pushVars, owner, PInv, ProcTypes, RowTypes
  <1>2. ASSUME NEW p \in Procs, Ensure(p) PROVE PInv'
    BY <1>2, LookAtStep, CreateStep, AdoptStep, SaveStep DEF Ensure
  <1>3. Loop \in Procs /\ Request \in Procs BY DEF Procs
  <1>4. CASE LoopStep BY <1>2, <1>3, <1>4, LookStep DEF LoopStep
  <1>5. CASE RequestStep
    BY <1>2, <1>3, <1>5, ReauthorizeStep, DeleteMailStep, RemoveSubscriptionStep DEF RequestStep
  <1> QED BY <1>1, <1>4, <1>5, LookStep, LifecycleStep, OutsideStep, PushKillStep DEF PushNext

LEMMA PInvInit == PushInit => PInv
  <1> SUFFICES ASSUME PushInit PROVE PInv OBVIOUS
  <1>1. ProcTypes BY DoneRow DEF PushInit, ProcTypes
  <1>2. RowTypes BY DEF PushInit, RowTypes, SubRows
  <1> QED BY <1>1, <1>2 DEF PInv

\* adoptExisting: for any number of subscriptions, requests and mishaps, no row
\* carries a secret that is not ours.
THEOREM SecretsAreOurs == PushSpec => []StoredSecretsAreOurs
  <1>1. PInv => StoredSecretsAreOurs
    BY SubFields DEF PInv, RowTypes, StoredSecretsAreOurs, Rows, Trusted
  <1> QED BY <1>1, PInvInit, PInvStep, PTL DEF PushSpec

LEMMA StatusStep ==
  ASSUME status \in {"OK", "CREDENTIALS"}, [PushNext]_pushVars
  PROVE  status' \in {"OK", "CREDENTIALS"}
  <1>1. \/ UNCHANGED owner \/ UNCHANGED status \/ status' \in {"OK", "CREDENTIALS"}
    BY DEF PushNext, LoopStep, RequestStep, Ensure, pushVars, Reconcile, LookAt, Create, Adopt, Save,
           Reauthorize, RemoveSubscription, DeleteMailAccount, ConnectEnsures, Lifecycle, DeleteBegins,
           Ages, Lapses, RowAges, ProviderDrops, Revoked, PushKill
  <1> QED BY <1>1 DEF owner

\* Every variable keeps its type, and an account that has gone keeps no row,
\* whoever was still at work for it.
THEOREM PushTypes == PushSpec => []PushTypeOK
  <1> DEFINE Standing == status \in {"OK", "CREDENTIALS"}
  <1>1. PInv /\ Standing => PushTypeOK
    <2> SUFFICES ASSUME PInv, Standing PROVE PushTypeOK OBVIOUS
    <2>1. \A s \in Subs : local[s].life \in {"none", "fresh", "due"}
                          /\ (local[s].life = "none" <=> local[s].secret = "none")
      BY SubFields DEF PInv, RowTypes, SubRows
    <2>2. \A p \in Procs :
            /\ proc[p].at \in {"idle", "look", "create", "adopt", "save", "renew", "remove"}
            /\ proc[p].todo \subseteq Subs /\ proc[p].sub \in Subs \cup {Nobody}
            /\ proc[p].result \in {"none", "ok", "failed"}
      BY DEF PInv, ProcTypes, ProcRows
    <2> QED BY <2>1, <2>2 DEF PInv, RowTypes, PushTypeOK
  <1>2. PushInit => PInv /\ Standing BY PInvInit DEF PushInit
  <1>3. PInv /\ Standing /\ [PushNext]_pushVars => PInv' /\ Standing'
    BY PInvStep, StatusStep
  <1> QED BY <1>1, <1>2, <1>3, PTL DEF PushSpec
=============================================================================
