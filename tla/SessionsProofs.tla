---------------------------- MODULE SessionsProofs ----------------------------
(***************************************************************************)
(* Proof that a password change signs out every session of an older          *)
(* password, for any number of browsers, requests and changes.  The          *)
(* invariant it needs (SInv) relates three versions: that of the password,   *)
(* that a request under way is about to settle, and that a session was       *)
(* opened with.                                                             *)
(***************************************************************************)
EXTENDS Sessions, TLAPS

SessionRows == [row : BOOLEAN, age : {"new", "idle", "expired"}, over : BOOLEAN,
                by : Nat, racy : BOOLEAN]
CallRecords == [at : {"idle", "resolved", "checked", "updated"},
                cookie : Cookies \cup {NoCookie}, slide : BOOLEAN, new : Nat]

SShape ==
    /\ password \in Nat /\ settled \in Nat
    /\ session \in [Cookies -> SessionRows]
    /\ login \in [Logins -> Nat]
    /\ call \in [Calls -> CallRecords]

\* No version anybody holds is newer than the password.
NothingNewer ==
    /\ settled <= password
    /\ \A l \in Logins : login[l] <= password
    /\ \A t \in Cookies : session[t].by <= password
    /\ \A c \in Calls : call[c].new <= password

SInv == SShape /\ NothingNewer /\ OldPasswordIsOut

LEMMA SInvInit == SessInit => SInv
  BY SessionsAssumption
     DEF SessInit, SInv, SShape, NothingNewer, OldPasswordIsOut, SessionRows, CallRecords,
         Unminted, Answered204

\* A request moves on: its record is the only one that changes.
LEMMA CallMoves ==
  ASSUME SShape, NEW c \in Calls, NEW r \in CallRecords, CallAt(c, r)
  PROVE  /\ call' \in [Calls -> CallRecords]
         /\ \A d \in Calls : call'[d].new = IF d = c THEN r.new ELSE call[d].new
  BY DEF SShape, CallAt

LEMMA CallRenewed ==
  ASSUME NEW q \in CallRecords, NEW n \in Nat
  PROVE  /\ [q EXCEPT !.at = "updated", !.new = n] \in CallRecords
         /\ [q EXCEPT !.at = "updated", !.new = n].new = n
  BY DEF CallRecords

LEMMA RowExtended ==
  ASSUME NEW q \in SessionRows
  PROVE  [q EXCEPT !.age = "new", !.row = TRUE] \in SessionRows
  BY DEF SessionRows

LEMMA CallResolved ==
  ASSUME NEW t \in Cookies, NEW b \in BOOLEAN
  PROVE  LET r == [Answered204 EXCEPT !.at = "resolved", !.cookie = t, !.slide = b]
         IN  r \in CallRecords /\ r.new = 0
  BY DEF CallRecords, Answered204

\* Deleting rows keeps the shape of the table and the versions in it.
LEMMA DropKeeps ==
  ASSUME SInv, NEW ts, Drop(ts), UNCHANGED <<password, settled, login>>,
         SShape => call' \in [Calls -> CallRecords],
         \A c \in Calls : call'[c].new <= password
  PROVE  SInv'
  <1>1. session' \in [Cookies -> SessionRows]
    BY DEF SInv, SShape, Drop, Deleted, SessionRows, Unminted
  <1>2. \A t \in Cookies : session'[t].by <= password
    BY DEF SInv, SShape, NothingNewer, Drop, Deleted, SessionRows, Unminted
  <1>3. \A t \in Cookies : session'[t].row =>
           session'[t].row = session[t].row /\ session'[t].by = session[t].by
           /\ session'[t].racy = session[t].racy
    BY DEF SInv, SShape, Drop, Deleted, SessionRows, Unminted
  <1> QED BY <1>1, <1>2, <1>3 DEF SInv, SShape, NothingNewer, OldPasswordIsOut

LEMMA SInvStep == ASSUME SInv, [SessNext]_sessVars PROVE SInv'
  <1> USE DEF SInv, SShape, NothingNewer, SessionRows, CallRecords
  <1>1. ASSUME NEW l \in Logins, Verify(l) PROVE SInv'
    BY <1>1 DEF Verify, OldPasswordIsOut
  <1>2. ASSUME NEW l \in Logins, NewSession(l) PROVE SInv'
    <2>1. PICK t \in Cookies :
             session' = [session EXCEPT ![t] = [Unminted EXCEPT !.row = TRUE, !.by = login[l],
                                                                !.racy = login[l] # password]]
      BY <1>2 DEF NewSession
    <2>2. session'[t].by = login[l] /\ (session'[t].racy \/ session'[t].by = password)
      BY <2>1 DEF Unminted
    <2>3. SShape' BY <1>2, <2>1 DEF NewSession, Unminted
    <2>4. NothingNewer' BY <1>2, <2>1, <2>2 DEF NewSession
    <2>5. OldPasswordIsOut' BY <1>2, <2>1, <2>2 DEF NewSession, OldPasswordIsOut
    <2> QED BY <2>3, <2>4, <2>5
  <1>3. ASSUME NEW c \in Calls, NEW t \in Cookies, ResolveSession(c, t) PROVE SInv'
    <2>1. CASE Drop({t}) /\ UNCHANGED call
      BY <1>3, <2>1, DropKeeps DEF ResolveSession
    <2>2. CASE /\ CallAt(c, [Answered204 EXCEPT !.at = "resolved", !.cookie = t,
                                           !.slide = session[t].age = "idle"])
               /\ UNCHANGED session
      <3> DEFINE r == [Answered204 EXCEPT !.at = "resolved", !.cookie = t,
                                          !.slide = session[t].age = "idle"]
      <3>1. r \in CallRecords /\ r.new = 0 BY CallResolved
      <3>2. call' \in [Calls -> CallRecords] /\ \A d \in Calls : call'[d].new <= password
        <4>1. CallAt(c, r) BY <2>2
        <4> HIDE DEF r
        <4> QED BY <3>1, <4>1, CallMoves
      <3> QED BY <1>3, <2>2, <3>2 DEF ResolveSession, OldPasswordIsOut
    <2> QED BY <1>3, <2>1, <2>2 DEF ResolveSession
  <1>4. ASSUME NEW c \in Calls, ExtendSession(c) PROVE SInv'
    <2>1. \A u \in Cookies : /\ session'[u].row = session[u].row
                             /\ session'[u].by = session[u].by
                             /\ session'[u].racy = session[u].racy
      BY <1>4 DEF ExtendSession, Extended
    <2>2. session' \in [Cookies -> SessionRows]
      <3>1. CASE session[call[c].cookie].row
        <4>1. session' = [session EXCEPT ![call[c].cookie].age = "new",
                                         ![call[c].cookie].row = TRUE]
          BY <1>4, <3>1 DEF ExtendSession, Extended
        <4>2. \A u \in Cookies : session'[u] = [session[u] EXCEPT !.age = "new", !.row = TRUE]
                                 \/ session'[u] = session[u]
          BY <4>1
        <4>3. \A u \in Cookies : session'[u] \in SessionRows
          <5>1. session \in [Cookies -> SessionRows] BY DEF SInv, SShape
          <5> HIDE DEF SessionRows
          <5> QED BY <4>2, <5>1, RowExtended
        <4> QED BY <4>1, <4>3
      <3>2. CASE ~session[call[c].cookie].row
        BY <1>4, <3>2 DEF ExtendSession, Extended
      <3> QED BY <3>1, <3>2
    <2>3. call' \in [Calls -> CallRecords] /\ \A d \in Calls : call'[d].new = call[d].new
      BY <1>4 DEF ExtendSession, CallAt
    <2> QED BY <1>4, <2>1, <2>2, <2>3 DEF ExtendSession, OldPasswordIsOut
  <1>5. ASSUME NEW c \in Calls, Answer204(c) PROVE SInv'
    BY <1>5, SessionsAssumption DEF Answer204, CallAt, Answered204, OldPasswordIsOut
  <1>6. ASSUME NEW t \in Cookies, Logout(t) PROVE SInv'
    BY <1>6, DropKeeps DEF Logout
  <1>7. ASSUME NEW c \in Calls, CheckCurrent(c) PROVE SInv'
    BY <1>7 DEF CheckCurrent, CallAt, OldPasswordIsOut
  <1>8. ASSUME NEW c \in Calls, UpdatePassword(c) PROVE SInv'
    <2>1. password' = password + 1 /\ UNCHANGED <<session, login, settled>>
      BY <1>8 DEF UpdatePassword
    <2> DEFINE r == [call[c] EXCEPT !.at = "updated", !.new = password + 1]
    <2>2. r \in CallRecords /\ r.new = password + 1
      <3>1. call[c] \in CallRecords /\ password + 1 \in Nat OBVIOUS
      <3> QED BY <3>1, CallRenewed
    <2>3. call' \in [Calls -> CallRecords] /\ \A d \in Calls : call'[d].new <= password + 1
      <3>1. CallAt(c, r) BY <1>8 DEF UpdatePassword
      <3>2. \A d \in Calls : call'[d].new = IF d = c THEN r.new ELSE call[d].new
        BY <2>2, <3>1, CallMoves
      <3>3. \A d \in Calls : call[d].new \in Nat /\ call[d].new <= password OBVIOUS
      <3> HIDE DEF r
      <3> QED BY <2>2, <3>1, <3>2, <3>3, CallMoves
    <2> QED BY <2>1, <2>3 DEF OldPasswordIsOut
  <1>9. ASSUME NEW c \in Calls, SignOutOthers(c) PROVE SInv'
    <2>1. call' \in [Calls -> CallRecords] /\ \A d \in Calls : call'[d].new <= password
      BY <1>9 DEF SignOutOthers, CallAt, Answered204
    <2>2. CASE UNCHANGED <<session, settled>>
      BY <1>9, <2>1, <2>2 DEF SignOutOthers, OldPasswordIsOut
    <2>3. CASE /\ session' = [t \in Cookies |->
                     IF t = call[c].cookie
                     THEN [session[t] EXCEPT !.by = IF @ < call[c].new THEN call[c].new ELSE @]
                     ELSE Deleted(session[t])]
               /\ settled' = IF settled < call[c].new THEN call[c].new ELSE settled
      <3>1. session' \in [Cookies -> SessionRows]
        <4>1. \A t \in Cookies : Deleted(session[t]) \in SessionRows BY DEF Deleted, Unminted
        <4>2. \A t \in Cookies, n \in Nat : [session[t] EXCEPT !.by = n] \in SessionRows
          OBVIOUS
        <4>3. \A t \in Cookies : session'[t] \in SessionRows BY <2>3, <4>1, <4>2
        <4> QED BY <2>3, <4>3
      <3>2. settled' \in Nat /\ settled' <= password BY <2>3
      <3>3. \A t \in Cookies : session'[t].by <= password BY <2>3 DEF Deleted, Unminted
      <3>4. \A t \in Cookies : session'[t].row =>
               session'[t].by >= settled' \/ session'[t].racy
        <4> SUFFICES ASSUME NEW t \in Cookies, session'[t].row
                     PROVE  session'[t].by >= settled' \/ session'[t].racy
          OBVIOUS
        <4>1. t = call[c].cookie BY <2>3 DEF Deleted, Unminted
        <4>2. session[t].row /\ session'[t].racy = session[t].racy
              /\ session'[t].by = IF session[t].by < call[c].new THEN call[c].new
                                  ELSE session[t].by
          BY <2>3, <4>1
        <4>3. session[t].by >= settled \/ session[t].racy BY <4>2 DEF OldPasswordIsOut
        <4> QED BY <2>3, <4>2, <4>3
      <3> QED BY <1>9, <2>1, <3>1, <3>2, <3>3, <3>4 DEF SignOutOthers, OldPasswordIsOut
    <2> QED BY <1>9, <2>2, <2>3 DEF SignOutOthers
  <1>10. ASSUME NEW t \in Cookies, Grow(t) PROVE SInv'
    <2>1. session' \in [Cookies -> SessionRows]
      <3>1. CASE session' = [session EXCEPT ![t].age = "idle"] BY <3>1
      <3>2. CASE session' = [session EXCEPT ![t].age = "expired"] BY <3>2
      <3>3. CASE session' = [session EXCEPT ![t].over = TRUE] BY <3>3
      <3> QED BY <1>10, <3>1, <3>2, <3>3 DEF Grow
    <2>2. \A u \in Cookies : /\ session'[u].row = session[u].row
                             /\ session'[u].by = session[u].by
                             /\ session'[u].racy = session[u].racy
      BY <1>10 DEF Grow
    <2> QED BY <1>10, <2>1, <2>2 DEF Grow, OldPasswordIsOut
  <1>11. CASE UNCHANGED sessVars BY <1>11 DEF sessVars, OldPasswordIsOut
  <1> QED BY <1>1, <1>2, <1>3, <1>4, <1>5, <1>6, <1>7, <1>8, <1>9, <1>10, <1>11 DEF SessNext

\* handleChangePassword: for any number of browsers, requests and password
\* changes, a session of a password whose replacement has been answered does not
\* live, unless its login had verified that password before.
THEOREM OldPasswordsSignOut == SessSpec => []OldPasswordIsOut
  <1>1. SInv => OldPasswordIsOut BY DEF SInv
  <1> QED BY <1>1, SInvInit, SInvStep, PTL DEF SessSpec
-----------------------------------------------------------------------------
(* Types.                                                                   *)

\* A request is made under a session that was opened.
Opened ==
    /\ password \in 1 .. MaxPasswords /\ settled >= 1
    /\ \A t \in Cookies : session[t].row => session[t].by > 0
    /\ \A c \in Calls : call[c].at # "idle" =>
           call[c].cookie \in Cookies /\ session[call[c].cookie].by > 0

\* No step takes the version of a session back to nothing.
LEMMA OpenedStays ==
  ASSUME SInv, Opened, [SessNext]_sessVars
  PROVE  \A t \in Cookies : /\ session[t].by > 0 => session'[t].by > 0
                            /\ session'[t].row => session'[t].by > 0
  <1> USE DEF SInv, SShape, SessionRows
  <1>1. CASE UNCHANGED session BY <1>1 DEF Opened
  <1>2. ASSUME NEW l \in Logins, NewSession(l)
        PROVE  \A t \in Cookies : /\ session[t].by > 0 => session'[t].by > 0
                                  /\ session'[t].row => session'[t].by > 0
    BY <1>2 DEF NewSession, Opened, Unminted
  <1>3. ASSUME NEW ts, Drop(ts)
        PROVE  \A t \in Cookies : /\ session[t].by > 0 => session'[t].by > 0
                                  /\ session'[t].row => session'[t].by > 0
    BY <1>3 DEF Drop, Deleted, Opened, Unminted
  <1>4. ASSUME NEW c \in Calls, ExtendSession(c)
        PROVE  \A t \in Cookies : session'[t].by = session[t].by /\ session'[t].row = session[t].row
    BY <1>4 DEF ExtendSession, Extended
  <1>5. ASSUME NEW c \in Calls,
               session' = [t \in Cookies |->
                  IF t = call[c].cookie
                  THEN [session[t] EXCEPT !.by = IF @ < call[c].new THEN call[c].new ELSE @]
                  ELSE Deleted(session[t])]
        PROVE  \A t \in Cookies : /\ session[t].by > 0 => session'[t].by > 0
                                  /\ session'[t].row => session'[t].by > 0
    <2> SUFFICES ASSUME NEW t \in Cookies
                 PROVE  /\ session[t].by > 0 => session'[t].by > 0
                        /\ session'[t].row => session'[t].by > 0
      OBVIOUS
    <2>1. CASE t = call[c].cookie
      <3>1. /\ session'[t].row = session[t].row
            /\ session'[t].by = IF session[t].by < call[c].new THEN call[c].new ELSE session[t].by
        BY <1>5, <2>1
      <3> QED BY <3>1 DEF Opened, CallRecords
    <2>2. CASE t # call[c].cookie BY <1>5, <2>2 DEF Deleted, Unminted
    <2> QED BY <2>1, <2>2
  <1>6. ASSUME NEW t \in Cookies, Grow(t)
        PROVE  \A u \in Cookies : session'[u].by = session[u].by /\ session'[u].row = session[u].row
    BY <1>6 DEF Grow
  <1>7. CASE \E t \in Cookies : Grow(t) BY <1>6, <1>7 DEF Opened
  <1>8. CASE \E c \in Calls : ExtendSession(c) BY <1>4, <1>8 DEF Opened
  <1>9. CASE \E l \in Logins : Verify(l) \/ NewSession(l) BY <1>1, <1>2, <1>9 DEF Verify
  <1>10. CASE \E c \in Calls : \/ \E t \in Cookies : ResolveSession(c, t)
                               \/ Answer204(c) \/ CheckCurrent(c) \/ UpdatePassword(c)
    BY <1>1, <1>3, <1>10 DEF ResolveSession, Answer204, CheckCurrent, UpdatePassword
  <1>11. CASE \E c \in Calls : SignOutOthers(c) BY <1>1, <1>5, <1>11 DEF SignOutOthers
  <1>12. CASE \E t \in Cookies : Logout(t) BY <1>3, <1>12 DEF Logout
  <1> QED BY <1>1, <1>7, <1>8, <1>9, <1>10, <1>11, <1>12 DEF SessNext, sessVars

\* A request that goes on keeps its cookie; a new one has found its row.
LEMMA CookiesStay ==
  ASSUME SInv, [SessNext]_sessVars, NEW d \in Calls, call'[d].at # "idle"
  PROVE  \/ call[d].at # "idle" /\ call'[d].cookie = call[d].cookie
         \/ call'[d].cookie \in Cookies /\ session[call'[d].cookie].row
  <1> USE DEF SInv, SShape, CallRecords, CallAt
  <1>1. CASE UNCHANGED call BY <1>1
  <1>2. ASSUME NEW c \in Calls, NEW t \in Cookies, ResolveSession(c, t),
               call' = [call EXCEPT ![c] = [Answered204 EXCEPT !.at = "resolved", !.cookie = t,
                                                     !.slide = session[t].age = "idle"]]
        PROVE  \/ call[d].at # "idle" /\ call'[d].cookie = call[d].cookie
               \/ call'[d].cookie \in Cookies /\ session[call'[d].cookie].row
    <2>1. session[t].row BY <1>2 DEF ResolveSession
    <2>2. CASE d = c BY <1>2, <2>1, <2>2 DEF Answered204
    <2>3. CASE d # c BY <1>2, <2>3
    <2> QED BY <2>2, <2>3
  <1>3. CASE \E c \in Calls, t \in Cookies : ResolveSession(c, t)
    <2>1. PICK c \in Calls, t \in Cookies : ResolveSession(c, t) BY <1>3
    <2> QED BY <1>1, <1>2, <2>1 DEF ResolveSession
  <1>4. CASE \E c \in Calls : Answer204(c) \/ SignOutOthers(c)
    BY <1>4 DEF Answer204, SignOutOthers, Answered204
  <1>5. CASE \E c \in Calls : ExtendSession(c)
    BY <1>5 DEF ExtendSession
  <1>6. CASE \E c \in Calls : CheckCurrent(c) BY <1>6 DEF CheckCurrent, Ready
  <1>7. CASE \E c \in Calls : UpdatePassword(c) BY <1>7 DEF UpdatePassword
  <1>8. CASE \/ \E l \in Logins : Verify(l) \/ NewSession(l)
             \/ \E t \in Cookies : Logout(t) \/ Grow(t)
    BY <1>1, <1>8 DEF Verify, NewSession, Logout, Grow
  <1> QED BY <1>1, <1>3, <1>4, <1>5, <1>6, <1>7, <1>8 DEF SessNext, sessVars

LEMMA OpenedStep == ASSUME SInv, Opened, [SessNext]_sessVars PROVE Opened'
  <1>1. /\ password' = password \/ (password < MaxPasswords /\ password' = password + 1)
        /\ settled' = settled \/ \E c \in Calls : settled' = IF settled < call[c].new
                                                             THEN call[c].new ELSE settled
    BY DEF SessNext, sessVars, Verify, NewSession, ResolveSession, ExtendSession, Answer204, Logout,
           CheckCurrent, UpdatePassword, SignOutOthers, Grow
  <1>2. password' \in 1 .. MaxPasswords BY <1>1, SessionsAssumption DEF Opened
  <1>3. settled' >= 1
    <2>1. settled \in Nat /\ \A c \in Calls : call[c].new \in Nat
      BY DEF SInv, SShape, CallRecords
    <2> QED BY <1>1, <2>1 DEF Opened
  <1>4. ASSUME NEW c \in Calls, call'[c].at # "idle"
        PROVE  call'[c].cookie \in Cookies /\ session'[call'[c].cookie].by > 0
    <2>1. CASE call[c].at # "idle" /\ call'[c].cookie = call[c].cookie
      BY <2>1, OpenedStays DEF Opened
    <2>2. CASE call'[c].cookie \in Cookies /\ session[call'[c].cookie].row
      BY <2>2, OpenedStays DEF Opened
    <2> QED BY <1>4, <2>1, <2>2, CookiesStay
  <1> QED BY <1>2, <1>3, <1>4, OpenedStays DEF Opened

\* For any number of browsers, requests and password changes, every variable
\* keeps its type, and nobody holds a version that is not the developer's yet.
THEOREM SessionTypes == SessSpec => []SessTypeOK
  <1>1. SessInit => SInv /\ Opened
    BY SInvInit, SessionsAssumption DEF SessInit, Opened, Unminted, Answered204
  <1>2. SInv /\ Opened /\ [SessNext]_sessVars => SInv' /\ Opened' BY SInvStep, OpenedStep
  <1>3. SInv /\ Opened => SessTypeOK
    BY SessionsAssumption
       DEF SInv, SShape, NothingNewer, Opened, SessTypeOK, SessionRows, CallRecords
  <1> QED BY <1>1, <1>2, <1>3, PTL DEF SessSpec
=============================================================================
