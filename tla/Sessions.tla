------------------------------ MODULE Sessions ------------------------------
(***************************************************************************)
(* One developer's sign-ins (internal/auth/auth.go, handlers_auth.go):       *)
(* logins, requests under a session, whose expiry slides, logouts, and the   *)
(* password changes that sign everybody else out.  Each handler reads and    *)
(* writes the tables in statements of their own.                            *)
(*                                                                          *)
(* A password is its version.  Of time this is kept: a session can be slid   *)
(* ("idle"), has expired, or is past its absolute age.                      *)
(***************************************************************************)
EXTENDS Naturals

CONSTANTS
    Cookies,      \* session tokens
    Logins,       \* browsers that sign in
    Calls,        \* requests that carry a cookie
    NoCookie,
    MaxPasswords,
    MaxErrors     \* failing store calls

ASSUME SessionsAssumption ==
    /\ NoCookie \notin Cookies /\ MaxPasswords \in Nat \ {0} /\ MaxErrors \in Nat

VARIABLES
    password,  \* version of developers.password_hash
    session,   \* sessions: token -> [row, age, over], and by, racy (bookkeeping)
    login,     \* login -> the version it has verified, 0 if none is under way
    call,      \* call -> [at, cookie, slide, new]
    settled,   \* bookkeeping: the newest password whose change has answered 204
    errors

sessVars == <<password, session, login, call, settled, errors>>

\* by: the password the session was opened with, or kept by; 0 before it is minted.
\* racy: that password was no more the developer's when it was opened.
Unminted == [row |-> FALSE, age |-> "new", over |-> FALSE, by |-> 0, racy |-> FALSE]
Answered204 == [at |-> "idle", cookie |-> NoCookie, slide |-> FALSE, new |-> 0]

SessTypeOK ==
    /\ password \in 1 .. MaxPasswords /\ settled \in 1 .. password
    /\ \A t \in Cookies : /\ session[t].age \in {"new", "idle", "expired"}
                          /\ session[t].by \in 0 .. password
                          /\ session[t].row => session[t].by > 0
    /\ \A l \in Logins : login[l] \in 0 .. password
    /\ \A c \in Calls : /\ call[c].at \in {"idle", "resolved", "checked", "updated"}
                        /\ call[c].at # "idle" => session[call[c].cookie].by > 0

SessInit ==
    /\ password = 1 /\ settled = 1
    /\ session = [t \in Cookies |-> Unminted]
    /\ login = [l \in Logins |-> 0]
    /\ call = [c \in Calls |-> Answered204]
    /\ errors = 0

Deleted(s) == [Unminted EXCEPT !.by = s.by]
Drop(ts) == session' = [t \in Cookies |-> IF t \in ts THEN Deleted(session[t]) ELSE session[t]]
CallAt(c, r) == call' = [call EXCEPT ![c] = r]

-----------------------------------------------------------------------------
(* Login, then NewSession.                                                  *)

\* Login: the password that was typed is the one of the row as it is read.
Verify(l) ==
    /\ login[l] = 0
    /\ login' = [login EXCEPT ![l] = password]
    /\ UNCHANGED <<password, session, call, settled, errors>>

NewSession(l) ==
    /\ login[l] > 0
    /\ \E t \in Cookies :
         /\ session[t].by = 0
         /\ session' = [session EXCEPT ![t] = [Unminted EXCEPT !.row = TRUE, !.by = login[l],
                                                              !.racy = login[l] # password]]
    /\ login' = [login EXCEPT ![l] = 0]
    /\ UNCHANGED <<password, call, settled, errors>>

-----------------------------------------------------------------------------
(* A request under a session.                                               *)

\* SessionDeveloper's lookup, which a session past its absolute age does not survive.
ResolveSession(c, t) ==
    /\ call[c].at = "idle"
    /\ session[t].row /\ session[t].age # "expired"
    /\ \/ session[t].over /\ Drop({t}) /\ UNCHANGED call
       \/ /\ ~session[t].over
          /\ CallAt(c, [Answered204 EXCEPT !.at = "resolved", !.cookie = t,
                                           !.slide = session[t].age = "idle"])
          /\ UNCHANGED session
    /\ UNCHANGED <<password, login, settled, errors>>

\* Mutant: the row is written, whether it is there or not.
Extends(t) == t \in Cookies

\* The WHERE of ExtendSession.
Extended(t) == session[t].row

ExtendSession(c) ==
    LET t == call[c].cookie
    IN  /\ call[c].at = "resolved" /\ call[c].slide
        /\ session' = IF Extended(t) THEN [session EXCEPT ![t].age = "new", ![t].row = TRUE]
                      ELSE session
        /\ CallAt(c, [call[c] EXCEPT !.slide = FALSE])
        /\ UNCHANGED <<password, login, settled, errors>>

Ready(c) == call[c].at = "resolved" /\ ~call[c].slide

\* Any other handler runs and answers.
Answer204(c) ==
    /\ Ready(c)
    /\ CallAt(c, Answered204)
    /\ UNCHANGED <<password, session, login, settled, errors>>

\* handleLogout: the session of the cookie goes, whether it still resolves or not,
\* and whatever requests are under way with it.
Logout(t) ==
    /\ session[t].by > 0
    /\ Drop({t})
    /\ UNCHANGED <<password, login, call, settled, errors>>

\* ChangePassword: the current password is verified, the new one hashed.
CheckCurrent(c) ==
    /\ Ready(c)
    /\ CallAt(c, [call[c] EXCEPT !.at = "checked"])
    /\ UNCHANGED <<password, session, login, settled, errors>>

\* UPDATE developers, of the hash alone.
UpdatePassword(c) ==
    /\ call[c].at = "checked" /\ password < MaxPasswords
    /\ password' = password + 1
    /\ CallAt(c, [call[c] EXCEPT !.at = "updated", !.new = password + 1])
    /\ UNCHANGED <<session, login, settled, errors>>

\* handleChangePassword: DeleteSessionsExcept the cookie's own, or a 500.
SignOutOthers(c) ==
    /\ call[c].at = "updated"
    /\ \/ /\ session' = [t \in Cookies |->
                           IF t = call[c].cookie
                           THEN [session[t] EXCEPT !.by = IF @ < call[c].new THEN call[c].new ELSE @]
                           ELSE Deleted(session[t])]
          /\ settled' = IF settled < call[c].new THEN call[c].new ELSE settled
          /\ UNCHANGED errors
       \/ errors < MaxErrors /\ errors' = errors + 1 /\ UNCHANGED <<session, settled>>
    /\ CallAt(c, Answered204)
    /\ UNCHANGED <<password, login>>

\* Time.
Grow(t) ==
    /\ session[t].row
    /\ \/ session[t].age = "new" /\ session' = [session EXCEPT ![t].age = "idle"]
       \/ session[t].age = "idle" /\ session' = [session EXCEPT ![t].age = "expired"]
       \/ ~session[t].over /\ session' = [session EXCEPT ![t].over = TRUE]
    /\ UNCHANGED <<password, login, call, settled, errors>>

SessNext ==
    \/ \E l \in Logins : Verify(l) \/ NewSession(l)
    \/ \E c \in Calls :
         \/ \E t \in Cookies : ResolveSession(c, t)
         \/ ExtendSession(c) \/ Answer204(c)
         \/ CheckCurrent(c) \/ UpdatePassword(c) \/ SignOutOthers(c)
    \/ \E t \in Cookies : Logout(t) \/ Grow(t)

SessSpec == SessInit /\ [][SessNext]_sessVars

-----------------------------------------------------------------------------
(***************************************************************************)
(* Properties.                                                              *)
(***************************************************************************)
\* handleChangePassword: "every other session dies with the old password".  Once
\* a change has answered, no slide, no other change and no login brings back a
\* session of an older password, except a login that had verified it before.
OldPasswordIsOut ==
    \A t \in Cookies : session[t].row => session[t].by >= settled \/ session[t].racy
=============================================================================
