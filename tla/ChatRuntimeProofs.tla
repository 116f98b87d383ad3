-------------------------- MODULE ChatRuntimeProofs --------------------------
(***************************************************************************)
(* Theorems about ChatRuntime, for any accounts, devices, actors, requests, *)
(* ceiling and failure limit, with kills and restarts at any point.         *)
(*                                                                          *)
(* None of its safety properties is inductive.  What they rest on:          *)
(*   ActorShape   what an actor's fields may be where it is in run;         *)
(*   CallShape    whose actor a caller is about to cancel;                  *)
(*   EntryShape   what an entry of Runtime.actors or of conns refers to;    *)
(*   LiveIsHeld   an actor that is not on its way out is in its account's   *)
(*                entry, or some caller has taken it out to cancel it;      *)
(*   GoneIsDark   an actor of an account whose row is gone is about to find *)
(*                no session, unless somebody detaches it.                  *)
(***************************************************************************)
EXTENDS ChatRuntime, FiniteSetTheorems, TLAPS

RowShape(r) ==
    /\ r.at = "unused" => r = Unused
    /\ r.at # "unused" => r.acct \in Accounts
    /\ r.sock # "none" => r.at \in {"dialing", "serving", "closing"}
    /\ r.disc = "stop" => r.stopped \/ ctxDone
    /\ r.at = "exit" => r.stopped
    /\ r.at \in {"forget", "unsession", "mark"} => r.terminating

ActorShape == \A x \in Actors : RowShape(actor[x])

CallRowShape(q) ==
    /\ q.at \notin {"idle", "done"} => q.acct \in Accounts
    /\ q.victim # None => q.at = "stop"
    /\ q.at \in {"take", "stop"} => q.op = "reconnect" \/ q.acct \in deleted

CallShape ==
    \A c \in Callers :
        /\ CallRowShape(call[c])
        /\ \A x \in Actors : (call[c].victim = x /\ Active(x)) => actor[x].acct = call[c].acct

EntryShape ==
    \A a \in Accounts, x \in Actors :
        /\ slot[a] = x => Active(x) /\ actor[x].acct = a
        /\ conns[a] = x => actor[x].at \in {"serving", "closing"} /\ actor[x].acct = a

LiveIsHeld ==
    \A x \in Actors :
        Live(x) => slot[actor[x].acct] = x \/ \E c \in Callers : call[c].victim = x

Shape == ActorShape /\ CallShape /\ EntryShape

\* The row of chat_sessions cannot outlive its account.
SessionHasAccount == \A a \in Accounts : status[a] = "absent" => session[a] = None

FindsNoSession(r) ==
    /\ r.sock = "none"
    /\ r.at = "start" \/ (r.at = "decide" /\ r.disc = "loggedOut")

GoneIsDark ==
    \A x \in Actors :
        (Live(x) /\ status[actor[x].acct] = "absent") =>
            \/ FindsNoSession(actor[x])
            \/ \E c \in Callers : call[c].victim = x
            \/ \E c \in Callers : call[c].at = "take" /\ call[c].acct = actor[x].acct

WaitInv == waited => ctxDone /\ QuietAfterWait

CeilingInv == IsFiniteSet({x \in Slotted : Live(x)}) /\ CeilingHeld

-----------------------------------------------------------------------------
(***************************************************************************)
(* What most of an actor's steps have in common: one row changes, to one of *)
(* the same account, no less on its way out than before, connected only if  *)
(* it was.                                                                  *)
(***************************************************************************)
Carries(p, r) ==
    /\ p.at # "unused" /\ r.at # "unused"
    /\ r.acct = p.acct
    /\ p.stopped => r.stopped
    /\ p.terminating => r.terminating \/ r.stopped
    /\ p.at \in {"serving", "closing"} => r.at \in {"serving", "closing"}
    /\ (r.at = "serving" /\ r.sock = "open") => (p.at = "serving" /\ p.sock = "open")
    /\ (FindsNoSession(p) /\ session[p.acct] = None) =>
            FindsNoSession(r) \/ r.terminating \/ r.stopped

\* It goes on trying, unless the account is no longer OK or a caller cancels it.
Stays(x, r) ==
    (~actor[x].stopped /\ ~ctxDone /\ actor[x].at # "exit") =>
        \/ ~r.stopped /\ r.at # "exit"
        \/ status'[actor[x].acct] # "ok"
        \/ \E c \in Requests : DetachStop(c) /\ call[c].victim = x

Turn(x, r) ==
    /\ Stays(x, r)
    /\ r \in ActorRows
    /\ actor' = [actor EXCEPT ![x] = r]
    /\ Carries(actor[x], r)
    /\ RowShape(r)

LEMMA LeavingRow ==
  ASSUME NEW a \in Accounts \cup {None}
  PROVE  /\ [Unused EXCEPT !.acct = a, !.at = "exit", !.stopped = TRUE] \in ActorRows
         /\ Unused \in ActorRows
  <1>1. 0 \in 0 .. MaxFailures - 1 BY ChatRuntimeAssumption
  <1> QED BY <1>1 DEF Unused, ActorRows

LEMMA FailureCount ==
  /\ 0 \in 0 .. MaxFailures - 1
  /\ \A n \in 0 .. MaxFailures - 1 :
        n \in Nat /\ (n + 1 >= MaxFailures \/ n + 1 \in 0 .. MaxFailures - 1)
  BY ChatRuntimeAssumption

LEMMA DialTurn ==
  ASSUME TypeOK, ActorShape, NEW x \in Actors, Dial(x)
  PROVE  \E r \in ActorRows : Turn(x, r)
  <1>1. /\ actor \in [Actors -> ActorRows] /\ actor[x] \in ActorRows
        /\ session \in [Accounts -> Devices \cup {None}] /\ MaxFailures \in Nat \ {0}
        /\ RowShape(actor[x]) /\ actor[x].at = "start" /\ actor[x].acct \in Accounts
    BY ChatRuntimeAssumption DEF TypeOK, ActorShape, RowShape, Dial
  <1>2. CASE session[actor[x].acct] = None
    <2> DEFINE r == [actor[x] EXCEPT !.at = "decide", !.disc = "loggedOut"]
    <2>1. actor' = [actor EXCEPT ![x] = r] BY <1>1, <1>2 DEF Dial, Over
    <2>2. r \in ActorRows BY <1>1, <1>2 DEF ActorRows
    <2>3. Carries(actor[x], r) /\ RowShape(r) /\ Stays(x, r)
      BY <1>1, <1>2 DEF Carries, FindsNoSession, Stays, RowShape, ActorRows
    <2> QED BY <2>1, <2>2, <2>3 DEF Turn
  <1>3. CASE session[actor[x].acct] # None
    <2> DEFINE r == [actor[x] EXCEPT !.at = "dial", !.dev = session[actor[x].acct],
                                    !.disc = "none", !.sock = "none"]
    <2>1. actor' = [actor EXCEPT ![x] = r] BY <1>1, <1>3 DEF Dial, Over
    <2>2. r \in ActorRows BY <1>1, <1>3 DEF ActorRows
    <2>3. Carries(actor[x], r) /\ RowShape(r) /\ Stays(x, r)
      BY <1>1, <1>3 DEF Carries, FindsNoSession, Stays, RowShape, ActorRows
    <2> QED BY <2>1, <2>2, <2>3 DEF Turn
  <1> QED BY <1>1, <1>2, <1>3 DEF Dial, Over, ActorRows

LEMMA LoadDeviceTurn ==
  ASSUME TypeOK, ActorShape, NEW x \in Actors, LoadDevice(x)
  PROVE  \E r \in ActorRows : Turn(x, r)
  <1>1. /\ actor \in [Actors -> ActorRows] /\ actor[x] \in ActorRows
        /\ session \in [Accounts -> Devices \cup {None}] /\ MaxFailures \in Nat \ {0}
        /\ RowShape(actor[x]) /\ actor[x].at = "dial" /\ actor[x].acct \in Accounts
    BY ChatRuntimeAssumption DEF TypeOK, ActorShape, RowShape, LoadDevice
  <1>2. CASE Cancelled(x)
    <2> DEFINE r == [actor[x] EXCEPT !.at = "decide", !.disc = "dropped"]
    <2>1. actor' = [actor EXCEPT ![x] = r] BY <1>1, <1>2 DEF LoadDevice, Over, Cancelled
    <2>2. r \in ActorRows BY <1>1, <1>2 DEF ActorRows
    <2>3. Carries(actor[x], r) /\ RowShape(r) /\ Stays(x, r)
      BY <1>1, <1>2 DEF Carries, FindsNoSession, Stays, RowShape, ActorRows, Cancelled
    <2> QED BY <2>1, <2>2, <2>3 DEF Turn
  <1>3. CASE ~Cancelled(x) /\ actor[x].dev \notin devices
    <2> DEFINE r == [actor[x] EXCEPT !.at = "decide", !.disc = "loggedOut"]
    <2>1. actor' = [actor EXCEPT ![x] = r] BY <1>1, <1>3 DEF LoadDevice, Over, Cancelled
    <2>2. r \in ActorRows BY <1>1, <1>3 DEF ActorRows
    <2>3. Carries(actor[x], r) /\ RowShape(r) /\ Stays(x, r)
      BY <1>1, <1>3 DEF Carries, FindsNoSession, Stays, RowShape, ActorRows, Cancelled
    <2> QED BY <2>1, <2>2, <2>3 DEF Turn
  <1>4. CASE ~Cancelled(x) /\ actor[x].dev \in devices
    <2> DEFINE r == [actor[x] EXCEPT !.at = "dialing", !.sock = "open"]
    <2>1. actor' = [actor EXCEPT ![x] = r] BY <1>1, <1>4 DEF LoadDevice, Over, Cancelled
    <2>2. r \in ActorRows BY <1>1, <1>4 DEF ActorRows
    <2>3. Carries(actor[x], r) /\ RowShape(r) /\ Stays(x, r)
      BY <1>1, <1>4 DEF Carries, FindsNoSession, Stays, RowShape, ActorRows, Cancelled
    <2> QED BY <2>1, <2>2, <2>3 DEF Turn
  <1> QED BY <1>1, <1>2, <1>3, <1>4 DEF LoadDevice, Over, Cancelled, ActorRows

LEMMA DialFailsTurn ==
  ASSUME TypeOK, ActorShape, NEW x \in Actors, DialFails(x)
  PROVE  \E r \in ActorRows : Turn(x, r)
  <1>1. /\ actor \in [Actors -> ActorRows] /\ actor[x] \in ActorRows
        /\ session \in [Accounts -> Devices \cup {None}] /\ MaxFailures \in Nat \ {0}
        /\ RowShape(actor[x]) /\ actor[x].at = "dialing" /\ actor[x].acct \in Accounts
    BY ChatRuntimeAssumption DEF TypeOK, ActorShape, RowShape, DialFails
  <1> DEFINE r == [actor[x] EXCEPT !.at = "decide", !.disc = "dropped", !.sock = "none"]
  <1>2. actor' = [actor EXCEPT ![x] = r] BY <1>1 DEF DialFails
  <1>3. r \in ActorRows BY <1>1 DEF ActorRows
  <1>4. Carries(actor[x], r) /\ RowShape(r) /\ Stays(x, r)
    BY <1>1 DEF Carries, FindsNoSession, Stays, RowShape, ActorRows
  <1> QED BY <1>2, <1>3, <1>4 DEF Turn

LEMMA StabilisedTurn ==
  ASSUME TypeOK, ActorShape, NEW x \in Actors, Stabilised(x)
  PROVE  \E r \in ActorRows : Turn(x, r)
  <1>1. /\ actor \in [Actors -> ActorRows] /\ actor[x] \in ActorRows
        /\ session \in [Accounts -> Devices \cup {None}] /\ MaxFailures \in Nat \ {0}
        /\ RowShape(actor[x]) /\ actor[x].at = "serving" /\ actor[x].acct \in Accounts
    BY ChatRuntimeAssumption DEF TypeOK, ActorShape, RowShape, Stabilised
  <1> DEFINE r == [actor[x] EXCEPT !.failures = 0]
  <1>2. actor' = [actor EXCEPT ![x] = r] BY <1>1 DEF Stabilised
  <1>3. r \in ActorRows BY <1>1, FailureCount DEF ActorRows
  <1>4. Carries(actor[x], r) /\ RowShape(r) /\ Stays(x, r)
    BY <1>1 DEF Carries, FindsNoSession, Stays, RowShape, ActorRows
  <1> QED BY <1>2, <1>3, <1>4 DEF Turn

LEMMA ServeEndsTurn ==
  ASSUME TypeOK, ActorShape, NEW x \in Actors, ServeEnds(x)
  PROVE  \E r \in ActorRows : Turn(x, r)
  <1>1. /\ actor \in [Actors -> ActorRows] /\ actor[x] \in ActorRows
        /\ session \in [Accounts -> Devices \cup {None}] /\ MaxFailures \in Nat \ {0}
        /\ RowShape(actor[x]) /\ actor[x].at = "serving" /\ actor[x].acct \in Accounts
    BY ChatRuntimeAssumption DEF TypeOK, ActorShape, RowShape, ServeEnds
  <1>2. CASE actor' = [actor EXCEPT ![x].at = "closing"]
    <2> DEFINE r == [actor[x] EXCEPT !.at = "closing"]
    <2>1. actor' = [actor EXCEPT ![x] = r] BY <1>1, <1>2 DEF ServeEnds, Move, Cancelled
    <2>2. r \in ActorRows BY <1>1, <1>2 DEF ActorRows
    <2>3. Carries(actor[x], r) /\ RowShape(r) /\ Stays(x, r)
      BY <1>1, <1>2 DEF Carries, FindsNoSession, Stays, RowShape, ActorRows, Cancelled
    <2> QED BY <2>1, <2>2, <2>3 DEF Turn
  <1>3. CASE Cancelled(x) /\ actor' = [actor EXCEPT ![x].at = "closing", ![x].disc = "stop"]
    <2> DEFINE r == [actor[x] EXCEPT !.at = "closing", !.disc = "stop"]
    <2>1. actor' = [actor EXCEPT ![x] = r] BY <1>1, <1>3 DEF ServeEnds, Move, Cancelled
    <2>2. r \in ActorRows BY <1>1, <1>3 DEF ActorRows
    <2>3. Carries(actor[x], r) /\ RowShape(r) /\ Stays(x, r)
      BY <1>1, <1>3 DEF Carries, FindsNoSession, Stays, RowShape, ActorRows, Cancelled
    <2> QED BY <2>1, <2>2, <2>3 DEF Turn
  <1> QED BY <1>1, <1>2, <1>3 DEF ServeEnds, Move, Cancelled, ActorRows

LEMMA DecideTurn ==
  ASSUME TypeOK, ActorShape, NEW x \in Actors, Decide(x)
  PROVE  \E r \in ActorRows : Turn(x, r)
  <1>1. /\ actor \in [Actors -> ActorRows] /\ actor[x] \in ActorRows
        /\ session \in [Accounts -> Devices \cup {None}] /\ MaxFailures \in Nat \ {0}
        /\ RowShape(actor[x]) /\ actor[x].at = "decide" /\ actor[x].acct \in Accounts
    BY ChatRuntimeAssumption DEF TypeOK, ActorShape, RowShape, Decide
  <1>2. CASE actor[x].disc = "stop"
    <2> DEFINE r == [Unused EXCEPT !.acct = actor[x].acct, !.at = "exit", !.stopped = TRUE]
    <2>1. actor' = [actor EXCEPT ![x] = r] BY <1>1, <1>2 DEF Decide, Leave, GiveUp, Unused
    <2>2. r \in ActorRows BY <1>1, <1>2, LeavingRow DEF ActorRows
    <2>3. Carries(actor[x], r) /\ RowShape(r) /\ Stays(x, r)
      BY <1>1, <1>2 DEF Carries, FindsNoSession, Stays, RowShape, ActorRows, Unused
    <2> QED BY <2>1, <2>2, <2>3 DEF Turn
  <1>3. CASE actor[x].disc # "stop" /\ (actor[x].disc = "loggedOut" \/ actor[x].failures + 1 >= MaxFailures)
    <2> DEFINE r == [actor[x] EXCEPT !.at = "forget", !.terminating = TRUE,
                                    !.disc = "none", !.failures = 0]
    <2>1. actor' = [actor EXCEPT ![x] = r] BY <1>1, <1>3 DEF Decide, Leave, GiveUp, Unused
    <2>2. r \in ActorRows BY <1>1, <1>3, FailureCount DEF ActorRows
    <2>3. Carries(actor[x], r) /\ RowShape(r) /\ Stays(x, r)
      BY <1>1, <1>3 DEF Carries, FindsNoSession, Stays, RowShape, ActorRows
    <2> QED BY <2>1, <2>2, <2>3 DEF Turn
  <1>4. CASE actor[x].disc \notin {"stop", "loggedOut"} /\ actor[x].failures + 1 < MaxFailures
    <2> DEFINE r == [actor[x] EXCEPT !.at = "backoff", !.failures = actor[x].failures + 1,
                                     !.disc = "none", !.dev = None]
    <2>1. actor[x].failures \in 0 .. MaxFailures - 1 BY <1>1 DEF ActorRows
    <2>2. /\ actor[x].failures + 1 \in 0 .. MaxFailures - 1
          /\ ~(actor[x].failures + 1 >= MaxFailures)
      BY <1>1, <1>4, <2>1, FailureCount
    <2>3. actor' = [actor EXCEPT ![x] = r] BY <1>1, <1>4, <2>2 DEF Decide
    <2>4. r \in ActorRows BY <1>1, <2>2 DEF ActorRows
    <2>5. Carries(actor[x], r) /\ RowShape(r) /\ Stays(x, r)
      BY <1>1, <1>4 DEF Carries, FindsNoSession, Stays, RowShape, ActorRows
    <2> QED BY <2>3, <2>4, <2>5 DEF Turn
  <1> QED BY <1>1, <1>2, <1>3, <1>4 DEF Decide, Leave, GiveUp, Unused, ActorRows

LEMMA WakeTurn ==
  ASSUME TypeOK, ActorShape, NEW x \in Actors, Wake(x)
  PROVE  \E r \in ActorRows : Turn(x, r)
  <1>1. /\ actor \in [Actors -> ActorRows] /\ actor[x] \in ActorRows
        /\ session \in [Accounts -> Devices \cup {None}] /\ MaxFailures \in Nat \ {0}
        /\ RowShape(actor[x]) /\ actor[x].at = "backoff" /\ actor[x].acct \in Accounts
    BY ChatRuntimeAssumption DEF TypeOK, ActorShape, RowShape, Wake
  <1>2. CASE Cancelled(x)
    <2> DEFINE r == [Unused EXCEPT !.acct = actor[x].acct, !.at = "exit", !.stopped = TRUE]
    <2>1. actor' = [actor EXCEPT ![x] = r]
      BY <1>1, <1>2 DEF Wake, Leave, Move, Unused, Cancelled
    <2>2. r \in ActorRows BY <1>1, <1>2, LeavingRow DEF ActorRows
    <2>3. Carries(actor[x], r) /\ RowShape(r) /\ Stays(x, r)
      BY <1>1, <1>2 DEF Carries, FindsNoSession, Stays, RowShape, ActorRows, Unused, Cancelled
    <2> QED BY <2>1, <2>2, <2>3 DEF Turn
  <1>3. CASE ~Cancelled(x)
    <2> DEFINE r == [actor[x] EXCEPT !.at = "start"]
    <2>1. actor' = [actor EXCEPT ![x] = r]
      BY <1>1, <1>3 DEF Wake, Leave, Move, Unused, Cancelled
    <2>2. r \in ActorRows BY <1>1, <1>3 DEF ActorRows
    <2>3. Carries(actor[x], r) /\ RowShape(r) /\ Stays(x, r)
      BY <1>1, <1>3 DEF Carries, FindsNoSession, Stays, RowShape, ActorRows, Cancelled
    <2> QED BY <2>1, <2>2, <2>3 DEF Turn
  <1> QED BY <1>1, <1>2, <1>3 DEF Wake, Leave, Move, Unused, Cancelled, ActorRows

LEMMA ForgetTurn ==
  ASSUME TypeOK, ActorShape, NEW x \in Actors, Forget(x)
  PROVE  \E r \in ActorRows : Turn(x, r)
  <1>1. /\ actor \in [Actors -> ActorRows] /\ actor[x] \in ActorRows
        /\ session \in [Accounts -> Devices \cup {None}] /\ MaxFailures \in Nat \ {0}
        /\ RowShape(actor[x]) /\ actor[x].at = "forget" /\ actor[x].acct \in Accounts
    BY ChatRuntimeAssumption DEF TypeOK, ActorShape, RowShape, Forget
  <1>2. CASE status[actor[x].acct] = "absent"
    <2> DEFINE r == [Unused EXCEPT !.acct = actor[x].acct, !.at = "exit", !.stopped = TRUE]
    <2>1. actor' = [actor EXCEPT ![x] = r] BY <1>1, <1>2 DEF Forget, Leave, Move, Unused
    <2>2. r \in ActorRows BY <1>1, <1>2, LeavingRow DEF ActorRows
    <2>3. Carries(actor[x], r) /\ RowShape(r) /\ Stays(x, r)
      BY <1>1, <1>2 DEF Carries, Forget, FindsNoSession, Stays, RowShape, ActorRows, Unused
    <2> QED BY <2>1, <2>2, <2>3 DEF Turn
  <1>3. CASE status[actor[x].acct] # "absent"
    <2> DEFINE r == [actor[x] EXCEPT !.at = "unsession"]
    <2>1. actor' = [actor EXCEPT ![x] = r] BY <1>1, <1>3 DEF Forget, Leave, Move, Unused
    <2>2. r \in ActorRows BY <1>1, <1>3 DEF ActorRows
    <2>3. Carries(actor[x], r) /\ RowShape(r) /\ Stays(x, r)
      BY <1>1, <1>3 DEF Carries, Forget, FindsNoSession, Stays, RowShape, ActorRows
    <2> QED BY <2>1, <2>2, <2>3 DEF Turn
  <1> QED BY <1>1, <1>2, <1>3 DEF Forget, Leave, Move, Unused, ActorRows

LEMMA UnsessionTurn ==
  ASSUME TypeOK, ActorShape, NEW x \in Actors, Unsession(x)
  PROVE  \E r \in ActorRows : Turn(x, r)
  <1>1. /\ actor \in [Actors -> ActorRows] /\ actor[x] \in ActorRows
        /\ session \in [Accounts -> Devices \cup {None}] /\ MaxFailures \in Nat \ {0}
        /\ RowShape(actor[x]) /\ actor[x].at = "unsession" /\ actor[x].acct \in Accounts
    BY ChatRuntimeAssumption DEF TypeOK, ActorShape, RowShape, Unsession
  <1> DEFINE r == [actor[x] EXCEPT !.at = "mark"]
  <1>2. actor' = [actor EXCEPT ![x] = r] BY <1>1 DEF Unsession, Move
  <1>3. r \in ActorRows BY <1>1 DEF ActorRows
  <1>4. Carries(actor[x], r) /\ RowShape(r) /\ Stays(x, r)
    BY <1>1 DEF Carries, FindsNoSession, Stays, RowShape, ActorRows
  <1> QED BY <1>2, <1>3, <1>4 DEF Turn

LEMMA MarkCredentialsTurn ==
  ASSUME TypeOK, ActorShape, NEW x \in Actors, MarkCredentials(x)
  PROVE  \E r \in ActorRows : Turn(x, r)
  <1>1. /\ actor \in [Actors -> ActorRows] /\ actor[x] \in ActorRows
        /\ session \in [Accounts -> Devices \cup {None}] /\ MaxFailures \in Nat \ {0}
        /\ RowShape(actor[x]) /\ actor[x].at = "mark" /\ actor[x].acct \in Accounts
    BY ChatRuntimeAssumption DEF TypeOK, ActorShape, RowShape, MarkCredentials
  <1> DEFINE r == [Unused EXCEPT !.acct = actor[x].acct, !.at = "exit", !.stopped = TRUE]
  <1>2. actor' = [actor EXCEPT ![x] = r] BY <1>1 DEF MarkCredentials, Leave, Unused
  <1>3. r \in ActorRows BY <1>1, LeavingRow DEF ActorRows
  <1>4. Carries(actor[x], r) /\ RowShape(r)
    BY <1>1 DEF Carries, FindsNoSession, RowShape, ActorRows, Unused
  <1>5. status'[actor[x].acct] # "ok" BY <1>1 DEF MarkCredentials, TypeOK
  <1>6. Stays(x, r) BY <1>5 DEF Stays
  <1> QED BY <1>2, <1>3, <1>4, <1>6 DEF Turn

LEMMA ReportTurn ==
  ASSUME TypeOK, ActorShape, NEW x \in Actors, NEW why \in {"none", "dropped", "loggedOut"},
         actor[x].sock = "open",
         actor' = [actor EXCEPT ![x].sock = "dead", ![x].disc = IF @ = "none" THEN why ELSE @]
  PROVE  \E r \in ActorRows : Turn(x, r)
  <1>1. actor \in [Actors -> ActorRows] /\ actor[x] \in ActorRows /\ RowShape(actor[x])
    BY DEF TypeOK, ActorShape
  <1> DEFINE d == IF actor[x].disc = "none" THEN why ELSE actor[x].disc
             r == [actor[x] EXCEPT !.sock = "dead", !.disc = d]
  <1>2. actor' = [actor EXCEPT ![x] = r] BY <1>1
  <1>3. r \in ActorRows BY <1>1 DEF ActorRows
  <1>4. Carries(actor[x], r) /\ RowShape(r) /\ Stays(x, r)
    BY <1>1 DEF Carries, FindsNoSession, Stays, RowShape, ActorRows
  <1> QED BY <1>2, <1>3, <1>4 DEF Turn

LEMMA StopTurn ==
  ASSUME TypeOK, ActorShape, NEW x \in Actors, Active(x),
         NEW c \in Requests, DetachStop(c), call[c].victim = x,
         actor' = [actor EXCEPT ![x].stopped = TRUE]
  PROVE  \E r \in ActorRows : Turn(x, r) /\ r.stopped
  <1>1. actor \in [Actors -> ActorRows] /\ actor[x] \in ActorRows /\ RowShape(actor[x])
    BY DEF TypeOK, ActorShape
  <1> DEFINE r == [actor[x] EXCEPT !.stopped = TRUE]
  <1>2. actor' = [actor EXCEPT ![x] = r] BY <1>1
  <1>3. r \in ActorRows BY <1>1 DEF ActorRows
  <1>4. Carries(actor[x], r) /\ RowShape(r) /\ r.stopped
    BY <1>1 DEF Carries, RowShape, ActorRows, Active
  <1>5. Stays(x, r) BY DEF Stays
  <1> QED BY <1>2, <1>3, <1>4, <1>5 DEF Turn

-----------------------------------------------------------------------------
(***************************************************************************)
(* Types and shapes.                                                        *)
(***************************************************************************)
CInv == TypeOK /\ Shape

LEMMA InitCInv == Init => CInv
  <1> SUFFICES ASSUME Init PROVE CInv OBVIOUS
  <1>1. actor \in [Actors -> ActorRows] BY LeavingRow DEF Init
  <1>2. call \in [Callers -> CallRows] BY DEF Init, CallRows, Idle
  <1>3. TypeOK BY <1>1, <1>2, ChatRuntimeAssumption DEF Init, TypeOK
  <1>4. ActorShape BY DEF Init, ActorShape, RowShape, Unused
  <1>5. CallShape
    BY ChatRuntimeAssumption DEF Init, CallShape, CallRowShape, Idle, Active, Unused
  <1>6. EntryShape BY ChatRuntimeAssumption DEF Init, EntryShape
  <1> QED BY <1>3, <1>4, <1>5, <1>6 DEF CInv, Shape

\* What a caller that has finished with an account leaves it in.
Settled(a) ==
    status'[a] # "ok" \/ a \in deleted' \cup refused' \/ ctxDone' \/ Install(a)

\* A caller that moves on refers to no actor, unless it takes one out.
CallsMove ==
    /\ call' \in [Callers -> CallRows]
    /\ deleted \subseteq deleted'
    /\ \A c \in Callers :
          \/ call'[c] = call[c]
          \/ /\ CallRowShape(call[c])' /\ call'[c].victim = None
             /\ call[c].at # "take"
             /\ call[c].at \notin {"idle", "done"} =>
                    \/ call'[c].at \notin {"idle", "done"} /\ call'[c].acct = call[c].acct
                    \/ Settled(call[c].acct)
             /\ \A x \in Actors : call[c].victim = x => ~Live(x)'

\* A turn of one actor keeps the shapes.
LEMMA TurnKeeps ==
  ASSUME CInv, NEW x \in Actors, NEW r, Turn(x, r),
         UNCHANGED <<slot, conns, ctxDone>>, CallsMove
  PROVE  ActorShape' /\ CallShape' /\ EntryShape' /\ actor' \in [Actors -> ActorRows]
  <1>1. actor \in [Actors -> ActorRows] /\ actor' \in [Actors -> ActorRows]
    BY DEF CInv, TypeOK, Turn
  <1>2. actor'[x] = r /\ \A y \in Actors : y # x => actor'[y] = actor[y]
    BY <1>1 DEF Turn
  <1>3. ActorShape'
    BY <1>2 DEF CInv, Shape, ActorShape, RowShape, Turn
  <1>4. \A y \in Actors : Active(y)' <=> Active(y)
    BY <1>2 DEF Active, Turn, Carries
  <1>5. \A y \in Actors : actor'[y].acct = actor[y].acct
    BY <1>2 DEF Turn, Carries
  <1>6. CallShape'
    BY <1>4, <1>5, ChatRuntimeAssumption
       DEF CInv, Shape, CallShape, CallRowShape, CallsMove
  <1>7. EntryShape'
    BY <1>2, <1>4, <1>5 DEF CInv, Shape, EntryShape, Turn, Carries
  <1> QED BY <1>1, <1>3, <1>6, <1>7

LEMMA RowMoves ==
  ASSUME CInv, NEW c \in Callers, NEW q \in CallRows, call' = [call EXCEPT ![c] = q],
         CallRowShape(q)', q.victim = None, deleted \subseteq deleted',
         call[c].at # "take",
         call[c].at \notin {"idle", "done"} =>
            \/ q.at \notin {"idle", "done"} /\ q.acct = call[c].acct
            \/ Settled(call[c].acct),
         \A x \in Actors : call[c].victim = x => ~Live(x)'
  PROVE  CallsMove
  <1>1. call \in [Callers -> CallRows] BY DEF CInv, TypeOK
  <1>2. call' \in [Callers -> CallRows] BY <1>1
  <1>3. call'[c] = q /\ \A d \in Callers : d # c => call'[d] = call[d] BY <1>1
  <1>4. CallRowShape(call[c])' BY <1>3 DEF CallRowShape
  <1> QED BY <1>2, <1>3, <1>4 DEF CallsMove

\* The caller is not about to cancel anybody.
LEMMA NoVictim ==
  ASSUME CInv, NEW c \in Callers, call[c].at # "stop"
  PROVE  call[c].victim = None /\ \A x \in Actors : call[c].victim # x
  BY ChatRuntimeAssumption DEF CInv, Shape, CallShape, CallRowShape

LEMMA DoneRow ==
  LET q == [Idle EXCEPT !.at = "done"]
  IN  q \in CallRows /\ q.at = "done" /\ q.victim = None
  BY DEF Idle, CallRows

LEMMA FinishMoves ==
  ASSUME CInv, NEW c \in Callers, Finish(c), deleted \subseteq deleted',
         call[c].at # "take", Settled(call[c].acct),
         \A x \in Actors : call[c].victim = x => ~Live(x)'
  PROVE  CallsMove
  <1> DEFINE q == [Idle EXCEPT !.at = "done"]
  <1>1. q \in CallRows /\ q.at = "done" /\ q.victim = None BY DoneRow
  <1>2. call' = [call EXCEPT ![c] = q] BY DEF Finish
  <1> HIDE DEF q
  <1>3. CallRowShape(q)' BY <1>1 DEF CallRowShape
  <1> QED BY <1>1, <1>2, <1>3, RowMoves

LEMMA StepMoves ==
  ASSUME CInv, NEW c \in Callers,
         NEW at \in {"forget", "save", "attach", "install", "unlink", "unsession", "delete", "take"},
         call[c].at \notin {"idle", "done", "stop", "take"}, Step(c, at), deleted \subseteq deleted',
         at = "take" => call[c].acct \in deleted'
  PROVE  CallsMove
  <1>1. call \in [Callers -> CallRows] /\ call[c] \in CallRows /\ CallRowShape(call[c])
    BY DEF CInv, TypeOK, Shape, CallShape
  <1>2. [call[c] EXCEPT !.at = at] \in CallRows
    BY <1>1 DEF CallRows
  <1>3. PICK q \in CallRows : q = [call[c] EXCEPT !.at = at]
    BY <1>2
  <1>4. q.at = at /\ q.victim = call[c].victim /\ q.acct = call[c].acct
    BY <1>1, <1>3 DEF CallRows
  <1>5. call' = [call EXCEPT ![c] = q] BY <1>1, <1>3 DEF Step
  <1>6. q.victim = None /\ \A x \in Actors : call[c].victim # x
    BY <1>4, NoVictim
  <1>7. CallRowShape(q)'
    BY <1>1, <1>4, <1>6 DEF CallRowShape
  <1>8. q.at \notin {"idle", "done"} BY <1>4
  <1> QED BY <1>4, <1>5, <1>6, <1>7, <1>8, RowMoves

LEMMA StopMoves ==
  ASSUME CInv, NEW c \in Callers, call[c].at = "stop", deleted' = deleted,
         \A x \in Actors : call[c].victim = x => ~Live(x)',
         \/ call' = [call EXCEPT ![c].at = "attach", ![c].victim = None]
         \/ Finish(c) /\ Settled(call[c].acct)
  PROVE  CallsMove
  <1>1. CASE Finish(c) /\ Settled(call[c].acct) BY <1>1, FinishMoves
  <1>2. CASE call' = [call EXCEPT ![c].at = "attach", ![c].victim = None]
    <2>1. call \in [Callers -> CallRows] /\ call[c] \in CallRows /\ CallRowShape(call[c])
      BY DEF CInv, TypeOK, Shape, CallShape
    <2>2. PICK q \in CallRows : q = [call[c] EXCEPT !.at = "attach", !.victim = None]
      BY <2>1 DEF CallRows
    <2>3. call' = [call EXCEPT ![c] = q] BY <1>2, <2>1, <2>2
    <2>4. q.at = "attach" /\ q.victim = None /\ q.acct = call[c].acct
      BY <2>1, <2>2 DEF CallRows
    <2>5. CallRowShape(q)' BY <2>1, <2>4 DEF CallRowShape
    <2> QED BY <2>3, <2>4, <2>5, RowMoves
  <1> QED BY <1>1, <1>2

LEMMA BeginMoves ==
  ASSUME CInv, NEW c \in Callers, NEW a \in Accounts,
         NEW at \in {"upsert", "take", "logout"}, NEW op \in {"link", "reconnect", "delete"},
         call[c].at = "idle", at = "take" => op = "reconnect", deleted' = deleted,
         call' = [call EXCEPT ![c] = [Idle EXCEPT !.at = at, !.op = op, !.acct = a]]
  PROVE  CallsMove
  <1> DEFINE q == [Idle EXCEPT !.at = at, !.op = op, !.acct = a]
  <1>1. q \in CallRows /\ q.at = at /\ q.victim = None /\ q.acct = a /\ q.op = op
    BY DEF CallRows, Idle
  <1>2. CallRowShape(q)' BY <1>1 DEF CallRowShape
  <1> HIDE DEF q
  <1> QED BY <1>1, <1>2, RowMoves, NoVictim DEF q

Quiet == UNCHANGED <<slot, conns, ctxDone>>

AnyTurn == Quiet /\ CallsMove /\ \E x \in Actors, r \in ActorRows : Turn(x, r)

CallOnly == Quiet /\ CallsMove /\ UNCHANGED actor

AnyInstall ==
    UNCHANGED <<conns, ctxDone>> /\ CallsMove /\ \E a \in Accounts : Install(a)

\* The kinds of steps there are, as far as actors, entries and callers go.
Kind ==
    \/ AnyTurn
    \/ CallOnly
    \/ AnyInstall
    \/ \E x \in Actors : Connected(x) \/ Close(x) \/ ActorExit(x)
    \/ \E r \in Requests : DetachTake(r)
    \/ CancelContext
    \/ Restart

LEMMA SameCalls == ASSUME CInv, UNCHANGED <<call, deleted>> PROVE CallsMove
  BY DEF CInv, TypeOK, CallsMove

LEMMA RunKind ==
  ASSUME CInv, NEW x \in Actors, Run(x) \/ Stabilised(x)
  PROVE  Kind
  <1> USE DEF dbVars, ctlVars
  <1>0. TypeOK /\ ActorShape BY DEF CInv, Shape
  <1>1. CASE Dial(x)
    <2>1. Quiet /\ CallsMove BY <1>1, SameCalls DEF Dial, Quiet
    <2> QED BY <1>0, <1>1, <2>1, DialTurn DEF Kind, AnyTurn
  <1>2. CASE LoadDevice(x)
    <2>1. Quiet /\ CallsMove BY <1>2, SameCalls DEF LoadDevice, Quiet
    <2> QED BY <1>0, <1>2, <2>1, LoadDeviceTurn DEF Kind, AnyTurn
  <1>3. CASE DialFails(x)
    <2>1. Quiet /\ CallsMove BY <1>3, SameCalls DEF DialFails, Quiet
    <2> QED BY <1>0, <1>3, <2>1, DialFailsTurn DEF Kind, AnyTurn
  <1>4. CASE Stabilised(x)
    <2>1. Quiet /\ CallsMove BY <1>4, SameCalls DEF Stabilised, Quiet
    <2> QED BY <1>0, <1>4, <2>1, StabilisedTurn DEF Kind, AnyTurn
  <1>5. CASE ServeEnds(x)
    <2>1. Quiet /\ CallsMove BY <1>5, SameCalls DEF ServeEnds, Quiet
    <2> QED BY <1>0, <1>5, <2>1, ServeEndsTurn DEF Kind, AnyTurn
  <1>6. CASE Decide(x)
    <2>1. Quiet /\ CallsMove BY <1>6, SameCalls DEF Decide, Quiet
    <2> QED BY <1>0, <1>6, <2>1, DecideTurn DEF Kind, AnyTurn
  <1>7. CASE Wake(x)
    <2>1. Quiet /\ CallsMove BY <1>7, SameCalls DEF Wake, Quiet
    <2> QED BY <1>0, <1>7, <2>1, WakeTurn DEF Kind, AnyTurn
  <1>8. CASE Forget(x)
    <2>1. Quiet /\ CallsMove BY <1>8, SameCalls DEF Forget, Quiet
    <2> QED BY <1>0, <1>8, <2>1, ForgetTurn DEF Kind, AnyTurn
  <1>9. CASE Unsession(x)
    <2>1. Quiet /\ CallsMove BY <1>9, SameCalls DEF Unsession, Quiet
    <2> QED BY <1>0, <1>9, <2>1, UnsessionTurn DEF Kind, AnyTurn
  <1>10. CASE MarkCredentials(x)
    <2>1. Quiet /\ CallsMove BY <1>10, SameCalls DEF MarkCredentials, Quiet
    <2> QED BY <1>0, <1>10, <2>1, MarkCredentialsTurn DEF Kind, AnyTurn
  <1> QED BY <1>1, <1>2, <1>3, <1>4, <1>5, <1>6, <1>7, <1>8, <1>9, <1>10 DEF Run, Kind

LEMMA ReportKind ==
  ASSUME CInv, NEW x \in Actors, NEW why \in {"dropped", "loggedOut"}, Disconnected(x, why)
  PROVE  Kind
  <1>1. TypeOK /\ ActorShape BY DEF CInv, Shape
  <1>2. Quiet /\ CallsMove BY SameCalls DEF Disconnected, Quiet, ctlVars
  <1>3. \E r \in ActorRows : Turn(x, r) BY <1>1, ReportTurn DEF Disconnected
  <1> QED BY <1>2, <1>3 DEF Kind, AnyTurn

LEMMA LinkKind ==
  ASSUME CInv, NEW d \in NewDevices, LinkBegin(d) \/ Link(d)
  PROVE  Kind
  <1> USE DEF dbVars, ctlVars, Quiet, Kind, CallOnly
  <1>0. d \in Callers BY DEF Callers
  <1>1. CASE LinkBegin(d)
    <2>1. PICK a \in Accounts :
             call' = [call EXCEPT ![d] = [Idle EXCEPT !.at = "upsert", !.op = "link", !.acct = a]]
      BY <1>1, ChatRuntimeAssumption DEF LinkBegin
    <2> QED BY <1>0, <1>1, <2>1, BeginMoves DEF LinkBegin
  <1>2. CASE LinkUpsert(d)
    BY <1>0, <1>2, StepMoves DEF LinkUpsert
  <1>3. CASE LinkForget(d)
    BY <1>0, <1>3, StepMoves DEF LinkForget
  <1>4. CASE LinkSave(d)
    <2>1. CASE status[call[d].acct] # "absent"
      BY <1>0, <1>4, <2>1, StepMoves DEF LinkSave
    <2>2. CASE status[call[d].acct] = "absent"
      <3>1. Settled(call[d].acct) BY <1>4, <2>2 DEF LinkSave, Settled
      <3> QED BY <1>0, <1>4, <2>2, <3>1, FinishMoves, NoVictim DEF LinkSave
    <2> QED BY <2>1, <2>2
  <1> QED BY <1>1, <1>2, <1>3, <1>4 DEF Link

LEMMA RequestKind ==
  ASSUME CInv, NEW r \in Requests,
         \/ \E a \in Accounts : ReconnectBegin(r, a) \/ DeleteBegin(r, a)
         \/ Delete(r) \/ DetachTake(r) \/ DetachStop(r)
  PROVE  Kind
  <1> USE DEF dbVars, ctlVars, Quiet, Kind, CallOnly
  <1>0. r \in Callers BY DEF Callers
  <1>1. ASSUME NEW a \in Accounts, ReconnectBegin(r, a) PROVE Kind
    BY <1>0, <1>1, BeginMoves DEF ReconnectBegin
  <1>2. ASSUME NEW a \in Accounts, DeleteBegin(r, a) PROVE Kind
    BY <1>0, <1>2, BeginMoves DEF DeleteBegin
  <1>3. CASE DeleteLogout(r)
    <2>1. CallsMove BY <1>0, <1>3, StepMoves DEF DeleteLogout
    <2>2. CASE UNCHANGED actor BY <1>3, <2>1, <2>2 DEF DeleteLogout
    <2>3. CASE actor' # actor
      <3> DEFINE x == conns[call[r].acct]
      <3>1. x \in Actors /\ actor[x].sock = "open"
        <4>1. call[r].acct \in Accounts
          BY <1>0, <1>3 DEF CInv, Shape, CallShape, CallRowShape, DeleteLogout
        <4> QED BY <1>3, <2>3, <4>1 DEF DeleteLogout, CInv, TypeOK
      <3>2. PICK why \in {"none", "loggedOut"} :
               actor' = [actor EXCEPT ![x].sock = "dead",
                                      ![x].disc = IF @ = "none" THEN why ELSE @]
        BY <1>3, <2>3 DEF DeleteLogout
      <3> HIDE DEF x
      <3>3. \E q \in ActorRows : Turn(x, q)
        BY <3>1, <3>2, ReportTurn DEF CInv, Shape
      <3> QED BY <1>3, <2>1, <3>1, <3>3 DEF DeleteLogout, AnyTurn
    <2> QED BY <2>2, <2>3
  <1>4. CASE DeleteUnlink(r)
    <2>1. CASE status[call[r].acct] # "absent"
      BY <1>0, <1>4, <2>1, StepMoves DEF DeleteUnlink
    <2>2. CASE status[call[r].acct] = "absent"
      <3>1. Settled(call[r].acct) BY <1>4, <2>2 DEF DeleteUnlink, Settled
      <3> QED BY <1>0, <1>4, <2>2, <3>1, FinishMoves, NoVictim DEF DeleteUnlink
    <2> QED BY <2>1, <2>2
  <1>5. CASE DeleteSession(r)
    BY <1>0, <1>5, StepMoves DEF DeleteSession
  <1>6. CASE DeleteRow(r)
    BY <1>0, <1>6, StepMoves DEF DeleteRow
  <1>7. CASE DetachTake(r)
    BY <1>7
  <1>8. CASE DetachStop(r)
    <2>0. call[r].op # "reconnect" => Settled(call[r].acct)
      BY <1>0, <1>8 DEF DetachStop, Settled, CInv, Shape, CallShape, CallRowShape
    <2>1. CASE call[r].victim # None /\ Active(call[r].victim)
      <3>1. PICK x \in Actors : x = call[r].victim
        BY <1>0, <2>1 DEF CInv, TypeOK, CallRows
      <3>2. PICK q \in ActorRows : Turn(x, q) /\ q.stopped
        BY <1>8, <2>1, <3>1, StopTurn DEF DetachStop, CInv, Shape
      <3>3. ~Live(x)'
        BY <3>2 DEF Turn, CInv, TypeOK, Live, Terminating, Cancelled
      <3>4. CallsMove
        BY <1>0, <1>8, <2>0, <3>1, <3>3, StopMoves DEF DetachStop
      <3> QED BY <1>8, <3>2, <3>4 DEF DetachStop, AnyTurn
    <2>2. CASE ~(call[r].victim # None /\ Active(call[r].victim))
      <3>1. UNCHANGED actor BY <1>8, <2>2 DEF DetachStop
      <3>2. \A x \in Actors : call[r].victim = x => ~Live(x)'
        BY <2>2, <3>1, ChatRuntimeAssumption DEF Live, Active
      <3>3. CallsMove
        BY <1>0, <1>8, <2>0, <3>2, StopMoves DEF DetachStop
      <3> QED BY <1>8, <3>1, <3>3 DEF DetachStop
    <2> QED BY <2>1, <2>2
  <1> QED BY <1>1, <1>2, <1>3, <1>4, <1>5, <1>6, <1>7, <1>8 DEF Delete

LEMMA StepKind == ASSUME CInv, [Next]_vars PROVE Kind
  <1> USE DEF dbVars, ctlVars
  <1>1. ASSUME NEW a \in Accounts, Boot(a) PROVE Kind
    BY <1>1, SameCalls DEF Boot, Kind, AnyInstall
  <1>2. ASSUME NEW c \in Callers, AttachCheck(c) PROVE Kind
    <2>0. call[c].acct \in Accounts
      BY <1>2 DEF AttachCheck, CInv, Shape, CallShape, CallRowShape
    <2>1. CASE ~(ctxDone \/ status[call[c].acct] = "absent")
      BY <1>2, <2>1, StepMoves DEF AttachCheck, Kind, CallOnly, Quiet
    <2>2. CASE ctxDone \/ status[call[c].acct] = "absent"
      <3>1. Settled(call[c].acct) BY <1>2, <2>0, <2>2 DEF AttachCheck, Settled
      <3> QED BY <1>2, <2>2, <3>1, FinishMoves, NoVictim DEF AttachCheck, Kind, CallOnly, Quiet
    <2> QED BY <2>1, <2>2
  <1>3. ASSUME NEW c \in Callers, AttachInstall(c) PROVE Kind
    <2>1. CallsMove
      BY <1>3, FinishMoves, NoVictim DEF AttachInstall, Settled
    <2>2. call[c].acct \in Accounts
      BY <1>3 DEF AttachInstall, CInv, Shape, CallShape, CallRowShape
    <2> QED BY <1>3, <2>1, <2>2 DEF AttachInstall, Kind, AnyInstall
  <1>4. CASE WaitReturns
    BY <1>4, SameCalls DEF WaitReturns, Kind, CallOnly, Quiet
  <1>5. CASE UNCHANGED vars
    BY <1>5, SameCalls DEF vars, Kind, CallOnly, Quiet
  <1>6. CASE CancelContext \/ Restart
    BY <1>6 DEF Kind
  <1> QED
    BY <1>1, <1>2, <1>3, <1>4, <1>5, <1>6, RunKind, ReportKind, LinkKind, RequestKind
       DEF Next, Proceed

\* No actor comes, goes or changes its account, and none comes back to life.
Steady ==
    \A y \in Actors :
        /\ Active(y)' <=> Active(y)
        /\ actor'[y].acct = actor[y].acct
        /\ Live(y)' => Live(y)

LEMMA TurnSteady ==
  ASSUME CInv, NEW x \in Actors, NEW r, Turn(x, r), ctxDone' = ctxDone
  PROVE  /\ Steady
         /\ actor'[x] = r /\ \A y \in Actors : y # x => actor'[y] = actor[y]
  <1>1. actor'[x] = r /\ \A y \in Actors : y # x => actor'[y] = actor[y]
    BY DEF Turn, CInv, TypeOK
  <1>2. Steady
    BY <1>1 DEF Steady, Turn, Carries, Active, Live, Terminating, Cancelled
  <1> QED BY <1>1, <1>2

LEMMA ConnectedRows ==
  ASSUME CInv, NEW x \in Actors, Connected(x)
  PROVE  /\ actor' \in [Actors -> ActorRows]
         /\ actor[x].acct \in Accounts /\ actor[x].at = "dialing"
         /\ actor'[x] = [actor[x] EXCEPT !.at = "serving"]
         /\ \A y \in Actors : (y # x /\ y # conns[actor[x].acct]) => actor'[y] = actor[y]
         /\ \A y \in Actors : (y # x /\ y = conns[actor[x].acct]) =>
               actor'[y] = [actor[y] EXCEPT !.sock = "dead"]
  <1>1. /\ actor \in [Actors -> ActorRows] /\ RowShape(actor[x])
        /\ actor[x].at = "dialing"
    BY DEF CInv, TypeOK, Shape, ActorShape, Connected
  <1>2. actor[x].acct \in Accounts BY <1>1 DEF RowShape
  <1>3. \A p \in ActorRows : /\ [p EXCEPT !.at = "serving"] \in ActorRows
                             /\ [p EXCEPT !.sock = "dead"] \in ActorRows
    BY DEF ActorRows
  <1>4. actor' = [y \in Actors |->
                    IF y = x THEN [actor[x] EXCEPT !.at = "serving"]
                    ELSE IF y = conns[actor[x].acct] THEN [actor[y] EXCEPT !.sock = "dead"]
                    ELSE actor[y]]
    BY DEF Connected
  <1>5. actor' \in [Actors -> ActorRows] BY <1>1, <1>3, <1>4
  <1> QED BY <1>1, <1>2, <1>4, <1>5

LEMMA ConnectedKeeps ==
  ASSUME CInv, NEW x \in Actors, Connected(x)
  PROVE  Shape' /\ Steady /\ CallsMove
  <1>0. CallsMove BY SameCalls DEF Connected, ctlVars
  <1>1. UNCHANGED <<slot, call, ctxDone, deleted>> BY DEF Connected, ctlVars
  <1>2. \A y \in Actors :
           LET p == actor[y] q == actor'[y]
           IN  /\ q.acct = p.acct /\ q.disc = p.disc /\ q.failures = p.failures
               /\ q.terminating = p.terminating /\ q.stopped = p.stopped
               /\ y # x => q.at = p.at /\ (q.sock = p.sock \/ y = conns[actor[x].acct])
               /\ y = x => q.at = "serving" /\ p.at = "dialing" /\ q.sock = p.sock
    <2> SUFFICES ASSUME NEW y \in Actors
                 PROVE  LET p == actor[y] q == actor'[y]
                        IN  /\ q.acct = p.acct /\ q.disc = p.disc /\ q.failures = p.failures
                            /\ q.terminating = p.terminating /\ q.stopped = p.stopped
                            /\ y # x => q.at = p.at /\ (q.sock = p.sock \/ y = conns[actor[x].acct])
                            /\ y = x => q.at = "serving" /\ p.at = "dialing" /\ q.sock = p.sock
      OBVIOUS
    <2>1. actor[y] \in ActorRows BY DEF CInv, TypeOK
    <2>2. CASE y = x BY <2>1, <2>2, ConnectedRows DEF ActorRows
    <2>3. CASE y # x /\ y = conns[actor[x].acct]
      <3>1. actor'[y] = [actor[y] EXCEPT !.sock = "dead"] BY <2>3, ConnectedRows
      <3> QED BY <2>1, <2>3, <3>1 DEF ActorRows
    <2>4. CASE y # x /\ y # conns[actor[x].acct] BY <2>4, ConnectedRows
    <2> QED BY <2>2, <2>3, <2>4
  <1>3. Steady BY <1>1, <1>2 DEF Steady, Active, Live, Terminating, Cancelled
  <1>4. \A y \in Actors : y = conns[actor[x].acct] => actor[y].at \in {"serving", "closing"}
    BY ConnectedRows DEF CInv, Shape, EntryShape
  <1>5. ActorShape'
    <2> SUFFICES ASSUME NEW y \in Actors PROVE RowShape(actor[y])'
      BY DEF ActorShape
    <2>1. RowShape(actor[y]) BY DEF CInv, Shape, ActorShape
    <2>2. actor'[y].at = "unused" => actor'[y] = actor[y]
      BY <1>2, <1>4, ConnectedRows
    <2> QED BY <1>1, <1>2, <1>4, <2>1, <2>2 DEF RowShape
  <1>6. CallShape'
    BY <1>1, <1>2, <1>3 DEF CInv, Shape, CallShape, CallRowShape, Steady
  <1>7. EntryShape'
    <2>1. conns' = [conns EXCEPT ![actor[x].acct] = x] BY DEF Connected
    <2> QED BY <1>1, <1>2, <1>3, <2>1, ConnectedRows DEF CInv, TypeOK, Shape, EntryShape, Steady
  <1> QED BY <1>0, <1>3, <1>5, <1>6, <1>7 DEF Shape

LEMMA CloseKeeps ==
  ASSUME CInv, NEW x \in Actors, Close(x)
  PROVE  /\ Shape' /\ Steady /\ CallsMove /\ actor' \in [Actors -> ActorRows]
         /\ actor'[x].sock = "none" /\ actor'[x].at = "decide"
         /\ \A y \in Actors : y # x => actor'[y] = actor[y]
  <1>0. CallsMove BY SameCalls DEF Close, ctlVars
  <1>1. UNCHANGED <<slot, call, ctxDone, deleted>> BY DEF Close, ctlVars
  <1>2. /\ actor \in [Actors -> ActorRows] /\ actor[x] \in ActorRows
        /\ RowShape(actor[x]) /\ actor[x].at = "closing"
    BY DEF CInv, TypeOK, Shape, ActorShape, Close
  <1> DEFINE r == [actor[x] EXCEPT !.at = "decide", !.sock = "none"]
  <1>3. actor' = [actor EXCEPT ![x] = r] BY <1>2 DEF Close
  <1>4. r \in ActorRows BY <1>2 DEF ActorRows
  <1>5. /\ actor' \in [Actors -> ActorRows] /\ actor'[x] = r
        /\ \A y \in Actors : y # x => actor'[y] = actor[y]
    BY <1>2, <1>3, <1>4
  <1>6. /\ r.acct = actor[x].acct /\ r.at = "decide" /\ r.sock = "none" /\ r.disc = actor[x].disc
        /\ r.terminating = actor[x].terminating /\ r.stopped = actor[x].stopped
    BY <1>2 DEF ActorRows
  <1> HIDE DEF r
  <1>7. Steady
    BY <1>1, <1>2, <1>5, <1>6 DEF Steady, Active, Live, Terminating, Cancelled
  <1>8. ActorShape'
    BY <1>1, <1>2, <1>5, <1>6 DEF CInv, Shape, ActorShape, RowShape
  <1>9. CallShape'
    BY <1>1, <1>7 DEF CInv, Shape, CallShape, CallRowShape, Steady
  <1>10. EntryShape'
    <2>1. conns' = [a \in Accounts |-> IF conns[a] = x THEN None ELSE conns[a]] BY DEF Close
    <2> QED BY <1>1, <1>5, <1>7, <2>1, ChatRuntimeAssumption DEF CInv, Shape, EntryShape, Steady
  <1> QED BY <1>0, <1>5, <1>6, <1>7, <1>8, <1>9, <1>10 DEF Shape

LEMMA ExitKeeps ==
  ASSUME CInv, NEW x \in Actors, ActorExit(x)
  PROVE  /\ Shape' /\ CallsMove /\ actor' \in [Actors -> ActorRows]
         /\ slot' \in [Accounts -> Actors \cup {None}]
         /\ actor[x].at = "exit" /\ ~Live(x) /\ ~Active(x)'
         /\ \A y \in Actors : y # x => actor'[y] = actor[y] /\ (Live(y)' <=> Live(y))
         /\ \A a \in Accounts : slot'[a] = slot[a] \/ (slot[a] = x /\ slot'[a] = None)
  <1>0. CallsMove BY SameCalls DEF ActorExit, ctlVars
  <1>1. UNCHANGED <<conns, call, ctxDone, deleted>> BY DEF ActorExit, ctlVars
  <1>2. /\ actor \in [Actors -> ActorRows] /\ RowShape(actor[x]) /\ actor[x].at = "exit"
        /\ slot \in [Accounts -> Actors \cup {None}]
    BY DEF CInv, TypeOK, Shape, ActorShape, ActorExit
  <1>3. /\ actor' \in [Actors -> ActorRows] /\ actor'[x] = Unused
        /\ \A y \in Actors : y # x => actor'[y] = actor[y]
    BY <1>2, LeavingRow DEF ActorExit
  <1>4. /\ slot' \in [Accounts -> Actors \cup {None}]
        /\ \A a \in Accounts : slot'[a] = IF slot[a] = x THEN None ELSE slot[a]
    BY <1>2 DEF ActorExit
  <1>5. ~Live(x) /\ ~Active(x)'
    BY <1>2, <1>3 DEF RowShape, Live, Terminating, Cancelled, Active, Unused
  <1>6. \A y \in Actors : y # x => (Active(y)' <=> Active(y)) /\ (Live(y)' <=> Live(y))
    BY <1>1, <1>3 DEF Live, Terminating, Cancelled, Active
  <1>7. ActorShape'
    BY <1>1, <1>3 DEF CInv, Shape, ActorShape, RowShape, Unused
  <1>8. CallShape'
    BY <1>1, <1>3, <1>5, <1>6 DEF CInv, Shape, CallShape, CallRowShape
  <1>9. EntryShape'
    BY <1>1, <1>2, <1>3, <1>4, <1>6, ChatRuntimeAssumption DEF CInv, Shape, EntryShape
  <1> QED BY <1>0, <1>2, <1>3, <1>4, <1>5, <1>6, <1>7, <1>8, <1>9 DEF Shape

\* What Attach's section under the lock comes to: nothing, an entry taken out,
\* or a new actor in the entry.
Kept(a) == /\ slot[a] # None /\ ~Terminating(slot[a])
           /\ refused' = refused \ {a}
           /\ UNCHANGED <<slot, actor>>

Refused(a) == /\ slot[a] = None \/ Terminating(slot[a])
              /\ slot' = [slot EXCEPT ![a] = None]
              /\ refused' = refused \cup {a}
              /\ UNCHANGED actor

Installed(a, x) ==
    /\ slot[a] = None \/ Terminating(slot[a])
    /\ ~ctxDone /\ ~(LiveCount(a) >= MaxAccounts)
    /\ ~Active(x) /\ \A c \in Callers : call[c].victim # x
    /\ slot' = [slot EXCEPT ![a] = x]
    /\ actor' \in [Actors -> ActorRows]
    /\ actor'[x] = [Unused EXCEPT !.acct = a, !.at = "start"]
    /\ \A y \in Actors : y # x => actor'[y] = actor[y]
    /\ refused' = refused \ {a}

LEMMA InstallCases ==
  ASSUME CInv, NEW a \in Accounts, Install(a)
  PROVE  Kept(a) \/ Refused(a) \/ \E x \in Actors : Installed(a, x)
  <1>1. CASE slot[a] # None /\ ~Terminating(slot[a])
    BY <1>1 DEF Install, Kept
  <1>2. CASE ~(slot[a] # None /\ ~Terminating(slot[a])) /\ (ctxDone \/ LiveCount(a) >= MaxAccounts)
    BY <1>2 DEF Install, Refused
  <1>3. CASE /\ ~(slot[a] # None /\ ~Terminating(slot[a]))
             /\ ~(ctxDone \/ LiveCount(a) >= MaxAccounts)
    <2>1. PICK x \in FreeActors :
             /\ slot' = [slot EXCEPT ![a] = x]
             /\ actor' = [actor EXCEPT ![x] = [Unused EXCEPT !.acct = a, !.at = "start"]]
             /\ refused' = refused \ {a}
      BY <1>3 DEF Install
    <2>2. x \in Actors /\ ~Active(x) /\ \A c \in Callers : call[c].victim # x
      BY DEF FreeActors
    <2>3. [Unused EXCEPT !.acct = a, !.at = "start"] \in ActorRows
      BY FailureCount DEF Unused, ActorRows
    <2>4. actor \in [Actors -> ActorRows] BY DEF CInv, TypeOK
    <2>5. /\ actor' \in [Actors -> ActorRows]
          /\ actor'[x] = [Unused EXCEPT !.acct = a, !.at = "start"]
          /\ \A y \in Actors : y # x => actor'[y] = actor[y]
      BY <2>1, <2>2, <2>3, <2>4
    <2> QED BY <1>3, <2>1, <2>2, <2>5 DEF Installed
  <1> QED BY <1>1, <1>2, <1>3

LEMMA InstallKeeps ==
  ASSUME CInv, NEW a \in Accounts, Install(a), UNCHANGED <<conns, ctxDone>>, CallsMove
  PROVE  /\ Shape' /\ actor' \in [Actors -> ActorRows]
         /\ slot' \in [Accounts -> Actors \cup {None}]
  <1>0. slot \in [Accounts -> Actors \cup {None}] /\ actor \in [Actors -> ActorRows]
    BY DEF CInv, TypeOK
  <1>1. CASE UNCHANGED actor
    <2>1. \A b \in Accounts : slot'[b] = slot[b] \/ slot'[b] = None
      BY <1>0, <1>1, InstallCases DEF Kept, Refused, Installed, Active, Unused
    <2>2. slot' \in [Accounts -> Actors \cup {None}]
      BY <1>0, InstallCases DEF Kept, Refused, Installed
    <2>3. ActorShape' BY <1>1 DEF CInv, Shape, ActorShape, RowShape
    <2>4. CallShape'
      BY <1>1, ChatRuntimeAssumption DEF CInv, Shape, CallShape, CallRowShape, CallsMove, Active
    <2>5. EntryShape'
      BY <1>1, <2>1, ChatRuntimeAssumption DEF CInv, Shape, EntryShape, Active
    <2> QED BY <1>0, <1>1, <2>2, <2>3, <2>4, <2>5 DEF Shape
  <1>2. ASSUME NEW x \in Actors, Installed(a, x)
        PROVE  /\ Shape' /\ actor' \in [Actors -> ActorRows]
               /\ slot' \in [Accounts -> Actors \cup {None}]
    <2>1. /\ actor'[x].acct = a /\ actor'[x].at = "start" /\ RowShape(actor'[x])
          /\ ~Active(x) /\ \A y \in Actors : y # x => actor'[y] = actor[y]
      BY <1>2 DEF Installed, RowShape, Unused
    <2>2. slot' = [slot EXCEPT ![a] = x] /\ actor' \in [Actors -> ActorRows]
      BY <1>2 DEF Installed
    <2>3. ActorShape' BY <2>1 DEF CInv, Shape, ActorShape, RowShape
    <2>4. CallShape'
      <3>1. \A c \in Callers : call'[c].victim # x
        BY <1>2, ChatRuntimeAssumption DEF Installed, CallsMove
      <3> QED
        BY <2>1, <3>1, ChatRuntimeAssumption
           DEF CInv, Shape, CallShape, CallRowShape, CallsMove, Active
    <2>5. EntryShape'
      BY <1>0, <2>1, <2>2 DEF CInv, Shape, EntryShape, Active
    <2> QED BY <1>0, <2>2, <2>3, <2>4, <2>5 DEF Shape
  <1> QED BY <1>1, <1>2, InstallCases DEF Kept, Refused

LEMMA TakeKeeps ==
  ASSUME CInv, NEW r \in Requests, DetachTake(r)
  PROVE  /\ Shape' /\ call' \in [Callers -> CallRows]
         /\ slot' \in [Accounts -> Actors \cup {None}]
         /\ r \in Callers /\ call[r].acct \in Accounts /\ call[r].at = "take"
         /\ slot' = [slot EXCEPT ![call[r].acct] = None]
         /\ call'[r] = [call[r] EXCEPT !.at = "stop", !.victim = slot[call[r].acct]]
         /\ call'[r].victim = slot[call[r].acct]
         /\ \A c \in Callers : c # r => call'[c] = call[c]
  <1>1. UNCHANGED <<conns, actor, ctxDone, deleted>> BY DEF DetachTake, ctlVars
  <1>2. /\ r \in Callers /\ call \in [Callers -> CallRows] /\ call[r] \in CallRows
        /\ CallRowShape(call[r]) /\ slot \in [Accounts -> Actors \cup {None}]
        /\ call[r].at = "take"
    BY DEF CInv, TypeOK, Shape, CallShape, Callers, DetachTake
  <1>3. call[r].acct \in Accounts BY <1>2 DEF CallRowShape
  <1> DEFINE v == slot[call[r].acct]
             q == [call[r] EXCEPT !.at = "stop", !.victim = v]
  <1>4. v \in Actors \cup {None} BY <1>2, <1>3
  <1>5. call' = [call EXCEPT ![r] = q] /\ slot' = [slot EXCEPT ![call[r].acct] = None]
    BY <1>2 DEF DetachTake
  <1>6. q \in CallRows BY <1>2, <1>4 DEF CallRows
  <1>7. /\ call' \in [Callers -> CallRows] /\ call'[r] = q
        /\ \A c \in Callers : c # r => call'[c] = call[c]
        /\ slot' \in [Accounts -> Actors \cup {None}]
    BY <1>2, <1>5, <1>6
  <1>8. q.at = "stop" /\ q.victim = v /\ q.acct = call[r].acct /\ q.op = call[r].op
    BY <1>2 DEF CallRows
  <1>9. ActorShape' BY <1>1 DEF CInv, Shape, ActorShape, RowShape
  <1>10. CallShape'
    <2> SUFFICES ASSUME NEW c \in Callers
                 PROVE  /\ CallRowShape(call[c])'
                        /\ \A x \in Actors : (call'[c].victim = x /\ Active(x)')
                                                => actor'[x].acct = call'[c].acct
      BY DEF CallShape
    <2>1. CASE c # r
      BY <1>1, <1>7, <2>1 DEF CInv, Shape, CallShape, CallRowShape, Active
    <2>2. CASE c = r
      <3>1. call'[c] = q BY <1>7, <2>2
      <3> HIDE DEF q
      <3>2. CallRowShape(call[c])'
        BY <1>1, <1>2, <1>3, <1>8, <3>1 DEF CallRowShape
      <3>3. \A x \in Actors : v = x => actor[x].acct = call[r].acct
        BY <1>3 DEF CInv, Shape, EntryShape
      <3> QED BY <1>1, <1>8, <3>1, <3>2, <3>3
    <2> QED BY <2>1, <2>2
  <1>11. EntryShape'
    BY <1>1, <1>2, <1>5, ChatRuntimeAssumption DEF CInv, Shape, EntryShape, Active
  <1> QED BY <1>2, <1>3, <1>5, <1>7, <1>8, <1>9, <1>10, <1>11 DEF Shape

LEMMA CancelKeeps ==
  ASSUME CInv, CancelContext
  PROVE  Shape' /\ Steady /\ CallsMove
  <1>1. UNCHANGED <<slot, conns, actor, call, deleted>> /\ ctxDone'
    BY DEF CancelContext
  <1>2. ActorShape' BY <1>1 DEF CInv, Shape, ActorShape, RowShape
  <1>3. CallShape' BY <1>1 DEF CInv, Shape, CallShape, CallRowShape, Active
  <1>4. EntryShape' BY <1>1 DEF CInv, Shape, EntryShape, Active
  <1>5. Steady BY <1>1 DEF Steady, Active, Live, Terminating, Cancelled
  <1> QED BY <1>1, <1>2, <1>3, <1>4, <1>5, SameCalls DEF Shape

LEMMA RestartKeeps ==
  ASSUME CInv, Restart
  PROVE  /\ Shape' /\ actor' \in [Actors -> ActorRows] /\ call' \in [Callers -> CallRows]
         /\ \A x \in Actors : ~Active(x)'
         /\ \A c \in Callers : call'[c].at \in {"idle", "done"} /\ call'[c].victim = None
  <1>1. actor' = [x \in Actors |-> Unused] BY DEF Restart
  <1>2. actor' \in [Actors -> ActorRows] /\ \A x \in Actors : ~Active(x)'
    BY <1>1, LeavingRow DEF Active, Unused
  <1>3. /\ call' \in [Callers -> CallRows]
        /\ \A c \in Callers : call'[c].at \in {"idle", "done"} /\ call'[c].victim = None
    BY DEF Restart, Idle, CallRows
  <1>4. ActorShape' BY <1>1 DEF ActorShape, RowShape, Unused
  <1>5. CallShape' BY <1>3, ChatRuntimeAssumption DEF CallShape, CallRowShape
  <1>6. EntryShape' BY ChatRuntimeAssumption DEF EntryShape, Restart
  <1> QED BY <1>2, <1>3, <1>4, <1>5, <1>6 DEF Shape

\* The variables that no actor row and no caller is part of.
TablesOK ==
    /\ status \in [Accounts -> {"absent", "ok", "credentials"}]
    /\ session \in [Accounts -> Devices \cup {None}]
    /\ devices \subseteq Devices
    /\ conns \in [Accounts -> Actors \cup {None}]
    /\ boot \subseteq Accounts
    /\ ctxDone \in BOOLEAN
    /\ waited \in BOOLEAN
    /\ refused \subseteq Accounts
    /\ deleted \subseteq Accounts

LEMMA TableTypes == ASSUME CInv, [Next]_vars PROVE TablesOK'
  <1> USE DEF dbVars, ctlVars, TablesOK
  <1>1. TablesOK BY DEF CInv, TypeOK
  <1>2. NewDevices \subseteq Devices /\ NewDevices \subseteq Callers /\ Requests \subseteq Callers
    BY DEF NewDevices, Callers
  <1>3. \A c \in Callers : call[c].at \notin {"idle", "done"} => call[c].acct \in Accounts
    BY DEF CInv, Shape, CallShape, CallRowShape
  <1>4. \A x \in Actors : actor[x].at # "unused" => actor[x].acct \in Accounts
    BY DEF CInv, Shape, ActorShape, RowShape
  <1>5. ASSUME NEW a \in Accounts, Boot(a) PROVE TablesOK'
    BY <1>5, <1>1 DEF Boot, Install
  <1>6. ASSUME NEW x \in Actors, Dial(x) PROVE TablesOK'
    BY <1>6, <1>1 DEF Dial
  <1>7. ASSUME NEW x \in Actors, LoadDevice(x) PROVE TablesOK'
    BY <1>7, <1>1 DEF LoadDevice
  <1>8. ASSUME NEW x \in Actors, DialFails(x) PROVE TablesOK'
    BY <1>8, <1>1 DEF DialFails
  <1>9. ASSUME NEW x \in Actors, Stabilised(x) PROVE TablesOK'
    BY <1>9, <1>1 DEF Stabilised
  <1>10. ASSUME NEW x \in Actors, ServeEnds(x) PROVE TablesOK'
    BY <1>10, <1>1 DEF ServeEnds
  <1>11. ASSUME NEW x \in Actors, Decide(x) PROVE TablesOK'
    BY <1>11, <1>1 DEF Decide
  <1>12. ASSUME NEW x \in Actors, Wake(x) PROVE TablesOK'
    BY <1>12, <1>1 DEF Wake
  <1>13. ASSUME NEW x \in Actors, ActorExit(x) PROVE TablesOK'
    BY <1>13, <1>1 DEF ActorExit
  <1>14. ASSUME NEW x \in Actors, Connected(x) PROVE TablesOK'
    BY <1>14, <1>1, <1>4 DEF Connected
  <1>15. ASSUME NEW x \in Actors, Close(x) PROVE TablesOK'
    BY <1>15, <1>1, <1>4 DEF Close
  <1>16. ASSUME NEW x \in Actors, Forget(x) PROVE TablesOK'
    BY <1>16, <1>1, <1>4 DEF Forget
  <1>17. ASSUME NEW x \in Actors, Unsession(x) PROVE TablesOK'
    BY <1>17, <1>1, <1>4 DEF Unsession
  <1>18. ASSUME NEW x \in Actors, MarkCredentials(x) PROVE TablesOK'
    BY <1>18, <1>1, <1>4 DEF MarkCredentials
  <1>19. ASSUME NEW x \in Actors, NEW why \in {"dropped", "loggedOut"}, Disconnected(x, why) PROVE TablesOK'
    BY <1>19, <1>1 DEF Disconnected
  <1>20. ASSUME NEW d \in NewDevices, LinkBegin(d) PROVE TablesOK'
    BY <1>20, <1>1, <1>2, <1>3 DEF LinkBegin
  <1>21. ASSUME NEW d \in NewDevices, LinkUpsert(d) PROVE TablesOK'
    BY <1>21, <1>1, <1>2, <1>3 DEF LinkUpsert
  <1>22. ASSUME NEW d \in NewDevices, LinkForget(d) PROVE TablesOK'
    BY <1>22, <1>1, <1>2, <1>3 DEF LinkForget
  <1>23. ASSUME NEW d \in NewDevices, LinkSave(d) PROVE TablesOK'
    BY <1>23, <1>1, <1>2, <1>3 DEF LinkSave
  <1>24. ASSUME NEW r \in Requests, NEW a \in Accounts, ReconnectBegin(r, a) PROVE TablesOK'
    BY <1>24, <1>1 DEF ReconnectBegin
  <1>25. ASSUME NEW r \in Requests, NEW a \in Accounts, DeleteBegin(r, a) PROVE TablesOK'
    BY <1>25, <1>1 DEF DeleteBegin
  <1>26. ASSUME NEW r \in Requests, DeleteLogout(r) PROVE TablesOK'
    BY <1>26, <1>1, <1>2, <1>3 DEF DeleteLogout
  <1>27. ASSUME NEW r \in Requests, DeleteUnlink(r) PROVE TablesOK'
    BY <1>27, <1>1, <1>2, <1>3 DEF DeleteUnlink
  <1>28. ASSUME NEW r \in Requests, DeleteSession(r) PROVE TablesOK'
    BY <1>28, <1>1, <1>2, <1>3 DEF DeleteSession
  <1>29. ASSUME NEW r \in Requests, DeleteRow(r) PROVE TablesOK'
    BY <1>29, <1>1, <1>2, <1>3 DEF DeleteRow
  <1>30. ASSUME NEW r \in Requests, DetachTake(r) PROVE TablesOK'
    BY <1>30, <1>1, <1>2, <1>3 DEF DetachTake
  <1>31. ASSUME NEW r \in Requests, DetachStop(r) PROVE TablesOK'
    BY <1>31, <1>1, <1>2, <1>3 DEF DetachStop
  <1>32. ASSUME NEW c \in Callers, AttachCheck(c) PROVE TablesOK'
    BY <1>32, <1>1, <1>3 DEF AttachCheck
  <1>33. ASSUME NEW c \in Callers, AttachInstall(c) PROVE TablesOK'
    BY <1>33, <1>1, <1>3 DEF AttachInstall, Install
  <1>34. CASE CancelContext
    BY <1>34, <1>1 DEF CancelContext
  <1>35. CASE WaitReturns
    BY <1>35, <1>1 DEF WaitReturns
  <1>36. CASE Restart
    BY <1>36, <1>1 DEF Restart
  <1>37. CASE UNCHANGED vars
    BY <1>37, <1>1 DEF vars
  <1> QED
    BY <1>5, <1>6, <1>7, <1>8, <1>9, <1>10, <1>11, <1>12, <1>13, <1>14, <1>15, <1>16,
       <1>17, <1>18, <1>19, <1>20, <1>21, <1>22, <1>23, <1>24, <1>25, <1>26, <1>27,
       <1>28, <1>29, <1>30, <1>31, <1>32, <1>33, <1>34, <1>35, <1>36, <1>37
       DEF Next, Run, Proceed, Link, Delete

LEMMA NextCInv == ASSUME CInv, [Next]_vars PROVE CInv'
  <1> SUFFICES /\ Shape' /\ actor' \in [Actors -> ActorRows]
               /\ call' \in [Callers -> CallRows]
               /\ slot' \in [Accounts -> Actors \cup {None}]
    BY TableTypes DEF CInv, TypeOK, TablesOK
  <1>1. /\ actor \in [Actors -> ActorRows] /\ call \in [Callers -> CallRows]
        /\ slot \in [Accounts -> Actors \cup {None}] /\ Shape
    BY DEF CInv, TypeOK
  <1>2. CASE AnyTurn
    BY <1>1, <1>2, TurnKeeps DEF AnyTurn, Quiet, CallsMove, Shape
  <1>3. CASE CallOnly
    <2>1. UNCHANGED <<slot, conns, ctxDone, actor>> /\ CallsMove
      BY <1>3 DEF CallOnly, Quiet
    <2>2. ActorShape' BY <1>1, <2>1 DEF Shape, ActorShape, RowShape
    <2>3. CallShape'
      BY <1>1, <2>1, ChatRuntimeAssumption DEF Shape, CallShape, CallRowShape, CallsMove, Active
    <2>4. EntryShape' BY <1>1, <2>1 DEF Shape, EntryShape, Active
    <2> QED BY <1>1, <2>1, <2>2, <2>3, <2>4 DEF Shape, CallsMove
  <1>4. CASE AnyInstall
    BY <1>4, InstallKeeps DEF AnyInstall, CallsMove
  <1>5. ASSUME NEW x \in Actors, Connected(x)
        PROVE  Shape' /\ actor' \in [Actors -> ActorRows] /\ CallsMove /\ UNCHANGED slot
    BY <1>5, ConnectedKeeps, ConnectedRows DEF Connected
  <1>6. ASSUME NEW x \in Actors, Close(x)
        PROVE  Shape' /\ actor' \in [Actors -> ActorRows] /\ CallsMove /\ UNCHANGED slot
    BY <1>6, CloseKeeps DEF Close
  <1>7. ASSUME NEW x \in Actors, ActorExit(x)
        PROVE  /\ Shape' /\ actor' \in [Actors -> ActorRows] /\ CallsMove
               /\ slot' \in [Accounts -> Actors \cup {None}]
    BY <1>7, ExitKeeps
  <1>8. ASSUME NEW r \in Requests, DetachTake(r)
        PROVE  /\ Shape' /\ call' \in [Callers -> CallRows] /\ UNCHANGED actor
               /\ slot' \in [Accounts -> Actors \cup {None}]
    BY <1>8, TakeKeeps DEF DetachTake
  <1>9. CASE CancelContext
    BY <1>1, <1>9, CancelKeeps DEF CancelContext
  <1>10. CASE Restart
    BY <1>10, RestartKeeps, ChatRuntimeAssumption DEF Restart
  <1> QED
    BY <1>1, <1>2, <1>3, <1>4, <1>5, <1>6, <1>7, <1>8, <1>9, <1>10, StepKind DEF Kind, CallsMove

\* An actor that is not on its way out is held by its account's entry, or by
\* the caller that has taken it out of there.
LEMMA HeldOn ==
  ASSUME CInv, LiveIsHeld, CallsMove, NEW y \in Actors, Live(y), Live(y)',
         actor'[y].acct = actor[y].acct,
         \A a \in Accounts : slot[a] = y => slot'[a] = y
  PROVE  slot'[actor'[y].acct] = y \/ \E c \in Callers : call'[c].victim = y
  <1>1. CASE slot[actor[y].acct] = y
    <2>1. actor[y].acct \in Accounts
      BY DEF CInv, Shape, ActorShape, RowShape, Live, Active
    <2> QED BY <1>1, <2>1
  <1>2. ASSUME NEW c \in Callers, call[c].victim = y PROVE call'[c].victim = y
    BY <1>2 DEF CallsMove
  <1> QED BY <1>1, <1>2 DEF LiveIsHeld

LEMMA NextHeld == ASSUME CInv, LiveIsHeld, [Next]_vars PROVE LiveIsHeld'
  <1>1. ASSUME Steady, CallsMove, UNCHANGED slot PROVE LiveIsHeld'
    BY <1>1 DEF LiveIsHeld, Steady, CallsMove
  <1>2. CASE AnyTurn
    BY <1>1, <1>2, TurnSteady DEF AnyTurn, Quiet
  <1>3. CASE CallOnly
    BY <1>1, <1>3 DEF CallOnly, Quiet, Steady, Active, Live, Terminating, Cancelled
  <1>4. CASE AnyInstall
    <2>1. PICK a \in Accounts : Install(a) BY <1>4 DEF AnyInstall
    <2>2. UNCHANGED ctxDone /\ CallsMove BY <1>4 DEF AnyInstall
    <2>3. CASE Kept(a)
      BY <1>1, <2>2, <2>3 DEF Kept, Steady, Active, Live, Terminating, Cancelled
    <2>4. CASE Refused(a)
      <3>1. \A x \in Actors : (Live(x)' <=> Live(x)) /\ actor'[x] = actor[x]
        BY <2>2, <2>4 DEF Refused, Active, Live, Terminating, Cancelled
      <3>2. \A x \in Actors : Live(x) => slot[a] # x
        BY <2>4, ChatRuntimeAssumption DEF Refused, Live
      <3>3. \A b \in Accounts : slot'[b] = slot[b] \/ b = a
        BY <2>4 DEF Refused, CInv, TypeOK
      <3> SUFFICES ASSUME NEW y \in Actors, Live(y)'
                   PROVE  slot'[actor'[y].acct] = y \/ \E c \in Callers : call'[c].victim = y
        BY DEF LiveIsHeld
      <3>4. \A b \in Accounts : slot[b] = y => slot'[b] = y BY <3>1, <3>2, <3>3
      <3> QED BY <2>2, <3>1, <3>4, HeldOn
    <2>5. ASSUME NEW x \in Actors, Installed(a, x) PROVE LiveIsHeld'
      <3>1. actor'[x].acct = a /\ slot'[a] = x
        BY <2>5 DEF Installed, Unused, CInv, TypeOK
      <3>2. \A y \in Actors : y # x => (Live(y)' <=> Live(y)) /\ actor'[y] = actor[y]
        BY <2>2, <2>5 DEF Installed, Active, Live, Terminating, Cancelled
      <3>3. \A y \in Actors : Live(y) => slot[a] # y
        BY <2>5, ChatRuntimeAssumption DEF Installed, Live
      <3>4. \A b \in Accounts : slot'[b] = slot[b] \/ b = a
        BY <2>5 DEF Installed, CInv, TypeOK
      <3> SUFFICES ASSUME NEW y \in Actors, Live(y)'
                   PROVE  slot'[actor'[y].acct] = y \/ \E c \in Callers : call'[c].victim = y
        BY DEF LiveIsHeld
      <3>5. CASE y = x BY <3>1, <3>5
      <3>6. CASE y # x
        <4>1. \A b \in Accounts : slot[b] = y => slot'[b] = y BY <3>2, <3>3, <3>4, <3>6
        <4> QED BY <2>2, <3>2, <3>6, <4>1, HeldOn
      <3> QED BY <3>5, <3>6
    <2> QED BY <2>1, <2>3, <2>4, <2>5, InstallCases
  <1>5. ASSUME NEW x \in Actors, Connected(x) \/ Close(x) PROVE LiveIsHeld'
    BY <1>1, <1>5, ConnectedKeeps, CloseKeeps DEF Connected, Close
  <1>6. ASSUME NEW x \in Actors, ActorExit(x) PROVE LiveIsHeld'
    <2>1. UNCHANGED call BY <1>6 DEF ActorExit
    <2>2. ~Live(x)' BY <1>6, ExitKeeps DEF Live
    <2> SUFFICES ASSUME NEW y \in Actors, Live(y)'
                 PROVE  slot'[actor'[y].acct] = y \/ \E c \in Callers : call'[c].victim = y
      BY DEF LiveIsHeld
    <2>3. y # x BY <2>2
    <2>4. actor'[y] = actor[y] /\ Live(y) /\ \A a \in Accounts : slot[a] = y => slot'[a] = y
      BY <1>6, <2>3, ExitKeeps
    <2> QED BY <1>6, <2>4, ExitKeeps, HeldOn
  <1>7. ASSUME NEW r \in Requests, DetachTake(r) PROVE LiveIsHeld'
    <2>1. UNCHANGED <<actor, ctxDone>> BY <1>7 DEF DetachTake, ctlVars
    <2>2. \A x \in Actors : (Live(x)' <=> Live(x)) /\ actor'[x] = actor[x]
      BY <2>1 DEF Active, Live, Terminating, Cancelled
    <2>3. call[r].victim = None BY <1>7, NoVictim, TakeKeeps
    <2>4. \A a \in Accounts : a # call[r].acct => slot'[a] = slot[a]
      BY <1>7, TakeKeeps DEF CInv, TypeOK
    <2>5. \A x \in Actors : Live(x) => actor[x].acct \in Accounts
      BY DEF CInv, Shape, ActorShape, RowShape, Live, Active
    <2> SUFFICES ASSUME NEW y \in Actors, Live(y)'
                 PROVE  slot'[actor'[y].acct] = y \/ \E c \in Callers : call'[c].victim = y
      BY DEF LiveIsHeld
    <2>6. Live(y) /\ actor'[y] = actor[y] /\ actor[y].acct \in Accounts BY <2>2, <2>5
    <2>7. CASE slot[actor[y].acct] = y /\ actor[y].acct = call[r].acct
      <3>1. r \in Callers /\ call'[r].victim = slot[call[r].acct] BY <1>7, TakeKeeps
      <3>2. call'[r].victim = y BY <2>7, <3>1
      <3> QED BY <3>1, <3>2
    <2>8. CASE slot[actor[y].acct] = y /\ actor[y].acct # call[r].acct
      BY <2>4, <2>6, <2>8
    <2>9. ASSUME NEW c \in Callers, call[c].victim = y PROVE call'[c].victim = y
      <3>1. c # r BY <2>3, <2>9, ChatRuntimeAssumption
      <3> QED BY <1>7, <2>9, <3>1, TakeKeeps
    <2> QED BY <2>6, <2>7, <2>8, <2>9 DEF LiveIsHeld
  <1>8. CASE CancelContext
    BY <1>1, <1>8, CancelKeeps DEF CancelContext
  <1>9. CASE Restart
    BY <1>9, RestartKeeps DEF LiveIsHeld, Live
  <1> QED
    BY <1>2, <1>3, <1>4, <1>5, <1>6, <1>7, <1>8, <1>9, StepKind DEF Kind

-----------------------------------------------------------------------------
(***************************************************************************)
(* The theorems.                                                            *)
(***************************************************************************)
LEMMA Always == Spec => [](CInv /\ LiveIsHeld)
  <1>1. Init => CInv /\ LiveIsHeld
    BY InitCInv DEF Init, LiveIsHeld, Live, Active, Unused
  <1>2. CInv /\ LiveIsHeld /\ [Next]_vars => (CInv /\ LiveIsHeld)'
    BY NextCInv, NextHeld
  <1> QED BY <1>1, <1>2, PTL DEF Spec

\* The types of the tables, the entries, the actors and the callers hold; in
\* particular an actor's failures stay below maxFailures.
THEOREM TypeCorrect == Spec => []TypeOK
  <1>1. CInv => TypeOK BY DEF CInv
  <1> QED BY <1>1, Always, PTL

\* Attach's no-op and the identity-checked remove: of two actors of one account
\* that are not on their way out, somebody is about to cancel one.
THEOREM OneServesAnAccount == Spec => []OneActorServes
  <1>1. CInv /\ LiveIsHeld => OneActorServes
    BY DEF LiveIsHeld, OneActorServes
  <1> QED BY <1>1, Always, PTL

\* Attach's two looks at the context: once Wait has returned no actor runs, a
\* link that finishes during the shutdown notwithstanding.
THEOREM WaitIsFinal == Spec => []QuietAfterWait
  <1>1. Init => WaitInv BY DEF Init, WaitInv
  <1>2. CInv /\ WaitInv /\ [Next]_vars => WaitInv'
    <2> SUFFICES ASSUME CInv, WaitInv, [Next]_vars, waited' PROVE WaitInv'
      BY DEF WaitInv
    <2>1. CASE WaitReturns
      BY <2>1 DEF WaitReturns, WaitInv, QuietAfterWait, Active
    <2>2. CASE ~WaitReturns /\ ~Restart
      <3>1. waited
        BY <2>2 DEF Next, vars, Run, Proceed, Link, Delete, ctlVars, Boot, Dial, LoadDevice,
             DialFails, Connected, Stabilised, ServeEnds, Close, Decide, Wake, Forget, Unsession,
             MarkCredentials, ActorExit, Disconnected, LinkBegin, LinkUpsert, LinkForget,
             LinkSave, ReconnectBegin, DeleteBegin, DeleteLogout, DeleteUnlink, DeleteSession,
             DeleteRow, DetachTake, DetachStop, AttachCheck, AttachInstall, CancelContext
      <3>2. ctxDone /\ \A x \in Actors : ~Active(x)
        BY <3>1 DEF WaitInv, QuietAfterWait
      <3>3. ctxDone' /\ \A x \in Actors : ~Active(x)'
        <4>1. CASE AnyTurn
          BY <3>2, <4>1, TurnSteady DEF AnyTurn, Quiet, Steady
        <4>2. CASE CallOnly
          BY <3>2, <4>2 DEF CallOnly, Quiet, Active
        <4>3. CASE AnyInstall
          BY <3>2, <4>3, InstallCases DEF AnyInstall, Kept, Refused, Installed, Active
        <4>4. ASSUME NEW x \in Actors, Connected(x) \/ Close(x) \/ ActorExit(x) PROVE FALSE
          BY <3>2, <4>4 DEF Connected, Close, ActorExit, Active
        <4>5. ASSUME NEW r \in Requests, DetachTake(r)
              PROVE  ctxDone' /\ \A x \in Actors : ~Active(x)'
          BY <3>2, <4>5 DEF DetachTake, ctlVars, Active
        <4>6. CASE CancelContext
          BY <3>2, <4>6 DEF CancelContext, Active
        <4> QED BY <2>2, <4>1, <4>2, <4>3, <4>4, <4>5, <4>6, StepKind DEF Kind
      <3> QED BY <3>3 DEF WaitInv, QuietAfterWait
    <2>3. CASE Restart
      BY <2>3 DEF Restart
    <2> QED BY <2>1, <2>2, <2>3
  <1>3. WaitInv => QuietAfterWait BY DEF WaitInv, QuietAfterWait
  <1> QED BY <1>1, <1>2, <1>3, Always, PTL DEF Spec

\* Close's identity check: an actor that serves on an open socket is the one
\* that the account's commands reach.
THEOREM CommandsReachServer == Spec => []ServingIsReachable
  <1>1. Init => ServingIsReachable BY DEF Init, ServingIsReachable, Unused
  <1>2. CInv /\ ServingIsReachable /\ [Next]_vars => ServingIsReachable'
    <2> SUFFICES ASSUME CInv, ServingIsReachable, [Next]_vars PROVE ServingIsReachable'
      OBVIOUS
    <2>1. CASE AnyTurn
      BY <2>1, TurnSteady DEF AnyTurn, Quiet, ServingIsReachable, Turn, Carries
    <2>2. CASE CallOnly
      BY <2>2 DEF CallOnly, Quiet, ServingIsReachable
    <2>3. CASE AnyInstall
      <3>1. conns' = conns BY <2>3 DEF AnyInstall
      <3>2. CASE UNCHANGED actor BY <3>1, <3>2 DEF ServingIsReachable
      <3>3. ASSUME NEW a \in Accounts, NEW x \in Actors, Installed(a, x)
            PROVE  ServingIsReachable'
        BY <3>1, <3>3 DEF ServingIsReachable, Installed, Unused
      <3> QED BY <2>3, <3>2, <3>3, InstallCases DEF AnyInstall, Kept, Refused
    <2>4. ASSUME NEW x \in Actors, Connected(x) PROVE ServingIsReachable'
      <3>1. conns' = [conns EXCEPT ![actor[x].acct] = x] BY <2>4 DEF Connected
      <3>2. /\ actor[x].acct \in Accounts /\ actor'[x] = [actor[x] EXCEPT !.at = "serving"]
            /\ \A y \in Actors : (y # x /\ y # conns[actor[x].acct]) => actor'[y] = actor[y]
            /\ \A y \in Actors : (y # x /\ y = conns[actor[x].acct]) =>
                  actor'[y] = [actor[y] EXCEPT !.sock = "dead"]
        BY <2>4, ConnectedRows
      <3>3. actor \in [Actors -> ActorRows] /\ conns \in [Accounts -> Actors \cup {None}]
        BY DEF CInv, TypeOK
      <3> SUFFICES ASSUME NEW y \in Actors, actor'[y].at = "serving", actor'[y].sock = "open"
                   PROVE  conns'[actor'[y].acct] = y
        BY DEF ServingIsReachable
      <3>4. CASE y = x
        <4>1. actor'[x].acct = actor[x].acct BY <3>2, <3>3 DEF ActorRows
        <4> QED BY <3>1, <3>2, <3>3, <3>4, <4>1
      <3>5. CASE y # x
        <4>1. y # conns[actor[x].acct]
          BY <3>2, <3>3, <3>5 DEF ActorRows
        <4>2. actor'[y] = actor[y] BY <3>2, <3>5, <4>1
        <4>3. actor[y].acct \in Accounts /\ conns[actor[y].acct] = y
          BY <4>2 DEF ServingIsReachable, CInv, Shape, ActorShape, RowShape
        <4> QED BY <3>1, <3>3, <4>1, <4>2, <4>3
      <3> QED BY <3>4, <3>5
    <2>5. ASSUME NEW x \in Actors, Close(x) PROVE ServingIsReachable'
      <3>1. conns' = [a \in Accounts |-> IF conns[a] = x THEN None ELSE conns[a]]
        BY <2>5 DEF Close
      <3>2. \A y \in Actors : actor'[y].at = "serving" => y # x /\ actor'[y] = actor[y]
        BY <2>5, CloseKeeps
      <3>3. \A y \in Actors : actor[y].at = "serving" => actor[y].acct \in Accounts
        BY DEF CInv, Shape, ActorShape, RowShape
      <3> QED BY <3>1, <3>2, <3>3 DEF ServingIsReachable
    <2>6. ASSUME NEW x \in Actors, ActorExit(x) PROVE ServingIsReachable'
      BY <2>6, ExitKeeps DEF ServingIsReachable, ActorExit, Active
    <2>7. ASSUME NEW r \in Requests, DetachTake(r) PROVE ServingIsReachable'
      BY <2>7 DEF DetachTake, ServingIsReachable
    <2>8. CASE CancelContext
      BY <2>8 DEF CancelContext, ServingIsReachable
    <2>9. CASE Restart
      BY <2>9 DEF Restart, ServingIsReachable, Unused
    <2> QED BY <2>1, <2>2, <2>3, <2>4, <2>5, <2>6, <2>7, <2>8, <2>9, StepKind DEF Kind
  <1> QED BY <1>1, <1>2, Always, PTL DEF Spec

\* The ceiling of Options.MaxAccounts holds for the accounts being served.
LEMMA NoMoreServed ==
  ASSUME CeilingInv, {x \in Slotted : Live(x)}' \subseteq {x \in Slotted : Live(x)}
  PROVE  CeilingInv'
  <1> DEFINE S == {x \in Slotted : Live(x)}
  <1>1. IsFiniteSet(S) /\ Cardinality(S) <= MaxAccounts /\ S' \subseteq S
    BY DEF CeilingInv, CeilingHeld
  <1>2. IsFiniteSet(S') /\ Cardinality(S') <= Cardinality(S)
    BY <1>1, FS_Subset
  <1>3. Cardinality(S) \in Nat /\ Cardinality(S') \in Nat
    BY <1>1, <1>2, FS_CardinalityType
  <1>4. Cardinality(S') <= MaxAccounts
    BY <1>1, <1>2, <1>3, ChatRuntimeAssumption
  <1> QED BY <1>2, <1>4 DEF CeilingInv, CeilingHeld

LEMMA SteadyCeiling ==
  ASSUME CInv, CeilingInv, Steady, UNCHANGED slot PROVE CeilingInv'
  <1>1. Slotted' = Slotted /\ Slotted \subseteq Actors
    BY DEF Slotted, CInv, TypeOK
  <1>2. {x \in Slotted : Live(x)}' \subseteq {x \in Slotted : Live(x)}
    BY <1>1 DEF Steady
  <1> QED BY <1>2, NoMoreServed

LEMMA NextCeiling == ASSUME CInv, CeilingInv, [Next]_vars PROVE CeilingInv'
  <1>0. slot \in [Accounts -> Actors \cup {None}] BY DEF CInv, TypeOK
  <1>1. CASE AnyTurn
    BY <1>1, TurnSteady, SteadyCeiling DEF AnyTurn, Quiet
  <1>2. CASE CallOnly
    BY <1>2, SteadyCeiling DEF CallOnly, Quiet, Steady, Active, Live, Terminating, Cancelled
  <1>3. CASE AnyInstall
    <2>1. PICK a \in Accounts : Install(a) BY <1>3 DEF AnyInstall
    <2>2. UNCHANGED ctxDone BY <1>3 DEF AnyInstall
    <2>3. CASE Kept(a)
      BY <2>2, <2>3, SteadyCeiling DEF Kept, Steady, Active, Live, Terminating, Cancelled
    <2>4. CASE Refused(a)
      <3>1. Slotted' \subseteq Slotted BY <1>0, <2>4 DEF Refused, Slotted
      <3>2. \A x \in Slotted' : Live(x)' <=> Live(x)
        BY <2>2, <2>4 DEF Refused, Active, Live, Terminating, Cancelled
      <3> QED BY <3>1, <3>2, NoMoreServed
    <2>5. ASSUME NEW x \in Actors, Installed(a, x) PROVE CeilingInv'
      <3> DEFINE S == {y \in Slotted : Live(y)}
                 R == {y \in Slotted \ {slot[a]} : Live(y)}
      <3>1. R \subseteq S /\ IsFiniteSet(S) BY DEF CeilingInv
      <3>2. IsFiniteSet(R) BY <3>1, FS_Subset
      <3>3. Cardinality(R) \in Nat /\ Cardinality(R) < MaxAccounts
        BY <2>5, <3>2, FS_CardinalityType, ChatRuntimeAssumption DEF Installed, LiveCount
      <3>4. S' \subseteq R \cup {x}
        <4> SUFFICES ASSUME NEW y \in Slotted', Live(y)', y # x PROVE y \in R
          OBVIOUS
        <4>1. PICK b \in Accounts : slot'[b] = y BY DEF Slotted
        <4>2. b # a /\ slot[b] = y /\ y # None
          BY <1>0, <2>5, <4>1 DEF Installed, Slotted
        <4>3. y \in Actors BY <1>0, <4>2
        <4>4. Live(y)
          BY <2>2, <2>5, <4>3 DEF Installed, Live, Active, Terminating, Cancelled
        <4>5. slot[a] # y
          BY <4>2, <4>3 DEF CInv, Shape, EntryShape
        <4> QED BY <4>2, <4>4, <4>5 DEF Slotted
      <3>5. /\ IsFiniteSet(R \cup {x})
            /\ Cardinality(R \cup {x}) = Cardinality(R) \/ Cardinality(R \cup {x}) = Cardinality(R) + 1
        BY <3>2, FS_AddElement
      <3>6. IsFiniteSet(S') /\ Cardinality(S') <= Cardinality(R \cup {x})
        BY <3>4, <3>5, FS_Subset
      <3>7. Cardinality(S') \in Nat BY <3>6, FS_CardinalityType
      <3>8. Cardinality(S') <= MaxAccounts
        BY <3>3, <3>5, <3>6, <3>7, ChatRuntimeAssumption
      <3> QED BY <3>6, <3>8 DEF CeilingInv, CeilingHeld
    <2> QED BY <2>1, <2>3, <2>4, <2>5, InstallCases
  <1>4. ASSUME NEW x \in Actors, Connected(x) \/ Close(x) PROVE CeilingInv'
    BY <1>4, ConnectedKeeps, CloseKeeps, SteadyCeiling DEF Connected, Close
  <1>5. ASSUME NEW x \in Actors, ActorExit(x) PROVE CeilingInv'
    <2>1. Slotted' \subseteq Slotted /\ Slotted \subseteq Actors
      BY <1>0, <1>5, ExitKeeps DEF Slotted
    <2>2. \A y \in Slotted' : Live(y)' => Live(y)
      BY <1>5, <2>1, ExitKeeps DEF Live
    <2> QED BY <2>1, <2>2, NoMoreServed
  <1>6. ASSUME NEW r \in Requests, DetachTake(r) PROVE CeilingInv'
    <2>1. Slotted' \subseteq Slotted BY <1>0, <1>6 DEF DetachTake, Slotted
    <2>2. \A x \in Slotted' : Live(x)' <=> Live(x)
      BY <1>6 DEF DetachTake, ctlVars, Active, Live, Terminating, Cancelled
    <2> QED BY <2>1, <2>2, NoMoreServed
  <1>7. CASE CancelContext
    BY <1>7, CancelKeeps, SteadyCeiling DEF CancelContext
  <1>8. CASE Restart
    <2>1. {x \in Slotted : Live(x)}' = {} BY <1>8 DEF Restart, Slotted
    <2> QED BY <2>1, NoMoreServed
  <1> QED BY <1>1, <1>2, <1>3, <1>4, <1>5, <1>6, <1>7, <1>8, StepKind DEF Kind

THEOREM NeverAboveCeiling == Spec => []CeilingHeld
  <1>1. Init => CeilingInv
    <2> SUFFICES ASSUME Init PROVE CeilingInv OBVIOUS
    <2>1. {x \in Slotted : Live(x)} = {} BY DEF Init, Slotted
    <2> QED BY <2>1, FS_EmptySet, ChatRuntimeAssumption DEF CeilingInv, CeilingHeld
  <1>2. CInv /\ CeilingInv /\ [Next]_vars => CeilingInv'
    BY NextCeiling
  <1>3. CeilingInv => CeilingHeld BY DEF CeilingInv
  <1> QED BY <1>1, <1>2, <1>3, Always, PTL DEF Spec

-----------------------------------------------------------------------------
\* Only a delete makes an account absent, and the session goes with it.
LEMMA NextSession ==
  ASSUME CInv, SessionHasAccount, [Next]_vars
  PROVE  /\ SessionHasAccount'
         /\ \A a \in Accounts : status'[a] = "absent" =>
               \/ status[a] = "absent"
               \/ \E r \in Requests : DeleteRow(r) /\ a = call[r].acct
  <1> DEFINE Goal == /\ SessionHasAccount'
                     /\ \A a \in Accounts : status'[a] = "absent" =>
                           \/ status[a] = "absent"
                           \/ \E r \in Requests : DeleteRow(r) /\ a = call[r].acct
  <1> USE DEF SessionHasAccount
  <1>0. /\ status \in [Accounts -> {"absent", "ok", "credentials"}]
        /\ session \in [Accounts -> Devices \cup {None}]
    BY DEF CInv, TypeOK
  <1>1. CASE UNCHANGED <<status, session>>
    BY <1>1
  <1>2. ASSUME NEW x \in Actors, Unsession(x) PROVE Goal
    BY <1>0, <1>2 DEF Unsession
  <1>3. ASSUME NEW x \in Actors, MarkCredentials(x) PROVE Goal
    BY <1>0, <1>3 DEF MarkCredentials
  <1>4. ASSUME NEW d \in NewDevices, LinkUpsert(d) PROVE Goal
    BY <1>0, <1>4 DEF LinkUpsert
  <1>5. ASSUME NEW d \in NewDevices, LinkSave(d) PROVE Goal
    BY <1>0, <1>5 DEF LinkSave
  <1>6. ASSUME NEW r \in Requests, DeleteSession(r) PROVE Goal
    BY <1>0, <1>6 DEF DeleteSession
  <1>7. ASSUME NEW r \in Requests, DeleteRow(r) PROVE Goal
    BY <1>0, <1>7 DEF DeleteRow
  <1>8. \/ UNCHANGED <<status, session>>
        \/ \E x \in Actors : Unsession(x) \/ MarkCredentials(x)
        \/ \E d \in NewDevices : LinkUpsert(d) \/ LinkSave(d)
        \/ \E r \in Requests : DeleteSession(r) \/ DeleteRow(r)
    BY DEF Next, Run, Proceed, Link, Delete, vars, dbVars, Boot, Dial, LoadDevice, DialFails,
           Connected, Stabilised, ServeEnds, Close, Decide, Wake, Forget, ActorExit,
           Disconnected, LinkBegin, LinkForget, ReconnectBegin, DeleteBegin, DeleteLogout,
           DeleteUnlink, DetachTake, DetachStop, AttachCheck, AttachInstall, CancelContext,
           WaitReturns, Restart
  <1> QED BY <1>1, <1>2, <1>3, <1>4, <1>5, <1>6, <1>7, <1>8

\* Why an actor of an account that is gone never reaches a device.
Dark(y) ==
    \/ FindsNoSession(actor[y])
    \/ \E c \in Callers : call[c].victim = y
    \/ \E c \in Callers : call[c].at = "take" /\ call[c].acct = actor[y].acct

\* Callers keep the reasons they give, as long as the actor is not cancelled.
LEMMA DarkByCallers ==
  ASSUME CInv, CallsMove, NEW y \in Actors, Live(y)', actor'[y].acct = actor[y].acct, Dark(y),
         ~FindsNoSession(actor[y])
  PROVE  Dark(y)'
  <1>1. ASSUME NEW c \in Callers, call[c].victim = y PROVE call'[c].victim = y
    BY <1>1 DEF CallsMove
  <1>2. ASSUME NEW c \in Callers, call[c].at = "take" PROVE call'[c] = call[c]
    BY <1>2 DEF CallsMove
  <1> QED BY <1>1, <1>2 DEF Dark

\* A live actor has just been installed, or was live before.
LEMMA ComesAlive ==
  ASSUME CInv, [Next]_vars, ~Restart, NEW y \in Actors, Live(y)'
  PROVE  \/ \E a \in Accounts : Installed(a, y) /\ UNCHANGED ctxDone
         \/ Live(y) /\ actor'[y].acct = actor[y].acct
  <1>1. ASSUME Steady PROVE Live(y) /\ actor'[y].acct = actor[y].acct
    BY <1>1 DEF Steady
  <1>2. ASSUME actor'[y] = actor[y], ctxDone' = ctxDone
        PROVE  Live(y) /\ actor'[y].acct = actor[y].acct
    BY <1>2 DEF Live, Active, Terminating, Cancelled
  <1>3. CASE AnyTurn BY <1>1, <1>3, TurnSteady DEF AnyTurn, Quiet
  <1>4. CASE CallOnly BY <1>2, <1>4 DEF CallOnly, Quiet
  <1>5. CASE AnyInstall
    <2>1. PICK a \in Accounts : Install(a) /\ UNCHANGED ctxDone BY <1>5 DEF AnyInstall
    <2>2. CASE Kept(a) \/ Refused(a) BY <1>2, <2>1, <2>2 DEF Kept, Refused
    <2>3. ASSUME NEW x \in Actors, Installed(a, x), x # y
          PROVE  Live(y) /\ actor'[y].acct = actor[y].acct
      BY <1>2, <2>1, <2>3 DEF Installed
    <2> QED BY <2>1, <2>2, <2>3, InstallCases
  <1>6. ASSUME NEW x \in Actors, Connected(x) \/ Close(x)
        PROVE  Live(y) /\ actor'[y].acct = actor[y].acct
    BY <1>1, <1>6, ConnectedKeeps, CloseKeeps
  <1>7. ASSUME NEW x \in Actors, ActorExit(x)
        PROVE  Live(y) /\ actor'[y].acct = actor[y].acct
    BY <1>7, ExitKeeps DEF Live
  <1>8. ASSUME NEW r \in Requests, DetachTake(r)
        PROVE  Live(y) /\ actor'[y].acct = actor[y].acct
    BY <1>2, <1>8 DEF DetachTake, ctlVars
  <1>9. CASE CancelContext BY <1>1, <1>9, CancelKeeps
  <1> QED BY <1>3, <1>4, <1>5, <1>6, <1>7, <1>8, <1>9, StepKind DEF Kind

LEMMA NextDark ==
  ASSUME CInv, LiveIsHeld, SessionHasAccount, GoneIsDark, [Next]_vars
  PROVE  GoneIsDark'
  <1> SUFFICES ASSUME NEW y \in Actors, Live(y)', status'[actor'[y].acct] = "absent"
               PROVE  Dark(y)'
    BY DEF GoneIsDark, Dark
  <1>1. CASE Restart
    BY <1>1, RestartKeeps DEF Live
  <1>2. CASE \E a \in Accounts : Installed(a, y) /\ UNCHANGED ctxDone
    BY <1>2 DEF Installed, Unused, Dark, FindsNoSession
  <1>3. ASSUME Live(y), actor'[y].acct = actor[y].acct PROVE Dark(y)'
    <2>1. actor[y].acct \in Accounts
      BY <1>3 DEF CInv, Shape, ActorShape, RowShape, Live, Active
    <2>2. CASE status[actor[y].acct] # "absent"
      <3>1. PICK r \in Requests : DeleteRow(r) /\ actor[y].acct = call[r].acct
        BY <1>3, <2>1, <2>2, NextSession
      <3>2. r \in Callers /\ call[r] \in CallRows /\ call \in [Callers -> CallRows]
        BY DEF Callers, CInv, TypeOK
      <3>3. call'[r].at = "take" /\ call'[r].acct = call[r].acct
        BY <3>1, <3>2 DEF DeleteRow, Step, CallRows
      <3> QED BY <1>3, <3>1, <3>2, <3>3 DEF Dark
    <2>3. CASE status[actor[y].acct] = "absent"
      <3>1. Dark(y) /\ session[actor[y].acct] = None
        BY <1>3, <2>1, <2>3 DEF GoneIsDark, Dark, SessionHasAccount
      <3>2. CASE CallsMove /\ ~FindsNoSession(actor[y])
        BY <1>3, <3>1, <3>2, DarkByCallers
      <3>3. CASE actor'[y] = actor[y] /\ FindsNoSession(actor[y])
        BY <3>3 DEF Dark
      <3>4. CASE AnyTurn /\ FindsNoSession(actor[y])
        <4>1. PICK x \in Actors, r \in ActorRows : Turn(x, r) BY <3>4 DEF AnyTurn
        <4>2. actor'[x] = r /\ \A z \in Actors : z # x => actor'[z] = actor[z]
          BY <3>4, <4>1, TurnSteady DEF AnyTurn, Quiet
        <4>3. CASE x = y
          <5>1. FindsNoSession(r) \/ r.terminating \/ r.stopped
            BY <3>1, <3>4, <4>1, <4>3 DEF Turn, Carries
          <5>2. ~r.terminating /\ ~r.stopped
            BY <4>2, <4>3 DEF Live, Terminating, Cancelled
          <5> QED BY <4>2, <4>3, <5>1, <5>2 DEF Dark
        <4>4. CASE x # y BY <3>4, <4>2, <4>4 DEF Dark
        <4> QED BY <4>3, <4>4
      <3>5. ASSUME NEW a \in Accounts, Install(a), ~\E b \in Accounts : Installed(b, y)
            PROVE  actor'[y] = actor[y]
        BY <3>5, InstallCases DEF Kept, Refused, Installed
      <3>6. ASSUME NEW x \in Actors, Connected(x) PROVE FindsNoSession(actor[y]) => actor'[y] = actor[y]
        <4>1. \A z \in Actors : (z = x \/ z = conns[actor[x].acct]) =>
                 actor[z].at \in {"dialing", "serving", "closing"}
          <5>1. actor[x].acct \in Accounts /\ actor[x].at = "dialing" BY <3>6, ConnectedRows
          <5> QED BY <5>1 DEF CInv, Shape, EntryShape
        <4> QED BY <3>6, <4>1, ConnectedRows DEF FindsNoSession
      <3>7. ASSUME NEW x \in Actors, Close(x) PROVE FindsNoSession(actor[y]) => actor'[y] = actor[y]
        BY <3>7, CloseKeeps DEF Close, FindsNoSession
      <3>8. ASSUME NEW x \in Actors, ActorExit(x) PROVE FindsNoSession(actor[y]) => actor'[y] = actor[y]
        BY <3>8, ExitKeeps DEF FindsNoSession
      <3>9. ASSUME NEW r \in Requests, DetachTake(r) PROVE Dark(y)'
        <4>1. UNCHANGED <<actor, ctxDone>> BY <3>9 DEF DetachTake, ctlVars
        <4>2. CASE FindsNoSession(actor[y]) BY <4>1, <4>2 DEF Dark
        <4>3. ASSUME NEW c \in Callers, call[c].victim = y PROVE call'[c].victim = y
          BY <3>9, <4>3, TakeKeeps, NoVictim
        <4>4. ASSUME NEW c \in Callers, call[c].at = "take", call[c].acct = actor[y].acct
              PROVE  Dark(y)'
          <5>1. CASE c # r
            BY <3>9, <4>1, <4>4, <5>1, TakeKeeps DEF Dark
          <5>2. CASE c = r
            <6>1. CASE slot[actor[y].acct] = y
              <7>1. call'[r].victim = y BY <3>9, <4>4, <5>2, <6>1, TakeKeeps
              <7> QED BY <5>2, <7>1 DEF Dark
            <6>2. CASE \E d \in Callers : call[d].victim = y
              BY <4>3, <6>2 DEF Dark
            <6> QED BY <1>3, <6>1, <6>2 DEF LiveIsHeld
          <5> QED BY <5>1, <5>2
        <4> QED BY <3>1, <4>2, <4>3, <4>4 DEF Dark
      <3>10. CASE AnyTurn \/ CallOnly
        BY <3>2, <3>3, <3>4, <3>10 DEF AnyTurn, CallOnly
      <3>11. CASE AnyInstall
        <4>1. CallsMove /\ UNCHANGED ctxDone /\ \E a \in Accounts : Install(a)
          BY <3>11 DEF AnyInstall
        <4> QED BY <1>2, <3>2, <3>3, <3>5, <4>1
      <3>12. ASSUME NEW x \in Actors, Connected(x) \/ Close(x) \/ ActorExit(x) PROVE Dark(y)'
        <4>1. CallsMove BY <3>12, ConnectedKeeps, CloseKeeps, ExitKeeps
        <4> QED BY <3>2, <3>3, <3>6, <3>7, <3>8, <3>12, <4>1
      <3>13. CASE CancelContext
        <4>1. CallsMove /\ UNCHANGED actor BY <3>13, SameCalls DEF CancelContext
        <4> QED BY <3>2, <3>3, <4>1
      <3> QED BY <1>1, <3>9, <3>10, <3>11, <3>12, <3>13, StepKind DEF Kind
    <2> QED BY <2>2, <2>3
  <1> QED BY <1>1, <1>2, <1>3, ComesAlive

\* handleDeleteAccount's order, unlink before detach: when it has finished no
\* actor holds or dials a socket for the account, an Attach that crossed it
\* included.
THEOREM DeletedIsDark == Spec => []DeletedStaysDark
  <1>1. Init => SessionHasAccount /\ GoneIsDark
    BY DEF Init, SessionHasAccount, GoneIsDark, Live, Active, Unused
  <1>2. /\ CInv /\ LiveIsHeld /\ SessionHasAccount /\ GoneIsDark /\ [Next]_vars
        => (SessionHasAccount /\ GoneIsDark)'
    BY NextSession, NextDark
  <1>3. CInv /\ GoneIsDark => DeletedStaysDark
    <2> SUFFICES ASSUME CInv, GoneIsDark,
                        NEW a \in deleted, NEW x \in Actors, status[a] = "absent", ~Busy(a),
                        actor[x].acct = a, Live(x)
                 PROVE  actor[x].at \in {"start", "decide"} /\ actor[x].sock = "none"
      BY DEF DeletedStaysDark
    <2>1. \A c \in Callers : call[c].victim # x
      <3> SUFFICES ASSUME NEW c \in Callers, call[c].victim = x PROVE FALSE
        OBVIOUS
      <3>1. call[c].at = "stop" /\ call[c].acct = a
        BY ChatRuntimeAssumption DEF CInv, Shape, CallShape, CallRowShape, Live
      <3> QED BY <3>1 DEF Busy
    <2>2. \A c \in Callers : ~(call[c].at = "take" /\ call[c].acct = a)
      BY DEF Busy
    <2> QED BY <2>1, <2>2 DEF GoneIsDark, FindsNoSession
  <1> QED BY <1>1, <1>2, <1>3, Always, PTL DEF Spec

-----------------------------------------------------------------------------
Tries(a, x) == actor[x].acct = a /\ ~Cancelled(x) /\ actor[x].at # "exit"

Served(a) == (\E x \in Actors : Tries(a, x)) \/ Busy(a)

\* The accounts OKIsServed speaks of.
Claims(a) == status[a] = "ok" /\ ~ctxDone /\ a \notin boot \cup refused \cup deleted

LEMMA ClaimArises ==
  ASSUME CInv, [Next]_vars, NEW a \in Accounts, Claims(a)'
  PROVE  \/ Claims(a)
         \/ Busy(a)'
         \/ Install(a) /\ UNCHANGED ctxDone
  <1> USE DEF Claims
  <1>1. CASE UNCHANGED <<status, ctxDone, boot, refused>> /\ deleted \subseteq deleted'
    BY <1>1
  <1>2. ASSUME NEW b \in Accounts, Boot(b) PROVE Claims(a) \/ (Install(a) /\ UNCHANGED ctxDone)
    <2>1. CASE b = a BY <1>2, <2>1 DEF Boot
    <2>2. CASE b # a
      <3>1. a \in refused => a \in refused'
        BY <1>2, <2>2, InstallCases DEF Boot, Kept, Refused, Installed
      <3> QED BY <1>2, <2>2, <3>1 DEF Boot, dbVars
    <2> QED BY <2>1, <2>2
  <1>3. ASSUME NEW c \in Callers, AttachInstall(c)
        PROVE  Claims(a) \/ (Install(a) /\ UNCHANGED ctxDone)
    <2>1. call[c].acct \in Accounts
      BY <1>3 DEF AttachInstall, CInv, Shape, CallShape, CallRowShape
    <2>2. CASE call[c].acct = a BY <1>3, <2>2 DEF AttachInstall, ctlVars
    <2>3. CASE call[c].acct # a
      <3>1. a \in refused => a \in refused'
        BY <1>3, <2>1, <2>3, InstallCases DEF AttachInstall, Kept, Refused, Installed
      <3> QED BY <1>3, <3>1 DEF AttachInstall, dbVars, ctlVars
    <2> QED BY <2>2, <2>3
  <1>4. ASSUME NEW d \in NewDevices, LinkUpsert(d) PROVE Claims(a) \/ Busy(a)'
    <2>1. d \in Callers /\ call \in [Callers -> CallRows] /\ call[d] \in CallRows
      BY DEF Callers, CInv, TypeOK
    <2>2. CASE call[d].acct = a
      <3>1. call'[d].at = "forget" /\ call'[d].acct = a
        BY <1>4, <2>1, <2>2 DEF LinkUpsert, Step, CallRows
      <3> QED BY <2>1, <3>1 DEF Busy
    <2>3. CASE call[d].acct # a
      BY <1>4, <2>3 DEF LinkUpsert, ctlVars, CInv, TypeOK
    <2> QED BY <2>2, <2>3
  <1>5. ASSUME NEW x \in Actors, MarkCredentials(x) PROVE Claims(a)
    BY <1>5 DEF MarkCredentials, ctlVars, CInv, TypeOK
  <1>6. ASSUME NEW r \in Requests, DeleteRow(r) PROVE Claims(a)
    BY <1>6 DEF DeleteRow, CInv, TypeOK
  <1>7. ASSUME NEW c \in Callers, AttachCheck(c) PROVE Claims(a)
    BY <1>7 DEF AttachCheck, dbVars, ctlVars
  <1>8. CASE CancelContext BY <1>8 DEF CancelContext
  <1>9. CASE Restart BY <1>9 DEF Restart, dbVars
  <1>10. \/ UNCHANGED <<status, ctxDone, boot, refused>> /\ deleted \subseteq deleted'
         \/ \E b \in Accounts : Boot(b)
         \/ \E c \in Callers : AttachInstall(c) \/ AttachCheck(c)
         \/ \E d \in NewDevices : LinkUpsert(d)
         \/ \E x \in Actors : MarkCredentials(x)
         \/ \E r \in Requests : DeleteRow(r)
         \/ CancelContext
         \/ Restart
    <2> DEFINE Calm == UNCHANGED <<status, ctxDone, boot, refused>> /\ deleted \subseteq deleted'
    <2> USE DEF dbVars, ctlVars
    <2>1. ASSUME NEW x \in Actors, Run(x) \/ Stabilised(x) PROVE Calm \/ MarkCredentials(x)
      BY <2>1 DEF Run, Dial, LoadDevice, DialFails, Connected, Stabilised, ServeEnds, Close,
                  Decide, Wake, Forget, Unsession, ActorExit
    <2>2. ASSUME NEW x \in Actors, NEW why, Disconnected(x, why) PROVE Calm
      BY <2>2 DEF Disconnected
    <2>3. ASSUME NEW d \in NewDevices, LinkBegin(d) \/ Link(d) PROVE Calm \/ LinkUpsert(d)
      BY <2>3 DEF Link, LinkBegin, LinkForget, LinkSave
    <2>4. ASSUME NEW r \in Requests, NEW b, ReconnectBegin(r, b) \/ DeleteBegin(r, b) PROVE Calm
      BY <2>4 DEF ReconnectBegin, DeleteBegin
    <2>5. ASSUME NEW r \in Requests, Delete(r) \/ DetachTake(r) \/ DetachStop(r)
          PROVE  Calm \/ DeleteRow(r)
      BY <2>5 DEF Delete, DeleteLogout, DeleteUnlink, DeleteSession, DetachTake, DetachStop
    <2>6. WaitReturns \/ UNCHANGED vars => Calm BY DEF WaitReturns, vars
    <2> QED BY <2>1, <2>2, <2>3, <2>4, <2>5, <2>6 DEF Next, Proceed
  <1> QED BY <1>1, <1>2, <1>3, <1>4, <1>5, <1>6, <1>7, <1>8, <1>9, <1>10

\* Attach leaves an account served, unless it returns an error.
LEMMA InstallServes ==
  ASSUME CInv, NEW a \in Accounts, Install(a), UNCHANGED ctxDone, Claims(a)'
  PROVE  Served(a)'
  <1>1. CASE Kept(a)
    <2>1. PICK x \in Actors : x = slot[a] BY <1>1 DEF Kept, CInv, TypeOK
    <2>2. Tries(a, x)'
      BY <1>1, <2>1 DEF Kept, Terminating, Cancelled, Tries, CInv, Shape, EntryShape,
                        ActorShape, RowShape
    <2> QED BY <2>1, <2>2 DEF Served
  <1>2. CASE Refused(a) BY <1>2 DEF Refused, Claims
  <1>3. ASSUME NEW x \in Actors, Installed(a, x) PROVE Served(a)'
    <2>1. Tries(a, x)' BY <1>3 DEF Installed, Unused, Tries, Cancelled, Claims
    <2> QED BY <2>1 DEF Served
  <1> QED BY <1>1, <1>2, <1>3, InstallCases

\* The context once cancelled stays so in a process.
LEMMA StepCancels ==
  ASSUME CInv, [Next]_vars, ~Restart, ~ctxDone'
  PROVE  ~ctxDone
  BY StepKind DEF Kind, AnyTurn, CallOnly, AnyInstall, Quiet, Connected, Close, ActorExit,
                  DetachTake, CancelContext, ctlVars

\* A caller at work stays at work, or leaves the account in order.
LEMMA BusyStays ==
  ASSUME CInv, [Next]_vars, NEW a \in Accounts, Busy(a), Claims(a)'
  PROVE  Busy(a)' \/ Install(a) \/ Restart
  <1>1. PICK c \in Callers : call[c].acct = a /\ call[c].at \notin {"idle", "done"}
    BY DEF Busy
  <1>2. CASE CallsMove
    BY <1>1, <1>2 DEF CallsMove, Settled, Busy, Claims
  <1>3. ASSUME NEW r \in Requests, DetachTake(r) PROVE Busy(a)'
    <2>1. CASE c = r
      <3>1. call[c] \in CallRows BY DEF CInv, TypeOK
      <3>2. call'[c].at = "stop" /\ call'[c].acct = a
        <4>1. call'[c] = [call[c] EXCEPT !.at = "stop", !.victim = slot[call[c].acct]]
          BY <1>3, <2>1, TakeKeeps
        <4> QED BY <1>1, <3>1, <4>1 DEF CallRows
      <3> QED BY <3>2 DEF Busy
    <2>2. CASE c # r BY <1>1, <1>3, <2>2, TakeKeeps DEF Busy
    <2> QED BY <2>1, <2>2
  <1>4. ASSUME NEW x \in Actors, Connected(x) \/ Close(x) \/ ActorExit(x) PROVE CallsMove
    BY <1>4, ConnectedKeeps, CloseKeeps, ExitKeeps
  <1>5. ASSUME CancelContext PROVE CallsMove BY <1>5, CancelKeeps
  <1> QED
    BY <1>2, <1>3, <1>4, <1>5, StepKind DEF Kind, AnyTurn, CallOnly, AnyInstall

\* An actor that tries goes on, unless its account is no longer OK or a caller
\* cancels it; that caller attaches another, or has deleted the account.
LEMMA TriesStays ==
  ASSUME CInv, [Next]_vars, ~Restart, NEW a \in Accounts, NEW x \in Actors, Tries(a, x), Claims(a)'
  PROVE  Served(a)'
  <1>1. Active(x)
    BY ChatRuntimeAssumption DEF Tries, Active, CInv, Shape, ActorShape, RowShape, Unused
  <1>2. ~ctxDone' BY DEF Claims
  <1>3. ASSUME actor'[x] = actor[x] PROVE Served(a)'
    BY <1>2, <1>3 DEF Served, Tries, Cancelled
  <1>4. CASE AnyTurn
    <2>1. PICK y \in Actors, r \in ActorRows : Turn(y, r) BY <1>4 DEF AnyTurn
    <2>2. actor'[y] = r /\ \A z \in Actors : z # y => actor'[z] = actor[z]
      BY <1>4, <2>1, TurnSteady DEF AnyTurn, Quiet
    <2>3. CASE y # x BY <1>3, <2>2, <2>3
    <2>4. CASE y = x
      <3>1. r.acct = a BY <2>1, <2>4 DEF Turn, Carries, Tries
      <3>2. \/ ~r.stopped /\ r.at # "exit"
            \/ \E c \in Requests : DetachStop(c) /\ call[c].victim = x
        BY <2>1, <2>4 DEF Turn, Stays, Tries, Cancelled, Claims
      <3>3. CASE ~r.stopped /\ r.at # "exit"
        BY <1>2, <2>2, <2>4, <3>1, <3>3 DEF Served, Tries, Cancelled
      <3>4. ASSUME NEW c \in Requests, DetachStop(c), call[c].victim = x PROVE Served(a)'
        <4>1. /\ c \in Callers /\ call[c] \in CallRows /\ call \in [Callers -> CallRows]
              /\ call[c].acct = a
          BY <1>1, <3>4 DEF Callers, CInv, TypeOK, Shape, CallShape, Tries
        <4>2. call[c].op = "reconnect"
          BY <3>4, <4>1 DEF CInv, Shape, CallShape, CallRowShape, DetachStop, ctlVars, Claims
        <4>3. call'[c].at = "attach" /\ call'[c].acct = a
          BY <3>4, <4>1, <4>2 DEF DetachStop, CallRows
        <4> QED BY <4>1, <4>3 DEF Served, Busy
      <3> QED BY <3>2, <3>3, <3>4
    <2> QED BY <2>3, <2>4
  <1>5. CASE CallOnly BY <1>3, <1>5 DEF CallOnly
  <1>6. CASE AnyInstall
    BY <1>1, <1>3, <1>6, InstallCases DEF AnyInstall, Kept, Refused, Installed
  <1>7. ASSUME NEW y \in Actors, Connected(y) PROVE Served(a)'
    <2>1. actor \in [Actors -> ActorRows] BY DEF CInv, TypeOK
    <2>2. /\ actor'[x].acct = actor[x].acct /\ actor'[x].stopped = actor[x].stopped
          /\ actor'[x].at = actor[x].at \/ actor'[x].at = "serving"
      <3>1. \/ actor'[x] = actor[x]
            \/ actor'[x] = [actor[x] EXCEPT !.at = "serving"]
            \/ actor'[x] = [actor[x] EXCEPT !.sock = "dead"]
        BY <1>7, ConnectedRows
      <3>2. actor[x] \in ActorRows BY <2>1
      <3> QED BY <3>1, <3>2 DEF ActorRows
    <2> QED BY <1>2, <2>2 DEF Served, Tries, Cancelled
  <1>8. ASSUME NEW y \in Actors, Close(y) PROVE Served(a)'
    <2>1. actor \in [Actors -> ActorRows] BY DEF CInv, TypeOK
    <2>2. CASE x = y
      <3>1. actor'[x].acct = a /\ actor'[x].stopped = actor[x].stopped
        BY <1>8, <2>1, <2>2 DEF Close, ActorRows, Tries
      <3> QED BY <1>2, <1>8, <2>2, <3>1, CloseKeeps DEF Served, Tries, Cancelled
    <2>3. CASE x # y BY <1>3, <1>8, <2>3, CloseKeeps
    <2> QED BY <2>2, <2>3
  <1>9. ASSUME NEW y \in Actors, ActorExit(y) PROVE Served(a)'
    BY <1>3, <1>9, ExitKeeps DEF Tries
  <1>10. ASSUME NEW r \in Requests, DetachTake(r) PROVE Served(a)'
    BY <1>3, <1>10 DEF DetachTake
  <1>11. CASE CancelContext BY <1>2, <1>11 DEF CancelContext
  <1> QED BY <1>4, <1>5, <1>6, <1>7, <1>8, <1>9, <1>10, <1>11, StepKind DEF Kind

\* Attach's eviction of an entry on its way out: an account that is OK has an
\* actor that tries, or somebody about to attach it, or was refused one.
THEOREM OKHasAnActor == Spec => []OKIsServed
  <1> USE DEF OKIsServed
  <1>0. OKIsServed <=> \A a \in Accounts : Claims(a) => Served(a)
    BY DEF Claims, Served, Tries
  <1>1. Init => OKIsServed BY DEF Init
  <1>2. CInv /\ OKIsServed /\ [Next]_vars => OKIsServed'
    <2> SUFFICES ASSUME CInv, OKIsServed, [Next]_vars, NEW a \in Accounts, Claims(a)'
                 PROVE  Served(a)'
      BY DEF Claims, Served, Tries
    <2>1. CASE Restart BY <2>1 DEF Restart, dbVars, Claims
    <2>2. CASE Install(a) /\ UNCHANGED ctxDone BY <2>2, InstallServes
    <2>3. ASSUME ~Restart, Install(a) PROVE UNCHANGED ctxDone
      <3>1. ctxDone \in BOOLEAN /\ ctxDone' \in BOOLEAN
        BY TableTypes DEF TablesOK, CInv, TypeOK
      <3>2. ~ctxDone' /\ ~ctxDone BY <2>3, StepCancels DEF Claims
      <3> QED BY <3>1, <3>2
    <2>4. CASE ~Restart /\ Claims(a)
      <3>1. Served(a) BY <1>0, <2>4
      <3>2. CASE Busy(a) BY <2>2, <2>3, <2>4, <3>2, BusyStays DEF Served
      <3>3. ASSUME NEW x \in Actors, Tries(a, x) PROVE Served(a)'
        BY <2>4, <3>3, TriesStays
      <3> QED BY <3>1, <3>2, <3>3 DEF Served
    <2> QED BY <2>1, <2>2, <2>4, ClaimArises DEF Served
  <1> QED BY <1>1, <1>2, Always, PTL DEF Spec
=============================================================================
