-------------------------- MODULE PushSubscriptions --------------------------
(***************************************************************************)
(* The push subscription of one mailbox (internal/syncer/subscriptions.go,   *)
(* outlook/push.go): the hourly reconcile loop beside requests, which are a  *)
(* connect, a lifecycle notification or the deletion of the account.  Each   *)
(* reads the stored rows, calls the provider and writes the rows back with   *)
(* no lock between.                                                          *)
(*                                                                          *)
(* The provider keeps one subscription per mailbox (a second one is a        *)
(* conflict) and lets it lapse.  Of time only this is kept: a subscription   *)
(* is fresh, or close enough to its expiry to be renewed.                    *)
(***************************************************************************)
EXTENDS Naturals, FiniteSets

CONSTANTS
    Subs,        \* provider ids of subscriptions, used again when nobody holds one
    Loop,        \* the goroutine of subscriptionLoop
    Request,     \* the goroutine of a request or a notification
    Nobody,
    MaxRequests, \* connects, lifecycle notifications and deletions
    MaxMishaps   \* failing calls, subscriptions the provider drops, revoked grants, and kills

Procs == {Loop, Request}

ASSUME PushAssumption ==
    /\ Loop # Request /\ Nobody \notin Subs
    /\ MaxRequests \in Nat /\ MaxMishaps \in Nat

VARIABLES
    remote,    \* the provider's subscription, or Nobody
    life,      \* its life: "fresh" or "due"
    local,     \* subscriptions: id -> [life, secret], life "none" if no row
    alive,     \* the account exists
    status,    \* accounts.status
    proc,      \* goroutine -> where it is
    requests, mishaps

owner == <<alive, status>>
pushVars == <<remote, life, local, owner, proc, requests, mishaps>>

NoSub == [life |-> "none", secret |-> "none"]
Ours(l) == [life |-> l, secret |-> "ours"]

\* Where a goroutine is: rows it has read and still has to look at, those that
\* were fresh then, the id it holds, and whether it has replaced what the provider lists already.
Done == [at |-> "idle", todo |-> {}, fresh |-> {}, sub |-> Nobody, retried |-> FALSE, result |-> "none"]

PushTypeOK ==
    /\ remote \in Subs \cup {Nobody}
    /\ life \in {"fresh", "due"}
    /\ \A s \in Subs : local[s].life \in {"none", "fresh", "due"}
                       /\ (local[s].life = "none" <=> local[s].secret = "none")
    /\ alive \in BOOLEAN /\ status \in {"OK", "CREDENTIALS"}
    /\ \A p \in Procs :
         /\ proc[p].at \in {"idle", "look", "create", "adopt", "save", "renew", "remove"}
         /\ proc[p].todo \subseteq Subs /\ proc[p].sub \in Subs \cup {Nobody}
         /\ proc[p].result \in {"none", "ok", "failed"}
    /\ ~alive => \A s \in Subs : local[s] = NoSub

PushInit ==
    /\ remote = Nobody /\ life = "fresh"
    /\ local = [s \in Subs |-> NoSub]
    /\ alive = TRUE /\ status = "OK"
    /\ proc = [p \in Procs |-> Done]
    /\ requests = 0 /\ mishaps = 0

Rows == {s \in Subs : local[s].life # "none"}
Mishap == mishaps < MaxMishaps /\ mishaps' = mishaps + 1

\* A call to the provider fails: by mishap, or for want of a token.
Connected == alive /\ status = "OK"
CallIsLost == IF Connected THEN Mishap ELSE UNCHANGED mishaps
Step(p, r) == proc' = [proc EXCEPT ![p] = r]
Return(p, result) == Step(p, [Done EXCEPT !.result = result])

-----------------------------------------------------------------------------
(* EnsureSubscription.                                                      *)

\* SubscriptionsForAccount: the rows as they are now.
Look == [Done EXCEPT !.at = "look", !.todo = Rows,
                     !.fresh = {s \in Subs : local[s].life = "fresh"}]

\* Mutant: accounts that are gone or not connected are reconciled as well.
ReconcileAny ==
    /\ proc[Loop].at = "idle"
    /\ Step(Loop, Look)
    /\ UNCHANGED <<remote, life, local, owner, requests, mishaps>>

\* reconcileSubscriptions comes to the account, and passes over one that is not OK.
Reconcile ==
    /\ proc[Loop].at = "idle" /\ Connected
    /\ Step(Loop, Look)
    /\ UNCHANGED <<remote, life, local, owner, requests, mishaps>>

\* Mutant: a row is healthy whatever its expiry.
HealthyAlways(p, s) == s \in Subs /\ p \in Procs

\* time.Until(ExpiresAt) > RenewBefore(), of the row as it was read.
Healthy(p, s) == s \in proc[p].fresh

Request1 == requests < MaxRequests /\ requests' = requests + 1

\* The next row: healthy, renewed, or dropped because the renewal failed.
LookAt(p, s) ==
    /\ proc[p].at = "look" /\ s \in proc[p].todo
    /\ \/ Healthy(p, s) /\ Return(p, "ok") /\ UNCHANGED <<life, local, mishaps>>
       \/ /\ ~Healthy(p, s) /\ remote = s
          /\ life' = "fresh"
          /\ IF alive THEN local' = [local EXCEPT ![s] = Ours("fresh")] ELSE UNCHANGED local
          /\ Return(p, IF alive THEN "ok" ELSE "failed")
          /\ UNCHANGED mishaps
       \/ /\ ~Healthy(p, s)
          /\ IF remote = s THEN CallIsLost ELSE UNCHANGED mishaps
          /\ local' = [local EXCEPT ![s] = NoSub]
          /\ Step(p, [proc[p] EXCEPT !.todo = @ \ {s}])
          /\ UNCHANGED life
    /\ UNCHANGED <<remote, owner, requests>>

\* Mutant: an existing subscription is stored in place, with no secret.
AdoptInPlace(p) ==
    /\ local' = [local EXCEPT ![remote] = [life |-> life, secret |-> "blank"]]
    /\ Return(p, "ok")

\* createSubscription's conflict: once, list what there is and replace it.
Conflict(p) ==
    /\ UNCHANGED local
    /\ IF proc[p].retried THEN Return(p, "failed")
       ELSE Step(p, [proc[p] EXCEPT !.at = "adopt", !.sub = remote, !.retried = TRUE])

Unused == Subs \ (Rows \cup {remote} \cup {proc[p].sub : p \in Procs})

\* createSubscription: Create upstream, with a secret of its own.
Create(p) ==
    /\ proc[p].at = "create" \/ (proc[p].at = "look" /\ proc[p].todo = {})
    /\ \/ /\ remote = Nobody
          /\ \E s \in Unused :
               /\ remote' = s /\ life' = "fresh"
               /\ Step(p, [proc[p] EXCEPT !.at = "save", !.sub = s])
          /\ UNCHANGED <<local, mishaps>>
       \/ remote # Nobody /\ Conflict(p) /\ UNCHANGED <<remote, life, mishaps>>
       \/ /\ CallIsLost
          /\ Return(p, "failed") /\ UNCHANGED <<remote, life, local>>
    /\ UNCHANGED <<owner, requests>>

\* adoptExisting: Delete what List showed; a failed delete is only logged.
Adopt(p) ==
    /\ proc[p].at = "adopt"
    /\ \/ remote' = (IF remote = proc[p].sub THEN Nobody ELSE remote) /\ UNCHANGED mishaps
       \/ CallIsLost /\ UNCHANGED remote
    /\ Step(p, [proc[p] EXCEPT !.at = "create", !.sub = Nobody])
    /\ UNCHANGED <<life, local, owner, requests>>

\* SaveSubscription; the row of an account that is gone is refused.
Save(p) ==
    /\ proc[p].at = "save"
    /\ \/ /\ alive
          /\ local' = [local EXCEPT ![proc[p].sub] = Ours("fresh")]
          /\ Return(p, "ok") /\ UNCHANGED mishaps
       \/ ~alive /\ Return(p, "failed") /\ UNCHANGED <<local, mishaps>>
       \/ Mishap /\ Return(p, "failed") /\ UNCHANGED local
    /\ UNCHANGED <<remote, life, owner, requests>>

-----------------------------------------------------------------------------
(* Requests.                                                                *)

\* HandleNotifications: a row with the secret of the subscription that sent it.
Trusted(s) == local[s].secret = "ours"

\* Connect, which sets the status, and then afterConnect's EnsureSubscription.
ConnectEnsures ==
    /\ proc[Request].at = "idle" /\ alive /\ Request1
    /\ status' = "OK"
    /\ Step(Request, Look)
    /\ UNCHANGED <<remote, life, local, alive, mishaps>>

\* handleLifecycle: recreate drops the row and ensures; reauthorize renews.
Lifecycle(s) ==
    /\ proc[Request].at = "idle" /\ Trusted(s) /\ Request1
    /\ \/ /\ local' = [local EXCEPT ![s] = NoSub]
          /\ Step(Request, [Look EXCEPT !.todo = Rows \ {s}])
       \/ Step(Request, [Done EXCEPT !.at = "renew", !.sub = s]) /\ UNCHANGED local
    /\ UNCHANGED <<remote, life, owner, mishaps>>

\* Its Renew; the new expiry is not stored.
Reauthorize ==
    /\ proc[Request].at = "renew"
    /\ \/ /\ remote = proc[Request].sub /\ life' = "fresh"
          /\ Return(Request, "ok") /\ UNCHANGED mishaps
       \/ remote # proc[Request].sub /\ Return(Request, "failed") /\ UNCHANGED <<life, mishaps>>
       \/ CallIsLost /\ Return(Request, "failed") /\ UNCHANGED life
    /\ UNCHANGED <<remote, local, owner, requests>>

\* handleDeleteAccount: RemoveSubscriptions, then DeleteAccount, which cascades.
DeleteBegins ==
    /\ proc[Request].at = "idle" /\ alive /\ Request1
    /\ Step(Request, [Look EXCEPT !.at = "remove"])
    /\ UNCHANGED <<remote, life, local, owner, mishaps>>

RemoveSubscription(s) ==
    /\ proc[Request].at = "remove" /\ s \in proc[Request].todo
    /\ \/ remote' = (IF remote = s THEN Nobody ELSE remote) /\ UNCHANGED mishaps
       \/ remote = s /\ CallIsLost /\ UNCHANGED remote
    /\ local' = [local EXCEPT ![s] = NoSub]
    /\ Step(Request, [proc[Request] EXCEPT !.todo = @ \ {s}])
    /\ UNCHANGED <<life, owner, requests>>

DeleteMailAccount ==
    /\ proc[Request].at = "remove" /\ proc[Request].todo = {}
    /\ alive' = FALSE /\ UNCHANGED status
    /\ local' = [s \in Subs |-> NoSub]
    /\ Return(Request, "ok")
    /\ UNCHANGED <<remote, life, requests, mishaps>>

-----------------------------------------------------------------------------
(* The provider, time, and crashes.                                         *)

\* A call takes seconds, a subscription lives for days.
NobodySaves == \A p \in Procs : proc[p].at # "save"

Ages ==
    /\ NobodySaves
    /\ remote # Nobody /\ life = "fresh"
    /\ life' = "due"
    /\ local' = [s \in Subs |-> IF local[s].life = "fresh" THEN [local[s] EXCEPT !.life = "due"]
                                ELSE local[s]]
    /\ UNCHANGED <<remote, owner, proc, requests, mishaps>>

Lapses ==
    /\ NobodySaves
    /\ remote # Nobody /\ life = "due"
    /\ remote' = Nobody
    /\ UNCHANGED <<life, local, owner, proc, requests, mishaps>>

\* A row outlives its expiry when the provider has nothing any more.
RowAges ==
    /\ remote = Nobody /\ NobodySaves
    /\ \E s \in Subs : local[s].life = "fresh"
    /\ local' = [s \in Subs |-> IF local[s].life = "fresh" THEN [local[s] EXCEPT !.life = "due"]
                                ELSE local[s]]
    /\ UNCHANGED <<remote, life, owner, proc, requests, mishaps>>

ProviderDrops ==
    /\ remote # Nobody /\ Mishap
    /\ remote' = Nobody
    /\ UNCHANGED <<life, local, owner, proc, requests>>

\* A refresh token is rejected, in whichever call: markCredentials.
Revoked ==
    /\ Connected /\ Mishap
    /\ status' = "CREDENTIALS"
    /\ UNCHANGED <<remote, life, local, alive, proc, requests>>

PushKill ==
    /\ Mishap
    /\ \E p \in Procs : proc[p].at # "idle"
    /\ proc' = [p \in Procs |-> Done]
    /\ UNCHANGED <<remote, life, local, owner, requests>>

Ensure(p) == Create(p) \/ Adopt(p) \/ Save(p) \/ \E s \in Subs : LookAt(p, s)
LoopStep == Reconcile \/ Ensure(Loop)
RequestStep ==
    \/ Ensure(Request) \/ Reauthorize \/ DeleteMailAccount
    \/ \E s \in Subs : RemoveSubscription(s)

PushNext ==
    \/ LoopStep \/ RequestStep
    \/ ConnectEnsures \/ DeleteBegins \/ \E s \in Subs : Lifecycle(s)
    \/ Ages \/ Lapses \/ RowAges \/ ProviderDrops
    \/ Revoked \/ PushKill

\* The ticker keeps ticking, calls return, and time passes.
PushFairness ==
    /\ WF_pushVars(LoopStep) /\ WF_pushVars(RequestStep)
    /\ WF_pushVars(Ages) /\ WF_pushVars(Lapses) /\ WF_pushVars(RowAges)

PushSpec == PushInit /\ [][PushNext]_pushVars /\ PushFairness

-----------------------------------------------------------------------------
(***************************************************************************)
(* Properties.                                                              *)
(***************************************************************************)
\* adoptExisting: "every stored subscription carries a clientState only we ever
\* knew", so that no notification is trusted for its id alone.
StoredSecretsAreOurs == \A s \in Rows : Trusted(s)

\* EnsureSubscription, subscriptionLoop: whatever lapsed, was dropped, raced or
\* was lost in a crash, and though the account was disconnected meanwhile, once it
\* exists and stays OK a live subscription with a row of ours keeps coming back.
PushIsLive == remote # Nobody /\ Trusted(remote)
PushComesBack == <>[]Connected => []<>PushIsLive

\* RemoveSubscriptions: "disconnecting does not leave a provider pushing at us
\* forever", even when a reconcile overlaps it or its calls fail.
DisconnectEndsPush == [](~alive => <>[](remote = Nobody))
=============================================================================
