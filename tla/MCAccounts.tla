----------------------------- MODULE MCAccounts -----------------------------
(* What the server keeps for its accounts and developers: the grant, the     *)
(* mirror and the push subscription of a mailbox, the pairing of a phone,    *)
(* sign-ins.  The modules share no variable, so one run checks them all: a   *)
(* behaviour is that of the one in focus.                                   *)
EXTENDS Tokens, LinkPairing, Sessions, MailSync, PushSubscriptions

CONSTANTS s1, s2, b1, b2, e1, inbox, sent

VARIABLE focus

\* One browser has the URL of each link, the others that of the first.
MCKnows == [b \in Browsers |-> IF b = b1 THEN Links ELSE {s1}]

\* What is there when the mailbox is connected is in one folder, what comes in another.
MCHome == [m \in Msgs |-> IF m = e1 THEN sent ELSE inbox]

AccountsInit ==
    /\ TokenInit /\ LinkInit /\ SessInit /\ SyncInit /\ PushInit
    /\ focus \in {"tokens", "links", "sessions", "mirror", "push"}

In(f, A) == focus = f /\ A
Other(f, vars) == focus # f => UNCHANGED vars

AccountsNext ==
    /\ UNCHANGED focus
    /\ \/ In("tokens", TokenNext) \/ In("links", LinkNext) \/ In("sessions", SessNext)
       \/ In("mirror", SyncNext) \/ In("push", PushNext)
    /\ Other("tokens", tokenVars) /\ Other("links", linkVars) /\ Other("sessions", sessVars)
    /\ Other("mirror", syncVars) /\ Other("push", pushVars)

\* LinkFairness, SyncFairness and PushFairness, of the behaviours in focus.
AccountsFairness ==
    /\ WF_linkVars(In("links", \E a \in Tries : Dialled(a) \/ Pump(a)))
    /\ WF_syncVars(In("mirror", Walk))
    /\ WF_syncVars(In("mirror", WakeSend)) /\ WF_syncVars(In("mirror", Poll))
    /\ WF_pushVars(In("push", LoopStep)) /\ WF_pushVars(In("push", RequestStep))
    /\ WF_pushVars(In("push", Ages)) /\ WF_pushVars(In("push", Lapses))
    /\ WF_pushVars(In("push", RowAges))

accountsVars == <<tokenVars, linkVars, sessVars, syncVars, pushVars, focus>>
AccountsSpec == AccountsInit /\ [][AccountsNext]_accountsVars /\ AccountsFairness

\* MirrorCatchesUp (MailSync), of the behaviours of the mirror.
MailboxIsMirrored == focus = "mirror" => MirrorCatchesUp

\* PushComesBack (PushSubscriptions), of the behaviours of the subscription.
PushRecovers == focus = "push" => PushComesBack
=============================================================================
