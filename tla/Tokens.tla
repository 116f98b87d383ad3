------------------------------- MODULE Tokens -------------------------------
(***************************************************************************)
(* Token custody of one mailbox (internal/accounts/accounts.go,              *)
(* outlook/auth.go): AccessToken serves everyone who calls the provider, one *)
(* refresh at a time under the account's lock; Connect stores what a new     *)
(* consent gave it without that lock.                                        *)
(*                                                                          *)
(* The provider may rotate refresh tokens: redeeming one can kill it.  Each  *)
(* consent starts a chain of its own.  Sealing tokens is left out, and so is *)
(* their lifetime but for "the access token has expired".                   *)
(***************************************************************************)
EXTENDS Naturals, FiniteSets

CONSTANTS
    Callers,     \* goroutines that ask for an access token
    Secrets,     \* refresh tokens the provider can issue
    NoToken,
    MaxConsents, \* consents after the first
    MaxLosses    \* answers that are lost, failing store calls, revocations, kills

ASSUME TokensAssumption ==
    /\ Secrets # {} /\ NoToken \notin Secrets \cup Callers
    /\ MaxConsents \in Nat /\ MaxLosses \in Nat

VARIABLES
    good,      \* refresh tokens the provider accepts
    given,     \* those it has issued
    stored,    \* tokens row: [refresh, fresh]
    standing,  \* accounts.status
    lock,      \* holder of the account's mutex, or NoToken
    caller,    \* caller -> [at, refresh, issued]
    consent,   \* a Connect under way: [at, issued]
    \* ---- bookkeeping ----
    lost,      \* an issued token was lost on the way, or the grant was revoked
    consents, losses

tokenVars == <<good, given, stored, standing, lock, caller, consent, lost,
               consents, losses>>

Resting == [at |-> "idle", refresh |-> NoToken, issued |-> NoToken]
NoConsent == [at |-> "idle", issued |-> NoToken]

TokenTypeOK ==
    /\ good \subseteq given /\ given \subseteq Secrets
    /\ stored.refresh \in given /\ stored.fresh \in BOOLEAN
    /\ standing \in {"OK", "CREDENTIALS"}
    /\ lock \in Callers \cup {NoToken}
    /\ \A c \in Callers : caller[c].at \in {"idle", "locked", "redeem", "persist"}
    /\ consent.at \in {"idle", "account", "tokens"}

TokenInit ==
    /\ LET t == CHOOSE t \in Secrets : TRUE
       IN  good = {t} /\ given = {t} /\ stored = [refresh |-> t, fresh |-> TRUE]
    /\ standing = "OK"
    /\ lock = NoToken
    /\ caller = [c \in Callers |-> Resting]
    /\ consent = NoConsent
    /\ lost = FALSE
    /\ consents = 0 /\ losses = 0

Loss == losses < MaxLosses /\ losses' = losses + 1
At(c, r) == caller' = [caller EXCEPT ![c] = r]

-----------------------------------------------------------------------------
(* AccessToken.                                                             *)

\* Mutant: no lock.
EnterAnyway(c) == At(c, [Resting EXCEPT !.at = "locked"]) /\ UNCHANGED lock

\* lockFor and Lock: one caller of an account at a time.
Enter(c) ==
    /\ lock = NoToken
    /\ lock' = c
    /\ At(c, [Resting EXCEPT !.at = "locked"])

Ask(c) ==
    /\ caller[c].at = "idle"
    /\ Enter(c)
    /\ UNCHANGED <<good, given, stored, standing, consent, lost, consents, losses>>

Unlock(c) == lock' = (IF lock = c THEN NoToken ELSE lock) /\ At(c, Resting)

\* GetTokens: the access token is still good, or the refresh token is taken;
\* a 401 or a lifecycle notification forces the refresh.
Read(c) ==
    /\ caller[c].at = "locked"
    /\ \/ stored.fresh /\ Unlock(c)
       \/ At(c, [Resting EXCEPT !.at = "redeem", !.refresh = stored.refresh]) /\ UNCHANGED lock
    /\ UNCHANGED <<good, given, stored, standing, consent, lost, consents, losses>>

\* Refresh: the answer carries a new refresh token, or omits it, or is lost.
Redeem(c) ==
    LET r == caller[c].refresh
    IN  /\ caller[c].at = "redeem"
        /\ \/ /\ r \in good
              /\ \E t \in (Secrets \ given) \cup {r}, rotated \in BOOLEAN :
                   /\ t = r => ~rotated
                   /\ given' = given \cup {t}
                   /\ good' = (IF rotated THEN good \ {r} ELSE good) \cup {t}
                   /\ \/ /\ At(c, [caller[c] EXCEPT !.at = "persist", !.issued = t])
                         /\ UNCHANGED <<lock, lost, losses, standing>>
                      \/ Loss /\ lost' = TRUE /\ Unlock(c) /\ UNCHANGED standing
           \/ /\ r \notin good                       \* invalid_grant: markCredentials
              /\ standing' = "CREDENTIALS"
              /\ Unlock(c)
              /\ UNCHANGED <<good, given, lost, losses>>
    /\ UNCHANGED <<stored, consent, consents>>

\* persist; a failing store call loses the new token.
Persist(c) ==
    /\ caller[c].at = "persist"
    /\ \/ stored' = [refresh |-> caller[c].issued, fresh |-> TRUE] /\ UNCHANGED <<lost, losses>>
       \/ Loss /\ lost' = TRUE /\ UNCHANGED stored
    /\ Unlock(c)
    /\ UNCHANGED <<good, given, standing, consent, consents>>

-----------------------------------------------------------------------------
(* Connect, time, the user and crashes.                                     *)
tokenFrame == <<lock, caller>>

\* Exchange and Identify: the user consents, the provider starts a chain.
Exchange ==
    /\ consent.at = "idle" /\ consents < MaxConsents
    /\ \E t \in Secrets \ given :
         /\ given' = given \cup {t} /\ good' = good \cup {t}
         /\ consent' = [at |-> "account", issued |-> t]
    /\ consents' = consents + 1
    /\ UNCHANGED <<tokenFrame, stored, standing, lost, losses>>

\* UpsertAccount: the status is OK before the tokens are there.
UpsertAccount ==
    /\ consent.at = "account"
    /\ standing' = "OK"
    /\ consent' = [consent EXCEPT !.at = "tokens"]
    /\ UNCHANGED <<tokenFrame, good, given, stored, lost, consents, losses>>

StoreConsent ==
    /\ consent.at = "tokens"
    /\ stored' = [refresh |-> consent.issued, fresh |-> TRUE]
    /\ consent' = NoConsent
    /\ UNCHANGED <<tokenFrame, good, given, standing, lost, consents, losses>>

Expires ==
    /\ stored.fresh
    /\ stored' = [stored EXCEPT !.fresh = FALSE]
    /\ UNCHANGED <<tokenFrame, good, given, standing, consent, lost, consents, losses>>

\* The user or a password change revokes every grant so far.
Revoke ==
    /\ Loss
    /\ good' = {} /\ lost' = TRUE
    /\ UNCHANGED <<tokenFrame, given, stored, standing, consent, consents>>

TokenKill ==
    /\ Loss
    /\ lost' = (lost \/ \E c \in Callers : caller[c].at = "persist")
    /\ lock' = NoToken /\ caller' = [c \in Callers |-> Resting] /\ consent' = NoConsent
    /\ UNCHANGED <<good, given, stored, standing, consents>>

TokenNext ==
    \/ \E c \in Callers : Ask(c) \/ Read(c) \/ Redeem(c) \/ Persist(c)
    \/ Exchange \/ UpsertAccount \/ StoreConsent
    \/ Expires \/ Revoke \/ TokenKill

TokenSpec == TokenInit /\ [][TokenNext]_tokenVars

-----------------------------------------------------------------------------
(***************************************************************************)
(* Properties.                                                              *)
(***************************************************************************)
\* The lock's comment: "a burst of concurrent calls after expiry would each
\* redeem the refresh token, and ... leave all but one holder with a dead
\* token".  Our own refreshes, and a Connect beside them, never leave the stored
\* token dead, nor cost the account its status.
GrantSurvives ==
    ~lost =>
        /\ stored.refresh \in good \/ \E c \in Callers : caller[c].at = "persist"
        /\ standing = "OK"
=============================================================================
