----------------------------- MODULE TokensProofs -----------------------------
(***************************************************************************)
(* Proof that refreshes and reconnects of one mailbox never lose its grant   *)
(* by themselves, for any number of callers, tokens and consents.            *)
(*                                                                          *)
(* GrantSurvives is not inductive: whether a refresh leaves the stored token *)
(* dead depends on what the others hold.  Custody says it: only the holder   *)
(* of the lock is under way; what a caller is about to redeem, or to store,  *)
(* is good; and the token of a consent under way is known to nobody else.    *)
(***************************************************************************)
EXTENDS Tokens, TLAPS

Held == Secrets \cup {NoToken}
CallerRows == [at : {"idle", "locked", "redeem", "persist"}, refresh : Held, issued : Held]

TShape ==
    /\ TokenTypeOK
    /\ caller \in [Callers -> CallerRows]
    /\ stored \in [refresh : Secrets, fresh : BOOLEAN]
    /\ consent \in [at : {"idle", "account", "tokens"}, issued : Held]
    /\ lost \in BOOLEAN

LockHeld == \A c \in Callers : caller[c].at # "idle" => lock = c

\* Tokens on their way have been issued, a consent's to nobody else.
Issued ==
    /\ \A c \in Callers : /\ caller[c].at = "redeem" => caller[c].refresh \in given
                          /\ caller[c].at = "persist" => caller[c].issued \in given
    /\ consent.at # "idle" =>
         /\ consent.issued \in given /\ consent.issued # stored.refresh
         /\ \A c \in Callers : /\ caller[c].at = "redeem" => caller[c].refresh # consent.issued
                               /\ caller[c].at = "persist" => caller[c].issued # consent.issued

\* As long as nothing was lost, what is on its way is good.
Custody ==
    ~lost =>
        /\ \A c \in Callers : /\ caller[c].at = "redeem" => caller[c].refresh \in good
                              /\ caller[c].at = "persist" => caller[c].issued \in good
        /\ consent.at # "idle" => consent.issued \in good

TInv == TShape /\ LockHeld /\ Issued /\ Custody /\ GrantSurvives

LEMMA TInvInit == TokenInit => TInv
  <1> SUFFICES ASSUME TokenInit PROVE TInv OBVIOUS
  <1> DEFINE t == CHOOSE t \in Secrets : TRUE
  <1>1. t \in Secrets BY TokensAssumption
  <1>2. good = {t} /\ given = {t} /\ stored = [refresh |-> t, fresh |-> TRUE] BY DEF TokenInit
  <1> HIDE DEF t
  <1>3. TShape
    <2>1. TokenTypeOK BY <1>1, <1>2 DEF TokenInit, TokenTypeOK, Resting, NoConsent
    <2>2. caller \in [Callers -> CallerRows] BY DEF TokenInit, Resting, CallerRows, Held
    <2>3. stored \in [refresh : Secrets, fresh : BOOLEAN] BY <1>1, <1>2
    <2>4. consent \in [at : {"idle", "account", "tokens"}, issued : Held]
      BY DEF TokenInit, NoConsent, Held
    <2> QED BY <2>1, <2>2, <2>3, <2>4 DEF TokenInit, TShape
  <1>4. LockHeld /\ Issued /\ Custody BY DEF TokenInit, LockHeld, Issued, Custody, Resting, NoConsent
  <1>5. GrantSurvives BY <1>2 DEF TokenInit, GrantSurvives
  <1> QED BY <1>3, <1>4, <1>5 DEF TInv

\* A caller that takes the lock finds nobody under way, and one that has it is alone.
LEMMA Alone ==
  ASSUME LockHeld, NEW c \in Callers, caller[c].at # "idle" \/ lock = NoToken
  PROVE  \A d \in Callers : d # c => caller[d].at = "idle"
  BY TokensAssumption DEF LockHeld

\* Caller c moves on to record r; nobody else does.
LEMMA CallerMoves ==
  ASSUME TShape, NEW c \in Callers, NEW r \in CallerRows, At(c, r)
  PROVE  /\ caller' \in [Callers -> CallerRows]
         /\ caller'[c] = r
         /\ \A d \in Callers : d # c => caller'[d] = caller[d]
  BY DEF TShape, At

LEMMA RestingRow == Resting \in CallerRows /\ Resting.at = "idle"
  BY DEF Resting, CallerRows, Held

LEMMA AskStep == ASSUME TInv, NEW c \in Callers, Ask(c) PROVE TInv'
  <1> DEFINE r == [Resting EXCEPT !.at = "locked"]
  <1>1. r \in CallerRows /\ r.at = "locked" BY DEF Resting, CallerRows, Held
  <1>2. At(c, r) /\ lock = NoToken /\ lock' = c BY DEF Ask, Enter
  <1> HIDE DEF r
  <1>3. /\ caller' \in [Callers -> CallerRows] /\ caller'[c].at = "locked"
        /\ \A d \in Callers : d # c => caller'[d] = caller[d]
    BY <1>1, <1>2, CallerMoves DEF TInv
  <1>4. \A d \in Callers : d # c => caller[d].at = "idle" BY <1>2, Alone DEF TInv
  <1>5. UNCHANGED <<good, given, stored, standing, consent, lost>> BY DEF Ask
  <1>6. \A d \in Callers : caller[d].at # "persist" BY <1>2, TokensAssumption DEF TInv, LockHeld
  <1>7. TShape' BY <1>2, <1>3, <1>5 DEF TInv, TShape, TokenTypeOK, CallerRows
  <1>8. LockHeld' BY <1>2, <1>3, <1>4 DEF LockHeld
  <1>9. Issued' BY <1>3, <1>4, <1>5 DEF TInv, Issued
  <1>10. Custody' BY <1>3, <1>4, <1>5 DEF TInv, Custody
  <1>11. GrantSurvives' BY <1>5, <1>6 DEF TInv, GrantSurvives
  <1> QED BY <1>7, <1>8, <1>9, <1>10, <1>11 DEF TInv

\* A caller that has the lock rests, and leaves no token on its way; the others
\* rest already.
LEMMA UnlockRests ==
  ASSUME TInv, NEW c \in Callers, caller[c].at # "idle", Unlock(c)
  PROVE  /\ caller' \in [Callers -> CallerRows]
         /\ \A d \in Callers : caller'[d].at = "idle"
         /\ lock' = NoToken
  <1>1. lock = c BY DEF TInv, LockHeld
  <1>2. \A d \in Callers : d # c => caller[d].at = "idle" BY Alone DEF TInv
  <1>3. At(c, Resting) BY DEF Unlock
  <1> QED BY <1>1, <1>2, <1>3, RestingRow, CallerMoves DEF TInv, Unlock

LEMMA ReadStep == ASSUME TInv, NEW c \in Callers, Read(c) PROVE TInv'
  <1>1. UNCHANGED <<good, given, stored, standing, consent, lost>> BY DEF Read
  <1>2. caller[c].at = "locked" /\ lock = c BY DEF Read, TInv, LockHeld
  <1>3. \A d \in Callers : caller[d].at # "persist" BY <1>2, Alone DEF TInv
  <1>4. ~lost => stored.refresh \in good /\ standing = "OK" BY <1>3 DEF TInv, GrantSurvives
  <1>5. CASE Unlock(c)
    <2>1. /\ caller' \in [Callers -> CallerRows] /\ lock' = NoToken
          /\ \A d \in Callers : caller'[d].at = "idle"
      BY <1>2, <1>5, UnlockRests
    <2>2. TShape' BY <1>1, <2>1 DEF TInv, TShape, TokenTypeOK
    <2>3. LockHeld' /\ Issued' /\ Custody'
      BY <1>1, <2>1 DEF TInv, LockHeld, Issued, Custody
    <2>4. GrantSurvives' BY <1>1, <1>4 DEF GrantSurvives
    <2> QED BY <2>2, <2>3, <2>4 DEF TInv
  <1>6. CASE At(c, [Resting EXCEPT !.at = "redeem", !.refresh = stored.refresh]) /\ UNCHANGED lock
    <2> DEFINE r == [Resting EXCEPT !.at = "redeem", !.refresh = stored.refresh]
    <2>1. r \in CallerRows /\ r.at = "redeem" /\ r.refresh = stored.refresh
      BY DEF TInv, TShape, Resting, CallerRows, Held
    <2> HIDE DEF r
    <2>2. /\ caller' \in [Callers -> CallerRows] /\ caller'[c] = r
          /\ \A d \in Callers : d # c => caller'[d] = caller[d]
      BY <1>6, <2>1, CallerMoves DEF TInv, r
    <2>3. TShape' BY <1>1, <1>6, <2>2 DEF TInv, TShape, TokenTypeOK, CallerRows
    <2>4. LockHeld' BY <1>2, <1>6, <2>2 DEF TInv, LockHeld
    <2>5. stored.refresh \in given BY DEF TInv, TShape, TokenTypeOK
    <2>6. Issued' BY <1>1, <2>1, <2>2, <2>5 DEF TInv, Issued
    <2>7. Custody' BY <1>1, <1>4, <2>1, <2>2 DEF TInv, Custody
    <2>8. GrantSurvives' BY <1>1, <1>4 DEF GrantSurvives
    <2> QED BY <2>3, <2>4, <2>6, <2>7, <2>8 DEF TInv
  <1> QED BY <1>5, <1>6 DEF Read

LEMMA RedeemStep == ASSUME TInv, NEW c \in Callers, Redeem(c) PROVE TInv'
  <1> DEFINE r == caller[c].refresh
  <1>1. caller[c].at = "redeem" /\ lock = c BY DEF Redeem, TInv, LockHeld
  <1>2. UNCHANGED <<stored, consent>> BY DEF Redeem
  <1>3. \A d \in Callers : d # c => caller[d].at = "idle" BY <1>1, Alone DEF TInv
  <1>4. r \in given /\ (consent.at # "idle" => r # consent.issued)
    BY <1>1 DEF TInv, Issued
  <1>5. ~lost => stored.refresh \in good /\ standing = "OK" /\ r \in good
    BY <1>1, <1>3 DEF TInv, GrantSurvives, Custody
  <1>6. ASSUME r \in good,
               NEW t \in (Secrets \ given) \cup {r}, NEW rotated \in BOOLEAN,
               t = r => ~rotated, given' = given \cup {t},
               good' = (IF rotated THEN good \ {r} ELSE good) \cup {t},
               \/ /\ At(c, [caller[c] EXCEPT !.at = "persist", !.issued = t])
                  /\ UNCHANGED <<lock, lost, losses, standing>>
               \/ Loss /\ lost' = TRUE /\ Unlock(c) /\ UNCHANGED standing
        PROVE  TInv'
    <2>1. /\ t \in Secrets /\ t \in given' /\ t \in good'
          /\ given \subseteq given' /\ given' \subseteq Secrets /\ good' \subseteq given'
      BY <1>4, <1>6 DEF TInv, TShape, TokenTypeOK
    <2>2. consent.at # "idle" => t # consent.issued
      BY <1>4, <1>6 DEF TInv, Issued
    <2>3. consent.at # "idle" /\ ~lost => consent.issued \in good'
      BY <1>4, <1>6 DEF TInv, Custody
    <2>4. CASE /\ At(c, [caller[c] EXCEPT !.at = "persist", !.issued = t])
               /\ UNCHANGED <<lock, lost, losses, standing>>
      <3> DEFINE q == [caller[c] EXCEPT !.at = "persist", !.issued = t]
      <3>1. q \in CallerRows /\ q.at = "persist" /\ q.issued = t
        <4>1. caller[c] \in CallerRows BY DEF TInv, TShape
        <4> QED BY <2>1, <4>1 DEF CallerRows, Held
      <3>2. At(c, q) BY <2>4
      <3> HIDE DEF q
      <3>3. /\ caller' \in [Callers -> CallerRows] /\ caller'[c] = q
            /\ \A d \in Callers : d # c => caller'[d] = caller[d]
        BY <3>1, <3>2, CallerMoves DEF TInv
      <3>4. TShape' BY <1>2, <2>1, <2>4, <3>1, <3>3 DEF TInv, TShape, TokenTypeOK, CallerRows
      <3>5. LockHeld' BY <1>1, <2>4, <3>3 DEF TInv, LockHeld
      <3>6. Issued' BY <1>2, <1>3, <2>1, <2>2, <3>1, <3>3 DEF TInv, Issued
      <3>7. Custody' BY <1>2, <1>3, <2>1, <2>3, <2>4, <3>1, <3>3 DEF Custody
      <3>8. GrantSurvives' BY <1>5, <2>4, <3>1, <3>3 DEF GrantSurvives
      <3> QED BY <3>4, <3>5, <3>6, <3>7, <3>8 DEF TInv
    <2>5. CASE Loss /\ lost' = TRUE /\ Unlock(c) /\ UNCHANGED standing
      <3>1. /\ caller' \in [Callers -> CallerRows] /\ lock' = NoToken
            /\ \A d \in Callers : caller'[d].at = "idle"
        BY <1>1, <2>5, UnlockRests
      <3>2. TShape' BY <1>2, <2>1, <2>5, <3>1 DEF TInv, TShape, TokenTypeOK
      <3>3. LockHeld' /\ Issued' BY <1>2, <2>1, <3>1 DEF TInv, LockHeld, Issued
      <3> QED BY <2>5, <3>2, <3>3 DEF TInv, Custody, GrantSurvives
    <2> QED BY <1>6, <2>4, <2>5
  <1>7. ASSUME r \notin good, standing' = "CREDENTIALS", Unlock(c),
               UNCHANGED <<good, given, lost, losses>>
        PROVE  TInv'
    <2>1. lost BY <1>5, <1>7 DEF TInv, TShape
    <2>2. /\ caller' \in [Callers -> CallerRows] /\ lock' = NoToken
          /\ \A d \in Callers : caller'[d].at = "idle"
      BY <1>1, <1>7, UnlockRests
    <2>3. TShape' BY <1>2, <1>7, <2>2 DEF TInv, TShape, TokenTypeOK
    <2>4. LockHeld' /\ Issued' BY <1>2, <1>7, <2>2 DEF TInv, LockHeld, Issued
    <2> QED BY <1>7, <2>1, <2>3, <2>4 DEF TInv, Custody, GrantSurvives
  <1> QED BY <1>6, <1>7 DEF Redeem

LEMMA PersistStep == ASSUME TInv, NEW c \in Callers, Persist(c) PROVE TInv'
  <1>1. caller[c].at = "persist" /\ Unlock(c) BY DEF Persist
  <1>2. UNCHANGED <<good, given, standing, consent>> BY DEF Persist
  <1>3. /\ caller' \in [Callers -> CallerRows] /\ lock' = NoToken
        /\ \A d \in Callers : caller'[d].at = "idle"
    BY <1>1, UnlockRests
  <1>4. /\ caller[c].issued \in given
        /\ consent.at # "idle" => caller[c].issued # consent.issued
        /\ ~lost => caller[c].issued \in good /\ standing = "OK"
    BY <1>1 DEF TInv, Issued, Custody, GrantSurvives
  <1>5. CASE stored' = [refresh |-> caller[c].issued, fresh |-> TRUE] /\ UNCHANGED <<lost, losses>>
    <2>1. TShape' BY <1>2, <1>3, <1>4, <1>5 DEF TInv, TShape, TokenTypeOK
    <2>2. LockHeld' /\ Issued' BY <1>2, <1>3, <1>4, <1>5 DEF TInv, LockHeld, Issued
    <2>3. Custody' BY <1>2, <1>3, <1>5 DEF TInv, Custody
    <2>4. GrantSurvives' BY <1>2, <1>4, <1>5 DEF GrantSurvives
    <2> QED BY <2>1, <2>2, <2>3, <2>4 DEF TInv
  <1>6. CASE Loss /\ lost' = TRUE /\ UNCHANGED stored
    <2>1. TShape' BY <1>2, <1>3, <1>6 DEF TInv, TShape, TokenTypeOK
    <2>2. LockHeld' /\ Issued' BY <1>2, <1>3, <1>6 DEF TInv, LockHeld, Issued
    <2> QED BY <1>6, <2>1, <2>2 DEF TInv, Custody, GrantSurvives
  <1> QED BY <1>5, <1>6 DEF Persist

\* A consent moves on: its token is new, and good while nothing was lost.
LEMMA ExchangeStep == ASSUME TInv, Exchange PROVE TInv'
  <1>1. PICK t \in Secrets \ given :
           /\ given' = given \cup {t} /\ good' = good \cup {t}
           /\ consent' = [at |-> "account", issued |-> t]
    BY DEF Exchange
  <1>2. UNCHANGED <<lock, caller, stored, standing, lost>> BY DEF Exchange, tokenFrame
  <1>3. TShape' BY <1>1, <1>2 DEF TInv, TShape, TokenTypeOK, Held
  <1>4. LockHeld' BY <1>2 DEF TInv, LockHeld
  <1>5. Issued' BY <1>1, <1>2 DEF TInv, Issued, TShape, TokenTypeOK
  <1>6. Custody' BY <1>1, <1>2 DEF TInv, Custody
  <1>7. GrantSurvives' BY <1>1, <1>2 DEF TInv, GrantSurvives
  <1> QED BY <1>3, <1>4, <1>5, <1>6, <1>7 DEF TInv

LEMMA ConsentStep == ASSUME TInv, UpsertAccount \/ StoreConsent PROVE TInv'
  <1>1. UNCHANGED <<lock, caller, good, given, lost>>
    BY DEF UpsertAccount, StoreConsent, tokenFrame
  <1>2. LockHeld' BY <1>1 DEF TInv, LockHeld
  <1>3. CASE UpsertAccount
    <2>1. /\ consent.at = "account" /\ consent' = [consent EXCEPT !.at = "tokens"]
          /\ standing' = "OK" /\ UNCHANGED stored
      BY <1>3 DEF UpsertAccount
    <2>2. /\ consent'.at = "tokens" /\ consent'.issued = consent.issued
          /\ consent' \in [at : {"idle", "account", "tokens"}, issued : Held]
      BY <2>1 DEF TInv, TShape
    <2>3. TShape' BY <1>1, <2>1, <2>2 DEF TInv, TShape, TokenTypeOK
    <2>4. Issued' BY <1>1, <2>1, <2>2 DEF TInv, Issued
    <2>5. Custody' BY <1>1, <2>1, <2>2 DEF TInv, Custody
    <2>6. GrantSurvives' BY <1>1, <2>1 DEF TInv, GrantSurvives
    <2> QED BY <1>2, <2>3, <2>4, <2>5, <2>6 DEF TInv
  <1>4. CASE StoreConsent
    <2>1. /\ consent.at = "tokens" /\ consent' = NoConsent /\ UNCHANGED standing
          /\ stored' = [refresh |-> consent.issued, fresh |-> TRUE]
      BY <1>4 DEF StoreConsent
    <2>2. consent.issued \in given /\ (~lost => consent.issued \in good)
      BY <2>1 DEF TInv, Issued, Custody
    <2>3. consent' \in [at : {"idle", "account", "tokens"}, issued : Held]
          /\ consent'.at = "idle"
      BY <2>1 DEF NoConsent, Held
    <2>4. TShape' BY <1>1, <2>1, <2>2, <2>3 DEF TInv, TShape, TokenTypeOK
    <2>5. Issued' BY <1>1, <2>3 DEF TInv, Issued
    <2>6. Custody' BY <1>1, <2>3 DEF TInv, Custody
    <2>7. GrantSurvives' BY <1>1, <2>1, <2>2 DEF TInv, GrantSurvives
    <2> QED BY <1>2, <2>4, <2>5, <2>6, <2>7 DEF TInv
  <1> QED BY <1>3, <1>4

LEMMA WorldStep == ASSUME TInv, Expires \/ Revoke \/ TokenKill PROVE TInv'
  <1>1. CASE Expires
    <2>1. /\ UNCHANGED <<lock, caller, good, given, standing, consent, lost>>
          /\ stored' = [stored EXCEPT !.fresh = FALSE]
      BY <1>1 DEF Expires, tokenFrame
    <2>2. stored' \in [refresh : Secrets, fresh : BOOLEAN] /\ stored'.refresh = stored.refresh
      BY <2>1 DEF TInv, TShape
    <2>3. TShape' BY <2>1, <2>2 DEF TInv, TShape, TokenTypeOK
    <2>4. LockHeld' /\ Issued' /\ Custody' BY <2>1, <2>2 DEF TInv, LockHeld, Issued, Custody
    <2>5. GrantSurvives' BY <2>1, <2>2 DEF TInv, GrantSurvives
    <2> QED BY <2>3, <2>4, <2>5 DEF TInv
  <1>2. CASE Revoke
    <2>1. UNCHANGED <<lock, caller, given, stored, standing, consent>> /\ good' = {} /\ lost' = TRUE
      BY <1>2 DEF Revoke, tokenFrame
    <2>2. TShape' BY <2>1 DEF TInv, TShape, TokenTypeOK
    <2>3. LockHeld' /\ Issued' BY <2>1 DEF TInv, LockHeld, Issued
    <2> QED BY <2>1, <2>2, <2>3 DEF TInv, Custody, GrantSurvives
  <1>3. CASE TokenKill
    <2>1. /\ UNCHANGED <<good, given, stored, standing>> /\ lock' = NoToken
          /\ caller' = [c \in Callers |-> Resting] /\ consent' = NoConsent
          /\ lost' = (lost \/ \E c \in Callers : caller[c].at = "persist")
      BY <1>3 DEF TokenKill
    <2>2. /\ caller' \in [Callers -> CallerRows] /\ \A d \in Callers : caller'[d].at = "idle"
          /\ consent'.at = "idle"
          /\ consent' \in [at : {"idle", "account", "tokens"}, issued : Held]
      BY <2>1, RestingRow DEF NoConsent, Held
    <2>3. TShape' BY <2>1, <2>2 DEF TInv, TShape, TokenTypeOK
    <2>4. LockHeld' /\ Issued' /\ Custody' BY <2>1, <2>2 DEF LockHeld, Issued, Custody
    <2>5. GrantSurvives' BY <2>1 DEF TInv, GrantSurvives
    <2> QED BY <2>3, <2>4, <2>5 DEF TInv
  <1> QED BY <1>1, <1>2, <1>3

LEMMA TInvStep == ASSUME TInv, [TokenNext]_tokenVars PROVE TInv'
  <1>1. CASE UNCHANGED tokenVars
    BY <1>1 DEF tokenVars, TInv, TShape, TokenTypeOK, LockHeld, Issued, Custody, GrantSurvives
  <1> QED BY <1>1, AskStep, ReadStep, RedeemStep, PersistStep, ExchangeStep, ConsentStep, WorldStep
          DEF TokenNext

LEMMA TInvAlways == TokenSpec => []TInv
  BY TInvInit, TInvStep, PTL DEF TokenSpec

\* AccessToken's lock: for any number of callers and consents, with tokens rotated
\* or not, a mailbox keeps a good stored token and its status as long as no
\* answer, store call or grant is lost.
THEOREM GrantIsKept == TokenSpec => []GrantSurvives
  <1>1. TInv => GrantSurvives BY DEF TInv
  <1> QED BY <1>1, TInvAlways, PTL

\* The types of the token table, the lock and everybody under way.
THEOREM TokenTypes == TokenSpec => []TokenTypeOK
  <1>1. TInv => TokenTypeOK BY DEF TInv, TShape
  <1> QED BY <1>1, TInvAlways, PTL
=============================================================================
