------------------------------ MODULE LinkProofs ------------------------------
(***************************************************************************)
(* Theorems about pairing, for any number of links, browsers, attempts,      *)
(* faults and kills: every attempt of one link is made for one and the same  *)
(* browser, and no attempt that is over leaves a device behind.              *)
(*                                                                          *)
(* OneBrowserDrives is not inductive: requests that have claimed the row and *)
(* not reached the registry yet will make attempts of their own.  A party of *)
(* a link is a browser with such a request or with an attempt; Parties says  *)
(* that a link has one at most, and that a row which is still there names it.*)
(*                                                                          *)
(* NoDeviceLingers rests on what a session is at each stage of its attempt   *)
(* (SessionsFit), and on finishLink being alone while it connects the        *)
(* account (Alone), so that the device it has read is the one it replaces    *)
(* (Keeper, Replacing).                                                     *)
(***************************************************************************)
EXTENDS LinkPairing, TLAPS

Claimants == Browsers \cup {NoBrowser}
Stages == {"free", "held", "dialing", "failed", "live", "over"} \cup Finishing

StateRows == [life : {"live", "expired", "gone"}, consent : BOOLEAN, browser : Claimants]
TryRows == [link : SUBSET Links, browser : Claimants, stage : Stages,
            session : {"none", "open", "saved", "resolved"},
            result : {"none", "paired", "cancelled", "timeout"}, relink : BOOLEAN]
AskRows == [kind : {"none", "consent", "qr"}, link : SUBSET Links]

LShape ==
    /\ row \in [Links -> StateRows]
    /\ reg \in [Links -> Tries \cup {NoTry}]
    /\ try \in [Tries -> TryRows]
    /\ ask \in [Browsers -> AskRows]
    /\ number.exists \in BOOLEAN
    /\ \A a \in Tries : try[a].stage # "free" => try[a].link # {} /\ try[a].browser \in Browsers

Asks(s, b) == ask[b].kind # "none" /\ s \in ask[b].link
Attempts(s, b) ==
    \E a \in Tries : try[a].stage # "free" /\ s \in try[a].link /\ try[a].browser = b
Party(s, b) == Asks(s, b) \/ Attempts(s, b)

Parties ==
    \A s \in Links, b \in Browsers : Party(s, b) =>
        /\ row[s].life # "gone" => row[s].browser = b
        /\ \A c \in Browsers : Party(s, c) => c = b

LInv == LShape /\ Parties

LEMMA LInvInit == LinkInit => LInv
  <1> SUFFICES ASSUME LinkInit PROVE LInv OBVIOUS
  <1>1. LShape
    BY DEF LinkInit, LShape, StateRows, TryRows, AskRows, Claimants, Stages, Unstarted, Quiescent
  <1>2. \A s \in Links, b \in Browsers : ~Party(s, b)
    BY DEF LinkInit, Party, Asks, Attempts, Unstarted, Quiescent
  <1> QED BY <1>1, <1>2 DEF LInv, Parties

LEMMA PartiesSuffice == LInv => OneBrowserDrives
  <1> SUFFICES ASSUME LInv, NEW a \in Tries, NEW o \in Tries,
                      try[a].stage \notin {"free", "held"}, try[o].stage \notin {"free", "held"},
                      try[a].link = try[o].link
               PROVE  try[a].browser = try[o].browser
    BY DEF OneBrowserDrives
  <1>1. PICK s \in Links : s \in try[a].link BY DEF LInv, LShape, TryRows
  <1>2. try[a].browser \in Browsers /\ try[o].browser \in Browsers BY DEF LInv, LShape
  <1>3. Party(s, try[a].browser) /\ Party(s, try[o].browser) BY <1>1 DEF Party, Attempts
  <1> QED BY <1>2, <1>3 DEF LInv, Parties

-----------------------------------------------------------------------------
(* Steps that make no new party.                                            *)

\* A row stays claimed by whom it was, or goes.
RowsHold == \A s \in Links : row'[s].life = "gone" \/
                (row[s].life # "gone" /\ row'[s].browser = row[s].browser)

LEMMA NoNewParty ==
  ASSUME LInv, LShape', RowsHold,
         \A s \in Links, b \in Browsers : Party(s, b)' => Party(s, b)
  PROVE  LInv'
  BY DEF LInv, Parties, RowsHold

\* An attempt keeps what makes it one.
Same(q, p) == q.link = p.link /\ q.browser = p.browser /\ (q.stage = "free" <=> p.stage = "free")

TriesHold == \A a \in Tries : try'[a] \in TryRows /\ Same(try'[a], try[a])

\* Requests have been answered, or stay.
AsksHold == \A b \in Browsers : ask'[b] = ask[b] \/ ask'[b] = Quiescent

LEMMA Settled ==
  ASSUME LInv, RowsHold, TriesHold, AsksHold,
         row' \in [Links -> StateRows], reg' \in [Links -> Tries \cup {NoTry}],
         try' \in [Tries -> TryRows], ask' \in [Browsers -> AskRows], number'.exists \in BOOLEAN
  PROVE  LInv'
  <1>1. LShape' BY DEF LInv, LShape, TriesHold, Same
  <1>2. ASSUME NEW s \in Links, NEW b \in Browsers, Party(s, b)' PROVE Party(s, b)
    <2>1. CASE Asks(s, b)'
      BY <2>1 DEF Asks, AsksHold, Quiescent, Party
    <2>2. CASE Attempts(s, b)'
      BY <2>2 DEF Attempts, TriesHold, Same, Party
    <2> QED BY <1>2, <2>1, <2>2 DEF Party
  <1> QED BY <1>1, <1>2, NoNewParty

\* One attempt moves on to record q.
LEMMA TryMoves ==
  ASSUME LInv, NEW a \in Tries, NEW q \in TryRows, LinkAt(a, q), Same(q, try[a])
  PROVE  try' \in [Tries -> TryRows] /\ TriesHold
  <1>1. try' = [try EXCEPT ![a] = q] BY DEF LinkAt
  <1> QED BY <1>1 DEF LInv, LShape, TriesHold, Same

\* It moves to another stage, or another outcome.
LEMMA StageMoves ==
  ASSUME NEW p \in TryRows, p.stage # "free", NEW st \in Stages \ {"free"},
         NEW se \in {"none", "open", "saved", "resolved"},
         NEW re \in {"none", "paired", "cancelled", "timeout"}, NEW l \in BOOLEAN
  PROVE  /\ [p EXCEPT !.stage = st] \in TryRows /\ Same([p EXCEPT !.stage = st], p)
         /\ [p EXCEPT !.stage = st, !.session = se] \in TryRows
         /\ Same([p EXCEPT !.stage = st, !.session = se], p)
         /\ [p EXCEPT !.stage = st, !.result = re] \in TryRows
         /\ Same([p EXCEPT !.stage = st, !.result = re], p)
         /\ [p EXCEPT !.stage = st, !.relink = l] \in TryRows
         /\ Same([p EXCEPT !.stage = st, !.relink = l], p)
         /\ [p EXCEPT !.stage = st, !.relink = l, !.result = re] \in TryRows
         /\ Same([p EXCEPT !.stage = st, !.relink = l, !.result = re], p)
  BY DEF TryRows, Same

LEMMA OutcomeMoves ==
  ASSUME NEW p \in TryRows,
         NEW se \in {"none", "open", "saved", "resolved"},
         NEW re \in {"none", "paired", "cancelled", "timeout"}
  PROVE  /\ [p EXCEPT !.session = se] \in TryRows /\ Same([p EXCEPT !.session = se], p)
         /\ [p EXCEPT !.session = se, !.result = re] \in TryRows
         /\ Same([p EXCEPT !.session = se, !.result = re], p)
  BY DEF TryRows, Same

\* The step leaves rows, requests and registry as they are.
LEMMA TryStep ==
  ASSUME LInv, NEW a \in Tries, NEW q \in TryRows, LinkAt(a, q), Same(q, try[a]),
         UNCHANGED <<row, ask>>, reg' \in [Links -> Tries \cup {NoTry}], number'.exists \in BOOLEAN
  PROVE  LInv'
  <1>1. try' \in [Tries -> TryRows] /\ TriesHold BY TryMoves
  <1>2. RowsHold /\ AsksHold BY DEF RowsHold, AsksHold, LInv, LShape
  <1> QED BY <1>1, <1>2, Settled DEF LInv, LShape

-----------------------------------------------------------------------------
(* Requests.                                                                *)
LEMMA ReplyHolds ==
  ASSUME LInv, NEW b \in Browsers, Reply(b)
  PROVE  ask' \in [Browsers -> AskRows] /\ AsksHold
  <1>1. Quiescent \in AskRows BY DEF Quiescent, AskRows
  <1> QED BY <1>1 DEF LInv, LShape, Reply, AsksHold

\* The row is claimed: its browser is the party now, and was, if there was one.
LEMMA ClaimRowStep ==
  ASSUME LInv, NEW b \in Browsers, NEW s \in Links, NEW kind \in {"consent", "qr"},
         ClaimOAuthStateBrowser(b, s, kind)
  PROVE  LInv'
  <1>1. /\ ask[b].kind = "none" /\ row[s].life = "live" /\ row[s].browser \in {NoBrowser, b}
        /\ row' = [row EXCEPT ![s].browser = b]
        /\ ask' = [ask EXCEPT ![b] = [kind |-> kind, link |-> {s}]]
        /\ UNCHANGED <<reg, try, number>>
    BY DEF ClaimOAuthStateBrowser, Claims, browserFrame
  <1>2. LShape'
    <2>1. row' \in [Links -> StateRows] BY <1>1 DEF LInv, LShape, StateRows, Claimants
    <2>2. ask' \in [Browsers -> AskRows] BY <1>1 DEF LInv, LShape, AskRows
    <2> QED BY <1>1, <2>1, <2>2 DEF LInv, LShape
  <1>3. \A q \in Links, c \in Browsers :
           Party(q, c)' <=> (Party(q, c) \/ (q = s /\ c = b))
    <2>1. \A q \in Links, c \in Browsers : Attempts(q, c)' <=> Attempts(q, c)
      BY <1>1 DEF Attempts
    <2>2. \A q \in Links, c \in Browsers : Asks(q, c)' <=> (Asks(q, c) \/ (q = s /\ c = b))
      BY <1>1 DEF Asks, LInv, LShape
    <2> QED BY <2>1, <2>2 DEF Party
  <1>4. \A c \in Browsers : Party(s, c) => c = b
    BY <1>1, LinkPairingAssumption DEF LInv, Parties
  <1>5. \A q \in Links : /\ row'[q].life = row[q].life
                         /\ row'[q].browser = IF q = s THEN b ELSE row[q].browser
    BY <1>1 DEF LInv, LShape, StateRows
  <1>6. Parties'
    <2> SUFFICES ASSUME NEW q \in Links, NEW c \in Browsers, Party(q, c)'
                 PROVE  /\ row'[q].life # "gone" => row'[q].browser = c
                        /\ \A d \in Browsers : Party(q, d)' => d = c
      BY DEF Parties
    <2>1. CASE q = s BY <1>3, <1>4, <1>5, <2>1
    <2>2. CASE q # s BY <1>3, <1>5, <2>2 DEF LInv, Parties
    <2> QED BY <2>1, <2>2
  <1> QED BY <1>2, <1>6 DEF LInv

LEMMA MismatchStep == ASSUME LInv, NEW b \in Browsers, Mismatch(b) PROVE LInv'
  <1>1. ask' \in [Browsers -> AskRows] /\ AsksHold BY ReplyHolds DEF Mismatch
  <1>2. RowsHold /\ TriesHold BY DEF Mismatch, LInv, LShape, RowsHold, TriesHold, Same
  <1> QED BY <1>1, <1>2, Settled DEF Mismatch, browserFrame, LInv, LShape

\* An entry that is made, or found, for a request of b is one of b's.
LEMMA EntryOfAsker ==
  ASSUME LInv, NEW b \in Browsers, NEW a \in Tries, ask[b].kind # "none", Claim(b, a)
  PROVE  /\ Entry(b, a) \in TryRows /\ Entry(b, a).stage # "free"
         /\ Entry(b, a).link # {} /\ Entry(b, a).browser \in Browsers
         /\ \A s \in Links : s \in Entry(b, a).link => Party(s, Entry(b, a).browser)
         /\ reg' \in [Links -> Tries \cup {NoTry}]
  <1>1. ask[b] \in AskRows /\ try[a] \in TryRows BY DEF LInv, LShape
  <1>2. ask[b].link # {} BY DEF Claim
  <1>3. reg' \in [Links -> Tries \cup {NoTry}]
    <2>1. PICK s \in ask[b].link : UNCHANGED reg \/ reg' = [reg EXCEPT ![s] = a] BY DEF Claim
    <2> QED BY <2>1 DEF LInv, LShape
  <1>4. CASE try[a].stage # "free"
    <2>1. Entry(b, a) = try[a] BY <1>4 DEF Entry
    <2>2. \A s \in Links : s \in try[a].link => Party(s, try[a].browser)
      BY <1>4 DEF Party, Attempts
    <2> QED BY <1>1, <1>3, <1>4, <2>1, <2>2 DEF LInv, LShape
  <1>5. CASE try[a].stage = "free"
    <2> DEFINE e == [Unstarted EXCEPT !.link = ask[b].link, !.browser = b, !.stage = "held"]
    <2>1. Entry(b, a) = e BY <1>5 DEF Entry
    <2>2. e \in TryRows /\ e.stage = "held" /\ e.link = ask[b].link /\ e.browser = b
      BY <1>1 DEF Unstarted, TryRows, AskRows, Claimants, Stages
    <2>3. \A s \in Links : s \in e.link => Party(s, b) BY <2>2 DEF Party, Asks
    <2> HIDE DEF e
    <2> QED BY <1>2, <1>3, <2>1, <2>2, <2>3
  <1> QED BY <1>4, <1>5

\* The entry is written back, held or dialing; no party comes of it.
LEMMA EntryStep ==
  ASSUME LInv, NEW b \in Browsers, NEW a \in Tries, ask[b].kind # "none", Claim(b, a),
         NEW q \in TryRows, q.stage # "free",
         q.link = Entry(b, a).link, q.browser = Entry(b, a).browser,
         LinkAt(a, q), Reply(b), RowsHold, row' \in [Links -> StateRows], UNCHANGED number
  PROVE  LInv'
  <1>1. /\ try' \in [Tries -> TryRows] /\ try'[a] = q
        /\ \A o \in Tries : o # a => try'[o] = try[o]
    BY DEF LinkAt, LInv, LShape
  <1>2. /\ q.link # {} /\ q.browser \in Browsers
        /\ \A s \in Links : s \in q.link => Party(s, q.browser)
        /\ reg' \in [Links -> Tries \cup {NoTry}]
    BY EntryOfAsker
  <1>3. ask' \in [Browsers -> AskRows] /\ AsksHold BY ReplyHolds
  <1>4. LShape' BY <1>1, <1>2, <1>3 DEF LInv, LShape
  <1>5. ASSUME NEW s \in Links, NEW c \in Browsers, Party(s, c)' PROVE Party(s, c)
    <2>1. CASE Asks(s, c)' BY <1>3, <2>1 DEF Asks, AsksHold, Quiescent, Party
    <2>2. CASE Attempts(s, c)'
      <3>1. PICK o \in Tries : try'[o].stage # "free" /\ s \in try'[o].link /\ try'[o].browser = c
        BY <2>2 DEF Attempts
      <3>2. CASE o = a BY <1>1, <1>2, <3>1, <3>2
      <3>3. CASE o # a BY <1>1, <3>1, <3>3 DEF Party, Attempts
      <3> QED BY <3>2, <3>3
    <2> QED BY <1>5, <2>1, <2>2 DEF Party
  <1> QED BY <1>4, <1>5, NoNewParty

LEMMA ConsentStep == ASSUME LInv, NEW b \in Browsers, NEW a \in Tries, Consent(b, a) PROVE LInv'
  <1>1. /\ ask[b].kind # "none" /\ Claim(b, a) /\ LinkAt(a, Entry(b, a)) /\ Reply(b)
        /\ UNCHANGED number
    BY DEF Consent, browserFrame
  <1>2. /\ Entry(b, a) \in TryRows /\ Entry(b, a).stage # "free" BY <1>1, EntryOfAsker
  <1>3. RowsHold /\ row' \in [Links -> StateRows]
    <2>1. \A s \in Links : row'[s] = row[s] \/ row'[s] = [row[s] EXCEPT !.consent = TRUE]
      BY DEF Consent
    <2>2. \A s \in Links : row[s] \in StateRows BY DEF LInv, LShape
    <2>3. \A s \in Links : row'[s] \in StateRows /\ row'[s].life = row[s].life
                            /\ row'[s].browser = row[s].browser
      BY <2>1, <2>2 DEF StateRows
    <2>4. row' = [s \in Links |-> row'[s]] BY DEF Consent
    <2> QED BY <2>3, <2>4 DEF RowsHold
  <1> QED BY <1>1, <1>2, <1>3, EntryStep

LEMMA StartStep == ASSUME LInv, NEW b \in Browsers, NEW a \in Tries, StartPairing(b, a) PROVE LInv'
  <1> DEFINE q == IF Entry(b, a).stage = "held" THEN [Entry(b, a) EXCEPT !.stage = "dialing"]
                  ELSE try[a]
  <1>1. /\ ask[b].kind # "none" /\ Claim(b, a) /\ LinkAt(a, q) /\ Reply(b)
        /\ UNCHANGED <<row, number>>
    BY DEF StartPairing, browserFrame
  <1>2. /\ Entry(b, a) \in TryRows /\ Entry(b, a).stage # "free" BY <1>1, EntryOfAsker
  <1>3. /\ q \in TryRows /\ q.stage # "free"
        /\ q.link = Entry(b, a).link /\ q.browser = Entry(b, a).browser
    <2>1. CASE Entry(b, a).stage = "held" BY <1>2, <2>1 DEF TryRows, Stages
    <2>2. CASE Entry(b, a).stage # "held"
      <3>1. Entry(b, a) = try[a] BY <2>2 DEF Entry, Unstarted
      <3> QED BY <1>2, <2>2, <3>1
    <2> QED BY <2>1, <2>2
  <1>4. RowsHold /\ row' \in [Links -> StateRows] BY <1>1 DEF LInv, LShape, RowsHold
  <1> HIDE DEF q
  <1> QED BY <1>1, <1>3, <1>4, EntryStep

-----------------------------------------------------------------------------
(* The attempt, its session, its finish.                                    *)
LEMMA DialledStep == ASSUME LInv, NEW a \in Tries, Dialled(a) PROVE LInv'
  <1>1. try[a].stage = "dialing" /\ try[a] \in TryRows /\ UNCHANGED <<row, ask, number>>
    BY DEF Dialled, LInv, LShape
  <1>2. CASE LinkAt(a, [try[a] EXCEPT !.stage = "live", !.session = "open"]) /\ UNCHANGED reg
    <2> DEFINE q == [try[a] EXCEPT !.stage = "live", !.session = "open"]
    <2>1. q \in TryRows /\ Same(q, try[a]) BY <1>1, StageMoves DEF Stages
    <2>2. LinkAt(a, q) BY <1>2
    <2> HIDE DEF q
    <2> QED BY <1>1, <1>2, <2>1, <2>2, TryStep DEF LInv, LShape
  <1>3. CASE /\ LinkAt(a, [try[a] EXCEPT !.stage = "failed"])
             /\ reg' = [s \in Links |-> IF reg[s] = a THEN NoTry ELSE reg[s]]
    <2> DEFINE q == [try[a] EXCEPT !.stage = "failed"]
    <2>1. q \in TryRows /\ Same(q, try[a]) BY <1>1, StageMoves DEF Stages
    <2>2. LinkAt(a, q) BY <1>3
    <2>3. reg' \in [Links -> Tries \cup {NoTry}] BY <1>3 DEF LInv, LShape
    <2> HIDE DEF q
    <2> QED BY <1>1, <2>1, <2>2, <2>3, TryStep DEF LInv, LShape
  <1> QED BY <1>2, <1>3 DEF Dialled

LEMMA ScanStep == ASSUME LInv, NEW a \in Tries, Scan(a) PROVE LInv'
  <1> DEFINE q == [try[a] EXCEPT !.session = "saved"]
  <1>1. q \in TryRows /\ Same(q, try[a]) BY OutcomeMoves DEF LInv, LShape
  <1>2. LinkAt(a, q) /\ UNCHANGED <<row, ask, number, reg>> BY DEF Scan, sessionFrame
  <1> HIDE DEF q
  <1> QED BY <1>1, <1>2, TryStep DEF LInv, LShape

\* A session is resolved, once, and its attempt stays what it is.
LEMMA ResolveStep ==
  ASSUME LInv, NEW a \in Tries, NEW r \in {"paired", "cancelled", "timeout"},
         Resolve(a, r, try[a]), UNCHANGED <<row, ask, number>>,
         reg' \in [Links -> Tries \cup {NoTry}]
  PROVE  LInv'
  <1> DEFINE q == [try[a] EXCEPT !.session = "resolved", !.result = r]
  <1>1. try[a] \in TryRows BY DEF LInv, LShape
  <1>2. q \in TryRows /\ Same(q, try[a]) BY <1>1, OutcomeMoves
  <1>3. CASE LinkAt(a, q)
    <2> HIDE DEF q
    <2> QED BY <1>2, <1>3, TryStep DEF LInv, LShape
  <1>4. CASE LinkAt(a, try[a]) BY <1>1, <1>4, TryStep DEF LInv, LShape, Same
  <1> QED BY <1>3, <1>4 DEF Resolve, LinkAt

LEMMA SessionStep ==
  ASSUME LInv, NEW a \in Tries, PairSuccess(a) \/ ProviderGivesUp(a)
  PROVE  LInv'
  BY ResolveStep DEF PairSuccess, ProviderGivesUp, sessionFrame, LInv, LShape

LEMMA SweepStep == ASSUME LInv, NEW s \in Links, SweepLink(s) PROVE LInv'
  <1>1. reg[s] \in Tries /\ reg' \in [Links -> Tries \cup {NoTry}]
    BY DEF SweepLink, LInv, LShape
  <1>2. Resolve(reg[s], "cancelled", try[reg[s]]) /\ UNCHANGED <<row, ask, number>>
    BY DEF SweepLink, sessionFrame
  <1> QED BY <1>1, <1>2, ResolveStep

LEMMA BeginsFinish ==
  ASSUME LInv, NEW a \in Tries, try[a].stage # "free",
         NEW r \in {"none", "paired", "cancelled", "timeout"}
  PROVE  /\ Begin(a, r) \in TryRows /\ Same(Begin(a, r), try[a])
         /\ [Begin(a, r) EXCEPT !.session = "resolved"] \in TryRows
         /\ Same([Begin(a, r) EXCEPT !.session = "resolved"], try[a])
  <1>1. try[a] \in TryRows BY DEF LInv, LShape
  <1>2. Begin(a, r) \in TryRows /\ Same(Begin(a, r), try[a])
    BY <1>1, StageMoves DEF Begin, Stages, Finishing
  <1> QED BY <1>2, OutcomeMoves DEF Same

LEMMA ResultStep ==
  ASSUME LInv, NEW a \in Tries, TakeResult(a) \/ WindowCloses(a)
  PROVE  LInv'
  <1>1. try[a].stage # "free" /\ try[a] \in TryRows /\ UNCHANGED <<row, ask, number, reg>>
    BY DEF TakeResult, WindowCloses, sessionFrame, LInv, LShape
  <1>2. \/ \E r \in {"none", "paired", "cancelled", "timeout"} : LinkAt(a, Begin(a, r))
        \/ LinkAt(a, [Begin(a, "timeout") EXCEPT !.session = "resolved"])
    BY <1>1 DEF TakeResult, WindowCloses, TryRows
  <1> QED BY <1>1, <1>2, BeginsFinish, TryStep DEF LInv, LShape

LEMMA EndedRow ==
  ASSUME LInv, NEW a \in Tries, try[a].stage # "free"
  PROVE  Ended(a) \in TryRows /\ Same(Ended(a), try[a])
  <1>1. try[a] \in TryRows BY DEF LInv, LShape
  <1> QED BY <1>1, StageMoves DEF Ended, Stages

\* The attempt reaches another stage of its finish.
LEMMA StagedRow ==
  ASSUME LInv, NEW a \in Tries, try[a].stage # "free", NEW st \in Finishing, NEW l \in BOOLEAN
  PROVE  /\ [try[a] EXCEPT !.stage = st] \in TryRows /\ Same([try[a] EXCEPT !.stage = st], try[a])
         /\ [try[a] EXCEPT !.stage = st, !.relink = l] \in TryRows
         /\ Same([try[a] EXCEPT !.stage = st, !.relink = l], try[a])
  <1>1. try[a] \in TryRows /\ st \in Stages \ {"free"} BY DEF LInv, LShape, Stages, Finishing
  <1> QED BY <1>1, StageMoves

LEMMA TakeReadStep == ASSUME LInv, NEW a \in Tries, TakeRead(a) PROVE LInv'
  <1>1. try[a].stage # "free" /\ UNCHANGED <<row, ask, number, reg>>
    BY DEF TakeRead, finishFrame
  <1>2. LinkAt(a, [try[a] EXCEPT !.stage = "taken"]) \/ LinkAt(a, Ended(a))
    BY DEF TakeRead
  <1>3. "taken" \in Finishing BY DEF Finishing
  <1> QED BY <1>1, <1>2, <1>3, EndedRow, StagedRow, TryStep DEF LInv, LShape

LEMMA TakeDeleteStep == ASSUME LInv, NEW a \in Tries, TakeDelete(a) PROVE LInv'
  <1>1. try[a].stage # "free" /\ UNCHANGED <<ask, number, reg>>
    BY DEF TakeDelete, finishFrame
  <1>2. PICK s \in Links : row' = [row EXCEPT ![s] = NoState]
    BY DEF TakeDelete, LInv, LShape, TryRows
  <1>3. LinkAt(a, [try[a] EXCEPT !.stage = "lookup"]) \/ LinkAt(a, Ended(a))
    BY DEF TakeDelete
  <1>4. RowsHold /\ row' \in [Links -> StateRows]
    BY <1>2 DEF NoState, RowsHold, LInv, LShape, StateRows, Claimants
  <1>5. "lookup" \in Finishing BY DEF Finishing
  <1>6. try' \in [Tries -> TryRows] /\ TriesHold
    BY <1>1, <1>3, <1>5, EndedRow, StagedRow, TryMoves
  <1> QED BY <1>1, <1>4, <1>6, Settled DEF LInv, LShape, AsksHold

LEMMA ConnectStep ==
  ASSUME LInv, NEW a \in Tries,
         Lookup(a) \/ UpsertLinked(a) \/ Replace(a) \/ SaveChatSession(a) \/ FinishFails(a)
  PROVE  LInv'
  <1>1. try[a].stage # "free" /\ UNCHANGED <<row, ask, reg>>
    BY DEF Lookup, UpsertLinked, Replace, SaveChatSession, FinishFails, Finishing, finishFrame
  <1>2. number'.exists \in BOOLEAN
    <2>1. CASE UpsertLinked(a)
      BY <2>1 DEF UpsertLinked, LInv, LShape
    <2>2. CASE SaveChatSession(a)
      BY <2>2 DEF SaveChatSession, LInv, LShape
    <2>3. CASE UNCHANGED number BY <2>3 DEF LInv, LShape
    <2> QED BY <2>1, <2>2, <2>3 DEF Lookup, Replace, FinishFails
  <1>3. \/ \E st \in Finishing : LinkAt(a, [try[a] EXCEPT !.stage = st])
        \/ \E st \in Finishing, l \in BOOLEAN : LinkAt(a, [try[a] EXCEPT !.stage = st, !.relink = l])
        \/ LinkAt(a, Ended(a))
    BY DEF Lookup, UpsertLinked, Replace, SaveChatSession, FinishFails, Finishing, LInv, LShape
  <1> QED BY <1>1, <1>2, <1>3, EndedRow, StagedRow, TryStep DEF LInv, LShape

-----------------------------------------------------------------------------
(* Time, crashes, and the theorem.                                          *)
LEMMA ExpireStep == ASSUME LInv, NEW s \in Links, ExpireLink(s) PROVE LInv'
  <1>1. RowsHold /\ row' \in [Links -> StateRows]
    BY DEF ExpireLink, RowsHold, LInv, LShape, StateRows
  <1>2. UNCHANGED <<reg, try, number, ask>> BY DEF ExpireLink
  <1>3. TriesHold /\ AsksHold BY <1>2 DEF TriesHold, AsksHold, Same, LInv, LShape
  <1> QED BY <1>1, <1>2, <1>3, Settled DEF LInv, LShape

LEMMA KillStep == ASSUME LInv, LinkKill PROVE LInv'
  <1>1. /\ UNCHANGED <<row, number>> /\ reg' \in [Links -> Tries \cup {NoTry}]
        /\ ask' = [b \in Browsers |-> Quiescent]
        /\ try' = [a \in Tries |-> IF try[a].stage = "free" THEN try[a]
                                   ELSE [Ended(a) EXCEPT !.session = "resolved"]]
    BY DEF LinkKill
  <1>2. ask' \in [Browsers -> AskRows] /\ AsksHold
    BY <1>1 DEF AsksHold, Quiescent, AskRows
  <1>3. ASSUME NEW a \in Tries PROVE try'[a] \in TryRows /\ Same(try'[a], try[a])
    <2>1. CASE try[a].stage = "free" BY <1>1, <2>1 DEF Same, LInv, LShape
    <2>2. CASE try[a].stage # "free"
      <3>1. Ended(a) \in TryRows /\ Same(Ended(a), try[a]) BY <2>2, EndedRow
      <3>2. [Ended(a) EXCEPT !.session = "resolved"] \in TryRows
            /\ Same([Ended(a) EXCEPT !.session = "resolved"], Ended(a))
        BY <3>1, OutcomeMoves
      <3> QED BY <1>1, <2>2, <3>1, <3>2 DEF Same
    <2> QED BY <2>1, <2>2
  <1>4. try' \in [Tries -> TryRows] /\ TriesHold BY <1>1, <1>3 DEF TriesHold
  <1> QED BY <1>1, <1>2, <1>4, Settled DEF LInv, LShape, RowsHold

LEMMA LInvStep == ASSUME LInv, [LinkNext]_linkVars PROVE LInv'
  <1>1. CASE UNCHANGED linkVars
    BY <1>1 DEF linkVars, LInv, LShape, Parties, Party, Asks, Attempts
  <1>2. \A b \in Browsers : Knows[b] \subseteq Links BY LinkPairingAssumption
  <1> QED BY <1>1, <1>2, ClaimRowStep, ConsentStep, StartStep, MismatchStep, DialledStep, ScanStep,
             SessionStep, ResultStep, TakeReadStep, TakeDeleteStep, ConnectStep, SweepStep,
             ExpireStep, KillStep
          DEF LinkNext, Pump

\* ClaimOAuthStateBrowser and the registry: for any number of links, browsers,
\* attempts, faults and kills, all attempts of a link are one browser's.
THEOREM LinkHasOneBrowser == LinkSpec => []OneBrowserDrives
  <1> QED BY LInvInit, LInvStep, PartiesSuffice, PTL DEF LinkSpec
-----------------------------------------------------------------------------
(* Devices.  NoDeviceLingers needs to know how far the session of an attempt *)
(* is at each of its stages, that the account's device is one of an attempt  *)
(* that is over, and what ConnectLinked has made sure of before it saves the *)
(* new device; the last two only while one attempt connects at a time.       *)

Connecting == Finishing \ {"finish"}

\* The session of attempt r, and the devices there are, fit its stage.
Fits(r, a, held) ==
    /\ r.stage \in {"free", "held", "dialing", "failed"} => r.session = "none"
    /\ r.stage \in Finishing \cup {"over"} => r.session = "resolved"
    /\ a \in held => r.session \in {"saved", "resolved"}
    /\ (r.session = "resolved" /\ r.result # "paired" /\ r.stage # "over") => a \notin held

SessionsFit == \A a \in Tries : Fits(try[a], a, devices)

Keeper ==
    /\ number.device # NoTry => number.exists /\ try[number.device].stage = "over"
    /\ \A a \in Tries : try[a].stage \in {"replace", "save"} => number.exists

Alone ==
    overlap \/ \A a, o \in Tries :
        (try[a].stage \in Connecting /\ try[o].stage \in Connecting) => a = o

\* Only a number that is new goes without the replacement of a device, and when
\* the new one is saved there is no other left.
Replacing ==
    overlap \/ \A a \in Tries :
        /\ (try[a].stage = "upsert" /\ ~try[a].relink) => ~number.exists
        /\ try[a].stage = "save" => number.device \notin (devices \ excused) \ {a}

DShape ==
    /\ number \in [exists : BOOLEAN, device : Tries \cup {NoTry}]
    /\ devices \subseteq Tries /\ excused \subseteq Tries /\ overlap \in BOOLEAN

DInv == DShape /\ SessionsFit /\ Keeper /\ Alone /\ Replacing /\ NoDeviceLingers

LEMMA DInvInit == LinkInit => DInv
  <1> SUFFICES ASSUME LinkInit PROVE DInv OBVIOUS
  <1>1. DShape BY DEF LinkInit, DShape
  <1>2. \A a \in Tries : try[a].stage = "free" /\ try[a].session = "none" /\ a \notin devices
    BY DEF LinkInit, Unstarted
  <1>3. SessionsFit BY <1>2 DEF SessionsFit, Fits, Finishing
  <1>4. Keeper /\ Alone /\ Replacing /\ NoDeviceLingers
    BY <1>2 DEF LinkInit, Keeper, Alone, Replacing, NoDeviceLingers, Connecting, Finishing
  <1> QED BY <1>1, <1>3, <1>4 DEF DInv

LEMMA DevicesStay ==
  ASSUME DInv, UNCHANGED <<try, devices, number, excused, overlap>>
  PROVE  DInv'
  BY DEF DInv, DShape, SessionsFit, Keeper, Alone, Replacing, NoDeviceLingers

\* Attempt a moves on to record q; the number keeps its device.
LEMMA AttemptMoves ==
  ASSUME LInv, DInv, NEW a \in Tries, NEW q, LinkAt(a, q), UNCHANGED number,
         overlap' \in BOOLEAN, overlap => overlap',
         devices' \subseteq devices \cup {a}, excused \subseteq excused', excused' \subseteq Tries,
         a \in devices' => a \in devices \/ try[a].stage # "over",
         try[a].stage = "over" => q.stage = "over",
         Fits(q, a, devices'),
         q.stage \in {"replace", "save"} => number.exists,
         q.stage \in Connecting =>
            \/ try[a].stage \in Connecting \/ overlap'
            \/ \A o \in Tries \ {a} : try[o].stage \notin Connecting,
         (q.stage = "upsert" /\ ~q.relink) => overlap' \/ ~number.exists,
         q.stage = "save" => overlap' \/ number.device \notin (devices' \ excused') \ {a},
         (q.stage = "over" /\ try[a].stage # "over") => overlap' \/ a \notin devices' \ excused'
  PROVE  DInv'
  <1>1. /\ try'[a] = q
        /\ \A o \in Tries : o # a => try'[o] = try[o]
    BY DEF LinkAt, LInv, LShape
  <1>2. DShape' BY DEF DInv, DShape
  <1>3. SessionsFit'
    <2> SUFFICES ASSUME NEW o \in Tries PROVE Fits(try'[o], o, devices') BY DEF SessionsFit
    <2>1. CASE o = a BY <1>1, <2>1
    <2>2. CASE o # a
      <3>1. o \in devices' => o \in devices BY <2>2
      <3> QED BY <1>1, <2>2, <3>1 DEF DInv, SessionsFit, Fits
    <2> QED BY <2>1, <2>2
  <1>4. Keeper'
    <2>1. number.device # NoTry => number.exists /\ try'[number.device].stage = "over"
      BY <1>1 DEF DInv, DShape, Keeper
    <2>2. \A o \in Tries : try'[o].stage \in {"replace", "save"} => number.exists
      BY <1>1 DEF DInv, Keeper
    <2> QED BY <2>1, <2>2 DEF Keeper
  <1>5. Alone'
    <2> SUFFICES ASSUME ~overlap', NEW o \in Tries, NEW u \in Tries,
                        try'[o].stage \in Connecting, try'[u].stage \in Connecting
                 PROVE  o = u
      BY <1>2 DEF Alone, DShape
    <2>1. \A x, y \in Tries : (try[x].stage \in Connecting /\ try[y].stage \in Connecting) => x = y
      BY DEF DInv, Alone
    <2> QED BY <1>1, <2>1
  <1>6. Replacing'
    <2> SUFFICES ASSUME ~overlap', NEW o \in Tries
                 PROVE  /\ (try'[o].stage = "upsert" /\ ~try'[o].relink) => ~number.exists
                        /\ try'[o].stage = "save" => number.device \notin (devices' \ excused') \ {o}
      BY <1>2 DEF Replacing, DShape
    <2>1. CASE o = a BY <1>1, <2>1
    <2>2. CASE o # a
      <3>1. ASSUME number.device \in devices' \ excused' PROVE number.device \in devices \ excused
        <4>1. number.device \in Tries /\ number.device # NoTry
          BY <3>1, LinkPairingAssumption DEF DInv, DShape
        <4>2. try[number.device].stage = "over" BY <4>1 DEF DInv, Keeper
        <4> QED BY <3>1, <4>2
      <3> QED BY <1>1, <2>2, <3>1 DEF DInv, Replacing
    <2> QED BY <2>1, <2>2
  <1>7. NoDeviceLingers'
    <2> SUFFICES ASSUME ~overlap', NEW o \in devices' \ excused', try'[o].stage = "over"
                 PROVE  number.device = o
      BY <1>2 DEF NoDeviceLingers, DShape
    <2>1. o \in Tries BY DEF DInv, DShape
    <2>2. try[o].stage = "over" BY <1>1, <2>1
    <2>3. o \in devices \ excused BY <2>2
    <2> QED BY <2>2, <2>3 DEF DInv, NoDeviceLingers
  <1> QED BY <1>2, <1>3, <1>4, <1>5, <1>6, <1>7 DEF DInv

-----------------------------------------------------------------------------
(* Requests and sessions.                                                   *)
LEMMA RequestDevices ==
  ASSUME LInv, DInv, NEW b \in Browsers, NEW a \in Tries, Consent(b, a) \/ StartPairing(b, a)
  PROVE  DInv'
  <1>1. /\ ask[b].kind # "none" /\ Claim(b, a) /\ UNCHANGED <<devices, number, excused, overlap>>
    BY DEF Consent, StartPairing, browserFrame
  <1> DEFINE e == Entry(b, a)
  <1>2. PICK q : /\ LinkAt(a, q)
                 /\ q = try[a] \/ q = e \/ (e.stage = "held" /\ q = [e EXCEPT !.stage = "dialing"])
    BY DEF Consent, StartPairing
  <1>3. try \in [Tries -> TryRows] /\ try[a] \in TryRows /\ e \in TryRows
    BY <1>1, EntryOfAsker DEF LInv, LShape
  <1>4. Fits(try[a], a, devices) BY DEF DInv, SessionsFit
  <1>5. CASE q = try[a]
    <2>1. try' = try BY <1>2, <1>3, <1>5 DEF LinkAt
    <2> QED BY <1>1, <2>1, DevicesStay
  <1>6. CASE try[a].stage # "free" /\ q # try[a]
    <2>1. e = try[a] BY <1>6 DEF Entry
    <2>2. try[a].stage = "held" /\ q = [try[a] EXCEPT !.stage = "dialing"] BY <1>2, <1>6, <2>1
    <2>3. q.stage = "dialing" /\ q.session = try[a].session /\ q.result = try[a].result
      BY <1>3, <2>2 DEF TryRows
    <2>4. Fits(q, a, devices) BY <1>4, <2>2, <2>3 DEF Fits, Finishing
    <2> HIDE DEF e
    <2> QED BY <1>1, <1>2, <2>2, <2>3, <2>4, AttemptMoves DEF DInv, DShape, Connecting, Finishing
  <1>7. CASE try[a].stage = "free" /\ q # try[a]
    <2>1. e = [Unstarted EXCEPT !.link = ask[b].link, !.browser = b, !.stage = "held"]
      BY <1>7 DEF Entry
    <2>2. e.stage = "held" /\ e.session = "none" BY <2>1 DEF Unstarted
    <2> HIDE DEF e
    <2>3. q.stage \in {"held", "dialing"} /\ q.session = "none" BY <1>2, <1>3, <1>7, <2>2 DEF TryRows
    <2>4. a \notin devices BY <1>4, <1>7 DEF Fits
    <2>5. Fits(q, a, devices) BY <2>3, <2>4 DEF Fits, Finishing
    <2> QED BY <1>1, <1>2, <1>7, <2>3, <2>5, AttemptMoves DEF DInv, DShape, Connecting, Finishing
  <1> QED BY <1>5, <1>6, <1>7

LEMMA DialledDevices == ASSUME LInv, DInv, NEW a \in Tries, Dialled(a) PROVE DInv'
  <1>1. /\ try[a].stage = "dialing" /\ try[a] \in TryRows
        /\ UNCHANGED <<devices, number, excused, overlap>>
    BY DEF Dialled, LInv, LShape
  <1>2. PICK q : /\ LinkAt(a, q)
                 /\ \/ q = [try[a] EXCEPT !.stage = "live", !.session = "open"]
                    \/ q = [try[a] EXCEPT !.stage = "failed"]
    BY DEF Dialled
  <1>3. Fits(try[a], a, devices) BY DEF DInv, SessionsFit
  <1>4. \/ q.stage = "live" /\ q.session = "open"
        \/ q.stage = "failed" /\ q.session = try[a].session
    BY <1>1, <1>2 DEF TryRows
  <1>5. Fits(q, a, devices) BY <1>1, <1>3, <1>4 DEF Fits, Finishing
  <1> QED BY <1>1, <1>2, <1>4, <1>5, AttemptMoves DEF DInv, DShape, Connecting, Finishing

\* A session that has not resolved belongs to an attempt that waits for it.
LEMMA Waiting ==
  ASSUME LInv, DInv, NEW a \in Tries, try[a].session \in {"open", "saved"}
  PROVE  try[a].stage = "live"
  <1>1. try[a] \in TryRows BY DEF LInv, LShape
  <1> QED BY <1>1 DEF DInv, SessionsFit, Fits, TryRows, Stages

LEMMA ScanDevices == ASSUME LInv, DInv, NEW a \in Tries, Scan(a) PROVE DInv'
  <1>1. /\ try[a].stage = "live" /\ devices' = devices \cup {a}
        /\ UNCHANGED <<number, excused, overlap>>
    BY Waiting DEF Scan, sessionFrame
  <1> DEFINE q == [try[a] EXCEPT !.session = "saved"]
  <1>2. LinkAt(a, q) BY DEF Scan
  <1>3. q.stage = "live" /\ q.session = "saved" BY <1>1 DEF LInv, LShape, TryRows
  <1> HIDE DEF q
  <1>4. Fits(q, a, devices') BY <1>3 DEF Fits, Finishing
  <1> QED BY <1>1, <1>2, <1>3, <1>4, AttemptMoves DEF DInv, DShape, Connecting, Finishing

\* resolve discards the device unless the phone has paired.
LEMMA ResolveDevices ==
  ASSUME LInv, DInv, NEW a \in Tries, NEW r \in {"paired", "cancelled", "timeout"},
         Resolve(a, r, try[a]), UNCHANGED <<number, excused, overlap>>
  PROVE  DInv'
  <1>1. CASE try[a].session \in {"open", "saved"}
    <2> DEFINE q == [try[a] EXCEPT !.session = "resolved", !.result = r]
    <2>1. LinkAt(a, q) /\ devices' = IF r = "paired" THEN devices ELSE devices \ {a}
      BY <1>1 DEF Resolve, LinkAt
    <2>2. try[a].stage = "live" BY <1>1, Waiting
    <2>3. q.stage = "live" /\ q.session = "resolved" /\ q.result = r
      BY <2>2 DEF LInv, LShape, TryRows
    <2> HIDE DEF q
    <2>4. Fits(q, a, devices') BY <2>1, <2>3 DEF Fits, Finishing
    <2>5. devices' \subseteq devices BY <2>1
    <2> QED BY <2>1, <2>2, <2>3, <2>4, <2>5, AttemptMoves DEF DInv, DShape, Connecting, Finishing
  <1>2. CASE try[a].session \notin {"open", "saved"}
    <2>1. LinkAt(a, try[a]) /\ UNCHANGED devices BY <1>2 DEF Resolve
    <2>2. try' = try BY <2>1 DEF LinkAt, LInv, LShape
    <2> QED BY <2>1, <2>2, DevicesStay
  <1> QED BY <1>1, <1>2

LEMMA SessionDevices ==
  ASSUME LInv, DInv,
         \/ \E a \in Tries : PairSuccess(a) \/ ProviderGivesUp(a)
         \/ \E s \in Links : SweepLink(s)
  PROVE  DInv'
  <1>1. CASE \E a \in Tries : PairSuccess(a) \/ ProviderGivesUp(a)
    BY <1>1, ResolveDevices DEF PairSuccess, ProviderGivesUp, sessionFrame
  <1>2. ASSUME NEW s \in Links, SweepLink(s) PROVE DInv'
    <2>1. reg[s] \in Tries BY <1>2 DEF SweepLink, LInv, LShape
    <2>2. Resolve(reg[s], "cancelled", try[reg[s]]) /\ UNCHANGED <<number, excused, overlap>>
      BY <1>2 DEF SweepLink, sessionFrame
    <2> QED BY <2>1, <2>2, ResolveDevices
  <1> QED BY <1>1, <1>2

\* A timeout that is reported leaves no device; a late success keeps it.
LEMMA ResultDevices ==
  ASSUME LInv, DInv, NEW a \in Tries, TakeResult(a) \/ WindowCloses(a)
  PROVE  DInv'
  <1>1. /\ try[a].stage = "live" /\ try[a] \in TryRows /\ UNCHANGED <<number, excused, overlap>>
    BY DEF TakeResult, WindowCloses, sessionFrame, LInv, LShape
  <1>2. Fits(try[a], a, devices) BY DEF DInv, SessionsFit
  <1>3. PICK q : /\ LinkAt(a, q)
                 /\ \/ /\ q = Begin(a, try[a].result) /\ try[a].session = "resolved"
                       /\ UNCHANGED devices
                    \/ /\ q = [Begin(a, "timeout") EXCEPT !.session = "resolved"]
                       /\ ~LateSuccess(a)
                       /\ devices' = IF try[a].session = "saved" THEN devices \ {a} ELSE devices
    BY DEF TakeResult, WindowCloses, LateSuccess
  <1>4. /\ q.stage = "finish" /\ q.session = "resolved"
        /\ \/ q.result = try[a].result /\ try[a].session = "resolved" /\ UNCHANGED devices
           \/ /\ ~LateSuccess(a)
              /\ devices' = IF try[a].session = "saved" THEN devices \ {a} ELSE devices
    BY <1>1, <1>3 DEF Begin, TryRows
  <1>5. Fits(q, a, devices') BY <1>1, <1>2, <1>4 DEF Fits, Finishing, LateSuccess
  <1>6. devices' \subseteq devices BY <1>4
  <1> QED BY <1>1, <1>3, <1>4, <1>5, <1>6, AttemptMoves DEF DInv, DShape, Connecting, Finishing

-----------------------------------------------------------------------------
(* finishLink and ConnectLinked.                                            *)
LEMMA EndedIs ==
  ASSUME LInv, NEW a \in Tries
  PROVE  Ended(a).stage = "over" /\ Ended(a).session = try[a].session
  BY DEF Ended, LInv, LShape, TryRows

\* The attempt is over, and its device forgotten or excused.
LEMMA AttemptEnds ==
  ASSUME LInv, DInv, NEW a \in Tries, LinkAt(a, Ended(a)), try[a].stage \in Finishing,
         UNCHANGED number, overlap' \in BOOLEAN, overlap => overlap',
         devices' \subseteq devices, excused \subseteq excused', excused' \subseteq Tries,
         a \notin devices' \ excused'
  PROVE  DInv'
  <1>1. Ended(a).stage = "over" /\ Ended(a).session = "resolved"
    BY EndedIs DEF DInv, SessionsFit, Fits
  <1>2. Fits(Ended(a), a, devices') BY <1>1 DEF Fits
  <1>3. PICK q : q = Ended(a) OBVIOUS
  <1> QED BY <1>1, <1>2, <1>3, AttemptMoves DEF Connecting, Finishing

LEMMA Forgotten ==
  ASSUME DInv, NEW a \in Tries, ForgetDevice(a)
  PROVE  /\ devices' \subseteq devices /\ excused \subseteq excused' /\ excused' \subseteq Tries
         /\ a \notin devices' \ excused'
  BY DEF ForgetDevice, DInv, DShape

LEMMA TakeReadDevices == ASSUME LInv, DInv, NEW a \in Tries, TakeRead(a) PROVE DInv'
  <1>1. /\ try[a].stage = "finish" /\ try[a] \in TryRows /\ UNCHANGED number
        /\ overlap' = (overlap \/ \E o \in Tries \ {a} : try[o].stage \in Connecting)
    BY DEF TakeRead, Connecting, LInv, LShape
  <1>2. overlap' \in BOOLEAN /\ (overlap => overlap') BY <1>1 DEF DInv, DShape
  <1>3. CASE LinkAt(a, Ended(a)) /\ ForgetDevice(a)
    BY <1>1, <1>2, <1>3, Forgotten, AttemptEnds DEF Finishing
  <1>4. CASE LinkAt(a, [try[a] EXCEPT !.stage = "taken"]) /\ UNCHANGED <<devices, excused>>
    <2> DEFINE q == [try[a] EXCEPT !.stage = "taken"]
    <2>1. LinkAt(a, q) BY <1>4
    <2>2. q.stage = "taken" /\ q.session = try[a].session /\ q.result = try[a].result
      BY <1>1 DEF TryRows
    <2> HIDE DEF q
    <2>3. Fits(q, a, devices) BY <1>1, <2>2 DEF DInv, SessionsFit, Fits, Finishing
    <2>4. overlap' \/ \A o \in Tries \ {a} : try[o].stage \notin Connecting BY <1>1
    <2> QED BY <1>1, <1>2, <1>4, <2>1, <2>2, <2>3, <2>4, AttemptMoves DEF DInv, DShape
  <1> QED BY <1>3, <1>4 DEF TakeRead

LEMMA TakeDeleteDevices == ASSUME LInv, DInv, NEW a \in Tries, TakeDelete(a) PROVE DInv'
  <1>1. /\ try[a].stage = "taken" /\ try[a] \in TryRows /\ UNCHANGED <<number, overlap>>
        /\ Fits(try[a], a, devices)
    BY DEF TakeDelete, LInv, LShape, DInv, SessionsFit
  <1>2. CASE LinkAt(a, Ended(a)) /\ ForgetDevice(a)
    BY <1>1, <1>2, Forgotten, AttemptEnds DEF Finishing, DInv, DShape
  <1>3. CASE LinkAt(a, Ended(a)) /\ UNCHANGED <<devices, excused>> /\ try[a].result # "paired"
    <2>1. a \notin devices BY <1>1, <1>3 DEF Fits, Finishing
    <2> QED BY <1>1, <1>3, <2>1, AttemptEnds DEF Finishing, DInv, DShape
  <1>4. CASE /\ LinkAt(a, [try[a] EXCEPT !.stage = "lookup"]) /\ UNCHANGED <<devices, excused>>
             /\ try[a].result = "paired"
    <2> DEFINE q == [try[a] EXCEPT !.stage = "lookup"]
    <2>1. LinkAt(a, q) BY <1>4
    <2>2. q.stage = "lookup" /\ q.session = try[a].session /\ q.result = try[a].result
      BY <1>1 DEF TryRows
    <2> HIDE DEF q
    <2>3. Fits(q, a, devices) BY <1>1, <2>2 DEF Fits, Finishing
    <2> QED BY <1>1, <1>4, <2>1, <2>2, <2>3, AttemptMoves DEF DInv, DShape, Connecting, Finishing
  <1> QED BY <1>2, <1>3, <1>4 DEF TakeDelete

LEMMA FinishFailsDevices == ASSUME LInv, DInv, NEW a \in Tries, FinishFails(a) PROVE DInv'
  <1>1. /\ try[a].stage \in Finishing /\ LinkAt(a, Ended(a)) /\ UNCHANGED <<number, overlap>>
    BY DEF FinishFails
  <1>2. /\ devices' \subseteq devices /\ excused \subseteq excused' /\ excused' \subseteq Tries
        /\ a \notin devices' \ excused'
    BY DEF FinishFails, DInv, DShape
  <1> QED BY <1>1, <1>2, AttemptEnds DEF DInv, DShape

LEMMA LookupDevices == ASSUME LInv, DInv, NEW a \in Tries, Lookup(a) PROVE DInv'
  <1>1. /\ try[a].stage = "lookup" /\ try[a] \in TryRows
        /\ UNCHANGED <<devices, number, excused, overlap>>
    BY DEF Lookup, LInv, LShape
  <1> DEFINE q == [try[a] EXCEPT !.stage = "upsert", !.relink = number.exists]
  <1>2. LinkAt(a, q) BY DEF Lookup
  <1>3. q.stage = "upsert" /\ q.session = try[a].session /\ q.result = try[a].result
        /\ q.relink = number.exists
    BY <1>1 DEF TryRows
  <1> HIDE DEF q
  <1>4. Fits(q, a, devices) BY <1>1, <1>3 DEF DInv, SessionsFit, Fits, Finishing
  <1> QED BY <1>1, <1>2, <1>3, <1>4, AttemptMoves DEF DInv, DShape, Connecting, Finishing

LEMMA ReplaceDevices == ASSUME LInv, DInv, NEW a \in Tries, Replace(a) PROVE DInv'
  <1>1. /\ try[a].stage = "replace" /\ try[a] \in TryRows /\ UNCHANGED <<number, overlap>>
    BY DEF Replace, LInv, LShape
  <1> DEFINE q == [try[a] EXCEPT !.stage = "save"]
  <1>2. LinkAt(a, q) BY DEF Replace
  <1>3. q.stage = "save" /\ q.session = try[a].session /\ q.result = try[a].result
    BY <1>1 DEF TryRows
  <1> HIDE DEF q
  <1>4. /\ devices' \subseteq devices /\ excused \subseteq excused' /\ excused' \subseteq Tries
        /\ number.device \notin (devices' \ excused') \ {a}
    <2>1. CASE number.device \in {NoTry, a} /\ UNCHANGED <<devices, excused>>
      BY <2>1, LinkPairingAssumption DEF DInv, DShape
    <2>2. CASE number.device \notin {NoTry, a} /\ ForgetDevice(number.device)
      <3>1. number.device \in Tries BY <2>2 DEF DInv, DShape
      <3> QED BY <2>2, <3>1, Forgotten
    <2> QED BY <2>1, <2>2 DEF Replace
  <1>5. Fits(q, a, devices')
    <2>1. Fits(try[a], a, devices) BY DEF DInv, SessionsFit
    <2> QED BY <1>1, <1>3, <1>4, <2>1 DEF Fits, Finishing
  <1>6. number.exists BY <1>1 DEF DInv, Keeper
  <1> QED BY <1>1, <1>2, <1>3, <1>4, <1>5, <1>6, AttemptMoves DEF DInv, DShape, Connecting, Finishing

\* The account exists from here on; the device of an older one is still to go.
LEMMA UpsertDevices == ASSUME LInv, DInv, NEW a \in Tries, UpsertLinked(a) PROVE DInv'
  <1>1. /\ try[a].stage = "upsert" /\ try[a] \in TryRows
        /\ number' = [number EXCEPT !.exists = TRUE]
        /\ UNCHANGED <<devices, excused, overlap>>
    BY DEF UpsertLinked, LInv, LShape
  <1> DEFINE q == [try[a] EXCEPT !.stage = IF try[a].relink THEN "replace" ELSE "save"]
  <1>2. try' = [try EXCEPT ![a] = q] BY DEF UpsertLinked, LinkAt
  <1>3. /\ q.stage = IF try[a].relink THEN "replace" ELSE "save"
        /\ q.session = try[a].session /\ q.result = try[a].result
    BY <1>1 DEF TryRows
  <1> HIDE DEF q
  <1>4. /\ number' \in [exists : BOOLEAN, device : Tries \cup {NoTry}]
        /\ number'.device = number.device /\ number'.exists
    BY <1>1 DEF DInv, DShape
  <1>5. try'[a] = q /\ \A o \in Tries : o # a => try'[o] = try[o]
    BY <1>2 DEF LInv, LShape
  <1>6. DShape' BY <1>1, <1>4 DEF DInv, DShape
  <1>7. SessionsFit'
    <2>1. Fits(try[a], a, devices) BY DEF DInv, SessionsFit
    <2>2. Fits(q, a, devices) BY <1>1, <1>3, <2>1 DEF Fits, Finishing
    <2> QED BY <1>1, <1>5, <2>2 DEF DInv, SessionsFit
  <1>8. Keeper' BY <1>1, <1>3, <1>4, <1>5 DEF DInv, DShape, Keeper
  <1>9. Alone' BY <1>1, <1>3, <1>5 DEF DInv, Alone, Connecting, Finishing
  <1>10. Replacing'
    <2> SUFFICES ASSUME ~overlap, NEW o \in Tries
                 PROVE  /\ ~(try'[o].stage = "upsert")
                        /\ try'[o].stage = "save" => number.device \notin (devices \ excused) \ {o}
      BY <1>1, <1>4 DEF Replacing
    <2>1. CASE o = a
      <3>1. ASSUME ~try[a].relink PROVE number.device \notin devices
        <4>1. number.device = NoTry BY <1>1, <3>1 DEF DInv, Replacing, Keeper
        <4> QED BY <4>1, LinkPairingAssumption DEF DInv, DShape
      <3> QED BY <1>3, <1>5, <2>1, <3>1
    <2>2. CASE o # a
      <3>1. try[o].stage \notin Connecting
        BY <1>1, <2>2 DEF DInv, Alone, Connecting, Finishing
      <3> QED BY <1>5, <2>2, <3>1 DEF Connecting, Finishing
    <2> QED BY <2>1, <2>2
  <1>11. NoDeviceLingers'
    BY <1>1, <1>3, <1>4, <1>5 DEF DInv, DShape, NoDeviceLingers
  <1> QED BY <1>6, <1>7, <1>8, <1>9, <1>10, <1>11 DEF DInv

\* The device of this attempt is the account's now, and there was no other left.
LEMMA SaveDevices == ASSUME LInv, DInv, NEW a \in Tries, SaveChatSession(a) PROVE DInv'
  <1>1. /\ try[a].stage = "save" /\ try[a] \in TryRows
        /\ number' = [number EXCEPT !.device = a]
        /\ devices' \subseteq devices /\ UNCHANGED <<excused, overlap>>
    BY DEF SaveChatSession, LInv, LShape
  <1> DEFINE q == Ended(a)
  <1>2. try' = [try EXCEPT ![a] = q] BY DEF SaveChatSession, LinkAt
  <1>3. q.stage = "over" /\ q.session = "resolved"
    BY <1>1, EndedIs DEF DInv, SessionsFit, Fits, Finishing
  <1> HIDE DEF q
  <1>4. /\ number' \in [exists : BOOLEAN, device : Tries \cup {NoTry}]
        /\ number'.device = a /\ number'.exists = number.exists
    BY <1>1 DEF DInv, DShape
  <1>5. try'[a] = q /\ \A o \in Tries : o # a => try'[o] = try[o]
    BY <1>2 DEF LInv, LShape
  <1>6. number.exists BY <1>1 DEF DInv, Keeper
  <1>7. DShape' BY <1>1, <1>4 DEF DInv, DShape
  <1>8. SessionsFit'
    <2>1. Fits(q, a, devices') BY <1>3 DEF Fits
    <2>2. \A o \in Tries : o # a => Fits(try'[o], o, devices')
      BY <1>1, <1>5 DEF DInv, SessionsFit, Fits
    <2> QED BY <1>5, <2>1, <2>2 DEF SessionsFit
  <1>9. Keeper' BY <1>3, <1>4, <1>5, <1>6 DEF DInv, Keeper
  <1>10. Alone' BY <1>1, <1>3, <1>5 DEF DInv, Alone, Connecting, Finishing
  <1>11. Replacing'
    <2> SUFFICES ASSUME ~overlap, NEW o \in Tries PROVE try'[o].stage \notin {"upsert", "save"}
      BY <1>1 DEF Replacing
    <2>1. CASE o = a BY <1>3, <1>5, <2>1
    <2>2. CASE o # a
      <3>1. try[o].stage \notin Connecting
        BY <1>1, <2>2 DEF DInv, Alone, Connecting, Finishing
      <3> QED BY <1>5, <2>2, <3>1 DEF Connecting, Finishing
    <2> QED BY <2>1, <2>2
  <1>12. NoDeviceLingers'
    <2> SUFFICES ASSUME ~overlap, NEW o \in devices \ excused, o # a, try[o].stage = "over"
                 PROVE  FALSE
      BY <1>1, <1>4, <1>5 DEF NoDeviceLingers, DInv, DShape
    <2>1. number.device = o BY DEF DInv, NoDeviceLingers
    <2>2. number.device \notin (devices \ excused) \ {a} BY <1>1 DEF DInv, Replacing
    <2> QED BY <2>1, <2>2
  <1> QED BY <1>7, <1>8, <1>9, <1>10, <1>11, <1>12 DEF DInv

\* A kill ends every attempt; what its devices leave behind is excused.
LEMMA KillDevices == ASSUME LInv, DInv, LinkKill PROVE DInv'
  <1>1. /\ excused' = devices \ {number.device} /\ UNCHANGED <<devices, number, overlap>>
        /\ try' = [a \in Tries |-> IF try[a].stage = "free" THEN try[a]
                                   ELSE [Ended(a) EXCEPT !.session = "resolved"]]
    BY DEF LinkKill
  <1>2. ASSUME NEW a \in Tries
        PROVE  \/ try[a].stage = "free" /\ try'[a] = try[a]
               \/ try[a].stage # "free" /\ try'[a].stage = "over" /\ try'[a].session = "resolved"
    <2>1. CASE try[a].stage = "free" BY <1>1, <2>1
    <2>2. CASE try[a].stage # "free"
      <3>1. try'[a] = [Ended(a) EXCEPT !.session = "resolved"] BY <1>1, <2>2
      <3>2. Ended(a) \in TryRows BY <2>2, EndedRow
      <3> QED BY <2>2, <3>1, <3>2, EndedIs DEF TryRows
    <2> QED BY <2>1, <2>2
  <1>3. DShape' BY <1>1 DEF DInv, DShape
  <1>4. SessionsFit'
    <2> SUFFICES ASSUME NEW a \in Tries PROVE Fits(try'[a], a, devices) BY <1>1 DEF SessionsFit
    <2>1. CASE try'[a] = try[a] BY <2>1 DEF DInv, SessionsFit
    <2>2. CASE try'[a].stage = "over" /\ try'[a].session = "resolved" BY <2>2 DEF Fits
    <2> QED BY <1>2, <2>1, <2>2
  <1>5. Keeper' BY <1>1, <1>2 DEF DInv, DShape, Keeper
  <1>6. Alone' /\ Replacing' BY <1>2 DEF Alone, Replacing, Connecting, Finishing
  <1>7. NoDeviceLingers' BY <1>1 DEF NoDeviceLingers
  <1> QED BY <1>3, <1>4, <1>5, <1>6, <1>7 DEF DInv

LEMMA DInvStep == ASSUME LInv, DInv, [LinkNext]_linkVars PROVE DInv'
  <1>1. CASE UNCHANGED linkVars BY <1>1, DevicesStay DEF linkVars
  <1>2. CASE \E b \in Browsers : \/ \E s \in Knows[b], kind \in {"consent", "qr"} :
                                      ClaimOAuthStateBrowser(b, s, kind)
                                 \/ Mismatch(b)
    BY <1>2, DevicesStay DEF ClaimOAuthStateBrowser, Mismatch, browserFrame
  <1>3. CASE \E s \in Links : ExpireLink(s) BY <1>3, DevicesStay DEF ExpireLink
  <1> QED BY <1>1, <1>2, <1>3, RequestDevices, DialledDevices, ScanDevices, SessionDevices,
             ResultDevices, TakeReadDevices, TakeDeleteDevices, FinishFailsDevices, LookupDevices,
             UpsertDevices, ReplaceDevices, SaveDevices, KillDevices
          DEF LinkNext, Pump

\* StartLink, lateResult, forgetDeviceOnFailure: for any number of links, attempts,
\* faults and kills, an attempt that is over leaves no device but the account's,
\* unless two have connected at once.
THEOREM NoDeviceIsLeft == LinkSpec => []NoDeviceLingers
  <1>1. LinkInit => LInv /\ DInv BY LInvInit, DInvInit
  <1>2. LInv /\ DInv /\ [LinkNext]_linkVars => LInv' /\ DInv' BY LInvStep, DInvStep
  <1>3. DInv => NoDeviceLingers BY DEF DInv
  <1> QED BY <1>1, <1>2, <1>3, PTL DEF LinkSpec
-----------------------------------------------------------------------------
(* Types.                                                                   *)

\* A consent is somebody's, an entry of the registry is an attempt of its link,
\* and a request is about one link.
Wired ==
    /\ \A s \in Links : /\ row[s].consent => row[s].browser \in Browsers
                        /\ reg[s] # NoTry => try[reg[s]].link = {s} /\ try[reg[s]].stage # "free"
    /\ \A b \in Browsers : ask[b].kind # "none" => \E s \in Links : ask[b].link = {s}

LinksHold == \A a \in Tries : Same(try'[a], try[a])

LEMMA WiredStays ==
  ASSUME LInv, Wired, LinksHold, AsksHold,
         \A s \in Links : row'[s].consent => row[s].consent /\ row'[s].browser = row[s].browser,
         \A s \in Links : reg'[s] = reg[s] \/ reg'[s] = NoTry
  PROVE  Wired'
  <1>1. \A s \in Links : reg'[s] # NoTry => try'[reg'[s]].link = {s} /\ try'[reg'[s]].stage # "free"
    BY DEF Wired, LinksHold, Same, LInv, LShape
  <1> QED BY <1>1 DEF Wired, AsksHold, Quiescent

LEMMA OneMoves ==
  ASSUME LInv, NEW a \in Tries, NEW q, LinkAt(a, q), Same(q, try[a])
  PROVE  LinksHold
  BY DEF LinkAt, LinksHold, Same, LInv, LShape

LEMMA WiredAttempt ==
  ASSUME LInv, Wired, NEW a \in Tries,
         Dialled(a) \/ Scan(a) \/ PairSuccess(a) \/ ProviderGivesUp(a) \/ Pump(a) \/ FinishFails(a)
  PROVE  Wired'
  <1>1. try[a] \in TryRows /\ try \in [Tries -> TryRows] BY DEF LInv, LShape
  <1>2. LinksHold
    <2>1. \A st, se, re, l :
            /\ try[a].stage # "free" => Ended(a).stage = "over" /\ Same(Ended(a), try[a])
            /\ (try[a].stage # "free" /\ st # "free") =>
                 /\ Same([try[a] EXCEPT !.stage = st], try[a])
                 /\ Same([try[a] EXCEPT !.stage = st, !.session = se], try[a])
                 /\ Same([try[a] EXCEPT !.stage = st, !.result = re], try[a])
                 /\ Same([try[a] EXCEPT !.stage = st, !.relink = l], try[a])
            /\ Same([try[a] EXCEPT !.session = se], try[a])
            /\ Same([try[a] EXCEPT !.session = se, !.result = re], try[a])
      BY <1>1 DEF Same, Ended, TryRows
    <2>2. CASE Dialled(a)
      <3>1. PICK q : LinkAt(a, q) /\ Same(q, try[a]) BY <2>1, <2>2 DEF Dialled
      <3> QED BY <3>1, OneMoves
    <2>3. CASE Scan(a)
      <3>1. PICK q : LinkAt(a, q) /\ Same(q, try[a]) BY <2>1, <2>3 DEF Scan
      <3> QED BY <3>1, OneMoves
    <2>4. CASE PairSuccess(a) \/ ProviderGivesUp(a)
      <3>1. PICK q : LinkAt(a, q) /\ Same(q, try[a])
        BY <2>1, <2>4 DEF PairSuccess, ProviderGivesUp, Resolve, LinkAt
      <3> QED BY <3>1, OneMoves
    <2>5. CASE TakeResult(a) \/ WindowCloses(a)
      <3>1. \/ \E r : LinkAt(a, Begin(a, r))
            \/ LinkAt(a, [Begin(a, "timeout") EXCEPT !.session = "resolved"])
        BY <2>5 DEF TakeResult, WindowCloses
      <3>2. try[a].stage = "live" BY <2>5 DEF TakeResult, WindowCloses
      <3>3. \A r : Same(Begin(a, r), try[a])
                   /\ Same([Begin(a, r) EXCEPT !.session = "resolved"], try[a])
        BY <1>1, <3>2 DEF Begin, Same, TryRows
      <3> QED BY <3>1, <3>3, OneMoves
    <2>6. CASE TakeRead(a) \/ TakeDelete(a) \/ FinishFails(a) \/ SaveChatSession(a)
      <3>1. try[a].stage # "free" BY <2>6 DEF TakeRead, TakeDelete, FinishFails, SaveChatSession, Finishing
      <3>2. \/ LinkAt(a, Ended(a))
            \/ LinkAt(a, [try[a] EXCEPT !.stage = "taken"])
            \/ LinkAt(a, [try[a] EXCEPT !.stage = "lookup"])
        BY <2>6 DEF TakeRead, TakeDelete, FinishFails, SaveChatSession
      <3> QED BY <2>1, <3>1, <3>2, OneMoves
    <2>7. CASE Lookup(a) \/ UpsertLinked(a) \/ Replace(a)
      <3>1. try[a].stage # "free" BY <2>7 DEF Lookup, UpsertLinked, Replace
      <3>2. \/ LinkAt(a, [try[a] EXCEPT !.stage = "upsert", !.relink = number.exists])
            \/ LinkAt(a, [try[a] EXCEPT !.stage = "replace"])
            \/ LinkAt(a, [try[a] EXCEPT !.stage = "save"])
        BY <2>7 DEF Lookup, UpsertLinked, Replace
      <3> QED BY <2>1, <3>1, <3>2, OneMoves
    <2> QED BY <2>2, <2>3, <2>4, <2>5, <2>6, <2>7 DEF Pump
  <1>3. UNCHANGED ask
    BY DEF Dialled, Scan, PairSuccess, ProviderGivesUp, Pump, TakeResult, WindowCloses, TakeRead,
           TakeDelete, FinishFails, Lookup, UpsertLinked, Replace, SaveChatSession, sessionFrame,
           finishFrame
  <1>4. \A s \in Links : reg'[s] = reg[s] \/ reg'[s] = NoTry
    BY DEF Dialled, Scan, PairSuccess, ProviderGivesUp, Pump, TakeResult, WindowCloses, TakeRead,
           TakeDelete, FinishFails, Lookup, UpsertLinked, Replace, SaveChatSession, sessionFrame,
           finishFrame
  <1>5. \A s \in Links : row'[s].consent => row[s].consent /\ row'[s].browser = row[s].browser
    <2>1. CASE TakeDelete(a)
      <3>1. PICK t : row' = [row EXCEPT ![t] = NoState] BY <2>1 DEF TakeDelete
      <3> QED BY <3>1 DEF NoState, LInv, LShape
    <2>2. CASE UNCHANGED row BY <2>2
    <2> QED BY <2>1, <2>2
            DEF Dialled, Scan, PairSuccess, ProviderGivesUp, Pump, TakeResult, WindowCloses, TakeRead,
                FinishFails, Lookup, UpsertLinked, Replace, SaveChatSession, sessionFrame,
                finishFrame
  <1> QED BY <1>2, <1>3, <1>4, <1>5, WiredStays DEF AsksHold

LEMMA WiredRequest ==
  ASSUME LInv, Wired, NEW b \in Browsers, NEW a \in Tries, Consent(b, a) \/ StartPairing(b, a)
  PROVE  Wired'
  <1>1. ask[b].kind # "none" /\ Claim(b, a) /\ Reply(b) BY DEF Consent, StartPairing
  <1> DEFINE e == Entry(b, a)
  <1>2. PICK q : /\ LinkAt(a, q)
                 /\ q = e \/ (e.stage = "held" /\ q = [e EXCEPT !.stage = "dialing"])
                    \/ (q = try[a] /\ e.stage # "held")
    BY DEF Consent, StartPairing
  <1>3. e \in TryRows /\ e.stage # "free" BY <1>1, EntryOfAsker
  <1>4. e = try[a] \/ (try[a].stage = "free" /\ e.stage = "held" /\ e.link = ask[b].link)
    BY DEF Entry, Unstarted
  <1> HIDE DEF e
  <1>5. q.link = e.link /\ q.stage # "free" BY <1>2, <1>3, <1>4 DEF TryRows
  <1>6. /\ try'[a] = q
        /\ \A o \in Tries : o # a => try'[o] = try[o]
    BY <1>2 DEF LinkAt, LInv, LShape
  <1>7. PICK s \in Links : ask[b].link = {s} BY <1>1 DEF Wired
  <1>8. \/ UNCHANGED reg
        \/ try[a].stage = "free" /\ reg' = [reg EXCEPT ![s] = a]
    BY <1>1, <1>7 DEF Claim
  <1>9. AsksHold BY <1>1, ReplyHolds
  <1>10. \A o \in Tries : try[o].stage # "free" => try'[o].link = try[o].link /\ try'[o].stage # "free"
    BY <1>4, <1>5, <1>6
  <1>11. \A t \in Links : reg'[t] # NoTry => try'[reg'[t]].link = {t} /\ try'[reg'[t]].stage # "free"
    <2> SUFFICES ASSUME NEW t \in Links, reg'[t] # NoTry
                 PROVE  try'[reg'[t]].link = {t} /\ try'[reg'[t]].stage # "free"
      OBVIOUS
    <2>1. CASE reg'[t] = reg[t] BY <1>10, <2>1 DEF Wired, LInv, LShape
    <2>2. CASE reg'[t] # reg[t]
      <3>1. try[a].stage = "free" /\ t = s /\ reg'[t] = a
        BY <1>8, <2>2 DEF LInv, LShape
      <3>2. e.link = {s} BY <1>3, <1>4, <1>7, <3>1
      <3> QED BY <1>5, <1>6, <3>1, <3>2
    <2> QED BY <2>1, <2>2
  <1>12. \A t \in Links : row'[t].consent => row'[t].browser \in Browsers
    <2>1. CASE StartPairing(b, a) BY <2>1 DEF StartPairing, Wired
    <2>2. CASE Consent(b, a)
      <3> SUFFICES ASSUME NEW t \in Links, row'[t].consent PROVE row'[t].browser \in Browsers
        OBVIOUS
      <3>1. row'[t] = IF t \in ask[b].link /\ row[t].life # "gone"
                      THEN [row[t] EXCEPT !.consent = TRUE] ELSE row[t]
        BY <2>2 DEF Consent
      <3>2. CASE t \in ask[b].link /\ row[t].life # "gone"
        <4>1. Party(t, b) BY <1>1, <3>2 DEF Party, Asks
        <4>2. row[t].browser = b BY <3>2, <4>1 DEF LInv, Parties
        <4> QED BY <3>1, <3>2, <4>2 DEF LInv, LShape, StateRows
      <3>3. CASE ~(t \in ask[b].link /\ row[t].life # "gone") BY <3>1, <3>3 DEF Wired
      <3> QED BY <3>2, <3>3
    <2> QED BY <2>1, <2>2
  <1> QED BY <1>9, <1>11, <1>12 DEF Wired, AsksHold, Quiescent

LEMMA WiredElse ==
  ASSUME LInv, Wired,
         \/ \E b \in Browsers : \/ \E s \in Links, kind \in {"consent", "qr"} :
                                     ClaimOAuthStateBrowser(b, s, kind)
                                \/ Mismatch(b)
         \/ \E s \in Links : SweepLink(s) \/ ExpireLink(s)
         \/ LinkKill
  PROVE  Wired'
  <1> USE DEF Same
  <1>1. ASSUME NEW b \in Browsers, NEW s \in Links, NEW kind \in {"consent", "qr"},
               ClaimOAuthStateBrowser(b, s, kind)
        PROVE  Wired'
    <2>1. /\ row' = [row EXCEPT ![s].browser = b]
          /\ ask' = [ask EXCEPT ![b] = [kind |-> kind, link |-> {s}]]
          /\ UNCHANGED <<reg, try>>
      BY <1>1 DEF ClaimOAuthStateBrowser
    <2>2. \A t \in Links : row'[t].consent => row'[t].browser \in Browsers
      BY <2>1 DEF Wired, LInv, LShape, StateRows
    <2>3. \A c \in Browsers : ask'[c].kind # "none" => \E t \in Links : ask'[c].link = {t}
      BY <2>1 DEF Wired, LInv, LShape
    <2> QED BY <2>1, <2>2, <2>3 DEF Wired
  <1>2. ASSUME NEW b \in Browsers, Mismatch(b) PROVE Wired'
    <2>1. AsksHold BY <1>2, ReplyHolds DEF Mismatch
    <2> QED BY <1>2, <2>1, WiredStays DEF Mismatch, LinksHold
  <1>3. ASSUME NEW s \in Links, SweepLink(s) PROVE Wired'
    <2>1. reg[s] \in Tries /\ try[reg[s]] \in TryRows BY <1>3 DEF SweepLink, LInv, LShape
    <2>2. LinksHold
      <3>1. PICK a \in Tries : a = reg[s] BY <2>1
      <3>2. Resolve(a, "cancelled", try[a]) BY <1>3, <3>1 DEF SweepLink
      <3>3. \/ LinkAt(a, [try[a] EXCEPT !.session = "resolved", !.result = "cancelled"])
            \/ LinkAt(a, try[a])
        BY <3>2 DEF Resolve, LinkAt
      <3>4. Same([try[a] EXCEPT !.session = "resolved", !.result = "cancelled"], try[a])
        BY <2>1, <3>1 DEF TryRows
      <3> QED BY <3>3, <3>4, OneMoves
    <2>3. UNCHANGED <<row, ask>> /\ reg' = [reg EXCEPT ![s] = NoTry]
      BY <1>3 DEF SweepLink, sessionFrame
    <2>4. \A t \in Links : reg'[t] = reg[t] \/ reg'[t] = NoTry BY <2>3 DEF LInv, LShape
    <2> QED BY <2>2, <2>3, <2>4, WiredStays DEF AsksHold
  <1>4. ASSUME NEW s \in Links, ExpireLink(s) PROVE Wired'
    <2>1. UNCHANGED <<reg, try, ask>> /\ row' = [row EXCEPT ![s].life = "expired"]
      BY <1>4 DEF ExpireLink
    <2>2. \A t \in Links : row'[t].consent = row[t].consent /\ row'[t].browser = row[t].browser
      BY <2>1 DEF LInv, LShape, StateRows
    <2> QED BY <2>1, <2>2, WiredStays DEF AsksHold, LinksHold
  <1>5. ASSUME LinkKill PROVE Wired'
    BY <1>5, LinkPairingAssumption DEF LinkKill, Wired, Quiescent
  <1> QED BY <1>1, <1>2, <1>3, <1>4, <1>5

LEMMA WiredStep == ASSUME LInv, Wired, [LinkNext]_linkVars PROVE Wired'
  <1>1. CASE UNCHANGED linkVars BY <1>1 DEF linkVars, Wired
  <1>2. \A b \in Browsers : Knows[b] \subseteq Links BY LinkPairingAssumption
  <1> QED BY <1>1, <1>2, WiredAttempt, WiredRequest, WiredElse DEF LinkNext

\* For any number of links, browsers and attempts, every variable keeps its type,
\* the registry points at attempts of its links, and consents have a browser.
THEOREM LinkTypes == LinkSpec => []LinkTypeOK
  <1>1. LinkInit => LInv /\ DInv /\ Wired
    BY LInvInit, DInvInit, LinkPairingAssumption DEF LinkInit, Wired, Quiescent
  <1>2. LInv /\ DInv /\ Wired /\ [LinkNext]_linkVars => LInv' /\ DInv' /\ Wired'
    BY LInvStep, DInvStep, WiredStep
  <1>3. LInv /\ DInv /\ Wired => LinkTypeOK
    <2> SUFFICES ASSUME LInv, DInv, Wired PROVE LinkTypeOK OBVIOUS
    <2>1. \A s \in Links : row[s] \in StateRows BY DEF LInv, LShape
    <2>2. \A a \in Tries : try[a] \in TryRows BY DEF LInv, LShape
    <2>3. \A b \in Browsers : ask[b] \in AskRows BY DEF LInv, LShape
    <2> QED BY <2>1, <2>2, <2>3
            DEF DInv, DShape, SessionsFit, Fits, Keeper, Wired, LinkTypeOK, StateRows, TryRows,
                AskRows, Stages
  <1> QED BY <1>1, <1>2, <1>3, PTL DEF LinkSpec
=============================================================================
