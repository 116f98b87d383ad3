----------------------------- MODULE LinkPairing -----------------------------
(***************************************************************************)
(* Pairing a phone through a connect link (internal/api/handlers_link.go,    *)
(* provider/whatsapp/link.go): consent and polls of browsers, one pairing    *)
(* attempt of a link at a time in the registry, its pump, the provider's     *)
(* session, and the account the result is turned into.                      *)
(*                                                                          *)
(* Everybody scans with one phone number, so every attempt that pairs ends   *)
(* in the same account.  A device is named by the attempt it was saved by.   *)
(* QR codes, redirects, notifications and the webhook are left out.         *)
(***************************************************************************)
EXTENDS Naturals, FiniteSets

CONSTANTS
    Links,       \* connect states, minted
    Browsers,    \* um_link cookies
    Knows,       \* browser -> the links whose URL it has
    Tries,       \* entries the registry can hold, one pairing attempt each
    NoTry, NoBrowser,
    MaxFaults    \* failing calls, kills

ASSUME LinkPairingAssumption ==
    /\ Knows \in [Browsers -> SUBSET Links]
    /\ NoTry \notin Tries /\ NoBrowser \notin Browsers /\ MaxFaults \in Nat

VARIABLES
    row,       \* oauth_states: link -> [life, consent, browser]
    reg,       \* linkRegistry: link -> try, or NoTry
    try,       \* try -> [link, browser, stage, session, result, relink]
    devices,   \* device rows of the provider, by the try that saved them
    number,    \* the account of the number: [exists, device]
    ask,       \* browser -> the request that has claimed the row: [kind, link]
    \* ---- bookkeeping ----
    excused,   \* devices a kill or a failing call left behind
    overlap,   \* two attempts were in finishLink at once
    faults

linkVars == <<row, reg, try, devices, number, ask, excused, overlap, faults>>

NoState == [life |-> "gone", consent |-> FALSE, browser |-> NoBrowser]
Unstarted == [link |-> {}, browser |-> NoBrowser, stage |-> "free", session |-> "none",
              result |-> "none", relink |-> FALSE]
Quiescent == [kind |-> "none", link |-> {}]

\* Stages of finishLink and, in it, of ConnectLinked.
Finishing == {"finish", "taken", "lookup", "upsert", "replace", "save"}

LinkTypeOK ==
    /\ \A s \in Links : /\ row[s].life \in {"live", "expired", "gone"}
                        /\ row[s].consent => row[s].browser \in Browsers
                        /\ reg[s] # NoTry => try[reg[s]].link = {s} /\ try[reg[s]].stage # "free"
    /\ devices \subseteq Tries /\ excused \subseteq Tries
    /\ number.device # NoTry => number.exists
    /\ \A a \in Tries :
         /\ try[a].stage \in {"free", "held", "dialing", "failed", "live", "over"} \cup Finishing
         /\ try[a].session \in {"none", "open", "saved", "resolved"}
         /\ try[a].stage \in {"free", "held", "dialing", "failed"} => try[a].session = "none"
         /\ try[a].result \in {"none", "paired", "cancelled", "timeout"}
    /\ \A b \in Browsers : ask[b].kind \in {"none", "consent", "qr"}

LinkInit ==
    /\ row = [s \in Links |-> [life |-> "live", consent |-> FALSE, browser |-> NoBrowser]]
    /\ reg = [s \in Links |-> NoTry]
    /\ try = [a \in Tries |-> Unstarted]
    /\ devices = {} /\ number = [exists |-> FALSE, device |-> NoTry]
    /\ ask = [b \in Browsers |-> Quiescent]
    /\ excused = {} /\ overlap = FALSE /\ faults = 0

Fault == faults < MaxFaults /\ faults' = faults + 1
LinkAt(a, r) == try' = [try EXCEPT ![a] = r]
Reply(b) == ask' = [ask EXCEPT ![b] = Quiescent]

-----------------------------------------------------------------------------
(* Requests: handleConsent and handleLinkQR.                                *)
browserFrame == <<devices, number, excused, overlap, faults>>

\* needsStart: nothing has dialled for this link yet.
NeedsStart(s) == \A a \in Tries : reg[s] = a => try[a].stage \in {"held", "dialing"}

\* Mutant: whoever comes takes the row over.
ClaimsAnything(b, s) == b \in Browsers /\ s \in Links

\* The WHERE of ClaimOAuthStateBrowser: unclaimed, or claimed by this one.
Claims(b, s) == row[s].life # "gone" /\ row[s].browser \in {NoBrowser, b}

\* PeekOAuthState, the checks on what it read, and the claim of the row.
ClaimOAuthStateBrowser(b, s, kind) ==
    /\ ask[b].kind = "none" /\ row[s].life = "live"
    /\ kind = "qr" => NeedsStart(s) /\ row[s].consent
    /\ Claims(b, s)
    /\ row' = [row EXCEPT ![s].browser = b]
    /\ ask' = [ask EXCEPT ![b] = [kind |-> kind, link |-> {s}]]
    /\ UNCHANGED <<browserFrame, reg, try>>

NewEntry == CHOOSE a \in Tries : try[a].stage = "free"

\* linkRegistry.claim: the link's entry if it is this browser's, or a new one.
Claim(b, a) ==
    \E s \in ask[b].link :
        \/ reg[s] = a /\ try[a].browser = b /\ UNCHANGED reg
        \/ /\ reg[s] = NoTry /\ try[a].stage = "free" /\ a = NewEntry
           /\ reg' = [reg EXCEPT ![s] = a]

Entry(b, a) ==
    IF try[a].stage # "free" THEN try[a]
    ELSE [Unstarted EXCEPT !.link = ask[b].link, !.browser = b, !.stage = "held"]

\* The entry is somebody else's: 403.
Mismatch(b) ==
    /\ \E s \in ask[b].link : \E a \in Tries : reg[s] = a /\ try[a].browser # b
    /\ Reply(b)
    /\ UNCHANGED <<browserFrame, row, reg, try>>

\* SetOAuthConsent, of a row that may have gone meanwhile.
Consent(b, a) ==
    /\ ask[b].kind = "consent" /\ Claim(b, a)
    /\ LinkAt(a, Entry(b, a))
    /\ row' = [s \in Links |->
                 IF s \in ask[b].link /\ row[s].life # "gone"
                 THEN [row[s] EXCEPT !.consent = TRUE] ELSE row[s]]
    /\ Reply(b)
    /\ UNCHANGED browserFrame

\* startPairing: the first poll of an entry dials, whoever made the entry; later
\* ones wait for it.
StartPairing(b, a) ==
    /\ ask[b].kind = "qr" /\ Claim(b, a)
    /\ LinkAt(a, IF Entry(b, a).stage = "held" THEN [Entry(b, a) EXCEPT !.stage = "dialing"]
                 ELSE try[a])
    /\ Reply(b)
    /\ UNCHANGED <<browserFrame, row>>

\* StartLink returns: go pumpLink, or dropFailed.
Dialled(a) ==
    /\ try[a].stage = "dialing"
    /\ \/ /\ LinkAt(a, [try[a] EXCEPT !.stage = "live", !.session = "open"])
          /\ UNCHANGED <<reg, faults>>
       \/ /\ Fault
          /\ LinkAt(a, [try[a] EXCEPT !.stage = "failed"])
          /\ reg' = [s \in Links |-> IF reg[s] = a THEN NoTry ELSE reg[s]]
    /\ UNCHANGED <<row, devices, number, ask, excused, overlap>>

-----------------------------------------------------------------------------
(* linkSession.                                                             *)
sessionFrame == <<row, number, ask, excused, overlap, faults>>

\* The phone scans: whatsmeow saves the device before it says so.
Scan(a) ==
    /\ try[a].session = "open"
    /\ devices' = devices \cup {a}
    /\ LinkAt(a, [try[a] EXCEPT !.session = "saved"])
    /\ UNCHANGED <<sessionFrame, reg>>

\* resolve, once: any outcome but success discards the device.
Resolve(a, r, as) ==
    IF try[a].session \in {"open", "saved"}
    THEN /\ try' = [try EXCEPT ![a] = [as EXCEPT !.session = "resolved", !.result = r]]
         /\ devices' = IF r = "paired" THEN devices ELSE devices \ {a}
    ELSE LinkAt(a, as) /\ UNCHANGED devices

PairSuccess(a) ==
    /\ try[a].session = "saved"
    /\ Resolve(a, "paired", try[a])
    /\ UNCHANGED <<sessionFrame, reg>>

\* The provider's codes run out, or it reports an error.
ProviderGivesUp(a) ==
    /\ try[a].session = "open"
    /\ Resolve(a, "timeout", try[a])
    /\ UNCHANGED <<sessionFrame, reg>>

\* sweep: the entry is dropped, and its session, if it has one yet, closed.
SweepLink(s) ==
    LET a == reg[s]
    IN  /\ a # NoTry
        /\ reg' = [reg EXCEPT ![s] = NoTry]
        /\ Resolve(a, "cancelled", try[a])
        /\ UNCHANGED sessionFrame

-----------------------------------------------------------------------------
(* pumpLink, finishLink and ConnectLinked.                                  *)
Begin(a, r) == [try[a] EXCEPT !.stage = "finish", !.result = r]

TakeResult(a) ==
    /\ try[a].stage = "live" /\ try[a].session = "resolved"
    /\ LinkAt(a, Begin(a, try[a].result))
    /\ UNCHANGED <<sessionFrame, reg, devices>>

\* Mutant: a result that is there when the window closes is not looked at.
LateIgnored(a) == a \in Tries /\ FALSE

\* lateResult: the session had resolved already, and well.
LateSuccess(a) == try[a].session = "resolved" /\ try[a].result = "paired"

\* Mutant: the timer is not armed.
NoWindow(a) == a \in Tries /\ FALSE /\ UNCHANGED linkVars

\* The pairing window elapses: Close, then finish with a late success or a timeout.
WindowCloses(a) ==
    /\ try[a].stage = "live"
    /\ IF LateSuccess(a) THEN LinkAt(a, Begin(a, "paired")) /\ UNCHANGED devices
       ELSE /\ LinkAt(a, [Begin(a, "timeout") EXCEPT !.session = "resolved"])
            /\ devices' = IF try[a].session = "saved" THEN devices \ {a} ELSE devices
    /\ UNCHANGED <<sessionFrame, reg>>

finishFrame == <<reg, ask>>
Ended(a) == [try[a] EXCEPT !.stage = "over", !.relink = FALSE, !.result = "none"]

\* forgetDeviceOnFailure; a failure of it is only logged.
ForgetDevice(a) ==
    \/ devices' = devices \ {a} /\ UNCHANGED <<excused, faults>>
    \/ a \in devices /\ Fault /\ excused' = excused \cup {a} /\ UNCHANGED devices

\* TakeOAuthState's SELECT: no row, no account.
TakeRead(a) ==
    /\ try[a].stage = "finish"
    /\ overlap' = (overlap \/ \E o \in Tries \ {a} : try[o].stage \in Finishing \ {"finish"})
    /\ \E s \in try[a].link :
         \/ /\ row[s].life # "gone"
            /\ LinkAt(a, [try[a] EXCEPT !.stage = "taken"])
            /\ UNCHANGED <<devices, excused, faults>>
         \/ row[s].life = "gone" /\ LinkAt(a, Ended(a)) /\ ForgetDevice(a)
    /\ UNCHANGED <<finishFrame, row, number>>

\* Its DELETE; what is too old to use is gone all the same.
TakeDelete(a) ==
    /\ try[a].stage = "taken"
    /\ \E s \in try[a].link :
         /\ row' = [row EXCEPT ![s] = NoState]
         /\ \/ row[s].life # "live" /\ LinkAt(a, Ended(a)) /\ ForgetDevice(a)
            \/ /\ row[s].life # "expired"
               /\ LinkAt(a, IF try[a].result = "paired" THEN [try[a] EXCEPT !.stage = "lookup"]
                            ELSE Ended(a))
               /\ UNCHANGED <<devices, excused, faults>>
    /\ UNCHANGED <<finishFrame, number, overlap>>

\* A call of TakeOAuthState or ConnectLinked fails: the device is forgotten, unless
\* the forget fails with it.
FinishFails(a) ==
    /\ try[a].stage \in Finishing
    /\ Fault
    /\ \/ devices' = devices \ {a} /\ UNCHANGED excused
       \/ a \in devices /\ excused' = excused \cup {a} /\ UNCHANGED devices
    /\ LinkAt(a, Ended(a))
    /\ UNCHANGED <<finishFrame, row, number, overlap>>

\* AccountIDByEmail: is the number known already?
Lookup(a) ==
    /\ try[a].stage = "lookup"
    /\ LinkAt(a, [try[a] EXCEPT !.stage = "upsert", !.relink = number.exists])
    /\ UNCHANGED <<finishFrame, row, devices, number, excused, overlap, faults>>

\* Mutant: a relink is taken for granted.
UpsertNothing(a) ==
    /\ try[a].stage = "upsert"
    /\ LinkAt(a, [try[a] EXCEPT !.stage = "save"])
    /\ UNCHANGED <<finishFrame, row, devices, number, excused, overlap, faults>>

\* UpsertAccount, and AccountIDByEmail once more.
UpsertLinked(a) ==
    /\ try[a].stage = "upsert"
    /\ number' = [number EXCEPT !.exists = TRUE]
    /\ LinkAt(a, [try[a] EXCEPT !.stage = IF try[a].relink THEN "replace" ELSE "save"])
    /\ UNCHANGED <<finishFrame, row, devices, excused, overlap, faults>>

\* ChatSession and forget of the device a relink replaces.
Replace(a) ==
    /\ try[a].stage = "replace"
    /\ \/ number.device \in {NoTry, a} /\ UNCHANGED <<devices, excused, faults>>
       \/ number.device \notin {NoTry, a} /\ ForgetDevice(number.device)
    /\ LinkAt(a, [try[a] EXCEPT !.stage = "save"])
    /\ UNCHANGED <<finishFrame, row, number, overlap>>

\* SaveChatSession, and the account read back: if that fails, the device that has
\* just been saved is forgotten too.
SaveChatSession(a) ==
    /\ try[a].stage = "save"
    /\ number' = [number EXCEPT !.device = a]
    /\ LinkAt(a, Ended(a))
    /\ \/ UNCHANGED <<devices, faults>>
       \/ Fault /\ devices' = devices \ {a}
    /\ UNCHANGED <<finishFrame, row, excused, overlap>>

-----------------------------------------------------------------------------
(* Time and crashes.                                                        *)
\* The purge of expired rows is left out: an expired row is refused like none.
ExpireLink(s) ==
    /\ row[s].life = "live"
    /\ row' = [row EXCEPT ![s].life = "expired"]
    /\ UNCHANGED <<reg, try, devices, number, ask, excused, overlap, faults>>

\* The registry is in memory only; rows and devices are not.
LinkKill ==
    /\ Fault
    /\ reg' = [s \in Links |-> NoTry]
    /\ try' = [a \in Tries |-> IF try[a].stage = "free" THEN try[a]
                               ELSE [Ended(a) EXCEPT !.session = "resolved"]]
    /\ excused' = devices \ {number.device}
    /\ ask' = [b \in Browsers |-> Quiescent]
    /\ UNCHANGED <<row, devices, number, overlap>>

Pump(a) ==
    \/ TakeResult(a) \/ WindowCloses(a)
    \/ TakeRead(a) \/ TakeDelete(a)
    \/ Lookup(a) \/ UpsertLinked(a) \/ Replace(a) \/ SaveChatSession(a)

LinkNext ==
    \/ \E b \in Browsers :
         \/ \E s \in Knows[b], kind \in {"consent", "qr"} : ClaimOAuthStateBrowser(b, s, kind)
         \/ \E a \in Tries : Consent(b, a) \/ StartPairing(b, a)
         \/ Mismatch(b)
    \/ \E a \in Tries :
         \/ Dialled(a) \/ Scan(a) \/ PairSuccess(a) \/ ProviderGivesUp(a)
         \/ Pump(a) \/ FinishFails(a)
    \/ \E s \in Links : SweepLink(s) \/ ExpireLink(s)
    \/ LinkKill

\* StartLink returns, and the pump goroutine with its timer runs.  No try takes
\* more than a few such steps, so one condition for all of them is enough.
LinkFairness == WF_linkVars(\E a \in Tries : Dialled(a) \/ Pump(a))

LinkSpec == LinkInit /\ [][LinkNext]_linkVars /\ LinkFairness

-----------------------------------------------------------------------------
(***************************************************************************)
(* Properties.                                                              *)
(***************************************************************************)
\* StartLink's comment ("never leaves a half-linked device row behind"), lateResult
\* and forgetDeviceOnFailure: when an attempt is over, the device it saved is the
\* account's or gone.  Two finishes at once are excepted: TakeOAuthState and
\* ConnectLinked each read before they write.
NoDeviceLingers ==
    overlap \/ \A a \in devices \ excused : number.device = a \/ try[a].stage # "over"

\* claim and ClaimOAuthStateBrowser: whatever failed, was swept or restarted
\* between, every attempt of a link is dialled for one and the same browser.
OneBrowserDrives ==
    \A a, o \in Tries :
        (try[a].stage \notin {"free", "held"} /\ try[o].stage \notin {"free", "held"}
         /\ try[a].link = try[o].link) => try[a].browser = try[o].browser

\* pumpLink: a pairing that was dialled comes to an end, scanned or not.
PairingAnswers ==
    \A a \in Tries : try[a].stage = "dialing" ~> try[a].stage \in {"failed", "over"}
=============================================================================
