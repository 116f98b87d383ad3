SPECIFICATION AccountsSpec
CONSTANTS
  Callers = {c1}
  Secrets = {t1, t2}
  NoToken = NoToken
  MaxConsents = 0
  MaxLosses = 0
  s1 = s1
  s2 = s2
  b1 = b1
  b2 = b2
  Links = {s1}
  Browsers = {b1}
  Knows <- MCKnows
  Tries = {a1, a2}
  NoTry = NoTry
  NoBrowser = NoBrowser
  MaxFaults = 1
  Cookies = {k1}
  Logins = {}
  Calls = {q1}
  NoCookie = NoCookie
  MaxPasswords = 1
  MaxErrors = 0
  e1 = e1
  inbox = inbox
  sent = sent
  Msgs = {e1, e2}
  Backlog = {e1}
  Folders = {inbox, sent}
  Home <- MCHome
  Clients = {g1}
  QueueCap = 1
  MaxChanges = 1
  MaxTrouble = 1
  Subs = {u1, u2, u3}
  Loop = Loop
  Request = Request
  Nobody = Nobody
  MaxRequests = 2
  MaxMishaps = 2
CHECK_DEADLOCK FALSE
PROPERTIES PairingAnswers MailboxIsMirrored PushRecovers DisconnectEndsPush
