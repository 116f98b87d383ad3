SPECIFICATION AccountsSpec
CONSTANTS
  Callers = {c1, c2}
  Secrets = {t1, t2, t3, t4}
  NoToken = NoToken
  MaxConsents = 1
  MaxLosses = 1
  s1 = s1
  s2 = s2
  b1 = b1
  b2 = b2
  Links = {s1, s2}
  Browsers = {b1, b2}
  Knows <- MCKnows
  Tries = {a1, a2}
  NoTry = NoTry
  NoBrowser = NoBrowser
  MaxFaults = 1
  Cookies = {k1, k2}
  Logins = {l1}
  Calls = {q1, q2}
  NoCookie = NoCookie
  MaxPasswords = 3
  MaxErrors = 1
  e1 = e1
  inbox = inbox
  sent = sent
  Msgs = {e1, e2}
  Backlog = {e1}
  Folders = {inbox, sent}
  Home <- MCHome
  Clients = {g1}
  QueueCap = 1
  MaxChanges = 2
  MaxTrouble = 1
  Subs = {u1, u2, u3}
  Loop = Loop
  Request = Request
  Nobody = Nobody
  MaxRequests = 2
  MaxMishaps = 2
CHECK_DEADLOCK FALSE
INVARIANTS LinkTypeOK GrantSurvives NoDeviceLingers OneBrowserDrives OldPasswordIsOut SyncTypeOK CursorNeverAhead NewsOnce WakeIsRemembered StoredSecretsAreOurs
