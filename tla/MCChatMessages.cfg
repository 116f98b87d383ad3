SPECIFICATION Spec
CONSTANTS
  s1 = s1
  s2 = s2
  k1 = k1
  o1 = o1
  o2 = o2
  x1 = x1
  x2 = x2
  m1 = m1
  m2 = m2
  p1 = p1
  Sends = {s1, s2}
  Starts = {s1}
  Key <- MCKey
  Opers <- MCOpers
  Patches = {e1}
  PatchOps = {"edit","delete","read","react"}
  Own = {m1, m2}
  Peer = {p1}
  Wire <- MCWire
  Actors = {x1, x2}
  InboxCap = 1
  MaxEvents = 2
  None = None
SYMMETRY MCSymmetry
CHECK_DEADLOCK FALSE
INVARIANTS TypeOK EvictedStaysBlank ReplayIsOwn SendResolves KeysAreReleased AnnouncedOnce
PROPERTIES NoSecondSendUnderKey
