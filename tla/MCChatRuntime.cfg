SPECIFICATION Spec
CONSTANTS
  a1 = a1
  a3 = a3
  d1 = d1
  r1 = r1
  r2 = r2
  d3 = d3
  x1 = x1
  x2 = x2
  Accounts = {a1, a3}
  Devices = {d1, d3}
  Actors = {x1, x2}
  Requests = {r1, r2}
  Linked <- MCLinked
  Number <- MCNumber
  FreshId <- MCFreshId
  MaxAccounts = 1
  MaxFailures = 1
  None = None
CHECK_DEADLOCK FALSE
SYMMETRY ActorSymmetry
INVARIANTS TypeOK OneActorServes QuietAfterWait OKIsServed DeletedStaysDark
