\* See Any for what comes together; a behaviour stops when its rows are used up.
SPECIFICATION FairSpec
CONSTANTS
  u1 = u1
  u2 = u2
  u3 = u3
  c1 = c1
  c2 = c2
  h1 = h1
  h2 = h2
  sw = sw
  Users = {u1, u2, u3}
  Ids = {c1, c2}
  Handlers = {h1, h2}
  Sweeper = sw
  MaxFaults = 1
  MaxPurges = 1
  Scopes <- Any
  None = None
INVARIANTS TypeOK CallInv LastHangupEnds
PROPERTIES EndedIsFinal CallsSettle
CHECK_DEADLOCK FALSE
