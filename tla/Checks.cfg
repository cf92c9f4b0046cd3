\* Two requests, the sweeper and one fault over a check and its claimants; see
\* MCSettings.
SPECIFICATION FairSpec
CONSTANTS
  u1 = u1
  u2 = u2
  i1 = i1
  h1 = h1
  h2 = h2
  sw = sw
  Users = {u1, u2}
  Ids = {i1}
  Settings <- MCSettings
  Handlers = {h1, h2}
  Sweeper = sw
  MaxOpenConns = 4
  MaxFaults = 1
  None = None
INVARIANTS TypeOK CheckInv
PROPERTIES PaidInTime AnsweredAndClosed
