\* Two requests, the sweeper and one fault, for each kind of client.
SPECIFICATION FairSpec
CONSTANTS
  u1 = u1
  u2 = u2
  u3 = u3
  c1 = c1
  c2 = c2
  h1 = h1
  h2 = h2
  Users = {u1, u2, u3}
  Convs = {c1, c2}
  PublicConvs = {c2}
  Msgs = {1, 2, 3}
  Handlers = {h1, h2}
  Clients <- MCClients
  MaxBody = 1
  MaxFaults = 1
  None = None
INVARIANTS MessageInv
PROPERTIES RowsStand BurnHappens
CHECK_DEADLOCK FALSE
