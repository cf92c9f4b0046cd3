\* Two requests, other payments and a lost connection, for each kind of client.
SPECIFICATION TipsFairSpec
CONSTANTS
  u1 = u1
  u2 = u2
  u3 = u3
  x1 = x1
  x2 = x2
  h1 = h1
  h2 = h2
  TipUsers = {u1, u2, u3}
  Posts = {x1, x2}
  TipIds = {1, 2, 3}
  TipHandlers = {h1, h2}
  TipAmounts = {100, 200}
  Start <- MCStart
  Clients <- MCClients
  MaxSpends = 2
  MaxTipFaults = 1
  Absent = absent
INVARIANTS TipsTypeOK TipInv
PROPERTIES RequestsEnd
CHECK_DEADLOCK FALSE
