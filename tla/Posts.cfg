\* Two requests and one fault, for each kind of client.
SPECIFICATION PostsSpec
CONSTANTS
  u1 = u1
  u2 = u2
  u3 = u3
  a1 = a1
  a2 = a2
  h1 = h1
  h2 = h2
  PostUsers = {u1, u2, u3}
  PostIds = {1, 2}
  ReplyIds = {1, 2}
  Atts = {a1, a2}
  PostHandlers = {h1, h2}
  Clients <- MCClients
  MaxBody = 1
  MaxPostFaults = 1
  Absent = absent
INVARIANTS PostInv
PROPERTIES RowsStand
CHECK_DEADLOCK FALSE
