\* Two requests and one fault in a group with room for two, for each kind of
\* client.
\* A deleted group takes no request: the model may stop there.
SPECIFICATION FairSpec
CONSTANTS
  u1 = u1
  u2 = u2
  u3 = u3
  i1 = i1
  h1 = h1
  h2 = h2
  Users = {u1, u2, u3}
  Creators = {u1}
  Invites = {i1}
  Handlers = {h1, h2}
  Clients <- MCClients
  MaxMembers = 2
  MaxVersion = 2
  MaxFaults = 1
  None = None
INVARIANTS GroupInv KeyInv
PROPERTIES KeysStand Answered
CHECK_DEADLOCK FALSE
