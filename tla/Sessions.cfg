\* Two requests, a purge and one fault over three refresh tokens and a QR code.
SPECIFICATION Spec
CONSTANTS
  u1 = u1
  u2 = u2
  t1 = t1
  t2 = t2
  t3 = t3
  c1 = c1
  h1 = h1
  h2 = h2
  Users = {u1, u2}
  Tokens = {t1, t2, t3}
  Codes = {c1}
  Handlers = {h1, h2}
  Bannable = {u1}
  Doomed = {u2}
  MaxFaults = 1
  None = None
INVARIANTS TypeOK SessionInv HandshakeInv
SYMMETRY Symmetry
