\* Three requests at a time, four accounts, two logins and two tickets; one
\* identity comes with an address and one without.
SPECIFICATION IdentitiesSpec
CONSTANTS
  r1 = r1
  r2 = r2
  r3 = r3
  n1 = n1
  n2 = n2
  t1 = t1
  t2 = t2
  ann = ann
  bob = bob
  Reqs = {r1, r2, r3}
  AccountIds = {1, 2, 3, 4}
  Identities = {ann, bob}
  Nobody = nobody
  Addressed = {ann}
  Nonces = {n1, n2}
  Tickets = {t1, t2}
  NoTicket = noticket
  MaxAccounts = 2
  Tables <- MCTables
  Clients <- MCClients
SYMMETRY Alike
INVARIANTS IdentityInv
CHECK_DEADLOCK FALSE
