\* Two requests, the sweeper, a purged account and one fault over a transfer.
SPECIFICATION FairSpec
CONSTANTS
  u1 = u1
  u2 = u2
  i1 = i1
  h1 = h1
  h2 = h2
  sw = sw
  Users <- MCUsers
  Ids <- MCIds
  Amounts = {1}
  Grants <- MCGrants
  InitBalance = 1
  MaxBalance = 2
  None = None
  Handlers <- MCHandlers
  Sweeper = sw
  Doomed = {u2}
  MaxFaults = 1
INVARIANTS TypeOK LockInv
PROPERTIES ImplementsEscrow MoneyConserved OverdueDecided
