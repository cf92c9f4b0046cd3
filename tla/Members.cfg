\* Two requests at a time, three in all or six guesses, beside the renewer, over
\* five days.
SPECIFICATION MembersFairSpec
CONSTANTS
  r1 = r1
  r2 = r2
  Reqs = {r1, r2}
  Clients <- MCClients
  Levels = 2
  Price <- MCPrice
  Term = 2
  Window = 3
  Pins = {"a", "b"}
  NoPin = "none"
  MaxFailures = 2
  Fund = 7
  Days = 5
  MaxAsks <- MCMaxAsks
  MaxGrants = 1
  MaxRestarts = 1
INVARIANTS MemberInv
PROPERTIES DueServed
CHECK_DEADLOCK FALSE
