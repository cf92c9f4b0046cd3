\* Two requests at a time, three in all, over three days.
SPECIFICATION TasksFairSpec
CONSTANTS
  Reqs = {r1, r2}
  r1 = r1
  r2 = r2
  Days = 3
  MaxAsks = 3
  Once = {"first_post"}
  Daily = {"daily_posts_1"}
  Target = 2
  Gap = 2
  Fund = 5
  Bonus = 1
  MakeupCost = 3
  Reward = 1
INVARIANTS TasksTypeOK TaskInv
PROPERTIES RequestsEnd
CHECK_DEADLOCK FALSE
