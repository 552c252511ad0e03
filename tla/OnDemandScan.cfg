CONSTANTS
  r1 = r1
  r2 = r2
  r3 = r3
  u1 = u1
  Tasks = {r1, r2, r3}
  Users = {u1}
  UserOf <- MCUserOf
  FromRepo = {r1, r2}
  Life = 3
  Slack = 2
  MaxDelay = 1
  Threads = 1
  PageSize = 1
  MaxCrashes = 1
  NoToken = NoToken
SPECIFICATION Spec
INVARIANTS TypeOK TokenInHandIsAlive HistoryHoldsTheAnswers WalkMissesNothing
PROPERTY EveryRequestEnds
CHECK_DEADLOCK FALSE
