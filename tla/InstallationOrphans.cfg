CONSTANTS
  Users = {u1, u2}
  Repos = {r1}
  Jobs = {j1}
  MaxEvents = 3
  MaxRedeliveries = 1
  NoInstallation = NoInstallation
  NoTarget = NoTarget
SPECIFICATION Spec
INVARIANT OrphansNotAccessible
CHECK_DEADLOCK FALSE
