CONSTANTS
  Users = {u1, u2}
  Repos = {r1, r2}
  Jobs = {j1, j2}
  MaxEvents = 3
  MaxRedeliveries = 1
  NoInstallation = NoInstallation
  NoTarget = NoTarget
SPECIFICATION Spec
INVARIANTS TypeOK ScansOfTheOwner ScansKeepTheirRepo MirrorsGitHub
PROPERTY OwnerNeverReassigned
SYMMETRY Symmetry
CHECK_DEADLOCK FALSE
