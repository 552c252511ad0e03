CONSTANTS
  d1 = d1
  d2 = d2
  d3 = d3
  p1 = p1
  s1 = s1
  s2 = s2
  m1 = m1
  m2 = m2
  Deliveries = {d1, d2}
  PRs = {p1}
  Shas = {s1, s2}
  Manifests = {m1, m2}
  PrOf <- SamePr
  ShaOf <- SameSha
  Pages <- EmptiedPages
  MaxPages = 2
  ScanVerdicts = {"allow", "error"}
  MaxManifests = 1
  MaxTries = 2
  MaxCrashes = 2
  Faults = {"enqueue", "token", "diff", "scan", "raise"}
  NoRow = NoRow
  NoReport = NoReport
SPECIFICATION Spec
INVARIANTS TypeOK OneScanPerHead GreenCheckIsEarned PublishedAfterPersisted
SYMMETRY Symmetry
CHECK_DEADLOCK FALSE
