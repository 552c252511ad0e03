CONSTANTS
  d1 = d1
  d2 = d2
  d3 = d3
  p1 = p1
  s1 = s1
  s2 = s2
  m1 = m1
  m2 = m2
  Deliveries = {d1, d2}
  PRs = {p1}
  Shas = {s1, s2}
  Manifests = {m1, m2}
  PrOf <- SamePr
  ShaOf <- SameSha
  Pages <- EmptiedDiff
  MaxPages = 1
  ScanVerdicts = {"allow"}
  MaxManifests = 2
  MaxTries = 1
  MaxCrashes = 0
  Faults = {"scan"}
  NoRow = NoRow
  NoReport = NoReport
SPECIFICATION Spec
INVARIANT HistoryNotCleanerThanCheck
CHECK_DEADLOCK FALSE
