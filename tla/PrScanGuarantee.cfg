CONSTANTS
  d1 = d1
  d2 = d2
  d3 = d3
  p1 = p1
  s1 = s1
  s2 = s2
  m1 = m1
  m2 = m2
  Deliveries = {d1, d2}
  PRs = {p1}
  Shas = {s1}
  Manifests = {m1, m2}
  PrOf <- SamePr
  ShaOf <- SameSha
  Pages <- SteadyDiff
  MaxPages = 2
  ScanVerdicts = {"allow"}
  MaxManifests = 2
  MaxTries = 2
  MaxCrashes = 1
  Faults = {"inactive", "cut", "find"}
  NoRow = NoRow
  NoReport = NoReport
SPECIFICATION FairSpec
PROPERTIES QueuedJobGetsItsCheck GuaranteeSpec
CHECK_DEADLOCK FALSE
