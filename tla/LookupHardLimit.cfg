CONSTANTS
  l1 = l1
  l2 = l2
  n1 = n1
  n2 = n2
  bad = bad
  Lookups = {l1, l2}
  Writers = {l1, l2}
  Names = {n1, bad, n2}
  Invalid = {bad}
  Batch <- MCBatch
  Corpus = Corpus
  Keys = {n1, bad, n2, Corpus}
  Damaged = {}
  Timeout = 1
  MaxBytes = 1
  Ttl = 1
  MaxMishaps = 0
  NoEntry = NoEntry
  Budget = 2
  Late = 4
  Retries = 0
  Malformed = {}
  Changing = {}
SPECIFICATION Spec
INVARIANT HardLimit
CHECK_DEADLOCK FALSE
