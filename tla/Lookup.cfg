CONSTANTS
  l1 = l1
  l2 = l2
  n1 = n1
  n2 = n2
  bad = bad
  Lookups = {l1, l2}
  Writers = {l1, l2}
  Names = {n1, bad, n2}
  Invalid = {bad}
  Batch <- MCBatch
  Corpus = Corpus
  Keys = {n1, bad, n2, Corpus}
  Damaged = {n2, Corpus}
  Timeout = 1
  MaxBytes = 0
  Ttl = 1
  MaxMishaps = 1
  NoEntry = NoEntry
  Budget = 2
  Late = 3
  Retries = 1
  Malformed = {n2}
  Changing = {n1}
SPECIFICATION Spec
INVARIANTS TypeOK BegunInTime OnlyDeathLeavesTemps
PROPERTIES AnswersAreRecent NeverHalfWritten StepsRunOut
CHECK_DEADLOCK FALSE
