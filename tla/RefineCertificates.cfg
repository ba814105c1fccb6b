SPECIFICATION CheckpointSpec
CONSTANTS
  BigPow <- MCBigPow
  Specs = {"e", "ln2", "1/e", "pi/4", "catalan"}
  Bases = {2, 3}
  Value <- MCValue
  MaxRefineIters = 3
  MaxConvergeSteps = 3
  Word = 4
  EagerCounts = {1, 2}
  MaxTerms <- MCShortTerms
  MaxDigits = 3
CHECK_DEADLOCK FALSE
INVARIANTS TypeOK TailCertificate SumsTheSeries DigitsAgree
PROPERTY TailMonotoneOnceStarted
