SPECIFICATION FairSpec
CONSTANTS
  BigPow <- MCBigPow
  Specs = {"ln2"}
  Bases = {2, 3, 4, 5, 8}
  Value <- MCValue
  MaxRefineIters = 2
  MaxConvergeSteps = 3
  Word = 16
  EagerCounts = {1}
  MaxTerms <- MCMaxTerms
  MaxDigits = 2
CHECK_DEADLOCK FALSE
INVARIANTS Encloses NoFalseDigit DigitsStand
PROPERTIES ImplementsStream EveryDigitCommits
