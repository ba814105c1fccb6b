SPECIFICATION Spec
CONSTANTS
  BigPow <- MCBigPow
  Specs = {"1/e"}
  Bases = {2}
  Value <- MCValue
  MaxRefineIters = 8
  MaxConvergeSteps = 3
  Word = 65536
  EagerCounts = {}
  MaxTerms <- MCMaxTerms
  MaxDigits = 3
CHECK_DEADLOCK FALSE
INVARIANT NoFalseDigit
