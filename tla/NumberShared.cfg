SPECIFICATION Spec
CONSTANTS
  Objects = {x, y, z}
  TmpA = TmpA
  TmpB = TmpB
  Null = Null
  Tiers = {"automaton", "series", "arith"}
  Fraction <- MCFraction
  Bases = {2, 3}
  MaxPos = 2
  Skips = {1, 2}
  Counts = {2}
  MaxPasses = 1
  FreshOnly = TRUE
INVARIANTS ReadsInItsBase OperandsUnshared NoFalseVerdict
PROPERTIES ImplementsValues
CHECK_DEADLOCK FALSE
SYMMETRY MCSymmetry
