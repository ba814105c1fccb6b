SPECIFICATION Spec
CONSTANTS
  Objects = {x, y, z}
  TmpA = TmpA
  TmpB = TmpB
  Null = Null
  Tiers = {"series"}
  Fraction <- MCFraction
  Bases = {2}
  MaxPos = 4
  Skips = {1, 2}
  Counts = {1, 2}
  MaxPasses = 1
  FreshOnly = FALSE
INVARIANT ValueSemantics
CHECK_DEADLOCK FALSE
