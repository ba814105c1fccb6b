SPECIFICATION Spec
CONSTANTS
  Capacity = 2
  Indices = {0, 1, 2, 3, 4}
  Digits <- MCDigits
  None = None
  Digit <- MCDigit
INVARIANT ServesTheStream
PROPERTY UnansweredWasEvicted
