SPECIFICATION LruSpec
CONSTANTS
  Capacity = 3
  Indices = {0, 1, 2, 3, 4}
  Digits = {7, 8}
  None = None
INVARIANTS Coherent RecencyKept ReadsLastPut
