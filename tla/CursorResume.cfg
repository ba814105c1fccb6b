SPECIFICATION Spec
CONSTANTS
    Seeds <- MCSeeds
    Digit <- MCDigit
    After <- MCAfter
    Word = 8
    Bases = {2, 3}
    Objects = {o1, o2}
    MaxReads = 3
    MaxDepth = 2
INVARIANTS ResumesIdentically CursorSeesNext
