SPECIFICATION TextSpec
CONSTANTS
    HalfBits = 1
    Operands <- MCOperands
    Exponents = {0, 2, 3}
    MaxValue = 90
    Names <- MCNames
    Depth = 12
INVARIANTS TypeOK ValueExact GcdTrue LoadsWhatWasSaved
PROPERTY DivisionTrue
