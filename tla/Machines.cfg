SPECIFICATION AutomatonSpec
CONSTANTS
    Gens = {"rational", "padic", "sqrt"}
    Fractions <- MCFractions
    Bases = {2, 3}
    Word = 4096
    SafetyBound = 7
    MaxSkip = 6
    MaxLook = 2
    MaxScale = 32
    Residues <- MCResidues
    Primes = {2, 5}
    Checked = TRUE
    SafetyCap = 10
    MaxMetric = 3
    PAdicScale = 30
    Radicands = {2, 3, 5, 8, 9, 12, 45}
    SqrtBases = {2, 3, 5, 10}
    SqrtHalf = 128
    SqrtScale = 750
    Projections <- MCProjections
    ProjectScale = 1000
INVARIANTS RationalExact RationalVerdictTrue PAdicExact PAdicMetricTrue PAdicPeriodFound SqrtExact ReprojectionTrue
