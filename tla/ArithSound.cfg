SPECIFICATION FairSpec
CONSTANTS
    Base = 2
    Values <- MCUpTo4
    Ops = {"Add", "Sub", "Mul", "Div"}
    ZeroRun = 2
    MaxRefineIters = 3
    OperandLimit = 512
    Word = 16
    MayPend = TRUE
    MaxDigits = 3
    MaxPulls = 5
    MaxAhead = 3
INVARIANTS NoFalseDigit OperandsEnclosed RestEncloses NeverAborts
PROPERTY TerminatingAnswered
CHECK_DEADLOCK FALSE
