SPECIFICATION PrecisionSpec
CONSTANTS
    Tasks = {t1, t2}
    Threads = {t1, t2}
    ThreadOf <- MCOwnThread
    Contexts = {1, 2, 3, 4}
    DigitsOf <- MCDigitsOf
    Reenter = FALSE
    MaxDepth = 3
INVARIANT InScope
PROPERTY RestoredOnExit
