SPECIFICATION LiveSpec
CONSTANTS
    Threads = {t1, t2}
    Conns = {c1}
    NoCon = NoCon
    Checker = Checker
    Leaky = {}
    PingThrows = FALSE
    MayClose = TRUE
PROPERTY StoppedCallReturns
CHECK_DEADLOCK FALSE
