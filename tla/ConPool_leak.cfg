SPECIFICATION Spec
CONSTANTS
    Threads = {t1}
    Conns = {c1, c2, c3, c4, c5}
    NoCon = NoCon
    Checker = Checker
    Leaky = {t1}
    PingThrows = FALSE
    MayClose = FALSE
INVARIANT NobodyWaitsForNobody
