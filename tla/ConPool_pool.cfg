SPECIFICATION LiveSpec
CONSTANTS
    Threads = {t1, t2, t3, t4}
    Conns = {c1, c2}
    NoCon = NoCon
    Checker = Checker
    Leaky = {t4}
    PingThrows = TRUE
    MayClose = TRUE
INVARIANTS TypeOK Exclusive NoLostWakeup SleepersHaveCause NothingLost
PROPERTIES Implements StarvedOnlyByTakers
