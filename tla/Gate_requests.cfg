SPECIFICATION LiveSpec
CONSTANTS
    Calls = {1, 2}
    Emails = {"e1", "e2"}
    Codes = {"c1", "c2"}
    NoCode = NoCode
    InitialCode <- BothHaveCodes
    TTL = 1
    MaxErrors = 1
    IoThreads = {1, 2}
    IoMaps <- SameOrOther
    MaxFaults = 1
    Names = {"n1"}
    Pwds = {1, 2}
    NoAccount = NoAccount
    Workloads <- Pairs
    RedisConns = 3
    MysqlConns = 2
INVARIANTS GateTypeOK StoredCodeMailed CodeWillExpire CodeChecked
PROPERTIES ChangedByOwner AccountByMailbox EveryRequestAnswered
CHECK_DEADLOCK FALSE
