SPECIFICATION LiveSpec
CONSTANTS
    NumSessions = 1
    PoolSize = 1
    Uids = {1, 2}
    Users = {1}
    MAX_SENDQUE = 0
    Kinds = {"login", "search", "junk", "bad"}
    MaxToken = 1
    MaxPosts = 2
    MaxFaults = 1
INVARIANTS TypeOK CountNotInflated
PROPERTIES EveryRequestHandled DisconnectNoticed
