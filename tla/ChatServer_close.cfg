SPECIFICATION Spec
CONSTANTS
    NumSessions = 2
    PoolSize = 2
    Uids = {1}
    Users = {1}
    MAX_SENDQUE = 0
    Kinds = {"login"}
    MaxToken = 1
    MaxPosts = 2
    MaxFaults = 0
INVARIANTS BoundOnlyIfAuthenticated UnboundAfterClose ClosedSessionErased CountExactWithoutOverlap CountNearOnline ClosedAtMostTwice LoggedInIsReachable
