\* A thread and a reply of board a go to its follower b, are retried and deleted.
SPECIFICATION Spec
CONSTANTS
    Boards = {"a", "b"}
    Host <- PairHost
    Followers <- OneWay
    Joins = {}
    First <- InOrder
    Threads = {"t"}
    Replies = {"ra"}
    Home <- PairHome
    None = None
    Moderators <- AtHome
    MaxRetries = 2
    MaxResends = 0
    MaxFetches = 0
    MayFail = TRUE
INVARIANTS
    Propagated
    NeverReturns
    ToldEveryone
