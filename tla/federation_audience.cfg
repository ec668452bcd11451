\* Board b follows a, and c of the same instance joins at any moment; the thread is also resent.
SPECIFICATION Spec
CONSTANTS
    Boards = {"a", "b", "c"}
    Host <- SharedHost
    Followers <- SharedFollowers
    Joins <- SharedJoins
    First <- InOrder
    Threads = {"t"}
    Replies = {}
    Home <- PairHome
    None = None
    Moderators <- AtHome
    MaxRetries = 1
    MaxResends = 1
    MaxFetches = 0
    MayFail = TRUE
INVARIANTS
    Propagated
    ToldEveryone
