\* A reply of b goes to a, which owns the thread and deletes it, while b fetches it.
SPECIFICATION Spec
CONSTANTS
    Boards = {"a", "b"}
    Host <- PairHost
    Followers <- OneWay
    Joins = {}
    First <- InOrder
    Threads = {"t"}
    Replies = {"rb"}
    Home <- PairHome
    None = None
    Moderators <- AtHome
    MaxRetries = 2
    MaxResends = 0
    MaxFetches = 1
    MayFail = TRUE
INVARIANTS
    SameThread
PROPERTIES
    NoneStranded
    DeliveriesEnd
