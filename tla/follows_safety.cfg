\* Two boards of two instances, requests that overlap, failures and crashes.
SPECIFICATION Spec
CONSTANTS
    Requests = {p1, p2}
    Boards = {"a", "b"}
    Host <- PairHost
    None = None
    MaxRetries = 2
    Undoing = {"b"}
    MayFail = TRUE
INVARIANTS
    AsAsked
    FollowersKnow
PROPERTIES
    RequestsEnd
