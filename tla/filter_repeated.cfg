\* One moderator at a time adds a pattern that is there; nothing fails.
SPECIFICATION FilterSpec
CONSTANTS
    Requests = {p1}
    Patterns = {a, b}
    NoPattern = NoPattern
    MaxId = 3
    MayFail = FALSE
INVARIANT ListedReject
