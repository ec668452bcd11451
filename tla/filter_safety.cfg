\* Two moderators, repeated patterns, failing deletions, restarts.
SPECIFICATION FilterSpec
CONSTANTS
    Requests = {p1, p2}
    Patterns = {a, b}
    NoPattern = NoPattern
    MaxId = 3
    MayFail = TRUE
INVARIANTS
    Rejects
    OnlyInDoubt
