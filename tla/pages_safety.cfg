\* Four posts in two seconds on pages of two threads; one thread may be dated later than that.
SPECIFICATION Spec
CONSTANTS
    MaxPosts = 4
    MaxTime = 1
    Dates = {2}
    PerPage = 2
    Replies = 1
    None = None
INVARIANTS
    TypeOK
    WalkComplete
    SeenOnce
    HiddenTold
    OutboxTrue
