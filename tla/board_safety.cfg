\* Three requests of any kind, failures and crashes included.
SPECIFICATION Spec
CONSTANTS
    Requests = {p1, p2, p3}
    LocalThreads = {lt1}
    LocalReplies = {lr1}
    RemoteThreads = {}
    RemoteReplies = {r1}
    NoName = NoName
    RepliesInOutbox = FALSE
    MayFail = TRUE
SYMMETRY Interchangeable
INVARIANTS
    ThreadsFlat
    LinksInThread
    RemovalAccounted
    StrayReportsLate
PROPERTIES
    NeverBack
    NoneLeftBehind
    ReadersSeeForum
