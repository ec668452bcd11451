\* Visitors and a moderator of one address, three captchas at most, failures and crashes.
SPECIFICATION Spec
CONSTANTS
    Requests = {r1, r2, r3}
    Sources = {"s"}
    Batch = 1
    Rounds = 2
    MaxTime = 2
    None = None
    MayFail = TRUE
INVARIANTS
    KeptOut
    CountsOnce
    PoolBounded
PROPERTIES
    BanKept
