\* Three requests of two names; 258 is an administrator in one byte.
SPECIFICATION Spec
CONSTANTS
    Requests = {r1, r2, r3}
    Users = {u1, u2}
    Passwords = {p1, p2}
    Inputs = {1, 258}
    Levels = {1, 2}
    Life = 2
    MaxTime = 3
    None = None
    MayFail = TRUE
SYMMETRY Symmetric
INVARIANTS
    RightsEnd
    LoginHonest
PROPERTIES
    OnlyAdmins
