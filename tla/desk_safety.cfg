\* Two tabs, three papers of which two are about one board.
SPECIFICATION Spec
CONSTANTS
    p1 = p1
    p2 = p2
    p3 = p3
    Papers = {p1, p2, p3}
    BoardOf <- TheBoards
    Tabs = {t1, t2}
    MaxNumber = 3
    None = None
SYMMETRY Symmetric
INVARIANTS
    NumbersHold
    EditsApart
PROPERTIES
    ActsAsSeen
