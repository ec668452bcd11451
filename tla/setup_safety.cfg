\* The server and a tool, two requests, ids that differ in case, failures and kills.
SPECIFICATION Spec
CONSTANTS
    Processes = {server, tool}
    Server = server
    Requests = {p1, p2}
    Boards = {"a", "b", "B"}
    Table <- CaseTable
    None = None
    Empty = Empty
    Earlier = Earlier
    MayFail = TRUE
INVARIANTS
    SchemaOfVersion
    UpgradeApplies
    KeysMatch
    ListedIsMade
PROPERTIES
    KeysStay
