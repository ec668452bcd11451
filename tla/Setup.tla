------------------------------- MODULE Setup --------------------------------
(***************************************************************************)
(* How the database, the boards and their keys come to be: the upgrade of  *)
(* the schema that every process runs when it opens the database           *)
(* (database/sqlite3_upgrade.go), and the making of boards by the server   *)
(* (routes/admin.go, database/sqlite3.go, fedi/pem.go).                    *)
(*                                                                         *)
(* The database is a file; "feditext create" opens it besides the server.  *)
(* A process is killed at any time.                                        *)
(***************************************************************************)
EXTENDS Integers, FiniteSets

CONSTANTS
    Processes,     \* processes that open the database
    Server,        \* the one that serves requests
    Requests,      \* requests that may run at once
    Boards,        \* ids of boards
    Table,         \* Boards -> names as SQLite compares them, without case
    None,          \* no file, no board
    Empty,         \* a file that is created and not written yet
    Earlier,       \* the key of a board that an earlier version made
    MayFail        \* may statements and writes fail?

ASSUME SetupAssumption ==
    /\ Server \in Processes
    /\ None # Empty /\ Earlier \notin {None, Empty}
    /\ {None, Empty, Earlier} \cap Requests = {}
    /\ None \notin Boards
    /\ MayFail \in BOOLEAN

VARIABLES
    db,        \* the database as it is committed
    proc,      \* each process: what it does, its transaction, the next upgrade
    req,       \* each request: its next step and its board
    private,   \* pem/<board>.private.pem: whose key
    public,    \* pem/<board>.pem
    cut,       \* history: boards whose making was cut short, here or before
    refused    \* history: boards whose saving ended in an error by itself

vars == <<db, proc, req, private, public, cut, refused>>

-----------------------------------------------------------------------------
(* len(sqliteUpgrades) *)
Latest == 4

TablesOf(boards) == {Table[b] : b \in boards}

(* A database of version v: the tables boards, moderators and so on, the   *)
(* column email, the boards listed, tables posts_ and replies_, posts_     *)
(* with the column flags, posts_ whose replies are recorded in replies_.   *)
Database(v, boards, posts, replies) ==
    [ver |-> v, rows |-> boards,
     schema |-> {"boards"} \cup (IF v = Latest THEN {"email"} ELSE {}),
     posts |-> posts, replies |-> replies,
     flags |-> IF v >= 2 THEN posts ELSE {},
     linked |-> IF v >= 3 THEN posts ELSE {}]

NoDatabase ==
    [ver |-> 0, rows |-> {}, schema |-> {}, posts |-> {}, replies |-> {},
     flags |-> {}, linked |-> {}]

(* sqliteUpgrades[1..3]: what each does ...                                *)
Upgraded(d, n) ==
    CASE n = 1 -> [d EXCEPT !.flags = TablesOf(d.rows)]
      [] n = 2 -> [d EXCEPT !.linked = TablesOf(d.rows)]
      [] n = 3 -> [d EXCEPT !.schema = @ \cup {"email"}]

OneBoardEach(boards) == \A b, c \in boards : Table[b] = Table[c] => b = c

(* ... when it can be done: ALTER TABLE, once for each board listed, wants *)
(* a table that has no such column, SELECT wants the table ...             *)
CanUpgrade(d, n) ==
    CASE n = 1 -> TablesOf(d.rows) \subseteq d.posts \ d.flags /\ OneBoardEach(d.rows)
      [] n = 2 -> TablesOf(d.rows) \subseteq d.posts
      [] n = 3 -> "boards" \in d.schema /\ "email" \notin d.schema

(* ... and when nothing in the database can make it fail: INSERT wants the *)
(* table replies_ of a board if one of its posts cites another.            *)
Upgradable(d, n) == CanUpgrade(d, n) /\ (n = 2 => TablesOf(d.rows) \subseteq d.replies)

Down == [pc |-> "down", view |-> NoDatabase, next |-> 0]
Up == [pc |-> "up", view |-> NoDatabase, next |-> 0]
Rest == [pc |-> "idle", board |-> None]

InUpgrade(p) == proc[p].pc = "upgrade"

(* The transaction of p holds d, and the n-th upgrade is next.             *)
Continues(p, d, n) ==
    proc' = [proc EXCEPT ![p] = [pc |-> "upgrade", view |-> d, next |-> n]]

(* SQLite: one process writes at a time, and commits when none reads.      *)
MayWrite(p) == \A q \in Processes \ {p} : InUpgrade(q) => proc[q].view = db
MayCommit(p) == \A q \in Processes \ {p} : ~InUpgrade(q)

-----------------------------------------------------------------------------
(* The steps of making a board.                                            *)
Phases == {"idle", "tables", "private", "private written", "public", "public written"}

(* How far the making of each listed board came: "idle" when it was done,  *)
(* "replies" when replies_ is missing, else the step that was not taken.   *)
(* Of ids that share tables one got its own, if any did.                   *)
Progress(boards) ==
    {at \in [boards -> Phases \cup {"replies"}] :
        OneBoardEach({b \in boards : at[b] # "tables"})}

(* The tables that boards have when their making came that far, and those  *)
(* whose making was not done ...                                           *)
PostsAt(boards, at) == TablesOf({b \in boards : at[b] # "tables"})
RepliesAt(boards, at) == TablesOf({b \in boards : at[b] \notin {"tables", "replies"}})
HalfMade(boards, at) == {b \in boards : at[b] # "idle"}

(* ... and the files of a board whose making came to "phase".              *)
PrivateAt(phase) ==
    CASE phase \in {"tables", "replies", "private"} -> None
      [] phase = "private written" -> Empty
      [] OTHER -> Earlier

PublicAt(phase) ==
    CASE phase = "idle" -> Earlier
      [] phase = "public written" -> Empty
      [] OTHER -> None

(* A new database, or one of any version in which boards were made, or     *)
(* half made, as below: SaveBoard is no transaction.                       *)
Found(v, boards, at) ==
    /\ db = Database(v, boards, PostsAt(boards, at), RepliesAt(boards, at))
    /\ private = [b \in Boards |-> IF b \in boards THEN PrivateAt(at[b]) ELSE None]
    /\ public = [b \in Boards |-> IF b \in boards THEN PublicAt(at[b]) ELSE None]
    /\ cut = HalfMade(boards, at)

FoundNothing ==
    /\ db = NoDatabase
    /\ private = [b \in Boards |-> None] /\ public = private
    /\ cut = {}

Init ==
    /\ \/ FoundNothing
       \/ \E v \in 0 .. Latest, boards \in SUBSET Boards :
            \E at \in Progress(boards) : Found(v, boards, at)
    /\ proc = [p \in Processes |-> Down]
    /\ req = [r \in Requests |-> Rest]
    /\ refused = {}

(* sqliteUpgrade: the transaction begins and reads user_version.           *)
Start(p) ==
    /\ proc[p] = Down
    /\ \/ db.ver = Latest /\ proc' = [proc EXCEPT ![p] = Up]
       \/ db.ver < Latest /\ Continues(p, db, db.ver)
    /\ UNCHANGED <<db, req, private, public, cut, refused>>

(* sqliteUpgrades[0]: nothing there is a new database, and done; a         *)
(* database from before versions is upgraded from the first.               *)
NewDatabase(p) ==
    /\ InUpgrade(p) /\ proc[p].next = 0
    /\ \/ /\ "boards" \in proc[p].view.schema
          /\ Continues(p, proc[p].view, 1)
       \/ /\ "boards" \notin proc[p].view.schema /\ MayWrite(p)
          /\ Continues(p, [Database(Latest, {}, {}, {}) EXCEPT !.ver = 0], Latest)
    /\ UNCHANGED <<db, req, private, public, cut, refused>>

Upgrade(p) ==
    LET d == proc[p].view
        n == proc[p].next
    IN  /\ InUpgrade(p) /\ n \in 1 .. Latest - 1
        /\ CanUpgrade(d, n)
        /\ Upgraded(d, n) # d => MayWrite(p)
        /\ Continues(p, Upgraded(d, n), n + 1)
        /\ UNCHANGED <<db, req, private, public, cut, refused>>

(* Slip: the version set is that of the database found, plus one. *)
SlipCommit(p) ==
    /\ InUpgrade(p) /\ proc[p].next = Latest
    /\ MayWrite(p) /\ MayCommit(p)
    /\ db' = [proc[p].view EXCEPT !.ver = db.ver + 1]
    /\ proc' = [proc EXCEPT ![p] = Up]
    /\ UNCHANGED <<req, private, public, cut, refused>>

(* PRAGMA user_version, Commit.                                            *)
Commit(p) ==
    /\ InUpgrade(p) /\ proc[p].next = Latest
    /\ MayWrite(p) /\ MayCommit(p)
    /\ db' = [proc[p].view EXCEPT !.ver = Latest]
    /\ proc' = [proc EXCEPT ![p] = Up]
    /\ UNCHANGED <<req, private, public, cut, refused>>

(* A statement fails, finds no table or a column that is there already, or *)
(* waits for the other process in vain: rolled back, and the process ends. *)
RolledBack(p) ==
    /\ InUpgrade(p)
    /\ \/ MayFail
       \/ proc[p].next \in 1 .. Latest - 1 /\ ~Upgradable(proc[p].view, proc[p].next)
       \/ ~MayWrite(p)
       \/ proc[p].next = Latest /\ ~MayCommit(p)
    /\ proc' = [proc EXCEPT ![p] = Down]
    /\ UNCHANGED <<db, req, private, public, cut, refused>>

Pending == {r \in Requests : req[r] # Rest}

(* The process ends, and with it the requests of a server.                 *)
Kill(p) ==
    /\ proc[p] # Down
    /\ proc' = [proc EXCEPT ![p] = Down]
    /\ \/ /\ p = Server
          /\ cut' = cut \cup {req[r].board : r \in Pending}
          /\ req' = [r \in Requests |-> Rest]
       \/ /\ p # Server
          /\ UNCHANGED <<cut, req>>
    /\ UNCHANGED <<db, private, public, refused>>

-----------------------------------------------------------------------------
Goes(r, pc) == req' = [req EXCEPT ![r].pc = pc]
Ends(r) == req' = [req EXCEPT ![r] = Rest]
At(r, pc) == proc[Server] = Up /\ req[r].pc = pc

(* PostBoard, SaveBoard: INSERT INTO boards ... ON CONFLICT DO UPDATE.     *)
PostBoard(r, b) ==
    /\ At(r, "idle")
    /\ db' = [db EXCEPT !.rows = @ \cup {b}]
    /\ req' = [req EXCEPT ![r] = [pc |-> "tables", board |-> b]]
    /\ UNCHANGED <<proc, private, public, cut, refused>>

(* Slip: CREATE TABLE IF NOT EXISTS. *)
SlipCreateTables(r) ==
    LET t == Table[req[r].board]
    IN  /\ At(r, "tables")
        /\ db' = [db EXCEPT !.posts = @ \cup {t}, !.flags = @ \cup {t},
                            !.linked = @ \cup {t}, !.replies = @ \cup {t}]
        /\ Goes(r, "private")
        /\ UNCHANGED <<proc, private, public, cut, refused>>

(* sqliteNewBoard: CREATE TABLE posts_, CREATE TABLE replies_.             *)
CreateTables(r) ==
    LET t == Table[req[r].board]
    IN  /\ At(r, "tables")
        /\ t \notin db.posts
        /\ db' = [db EXCEPT !.posts = @ \cup {t}, !.flags = @ \cup {t},
                            !.linked = @ \cup {t}, !.replies = @ \cup {t}]
        /\ Goes(r, "private")
        /\ UNCHANGED <<proc, private, public, cut, refused>>

(* There is a table posts_ already, in whatever case.                      *)
TableExists(r) ==
    /\ At(r, "tables")
    /\ Table[req[r].board] \in db.posts
    /\ refused' = refused \cup {req[r].board}
    /\ Ends(r)
    /\ UNCHANGED <<db, proc, private, public, cut>>

(* The second of the two statements fails, which are no transaction.       *)
TablesCutShort(r) ==
    LET t == Table[req[r].board]
    IN  /\ MayFail
        /\ At(r, "tables")
        /\ t \notin db.posts
        /\ db' = [db EXCEPT !.posts = @ \cup {t}, !.flags = @ \cup {t},
                            !.linked = @ \cup {t}]
        /\ cut' = cut \cup {req[r].board}
        /\ Ends(r)
        /\ UNCHANGED <<proc, private, public, refused>>

(* CreatePem, writePem: os.Create truncates, pem.Encode writes.            *)
CreatePrivate(r) ==
    /\ At(r, "private")
    /\ private' = [private EXCEPT ![req[r].board] = Empty]
    /\ Goes(r, "private written")
    /\ UNCHANGED <<db, proc, public, cut, refused>>

(* Slip: the request is done when the private key is written. *)
SlipWritePrivate(r) ==
    /\ At(r, "private written")
    /\ private' = [private EXCEPT ![req[r].board] = r]
    /\ Ends(r)
    /\ UNCHANGED <<db, proc, public, cut, refused>>

WritePrivate(r) ==
    /\ At(r, "private written")
    /\ private' = [private EXCEPT ![req[r].board] = r]
    /\ Goes(r, "public")
    /\ UNCHANGED <<db, proc, public, cut, refused>>

CreatePublic(r) ==
    /\ At(r, "public")
    /\ public' = [public EXCEPT ![req[r].board] = Empty]
    /\ Goes(r, "public written")
    /\ UNCHANGED <<db, proc, private, cut, refused>>

WritePublic(r) ==
    /\ At(r, "public written")
    /\ public' = [public EXCEPT ![req[r].board] = r]
    /\ Ends(r)
    /\ UNCHANGED <<db, proc, private, cut, refused>>

(* A statement or a write fails and the request returns the error.         *)
RequestFails(r) ==
    /\ MayFail
    /\ proc[Server] = Up /\ req[r] # Rest
    /\ cut' = cut \cup {req[r].board}
    /\ Ends(r)
    /\ UNCHANGED <<db, proc, private, public, refused>>

Next ==
    \/ \E p \in Processes :
        Start(p) \/ NewDatabase(p) \/ Upgrade(p) \/ Commit(p) \/ RolledBack(p) \/ Kill(p)
    \/ \E r \in Requests :
        \/ \E b \in Boards : PostBoard(r, b)
        \/ CreateTables(r) \/ TableExists(r) \/ TablesCutShort(r)
        \/ CreatePrivate(r) \/ WritePrivate(r) \/ CreatePublic(r) \/ WritePublic(r)
        \/ RequestFails(r)

Spec == Init /\ [][Next]_vars

-----------------------------------------------------------------------------
Keys == Requests \cup {Earlier}
States == [ver : 0 .. Latest, rows : SUBSET Boards, schema : SUBSET {"boards", "email"},
           posts : SUBSET TablesOf(Boards), replies : SUBSET TablesOf(Boards),
           flags : SUBSET TablesOf(Boards), linked : SUBSET TablesOf(Boards)]

TypeOK ==
    /\ db \in States
    /\ proc \in [Processes -> [pc : {"down", "upgrade", "up"}, view : States, next : 0 .. Latest]]
    /\ req \in [Requests -> [pc : Phases, board : Boards \cup {None}]]
    /\ private \in [Boards -> Keys \cup {None, Empty}]
    /\ public \in [Boards -> Keys \cup {None, Empty}]
    /\ cut \subseteq Boards /\ refused \subseteq Boards

(* Whatever fails, is killed or runs besides it, the database is that of   *)
(* its version: no upgrade is done by half, twice, or without its number.  *)
SchemaOfVersion ==
    /\ "email" \in db.schema <=> db.ver = Latest
    /\ db.flags = IF db.ver >= 2 THEN db.posts ELSE {}
    /\ db.linked = IF db.ver >= 3 THEN db.posts ELSE {}
    /\ \A p \in Processes : proc[p] = Up => db.ver = Latest /\ "boards" \in db.schema

(* No upgrade fails for good but by a board that was not made, or that     *)
(* shares its tables: where every board listed was made in full, no        *)
(* process, however often it was stopped, meets a table or a column that   *)
(* the upgrade does not expect.                                            *)
UpgradeApplies ==
    \A p \in Processes : InUpgrade(p) /\ proc[p].next \in 1 .. Latest - 1 =>
        Upgradable(proc[p].view, proc[p].next) \/ db.rows \cap (cut \cup refused) # {}

(* Both files of a board hold one key once the public one is written, the  *)
(* board has its tables, and of ids that share tables one has keys.        *)
KeysMatch ==
    \A b \in Boards :
        /\ public[b] \in Keys => private[b] = public[b]
        /\ private[b] # None => Table[b] \in db.replies
        /\ \A c \in Boards : Table[b] = Table[c] /\ None \notin {private[b], private[c]} => b = c

(* A public key that other instances may have read never changes, nor does *)
(* the private one, however often the board is saved and by how many.      *)
KeysStay ==
    [][\A b \in Boards : public[b] \in Keys =>
           public'[b] = public[b] /\ private'[b] = private[b]]_vars

(* A board that is listed has tables and keys, unless it is being made,    *)
(* its making was cut short, or its id was refused.                        *)
ListedIsMade ==
    \A b \in db.rows :
        \/ Table[b] \in db.replies /\ public[b] \in Keys
        \/ b \in cut \cup refused
        \/ \E r \in Requests : req[r].board = b

(* "You can update boards and moderators by simply putting their           *)
(* ID/username into" the form (doc/moderation.md:21): saving a board, new  *)
(* or not, succeeds when nothing fails.  It does not: TableExists.         *)
SavingSucceeds == refused = {}

(* "Do *NOT* make assumptions when writing a schema upgrade function"      *)
(* (sqlite3_upgrade.go:164): an upgrade can be done whatever is listed.    *)
(* It cannot: it assumes that each board listed has tables of its own.     *)
UpgradeCanBeDone ==
    \A p \in Processes : InUpgrade(p) /\ proc[p].next \in 1 .. Latest - 1 =>
        CanUpgrade(proc[p].view, proc[p].next)
=============================================================================
