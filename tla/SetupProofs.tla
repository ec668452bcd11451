---------------------------- MODULE SetupProofs -----------------------------
(***************************************************************************)
(* What holds of databases, boards and keys for any number of processes,   *)
(* requests and boards: the proofs about module Setup.                     *)
(***************************************************************************)
EXTENDS Setup, TLAPS

(* The database is that of its version; its tables are those of boards     *)
(* that are listed, which may lack theirs.                                 *)
WellMade(d) ==
    /\ "email" \in d.schema <=> d.ver = Latest
    /\ d.flags = IF d.ver >= 2 THEN d.posts ELSE {}
    /\ d.linked = IF d.ver >= 3 THEN d.posts ELSE {}
    /\ d.replies \subseteq d.posts
    /\ d.ver < Latest => d.posts \subseteq TablesOf(d.rows)
    /\ d.ver > 0 => "boards" \in d.schema
    /\ "boards" \notin d.schema => d.rows = {}

DbOK == WellMade(db)

(* Who serves has an upgraded database.                                    *)
UpOK == \A p \in Processes : proc[p] = Up => db.ver = Latest

(* A transaction holds what the upgrades before the next make of the       *)
(* database, which is not upgraded meanwhile.                              *)
Prepared(d, n) ==
    /\ n = 0 => d = db /\ db.ver = 0
    /\ n # 0 => "boards" \in d.schema
    /\ d.rows = db.rows /\ d.posts = db.posts /\ d.replies = db.replies
    /\ d.flags = IF n >= 2 THEN d.posts ELSE {}
    /\ d.linked = IF n >= 3 THEN d.posts ELSE {}
    /\ "email" \in d.schema <=> n = Latest

UpgradesOK ==
    \A p \in Processes : InUpgrade(p) =>
        db.ver < Latest /\ Prepared(proc[p].view, proc[p].next)

(* A request has a board just while it has something to do.                *)
RequestsOK == \A r \in Requests : req[r].pc = "idle" <=> req[r].board = None

Inv1 == TypeOK /\ DbOK /\ UpOK /\ UpgradesOK /\ RequestsOK

-----------------------------------------------------------------------------
LEMMA TablesType ==
    /\ \A boards \in SUBSET Boards : TablesOf(boards) \in SUBSET TablesOf(Boards)
    /\ \A b \in Boards : Table[b] \in TablesOf(Boards)
BY DEF TablesOf

LEMMA NoDatabaseType == NoDatabase \in States
BY DEF NoDatabase, States, Latest

(* The database found when a process starts, and its files.                *)
LEMMA FoundFacts ==
    ASSUME NEW v \in 0 .. Latest, NEW boards \in SUBSET Boards,
           NEW at \in Progress(boards), Found(v, boards, at)
    PROVE  /\ db \in States /\ db.ver = v /\ db.rows = boards
           /\ db.schema = {"boards"} \cup (IF v = Latest THEN {"email"} ELSE {})
           /\ db.posts = PostsAt(boards, at)
           /\ db.replies = RepliesAt(boards, at)
           /\ db.flags = IF v >= 2 THEN db.posts ELSE {}
           /\ db.linked = IF v >= 3 THEN db.posts ELSE {}
           /\ \A b \in boards : private[b] = PrivateAt(at[b]) /\ public[b] = PublicAt(at[b])
           /\ \A b \in Boards \ boards : private[b] = None /\ public[b] = None
           /\ cut = HalfMade(boards, at)
<1> DEFINE posts == PostsAt(boards, at)
           replies == RepliesAt(boards, at)
<1>1. posts \in SUBSET TablesOf(Boards) /\ replies \in SUBSET TablesOf(Boards)
  <2>1. \A w \in SUBSET boards : w \in SUBSET Boards
    OBVIOUS
  <2> QED
    BY <2>1, TablesType DEF PostsAt, RepliesAt
<1>2. db = Database(v, boards, posts, replies)
  BY DEF Found
<1> HIDE DEF posts, replies
<1>3. /\ db \in States /\ db.ver = v /\ db.rows = boards
      /\ db.schema = {"boards"} \cup (IF v = Latest THEN {"email"} ELSE {})
      /\ db.posts = posts /\ db.replies = replies
      /\ db.flags = IF v >= 2 THEN posts ELSE {}
      /\ db.linked = IF v >= 3 THEN posts ELSE {}
  BY <1>1, <1>2 DEF Database, States, Latest
<1>4. /\ \A b \in boards : private[b] = PrivateAt(at[b]) /\ public[b] = PublicAt(at[b])
      /\ \A b \in Boards \ boards : private[b] = None /\ public[b] = None
      /\ cut = HalfMade(boards, at)
  BY DEF Found
<1> QED
  BY <1>3, <1>4 DEF posts, replies

LEMMA FoundWellMade ==
    ASSUME NEW v \in 0 .. Latest, NEW boards \in SUBSET Boards,
           NEW at \in Progress(boards), Found(v, boards, at)
    PROVE  WellMade(db)
<1>1. /\ db.ver = v /\ db.rows = boards
      /\ db.schema = {"boards"} \cup (IF v = Latest THEN {"email"} ELSE {})
      /\ db.posts = PostsAt(boards, at)
      /\ db.replies = RepliesAt(boards, at)
      /\ db.flags = IF v >= 2 THEN db.posts ELSE {}
      /\ db.linked = IF v >= 3 THEN db.posts ELSE {}
  BY FoundFacts
<1>2. db.posts \subseteq TablesOf(boards) /\ db.replies \subseteq db.posts
  BY <1>1 DEF TablesOf, PostsAt, RepliesAt
<1>3. /\ "email" \in db.schema <=> db.ver = Latest
      /\ "boards" \in db.schema
  BY <1>1
<1>4. WellMade(db) <=> /\ db.flags = IF db.ver >= 2 THEN db.posts ELSE {}
                       /\ db.linked = IF db.ver >= 3 THEN db.posts ELSE {}
  BY <1>1, <1>2, <1>3 DEF WellMade
<1> QED
  BY <1>1, <1>4

LEMMA LatestWellMade ==
    ASSUME NEW d, d.ver = Latest
    PROVE  WellMade(d) <=> /\ "email" \in d.schema /\ "boards" \in d.schema
                           /\ d.flags = d.posts /\ d.linked = d.posts
                           /\ d.replies \subseteq d.posts
BY DEF WellMade, Latest

LEMMA Init1 == Init => Inv1
<1> SUFFICES ASSUME Init PROVE Inv1
  OBVIOUS
<1> USE SetupAssumption
<1>1. db \in States /\ WellMade(db)
  <2>1. CASE FoundNothing
    BY <2>1, NoDatabaseType DEF FoundNothing, NoDatabase, WellMade, Latest
  <2> QED
    BY <2>1, FoundFacts, FoundWellMade DEF Init
<1>2. TypeOK
  <2>1. proc \in [Processes -> [pc : {"down", "upgrade", "up"}, view : States, next : 0 .. Latest]]
    BY NoDatabaseType DEF Init, Down, Latest
  <2>2. /\ private \in [Boards -> Keys \cup {None, Empty}]
        /\ public \in [Boards -> Keys \cup {None, Empty}]
    BY DEF Init, FoundNothing, Found, PrivateAt, PublicAt, Keys
  <2>3. cut \subseteq Boards
    BY DEF Init, FoundNothing, Found, HalfMade
  <2> QED
    BY <1>1, <2>1, <2>2, <2>3 DEF Init, TypeOK, Rest, Phases
<1>3. DbOK
  BY <1>1 DEF DbOK
<1>4. UpOK /\ UpgradesOK /\ RequestsOK
  BY DEF Init, UpOK, UpgradesOK, RequestsOK, InUpgrade, Down, Up, Rest
<1> QED
  BY <1>2, <1>3, <1>4 DEF Inv1

(* While the server serves, no transaction of an upgrade is open.          *)
LEMMA ServingAlone ==
    ASSUME Inv1, proc[Server] = Up
    PROVE  db.ver = Latest /\ \A p \in Processes : ~InUpgrade(p)
<1>1. db.ver = Latest
  BY SetupAssumption DEF Inv1, UpOK
<1> QED
  BY <1>1 DEF Inv1, UpgradesOK, Latest

(* The moves of a process that leave the database as it is.                *)
Moments == [pc : {"down", "upgrade", "up"}, view : States, next : 0 .. Latest]

LEMMA ProcessMoves ==
    ASSUME Inv1, NEW p \in Processes, NEW s \in Moments,
           proc' = [proc EXCEPT ![p] = s],
           s = Up => db.ver = Latest,
           s.pc = "upgrade" => db.ver < Latest /\ Prepared(s.view, s.next),
           UNCHANGED <<db, private, public, refused>>,
           cut' \subseteq Boards,
           req' = req \/ req' = [r \in Requests |-> Rest]
    PROVE  Inv1'
<1> USE DEF Inv1
<1>1. /\ proc' \in [Processes -> Moments] /\ proc'[p] = s
      /\ \A q \in Processes : q # p => proc'[q] = proc[q]
  BY DEF TypeOK, Moments
<1>2. /\ req' \in [Requests -> [pc : Phases, board : Boards \cup {None}]]
      /\ RequestsOK'
  <2>1. CASE req' = req
    BY <2>1 DEF TypeOK, RequestsOK
  <2>2. CASE req' = [r \in Requests |-> Rest]
    BY <2>2 DEF RequestsOK, Rest, Phases
  <2> QED
    BY <2>1, <2>2
<1>3. TypeOK'
  BY <1>1, <1>2 DEF TypeOK, Moments
<1>4. UpOK'
  BY <1>1 DEF UpOK
<1>5. UpgradesOK'
  <2>1. ASSUME NEW q \in Processes, InUpgrade(q)'
        PROVE  (db.ver < Latest /\ Prepared(proc[q].view, proc[q].next))'
    <3>1. CASE q = p
      BY <1>1, <2>1, <3>1 DEF InUpgrade, Prepared
    <3>2. CASE q # p
      BY <1>1, <2>1, <3>2 DEF InUpgrade, Prepared, UpgradesOK
    <3> QED
      BY <3>1, <3>2
  <2> QED
    BY <2>1 DEF UpgradesOK
<1>6. DbOK'
  BY DEF DbOK, WellMade
<1> QED
  BY <1>2, <1>3, <1>4, <1>5, <1>6

(* ... and those that go on with an upgrade.                               *)
LEMMA ContinuesInv ==
    ASSUME Inv1, NEW p \in Processes, NEW d \in States, NEW n \in 0 .. Latest,
           Continues(p, d, n), db.ver < Latest, Prepared(d, n),
           UNCHANGED <<db, req, private, public, cut, refused>>
    PROVE  Inv1'
<1> DEFINE s == [pc |-> "upgrade", view |-> d, next |-> n]
<1>1. s \in Moments /\ s # Up /\ s.view = d /\ s.next = n
  BY DEF Moments, Up
<1>2. proc' = [proc EXCEPT ![p] = s]
  BY DEF Continues
<1> HIDE DEF s
<1> QED
  BY <1>1, <1>2, ProcessMoves DEF Inv1, TypeOK

LEMMA Start1 == ASSUME Inv1, NEW p \in Processes, Start(p) PROVE Inv1'
<1> USE DEF Inv1, Start
<1>1. CASE db.ver = Latest /\ proc' = [proc EXCEPT ![p] = Up]
  <2>1. Up \in Moments /\ Up.pc = "up"
    BY NoDatabaseType DEF Moments, Up, Latest
  <2> QED
    BY <1>1, <2>1, ProcessMoves DEF TypeOK
<1>2. CASE db.ver < Latest /\ Continues(p, db, db.ver)
  <2>1. db.ver \in 0 .. Latest /\ db \in States
    BY DEF TypeOK, States
  <2>2. Prepared(db, db.ver)
    BY <1>2, <2>1 DEF Prepared, DbOK, WellMade, Latest
  <2> QED
    BY <1>2, <2>1, <2>2, ContinuesInv
<1> QED
  BY <1>1, <1>2

LEMMA NewDatabase1 == ASSUME Inv1, NEW p \in Processes, NewDatabase(p) PROVE Inv1'
<1> USE DEF Inv1, NewDatabase
<1> DEFINE d == proc[p].view
           new == [Database(Latest, {}, {}, {}) EXCEPT !.ver = 0]
<1>1. d \in States /\ Prepared(d, 0) /\ db.ver < Latest /\ d = db
  BY DEF TypeOK, UpgradesOK, Prepared
<1>2. CASE "boards" \in d.schema /\ Continues(p, d, 1)
  <2>1. Prepared(d, 1)
    BY <1>1, <1>2 DEF Prepared, Latest
  <2> QED
    BY <1>1, <1>2, <2>1, ContinuesInv DEF Latest
<1>3. CASE "boards" \notin d.schema /\ Continues(p, new, Latest)
  <2>1. TablesOf({}) = {}
    BY DEF TablesOf
  <2>2. new \in States
    BY <2>1 DEF Database, States, Latest
  <2>3. db.rows = {} /\ db.posts = {} /\ db.replies = {}
    BY <1>1, <1>3, <2>1 DEF DbOK, WellMade
  <2>4. Prepared(new, Latest)
    BY <2>1, <2>3 DEF Prepared, Database, Latest
  <2> HIDE DEF new
  <2> QED
    BY <1>1, <1>3, <2>2, <2>4, ContinuesInv DEF Latest
<1> QED
  BY <1>2, <1>3

LEMMA Upgrade1 == ASSUME Inv1, NEW p \in Processes, Upgrade(p) PROVE Inv1'
<1> USE DEF Inv1, Upgrade
<1> DEFINE d == proc[p].view
           n == proc[p].next
<1>1. /\ d \in States /\ n \in 1 .. 3 /\ Prepared(d, n) /\ db.ver < Latest
      /\ n # 3 => TablesOf(d.rows) = d.posts
  <2>1. Prepared(d, n) /\ db.ver < Latest
    BY DEF UpgradesOK
  <2>2. d.posts \subseteq TablesOf(d.rows)
    BY <2>1 DEF DbOK, WellMade, Prepared
  <2>3. d \in States
    BY DEF TypeOK
  <2>4. n \in 1 .. 3
    BY DEF Latest
  <2>5. CanUpgrade(d, n)
    OBVIOUS
  <2> HIDE DEF d, n
  <2>6. n # 3 => TablesOf(d.rows) \subseteq d.posts
    <3>1. CASE n = 1
      BY <2>5, <3>1 DEF CanUpgrade
    <3>2. CASE n = 2
      BY <2>5, <3>2 DEF CanUpgrade
    <3> QED
      BY <2>4, <3>1, <3>2
  <2> QED
    BY <2>1, <2>2, <2>3, <2>4, <2>6
<1>2. Continues(p, Upgraded(d, n), n + 1)
  OBVIOUS
<1>3. Upgraded(d, n) \in States /\ Prepared(Upgraded(d, n), n + 1)
  <2>1. CASE n = 1
    BY <1>1, <2>1 DEF Upgraded, Prepared, States, Latest
  <2>2. CASE n = 2
    BY <1>1, <2>2 DEF Upgraded, Prepared, States, Latest
  <2>3. CASE n = 3
    BY <1>1, <2>3 DEF Upgraded, Prepared, States, Latest
  <2> QED
    BY <1>1, <2>1, <2>2, <2>3
<1> HIDE DEF d
<1> QED
  BY <1>1, <1>2, <1>3, ContinuesInv DEF Latest

LEMMA Commit1 == ASSUME Inv1, NEW p \in Processes, Commit(p) PROVE Inv1'
<1> USE DEF Inv1, Commit
<1> DEFINE d == proc[p].view
<1>1. d \in States /\ Prepared(d, Latest) /\ db.ver < Latest
  BY DEF TypeOK, UpgradesOK
<1>2. /\ d.flags = d.posts /\ d.linked = d.posts /\ d.replies \subseteq d.posts
      /\ {"boards", "email"} \subseteq d.schema
  <2>1. db.replies \subseteq db.posts
    BY <1>1 DEF DbOK, WellMade
  <2> QED
    BY <1>1, <2>1 DEF Prepared, Latest
<1>3. /\ db' \in States /\ db'.ver = Latest
      /\ db'.schema = d.schema /\ db'.posts = d.posts /\ db'.flags = d.flags
      /\ db'.linked = d.linked /\ db'.replies = d.replies
  BY <1>1 DEF States, Latest
<1>4. /\ proc' \in [Processes -> Moments] /\ proc'[p] = Up
      /\ \A q \in Processes : q # p => proc'[q] = proc[q]
  <2>1. Up \in Moments
    BY NoDatabaseType DEF Moments, Up, Latest
  <2> QED
    BY <2>1 DEF TypeOK, Moments
<1>5. TypeOK'
  BY <1>3, <1>4 DEF TypeOK, Moments
<1>6. DbOK'
  BY <1>2, <1>3, LatestWellMade DEF DbOK
<1>7. UpOK'
  BY <1>3 DEF UpOK
<1>8. UpgradesOK'
  BY <1>4 DEF UpgradesOK, InUpgrade, MayCommit, Up
<1>9. RequestsOK'
  BY DEF RequestsOK
<1> QED
  BY <1>5, <1>6, <1>7, <1>8, <1>9

-----------------------------------------------------------------------------
(* The requests.                                                           *)
LEMMA RequestMoves ==
    ASSUME Inv1, NEW r \in Requests
    PROVE  /\ \A pc \in Phases \ {"idle"} : req[r].pc # "idle" /\ Goes(r, pc) =>
                 RequestsOK' /\ req' \in [Requests -> [pc : Phases, board : Boards \cup {None}]]
           /\ Ends(r) =>
                 RequestsOK' /\ req' \in [Requests -> [pc : Phases, board : Boards \cup {None}]]
           /\ req[r].pc # "idle" => req[r].board \in Boards
           /\ req[r] # Rest => req[r].board \in Boards
<1> USE SetupAssumption DEF Inv1
<1>1. req \in [Requests -> [pc : Phases, board : Boards \cup {None}]]
  BY DEF TypeOK, Phases
<1>2. ASSUME NEW pc \in Phases \ {"idle"}, req[r].pc # "idle", Goes(r, pc)
      PROVE  RequestsOK' /\ req' \in [Requests -> [pc : Phases, board : Boards \cup {None}]]
  BY <1>1, <1>2 DEF Goes, RequestsOK
<1>3. ASSUME Ends(r)
      PROVE  RequestsOK' /\ req' \in [Requests -> [pc : Phases, board : Boards \cup {None}]]
  BY <1>1, <1>3 DEF Ends, Rest, RequestsOK, Phases
<1>4. req[r].pc # "idle" => req[r].board \in Boards
  BY <1>1 DEF RequestsOK
<1>5. req[r] # Rest => req[r].board \in Boards
  BY <1>1 DEF RequestsOK, Rest
<1> QED
  BY <1>2, <1>3, <1>4, <1>5 DEF Phases

(* Requests list boards and add tables with all their columns to a         *)
(* database that is upgraded.                                              *)
LEMMA TablesAdded ==
    ASSUME Inv1, proc[Server] = Up, proc' = proc, RequestsOK',
           req' \in [Requests -> [pc : Phases, board : Boards \cup {None}]],
           private' \in [Boards -> Keys \cup {None, Empty}],
           public' \in [Boards -> Keys \cup {None, Empty}],
           cut' \subseteq Boards, refused' \subseteq Boards,
           NEW new, NEW both \in SUBSET new,
           db' \in States, db'.ver = db.ver, db'.schema = db.schema,
           db'.posts = db.posts \cup new, db'.replies = db.replies \cup both,
           db'.flags = db.flags \cup new, db'.linked = db.linked \cup new
    PROVE  Inv1'
<1> USE DEF Inv1
<1>1. db.ver = Latest /\ \A p \in Processes : ~InUpgrade(p)
  BY ServingAlone
<1>2. TypeOK'
  BY DEF TypeOK, Phases
<1>3. DbOK'
  <2>1. /\ "email" \in db.schema /\ "boards" \in db.schema
        /\ db.flags = db.posts /\ db.linked = db.posts /\ db.replies \subseteq db.posts
    BY <1>1, LatestWellMade DEF DbOK
  <2>2. WellMade(db')
    BY <1>1, <2>1, LatestWellMade
  <2> QED
    BY <2>2 DEF DbOK
<1>4. UpOK'
  BY DEF UpOK
<1>5. UpgradesOK'
  BY <1>1 DEF UpgradesOK, InUpgrade
<1> QED
  BY <1>2, <1>3, <1>4, <1>5

(* Requests that leave the database as it is.                              *)
LEMMA FilesMove ==
    ASSUME Inv1, proc[Server] = Up, UNCHANGED <<db, proc>>, RequestsOK',
           req' \in [Requests -> [pc : Phases, board : Boards \cup {None}]],
           private' \in [Boards -> Keys \cup {None, Empty}],
           public' \in [Boards -> Keys \cup {None, Empty}],
           cut' \subseteq Boards, refused' \subseteq Boards
    PROVE  Inv1'
<1>1. db' \in States
  BY DEF Inv1, TypeOK
<1>2. /\ db'.ver = db.ver /\ db'.schema = db.schema
      /\ db'.posts = db.posts \cup {} /\ db'.replies = db.replies \cup {}
      /\ db'.flags = db.flags \cup {} /\ db'.linked = db.linked \cup {}
  OBVIOUS
<1>3. {} \in SUBSET {} /\ proc' = proc
  OBVIOUS
<1> QED
  BY <1>1, <1>2, <1>3, TablesAdded

LEMMA PostBoard1 ==
    ASSUME Inv1, NEW r \in Requests, NEW b \in Boards, PostBoard(r, b) PROVE Inv1'
<1> USE SetupAssumption DEF PostBoard, At
<1>1. /\ RequestsOK'
      /\ req' \in [Requests -> [pc : Phases, board : Boards \cup {None}]]
  BY DEF Inv1, TypeOK, RequestsOK, Phases
<1>2. /\ db' \in States /\ db'.ver = db.ver /\ db'.schema = db.schema
      /\ db'.posts = db.posts \cup {} /\ db'.replies = db.replies \cup {}
      /\ db'.flags = db.flags \cup {} /\ db'.linked = db.linked \cup {}
  BY DEF Inv1, TypeOK, States
<1> QED
  BY <1>1, <1>2, TablesAdded DEF Inv1, TypeOK

LEMMA Tables1 ==
    ASSUME Inv1, NEW r \in Requests, CreateTables(r) \/ TablesCutShort(r) PROVE Inv1'
<1> DEFINE t == Table[req[r].board]
<1>1. proc[Server] = Up /\ req[r].pc = "tables" /\ req[r].board \in Boards
  BY RequestMoves DEF CreateTables, TablesCutShort, At
<1>2. {t} \in SUBSET TablesOf(Boards)
  BY <1>1, TablesType
<1> HIDE DEF t
<1>3. /\ RequestsOK'
      /\ req' \in [Requests -> [pc : Phases, board : Boards \cup {None}]]
  BY <1>1, RequestMoves DEF CreateTables, TablesCutShort, Phases
<1>4. PICK both \in SUBSET {t} :
        db' = [db EXCEPT !.posts = @ \cup {t}, !.flags = @ \cup {t},
                         !.linked = @ \cup {t}, !.replies = @ \cup both]
  <2>1. CASE CreateTables(r)
    BY <2>1 DEF CreateTables, t
  <2>2. CASE TablesCutShort(r)
    <3>1. db' = [db EXCEPT !.posts = @ \cup {t}, !.flags = @ \cup {t},
                           !.linked = @ \cup {t}, !.replies = @ \cup {}]
      BY <2>2 DEF TablesCutShort, t, Inv1, TypeOK, States
    <3> QED
      BY <3>1
  <2> QED
    BY <2>1, <2>2
<1>5. /\ db' \in States /\ db'.ver = db.ver /\ db'.schema = db.schema
      /\ db'.posts = db.posts \cup {t} /\ db'.replies = db.replies \cup both
      /\ db'.flags = db.flags \cup {t} /\ db'.linked = db.linked \cup {t}
  BY <1>2, <1>4 DEF Inv1, TypeOK, States
<1>6. /\ UNCHANGED <<proc, private, public, refused>>
      /\ cut' \subseteq Boards
  BY <1>1 DEF CreateTables, TablesCutShort, Inv1, TypeOK
<1> QED
  BY <1>1, <1>3, <1>5, <1>6, TablesAdded DEF Inv1, TypeOK

LEMMA Files1 ==
    ASSUME Inv1, NEW r \in Requests,
           CreatePrivate(r) \/ WritePrivate(r) \/ CreatePublic(r) \/ WritePublic(r)
    PROVE  Inv1'
<1> DEFINE Files == [Boards -> Keys \cup {None, Empty}]
<1>1. proc[Server] = Up /\ req[r].pc # "idle"
  BY DEF CreatePrivate, WritePrivate, CreatePublic, WritePublic, At
<1>2. /\ RequestsOK'
      /\ req' \in [Requests -> [pc : Phases, board : Boards \cup {None}]]
  BY <1>1, RequestMoves DEF CreatePrivate, WritePrivate, CreatePublic, WritePublic, Phases
<1>3. private' \in Files /\ public' \in Files
  <2>1. private \in Files /\ public \in Files /\ r \in Keys
    BY DEF Inv1, TypeOK, Keys
  <2> QED
    BY <2>1 DEF CreatePrivate, WritePrivate, CreatePublic, WritePublic
<1>4. UNCHANGED <<db, proc, cut, refused>>
  BY DEF CreatePrivate, WritePrivate, CreatePublic, WritePublic
<1> QED
  BY <1>1, <1>2, <1>3, <1>4, FilesMove DEF Inv1, TypeOK

LEMMA RequestEnds1 ==
    ASSUME Inv1, NEW r \in Requests, TableExists(r) \/ RequestFails(r) PROVE Inv1'
<1>1. proc[Server] = Up /\ req[r].board \in Boards /\ Ends(r)
  BY RequestMoves DEF TableExists, RequestFails, At
<1>2. /\ RequestsOK'
      /\ req' \in [Requests -> [pc : Phases, board : Boards \cup {None}]]
  BY <1>1, RequestMoves
<1>3. /\ UNCHANGED <<db, proc, private, public>>
      /\ cut' \subseteq Boards /\ refused' \subseteq Boards
  BY <1>1 DEF TableExists, RequestFails, Inv1, TypeOK
<1> QED
  BY <1>1, <1>2, <1>3, FilesMove DEF Inv1, TypeOK

LEMMA Ended1 == ASSUME Inv1, NEW p \in Processes, RolledBack(p) \/ Kill(p) PROVE Inv1'
<1>1. Down \in Moments /\ Down.pc = "down" /\ Down # Up
  BY NoDatabaseType DEF Moments, Down, Up, Latest
<1>2. CASE RolledBack(p)
  BY <1>1, <1>2, ProcessMoves DEF RolledBack, Inv1, TypeOK
<1>3. CASE Kill(p)
  <2>1. cut' \subseteq Boards
    <3>1. \A r \in Pending : req[r].board \in Boards
      BY RequestMoves DEF Pending
    <3>2. cut \subseteq Boards /\ {req[r].board : r \in Pending} \subseteq Boards
      BY <3>1 DEF Inv1, TypeOK
    <3> QED
      BY <1>3, <3>2 DEF Kill
  <2> QED
    BY <1>1, <1>3, <2>1, ProcessMoves DEF Kill
<1> QED
  BY <1>2, <1>3

LEMMA Step1 == Inv1 /\ [Next]_vars => Inv1'
<1> SUFFICES ASSUME Inv1, [Next]_vars PROVE Inv1'
  OBVIOUS
<1>1. CASE UNCHANGED vars
  <2>1. TypeOK' /\ DbOK' /\ UpOK' /\ RequestsOK'
    BY <1>1 DEF Inv1, TypeOK, DbOK, UpOK, RequestsOK, vars
  <2>2. UpgradesOK'
    BY <1>1 DEF Inv1, UpgradesOK, Prepared, InUpgrade, vars
  <2> QED
    BY <2>1, <2>2 DEF Inv1
<1> QED
  BY <1>1, Start1, NewDatabase1, Upgrade1, Commit1, Ended1, PostBoard1, Tables1, Files1,
     RequestEnds1 DEF Next

LEMMA SpecInv1 == Spec => []Inv1
<1> QED
  BY Init1, Step1, PTL DEF Spec

(* Every variable keeps its type: tables of boards only, and keys that a   *)
(* request or an earlier version made.                                     *)
THEOREM TypeCorrect == Spec => []TypeOK
<1>1. Inv1 => TypeOK
  BY DEF Inv1
<1> QED
  BY <1>1, SpecInv1, PTL

(* The database is that of its version, whoever upgrades it at once and    *)
(* wherever they are stopped.                                              *)
THEOREM SchemaOfVersionHolds == Spec => []SchemaOfVersion
<1>1. Inv1 => SchemaOfVersion
  BY DEF Inv1, DbOK, WellMade, UpOK, SchemaOfVersion, Latest
<1> QED
  BY <1>1, SpecInv1, PTL

-----------------------------------------------------------------------------
(* The keys.  A request that got past CREATE TABLE is the only one for its *)
(* tables, no other id that shares them has a key, and the two files of    *)
(* its board are as far as it is.                                          *)
Makes(r, b) == req[r].pc \notin {"idle", "tables"} /\ req[r].board = b

Written(pc, r, priv, pub) ==
    /\ pc = "private" => priv = None /\ pub = None
    /\ pc = "private written" => priv = Empty /\ pub = None
    /\ pc = "public" => priv = r /\ pub = None
    /\ pc = "public written" => priv = r /\ pub = Empty

MakingOK ==
    \A r \in Requests, b \in Boards : Makes(r, b) =>
        /\ Table[b] \in db.replies
        /\ \A s \in Requests, c \in Boards : Makes(s, c) /\ Table[c] = Table[b] => s = r
        /\ \A c \in Boards \ {b} : Table[c] = Table[b] => private[c] = None
        /\ Written(req[r].pc, r, private[b], public[b])

PrivateFirst == \A b \in Boards : private[b] = None => public[b] = None

Inv2 == KeysMatch /\ PrivateFirst /\ MakingOK

LEMMA Init2 == Init => Inv2
<1> SUFFICES ASSUME Init PROVE Inv2
  OBVIOUS
<1> USE SetupAssumption
<1>1. MakingOK
  BY DEF Init, MakingOK, Makes, Rest
<1>2. PrivateFirst
  BY DEF Init, FoundNothing, Found, PrivateAt, PublicAt, PrivateFirst
<1>3. KeysMatch
  <2>1. CASE FoundNothing
    BY <2>1 DEF FoundNothing, KeysMatch, Keys
  <2>2. ASSUME NEW v \in 0 .. Latest, NEW boards \in SUBSET Boards,
               NEW at \in Progress(boards), Found(v, boards, at)
        PROVE  KeysMatch
    <3>0. /\ db.replies = RepliesAt(boards, at)
          /\ \A b \in boards : private[b] = PrivateAt(at[b]) /\ public[b] = PublicAt(at[b])
          /\ \A b \in Boards \ boards : private[b] = None /\ public[b] = None
      BY <2>2, FoundFacts
    <3>1. \A b \in Boards : private[b] # None =>
              b \in boards /\ at[b] \notin {"tables", "replies"}
      BY <3>0 DEF PrivateAt
    <3>2. \A b \in Boards : private[b] # None => Table[b] \in db.replies
      BY <3>0, <3>1 DEF TablesOf, RepliesAt
    <3>3. \A b \in Boards : public[b] \in Keys => private[b] = public[b]
      <4>1. ASSUME NEW b \in boards, public[b] \in Keys PROVE private[b] = public[b]
        <5>1. PublicAt(at[b]) \notin {None, Empty}
          BY <3>0, <4>1 DEF Keys
        <5>2. at[b] = "idle"
          BY <5>1 DEF PublicAt
        <5> QED
          BY <3>0, <5>2 DEF PublicAt, PrivateAt
      <4> QED
        BY <3>0, <4>1 DEF Keys
    <3>4. \A b, c \in Boards :
              Table[b] = Table[c] /\ None \notin {private[b], private[c]} => b = c
      BY <2>2, <3>1 DEF Progress, OneBoardEach
    <3> QED
      BY <3>2, <3>3, <3>4 DEF KeysMatch
  <2> QED
    BY <2>1, <2>2 DEF Init
<1> QED
  BY <1>1, <1>2, <1>3 DEF Inv2

(* Steps that touch no file and bring no request past CREATE TABLE.        *)
LEMMA FilesKept ==
    ASSUME Inv2, UNCHANGED <<private, public>>, db.replies \subseteq db'.replies,
           \A r \in Requests, b \in Boards : Makes(r, b)' => Makes(r, b) /\ req'[r] = req[r]
    PROVE  Inv2'
<1> USE DEF Inv2
<1>1. KeysMatch' /\ PrivateFirst'
  BY DEF KeysMatch, PrivateFirst
<1>2. MakingOK'
  BY DEF MakingOK
<1> QED
  BY <1>1, <1>2

LEMMA CreateTables2 ==
    ASSUME Inv1, Inv2, NEW r \in Requests, CreateTables(r) PROVE Inv2'
<1> USE SetupAssumption DEF Inv2
<1> DEFINE b == req[r].board
           t == Table[b]
<1>1. /\ b \in Boards /\ t \notin db.replies
      /\ \A s \in Requests \ {r} : req'[s] = req[s]
      /\ req'[r].board = b /\ req'[r].pc = "private"
      /\ UNCHANGED <<private, public>>
  <2>1. db.replies \subseteq db.posts
    BY DEF Inv1, DbOK, WellMade
  <2> QED
    BY <2>1, RequestMoves DEF CreateTables, At, Goes, Inv1, TypeOK
<1>2. db'.replies = db.replies \cup {t}
  BY DEF CreateTables, Inv1, TypeOK, States
<1> HIDE DEF b
<1>3. \A c \in Boards : Table[c] = t => private[c] = None /\ public[c] = None
  BY <1>1 DEF KeysMatch, PrivateFirst
<1>4. KeysMatch' /\ PrivateFirst'
  BY <1>1, <1>2 DEF KeysMatch, PrivateFirst
<1>5. /\ \A c \in Boards : Makes(r, c)' => c = b
      /\ \A s \in Requests \ {r}, c \in Boards :
            Makes(s, c)' => Makes(s, c) /\ req'[s] = req[s] /\ Table[c] # t
  BY <1>1 DEF Makes, MakingOK
<1>6. MakingOK'
  <2> SUFFICES ASSUME NEW s \in Requests, NEW c \in Boards, Makes(s, c)'
               PROVE  /\ Table[c] \in db'.replies
                      /\ \A q \in Requests, d \in Boards :
                            Makes(q, d)' /\ Table[d] = Table[c] => q = s
                      /\ \A d \in Boards \ {c} : Table[d] = Table[c] => private'[d] = None
                      /\ Written(req'[s].pc, s, private'[c], public'[c])
    BY DEF MakingOK
  <2>1. CASE s = r
    BY <1>1, <1>2, <1>3, <1>5, <2>1 DEF Written
  <2>2. CASE s # r
    BY <1>1, <1>2, <1>5, <2>2 DEF MakingOK
  <2> QED
    BY <2>1, <2>2
<1> QED
  BY <1>4, <1>6

(* The four steps of CreatePem: only files of the request's board change.  *)
LEMMA Files2 ==
    ASSUME Inv1, Inv2, NEW r \in Requests,
           CreatePrivate(r) \/ WritePrivate(r) \/ CreatePublic(r) \/ WritePublic(r)
    PROVE  Inv2'
<1> USE SetupAssumption DEF Inv2
<1> DEFINE b == req[r].board
<1>1. b \in Boards /\ Makes(r, b) /\ req[r].pc # "idle" /\ db' = db
  BY RequestMoves DEF CreatePrivate, WritePrivate, CreatePublic, WritePublic, At, Makes
<1>2. /\ Written(req[r].pc, r, private[b], public[b])
      /\ r \in Keys /\ r \notin {None, Empty} /\ {None, Empty} \cap Keys = {}
  BY <1>1 DEF MakingOK, Keys
<1>3. /\ req \in [Requests -> [pc : Phases, board : Boards \cup {None}]]
      /\ private \in [Boards -> Keys \cup {None, Empty}]
      /\ public \in [Boards -> Keys \cup {None, Empty}]
  BY DEF Inv1, TypeOK, Phases
<1>4. /\ \A c \in Boards \ {b} : private'[c] = private[c] /\ public'[c] = public[c]
      /\ \A s \in Requests \ {r} : req'[s] = req[s]
      /\ req'[r].board = b \/ req'[r].pc = "idle"
      /\ Written(req'[r].pc, r, private'[b], public'[b])
      /\ private'[b] # None
      /\ public'[b] \in Keys => private'[b] = public'[b]
  <2>1. CASE CreatePrivate(r)
    BY <1>1, <1>2, <1>3, <2>1 DEF CreatePrivate, At, Goes, Written
  <2>2. CASE WritePrivate(r)
    BY <1>1, <1>2, <1>3, <2>2 DEF WritePrivate, At, Goes, Written
  <2>3. CASE CreatePublic(r)
    BY <1>1, <1>2, <1>3, <2>3 DEF CreatePublic, At, Goes, Written
  <2>4. CASE WritePublic(r)
    BY <1>1, <1>2, <1>3, <2>4 DEF WritePublic, At, Ends, Rest, Written
  <2> QED
    BY <2>1, <2>2, <2>3, <2>4
<1> HIDE DEF b
<1>5. /\ Table[b] \in db.replies
      /\ \A c \in Boards \ {b} : Table[c] = Table[b] => private[c] = None
      /\ \A s \in Requests \ {r}, c \in Boards : Makes(s, c) => Table[c] # Table[b]
  BY <1>1 DEF MakingOK
<1>6. KeysMatch'
  BY <1>1, <1>4, <1>5 DEF KeysMatch
<1>7. PrivateFirst'
  BY <1>4 DEF PrivateFirst
<1>8. /\ \A c \in Boards : Makes(r, c)' => c = b
      /\ \A s \in Requests \ {r}, c \in Boards :
            Makes(s, c)' => Makes(s, c) /\ req'[s] = req[s]
  BY <1>4 DEF Makes
<1>9. MakingOK'
  <2> SUFFICES ASSUME NEW s \in Requests, NEW c \in Boards, Makes(s, c)'
               PROVE  /\ Table[c] \in db'.replies
                      /\ \A q \in Requests, d \in Boards :
                            Makes(q, d)' /\ Table[d] = Table[c] => q = s
                      /\ \A d \in Boards \ {c} : Table[d] = Table[c] => private'[d] = None
                      /\ Written(req'[s].pc, s, private'[c], public'[c])
    BY DEF MakingOK
  <2>1. CASE s = r
    BY <1>1, <1>4, <1>5, <1>8, <2>1
  <2>2. CASE s # r
    <3>1. Makes(s, c) /\ req'[s] = req[s] /\ Table[c] # Table[b] /\ c # b
      BY <1>5, <1>8, <2>2
    <3>2. \A d \in Boards : Table[d] = Table[c] => d # b
      BY <3>1
    <3> QED
      BY <1>1, <1>4, <1>5, <1>8, <2>2, <3>1, <3>2 DEF MakingOK
  <2> QED
    BY <2>1, <2>2
<1> QED
  BY <1>6, <1>7, <1>9

(* Steps after which the requests are as before, or ended.                 *)
LEMMA FewerRequests ==
    ASSUME Inv2, UNCHANGED <<private, public>>, db.replies \subseteq db'.replies,
           \A r \in Requests : req'[r] = req[r] \/ req'[r].pc \in {"idle", "tables"}
    PROVE  Inv2'
<1>1. \A r \in Requests, b \in Boards : Makes(r, b)' => Makes(r, b) /\ req'[r] = req[r]
  BY DEF Makes
<1> QED
  BY <1>1, FilesKept

LEMMA Process2 ==
    ASSUME Inv1, Inv2, NEW p \in Processes,
           Start(p) \/ NewDatabase(p) \/ Upgrade(p) \/ Commit(p) \/ RolledBack(p) \/ Kill(p)
    PROVE  Inv2'
<1>1. UNCHANGED <<private, public>>
  BY DEF Start, NewDatabase, Upgrade, Commit, RolledBack, Kill
<1>2. \A r \in Requests : req'[r] = req[r] \/ req'[r].pc \in {"idle", "tables"}
  BY DEF Start, NewDatabase, Upgrade, Commit, RolledBack, Kill, Rest
<1>3. db.replies \subseteq db'.replies
  <2>1. CASE Commit(p)
    <3>1. proc[p].view \in States /\ proc[p].view.replies = db.replies
      BY <2>1 DEF Commit, Inv1, TypeOK, UpgradesOK, Prepared
    <3>2. db'.replies = proc[p].view.replies
      BY <2>1, <3>1 DEF Commit, States
    <3> QED
      BY <3>1, <3>2
  <2>2. CASE ~Commit(p)
    BY <2>2 DEF Start, NewDatabase, Upgrade, RolledBack, Kill
  <2> QED
    BY <2>1, <2>2
<1> QED
  BY <1>1, <1>2, <1>3, FewerRequests

LEMMA Request2 ==
    ASSUME Inv1, Inv2, NEW r \in Requests,
           \/ \E b \in Boards : PostBoard(r, b)
           \/ TableExists(r) \/ TablesCutShort(r) \/ RequestFails(r)
    PROVE  Inv2'
<1>1. UNCHANGED <<private, public>>
  BY DEF PostBoard, TableExists, TablesCutShort, RequestFails
<1>2. \A s \in Requests : req'[s] = req[s] \/ req'[s].pc \in {"idle", "tables"}
  <2>1. req = [s \in Requests |-> req[s]]
    BY DEF Inv1, TypeOK
  <2>2. CASE Ends(r)
    BY <2>1, <2>2 DEF Ends, Rest
  <2>3. ASSUME NEW b \in Boards, PostBoard(r, b)
        PROVE  \A s \in Requests : req'[s] = req[s] \/ req'[s].pc \in {"idle", "tables"}
    BY <2>1, <2>3 DEF PostBoard
  <2> QED
    BY <2>2, <2>3 DEF TableExists, TablesCutShort, RequestFails
<1>3. db'.replies = db.replies
  BY DEF PostBoard, TableExists, TablesCutShort, RequestFails, Inv1, TypeOK, States
<1> QED
  BY <1>1, <1>2, <1>3, FewerRequests

LEMMA Step2 == Inv1 /\ Inv2 /\ [Next]_vars => Inv2'
<1> SUFFICES ASSUME Inv1, Inv2, [Next]_vars PROVE Inv2'
  OBVIOUS
<1>1. CASE UNCHANGED vars
  BY <1>1, FewerRequests DEF vars
<1> QED
  BY <1>1, Process2, Request2, CreateTables2, Files2 DEF Next

LEMMA SpecInv2 == Spec => [](Inv1 /\ Inv2)
<1> QED
  BY Init1, Init2, Step1, Step2, PTL DEF Spec

(* The two files of a board hold one key, the board has its tables, and of *)
(* ids that share tables one has keys, however requests interleave.        *)
THEOREM KeysMatchHolds == Spec => []KeysMatch
<1>1. Inv2 => KeysMatch
  BY DEF Inv2
<1> QED
  BY <1>1, SpecInv2, PTL

(* Only the request that makes a board writes its keys, and its public one *)
(* is not written yet.                                                     *)
LEMMA KeysStayStep ==
    ASSUME Inv1, Inv2, [Next]_vars
    PROVE  \A b \in Boards : public[b] \in Keys =>
               public'[b] = public[b] /\ private'[b] = private[b]
<1>1. ASSUME NEW r \in Requests, NEW b \in Boards, public[b] \in Keys,
             CreatePrivate(r) \/ WritePrivate(r) \/ CreatePublic(r) \/ WritePublic(r)
      PROVE  public'[b] = public[b] /\ private'[b] = private[b]
  <2>1. req[r].board \in Boards /\ Makes(r, req[r].board)
    BY <1>1, RequestMoves
    DEF CreatePrivate, WritePrivate, CreatePublic, WritePublic, At, Makes
  <2>2. public[req[r].board] \notin Keys
    BY <1>1, <2>1, SetupAssumption
    DEF CreatePrivate, WritePrivate, CreatePublic, WritePublic, At, Inv2, MakingOK,
        Written, Keys
  <2> QED
    BY <1>1, <2>2
    DEF CreatePrivate, WritePrivate, CreatePublic, WritePublic, Inv1, TypeOK
<1> QED
  BY <1>1
  DEF Next, vars, Start, NewDatabase, Upgrade, Commit, RolledBack, Kill, PostBoard,
      CreateTables, TableExists, TablesCutShort, RequestFails

(* A public key never changes once it is written, nor its private one.     *)
THEOREM KeysStayHolds == Spec => KeysStay
<1>1. Inv1 /\ Inv2 /\ [Next]_vars =>
      [\A b \in Boards : public[b] \in Keys =>
           public'[b] = public[b] /\ private'[b] = private[b]]_vars
  BY KeysStayStep
<1> QED
  BY <1>1, SpecInv2, PTL DEF Spec, KeysStay

-----------------------------------------------------------------------------
(* The boards that are listed.                                             *)
Made(b) ==
    \/ Table[b] \in db.replies /\ public[b] \in Keys
    \/ b \in cut \cup refused

LEMMA Init3 == Init => ListedIsMade
<1> SUFFICES ASSUME Init, NEW b \in db.rows PROVE Made(b)
  BY DEF ListedIsMade, Made
<1>1. db # NoDatabase
  BY DEF NoDatabase
<1>2. PICK v \in 0 .. Latest, boards \in SUBSET Boards :
          \E at \in Progress(boards) : Found(v, boards, at)
  BY <1>1 DEF Init, FoundNothing
<1>3. PICK at \in Progress(boards) : Found(v, boards, at)
  BY <1>2
<1>4. /\ db.rows = boards
      /\ db.replies = RepliesAt(boards, at)
      /\ \A x \in boards : public[x] = PublicAt(at[x])
      /\ cut = HalfMade(boards, at)
  BY <1>3, FoundFacts
<1>5. CASE at[b] = "idle"
  <2>1. Table[b] \in db.replies /\ public[b] = Earlier
    BY <1>4, <1>5 DEF TablesOf, RepliesAt, PublicAt
  <2> QED
    BY <2>1 DEF Made, Keys
<1>6. CASE at[b] # "idle"
  BY <1>4, <1>6 DEF Made, HalfMade
<1> QED
  BY <1>5, <1>6

(* Tables and keys stay, and a request leaves its board only if that is    *)
(* made, or its making was cut short or refused.                           *)
LEMMA ListedStays ==
    ASSUME ListedIsMade, db.replies \subseteq db'.replies,
           \A b \in Boards : public[b] \in Keys => public'[b] = public[b],
           cut \cup refused \subseteq cut' \cup refused',
           \A b \in db'.rows \ db.rows : \E r \in Requests : req'[r].board = b,
           db'.rows \subseteq Boards,
           \A r \in Requests, b \in Boards :
               req[r].board = b => req'[r].board = b \/ Made(b)'
    PROVE  ListedIsMade'
<1> SUFFICES ASSUME NEW b \in db'.rows
             PROVE  Made(b)' \/ \E r \in Requests : req'[r].board = b
  BY DEF ListedIsMade, Made
<1>1. CASE b \notin db.rows
  BY <1>1
<1>2. CASE b \in db.rows
  <2>1. CASE Made(b)
    BY <2>1 DEF Made
  <2>2. ASSUME NEW r \in Requests, req[r].board = b
        PROVE  Made(b)' \/ \E s \in Requests : req'[s].board = b
    BY <2>2
  <2> QED
    BY <1>2, <2>1, <2>2 DEF ListedIsMade, Made
<1> QED
  BY <1>1, <1>2

LEMMA Process3 ==
    ASSUME Inv1, ListedIsMade, NEW p \in Processes,
           Start(p) \/ NewDatabase(p) \/ Upgrade(p) \/ Commit(p) \/ RolledBack(p) \/ Kill(p)
    PROVE  ListedIsMade'
<1>1. db'.replies = db.replies /\ db'.rows = db.rows
  <2>1. CASE Commit(p)
    <3>1. /\ proc[p].view \in States
          /\ proc[p].view.replies = db.replies /\ proc[p].view.rows = db.rows
      BY <2>1 DEF Commit, Inv1, TypeOK, UpgradesOK, Prepared
    <3>2. db'.replies = proc[p].view.replies /\ db'.rows = proc[p].view.rows
      BY <2>1, <3>1 DEF Commit, States
    <3> QED
      BY <3>1, <3>2
  <2>2. CASE ~Commit(p)
    BY <2>2 DEF Start, NewDatabase, Upgrade, RolledBack, Kill
  <2> QED
    BY <2>1, <2>2
<1>2. /\ UNCHANGED <<private, public>>
      /\ cut \cup refused \subseteq cut' \cup refused'
  BY DEF Start, NewDatabase, Upgrade, Commit, RolledBack, Kill
<1>3. ASSUME NEW r \in Requests, NEW b \in Boards, req[r].board = b
      PROVE  req'[r].board = b \/ Made(b)'
  <2>1. CASE UNCHANGED req
    BY <1>3, <2>1
  <2>2. CASE cut' = cut \cup {req[s].board : s \in Pending}
    <3>1. r \in Pending
      BY <1>3, SetupAssumption DEF Pending, Rest
    <3> QED
      BY <1>3, <2>2, <3>1 DEF Made
  <2> QED
    BY <2>1, <2>2 DEF Start, NewDatabase, Upgrade, Commit, RolledBack, Kill
<1>4. db'.rows \subseteq Boards
  BY <1>1 DEF Inv1, TypeOK, States
<1> QED
  BY <1>1, <1>2, <1>3, <1>4, ListedStays

LEMMA Request3 ==
    ASSUME Inv1, Inv2, ListedIsMade, NEW r \in Requests,
           \/ \E b \in Boards : PostBoard(r, b)
           \/ CreateTables(r) \/ TableExists(r) \/ TablesCutShort(r)
           \/ CreatePrivate(r) \/ WritePrivate(r) \/ CreatePublic(r) \/ WritePublic(r)
           \/ RequestFails(r),
           \A b \in Boards : public[b] \in Keys => public'[b] = public[b]
    PROVE  ListedIsMade'
<1> USE SetupAssumption
<1>1. req = [s \in Requests |-> req[s]]
  BY DEF Inv1, TypeOK
<1>2. cut \cup refused \subseteq cut' \cup refused'
  BY DEF PostBoard, CreateTables, TableExists, TablesCutShort, CreatePrivate, WritePrivate,
         CreatePublic, WritePublic, RequestFails
<1>3. /\ db.replies \subseteq db'.replies /\ db'.rows \subseteq Boards
      /\ \A b \in db'.rows \ db.rows : \E s \in Requests : req'[s].board = b
  <2>0. db \in States /\ db.rows \subseteq Boards
    BY DEF Inv1, TypeOK, States
  <2>1. ASSUME NEW b \in Boards, PostBoard(r, b)
        PROVE  /\ db.replies \subseteq db'.replies /\ db'.rows \subseteq Boards
               /\ \A c \in db'.rows \ db.rows : \E s \in Requests : req'[s].board = c
    <3>1. db'.replies = db.replies /\ db'.rows = db.rows \cup {b}
      BY <2>0, <2>1 DEF PostBoard, States
    <3>2. req'[r].board = b
      BY <1>1, <2>1 DEF PostBoard
    <3> QED
      BY <2>0, <3>1, <3>2
  <2>2. CASE CreateTables(r) \/ TablesCutShort(r)
    <3>1. db.replies \subseteq db'.replies /\ db'.rows = db.rows
      BY <2>0, <2>2 DEF CreateTables, TablesCutShort, States
    <3> QED
      BY <2>0, <3>1
  <2>3. CASE UNCHANGED db
    BY <2>3 DEF Inv1, TypeOK, States
  <2> QED
    BY <2>1, <2>2, <2>3
    DEF TableExists, CreatePrivate, WritePrivate, CreatePublic, WritePublic, RequestFails
<1>4. \A s \in Requests \ {r} : req'[s] = req[s]
  BY <1>1 DEF PostBoard, CreateTables, TableExists, TablesCutShort, CreatePrivate,
         WritePrivate, CreatePublic, WritePublic, RequestFails, Goes, Ends
<1>5. ASSUME NEW b \in Boards, req[r].board = b
      PROVE  req'[r].board = b \/ Made(b)'
  <2>1. req[r].pc # "idle"
    BY <1>5 DEF Inv1, RequestsOK
  <2>2. CASE \E pc \in Phases : Goes(r, pc)
    BY <1>5, <2>2 DEF Goes, Inv1, TypeOK
  <2>3. CASE b \in cut' \cup refused'
    BY <2>3 DEF Made
  <2>4. CASE WritePublic(r)
    <3>1. Table[b] \in db.replies
      BY <1>5, <2>4 DEF WritePublic, At, Inv2, MakingOK, Makes
    <3>2. db' = db /\ public'[b] = r
      BY <1>5, <2>4 DEF WritePublic, Inv1, TypeOK
    <3> QED
      BY <3>1, <3>2 DEF Made, Keys
  <2> QED
    BY <1>5, <2>1, <2>2, <2>3, <2>4
    DEF PostBoard, At, CreateTables, TableExists, TablesCutShort, CreatePrivate,
        WritePrivate, CreatePublic, RequestFails, Phases
<1> QED
  BY <1>2, <1>3, <1>4, <1>5, ListedStays

LEMMA Step3 == Inv1 /\ Inv2 /\ ListedIsMade /\ [Next]_vars => ListedIsMade'
<1> SUFFICES ASSUME Inv1, Inv2, ListedIsMade, [Next]_vars PROVE ListedIsMade'
  OBVIOUS
<1>1. CASE UNCHANGED vars
  BY <1>1 DEF vars, ListedIsMade
<1> QED
  BY <1>1, Process3, Request3, KeysStayStep DEF Next

(* A listed board has its tables and keys, unless a request still makes it *)
(* or a request for it was cut short or refused.                           *)
THEOREM ListedIsMadeHolds == Spec => []ListedIsMade
<1> QED
  BY Init3, Step3, SpecInv2, PTL DEF Spec

-----------------------------------------------------------------------------
(* Upgrades that cannot be done. *)

(* Nothing is requested of a server that does not serve.                   *)
Quiet == proc[Server] # Up => \A r \in Requests : req[r].board = None

LEMMA QuietStep == ASSUME Inv1, Quiet, [Next]_vars PROVE Quiet'
<1>1. CASE UNCHANGED vars
  BY <1>1 DEF vars, Quiet
<1>2. ASSUME NEW r \in Requests,
             \/ \E b \in Boards : PostBoard(r, b)
             \/ CreateTables(r) \/ TableExists(r) \/ TablesCutShort(r)
             \/ CreatePrivate(r) \/ WritePrivate(r) \/ CreatePublic(r) \/ WritePublic(r)
             \/ RequestFails(r)
      PROVE  Quiet'
  BY <1>2 DEF PostBoard, CreateTables, TableExists, TablesCutShort, CreatePrivate,
     WritePrivate, CreatePublic, WritePublic, RequestFails, At, Quiet
<1>3. ASSUME NEW p \in Processes, Kill(p) PROVE Quiet'
  BY <1>3, SetupAssumption DEF Kill, Quiet, Rest, Inv1, TypeOK
<1>4. ASSUME NEW p \in Processes,
             Start(p) \/ NewDatabase(p) \/ Upgrade(p) \/ Commit(p) \/ RolledBack(p)
      PROVE  Quiet'
  <2>1. proc[p] # Up /\ req' = req
    BY <1>4 DEF Start, NewDatabase, Upgrade, Commit, RolledBack, InUpgrade, Down, Up
  <2>2. \A q \in Processes \ {p} : proc'[q] = proc[q]
    BY <1>4 DEF Start, NewDatabase, Upgrade, Commit, RolledBack, Continues, Inv1, TypeOK
  <2> QED
    BY <2>1, <2>2, SetupAssumption DEF Quiet
<1> QED
  BY <1>1, <1>2, <1>3, <1>4 DEF Next

(* Only a board whose making was cut short or refused keeps an upgrade     *)
(* from being done, wherever the processes before were stopped             *)
(* (UpgradeApplies).                                                       *)
THEOREM UpgradeAppliesHolds == Spec => []UpgradeApplies
<1>1. Init => Quiet
  BY DEF Init, Quiet, Rest
<1>2. ASSUME Inv1, Inv2, ListedIsMade, Quiet PROVE UpgradeApplies
  <2> SUFFICES ASSUME NEW p \in Processes, InUpgrade(p), proc[p].next \in 1 .. Latest - 1,
                      db.rows \cap (cut \cup refused) = {}
               PROVE  Upgradable(proc[p].view, proc[p].next)
    BY DEF UpgradeApplies
  <2> DEFINE d == proc[p].view
             n == proc[p].next
  <2>1. Prepared(d, n) /\ db.ver < Latest
    BY <1>2 DEF Inv1, UpgradesOK
  <2>2. \A r \in Requests : req[r].board = None
    <3>1. proc[Server] # Up
      BY <1>2, <2>1, SetupAssumption DEF Inv1, UpOK, Latest
    <3> QED
      BY <1>2, <3>1 DEF Quiet
  <2>3. db.rows \subseteq Boards /\ None \notin Boards /\ None \notin Keys
    BY <1>2, SetupAssumption DEF Inv1, TypeOK, States, Keys
  <2>4. \A b \in db.rows : Table[b] \in db.replies /\ public[b] \in Keys
    BY <1>2, <2>2, <2>3 DEF ListedIsMade
  <2>5. \A b, c \in db.rows : Table[b] = Table[c] => b = c
    BY <1>2, <2>3, <2>4 DEF Inv2, KeysMatch
  <2>6. TablesOf(db.rows) \subseteq db.replies /\ db.replies \subseteq db.posts
    BY <1>2, <2>4 DEF TablesOf, Inv1, DbOK, WellMade
  <2>7. n \in 1 .. 3
    BY DEF Latest
  <2>8. /\ TablesOf(d.rows) \subseteq d.posts /\ TablesOf(d.rows) \subseteq d.replies
        /\ OneBoardEach(d.rows)
        /\ n = 1 => d.flags = {}
        /\ "boards" \in d.schema /\ "email" \notin d.schema
    BY <2>1, <2>5, <2>6, <2>7 DEF Prepared, OneBoardEach, Latest
  <2> HIDE DEF d, n
  <2>9. CanUpgrade(d, n)
    <3>1. CASE n = 1
      BY <2>8, <3>1 DEF CanUpgrade
    <3>2. CASE n = 2
      BY <2>8, <3>2 DEF CanUpgrade
    <3>3. CASE n = 3
      BY <2>8, <3>3 DEF CanUpgrade
    <3> QED
      BY <2>7, <3>1, <3>2, <3>3
  <2>10. Upgradable(d, n)
    BY <2>8, <2>9 DEF Upgradable
  <2> QED
    BY <2>10 DEF d, n
<1> QED
  BY <1>1, <1>2, QuietStep, SpecInv2, ListedIsMadeHolds, PTL DEF Spec
=============================================================================
