------------------------------- MODULE Pages -------------------------------
(***************************************************************************)
(* The pages made of several reads of one board: the index, page by page,  *)
(* the catalog and a thread (routes/board.go), and the outbox that other   *)
(* instances read (fedi/generate.go).  Each read is one statement of       *)
(* database/sqlite3.go, and the board may change between any two.          *)
(*                                                                         *)
(* There is one visitor: reading changes nothing, so that what one sees    *)
(* does not depend on the others.                                          *)
(***************************************************************************)
EXTENDS Integers, FiniteSets

CONSTANTS
    MaxPosts,   \* posts ever made
    MaxTime,    \* how long the clock is watched, in seconds
    Dates,      \* when threads from elsewhere say that they were published
    PerPage,    \* config.ThreadsPerPage, 10
    Replies,    \* replies of a thread that the index shows, 5
    None        \* no row

ASSUME PagesAssumption ==
    /\ MaxPosts \in Nat /\ MaxTime \in Nat /\ Dates \subseteq Nat
    /\ PerPage \in Nat \ {0} /\ Replies \in Nat \ {0}
    /\ None \notin [thread : Nat, bump : Nat, local : BOOLEAN]

VARIABLES
    now,        \* the clock
    seq,        \* the last id handed out
    posts,      \* the rows of posts_<board>
    opened,     \* ids that opened a thread, removed since or not
    visit,      \* what the visitor reads, and what was shown
    past        \* history: what happened to the board since the visit began

vars == <<now, seq, posts, opened, visit, past>>

-----------------------------------------------------------------------------
Ids == 1 .. MaxPosts

(* A row: the thread it replies to or 0, and for one that opens a thread   *)
(* its bumpdate and whether it was made here.                              *)
Row(thread, bump, local) == [thread |-> thread, bump |-> bump, local |-> local]
Standing == {id \in Ids : posts[id] # None}
OPs == {id \in Standing : posts[id].thread = 0}
InThread(t) == {id \in Standing : id = t \/ posts[id].thread = t}

(* One thread is above another; the sorting of SQLite is stable.           *)
Above(t, u) ==
    \/ posts[t].bump > posts[u].bump
    \/ posts[t].bump = posts[u].bump /\ t < u

(* The place of a thread in that order, from 1.                            *)
Place(t) == Cardinality({u \in OPs : Above(u, t)}) + 1

(* Slip: one row too many. *)
SlipSlice(page) ==
    {t \in OPs : (page - 1) * PerPage < Place(t) /\ Place(t) <= page * PerPage + 1}

(* LIMIT and OFFSET. *)
Slice(page) ==
    {t \in OPs : (page - 1) * PerPage < Place(t) /\ Place(t) <= page * PerPage}

(* Threads; the page 0 is all of them. *)
Threads(page) == IF page = 0 THEN OPs ELSE Slice(page)

Latest(t) == {id \in InThread(t) : id # t /\ Cardinality({x \in InThread(t) : x > id}) < Replies}

(* Thread, whose rows come by id; no rows at all are an error.             *)
Thread(t, tail) ==
    IF tail > 0 THEN Latest(t) \cup (InThread(t) \cap {t}) ELSE InThread(t)

(* Slip: counts the replies. *)
SlipThreadStat(t) == Cardinality(InThread(t) \ {t})

ThreadStat(t) == Cardinality(InThread(t))

(* Slip: rounded down. *)
SlipPagesOf(n) == n \div PerPage

(* How many pages the index has. *)
PagesOf(n) == (n + PerPage - 1) \div PerPage

-----------------------------------------------------------------------------
(* A visit: its kind and next step; the page of the index; the threads     *)
(* still to be read, each with the place it was listed at; what was read   *)
(* of the first of these, and the last id at that moment (history); the    *)
(* entry shown last, and the threads shown, once and again.                *)
Entry(t, ids, n) == [thread |-> t, posts |-> ids, n |-> n]
NoEntry == Entry(0, {}, 0)
Visit(kind, pc, page, todo, read, upto, entry, seen, again) ==
    [kind |-> kind, pc |-> pc, page |-> page, todo |-> todo, read |-> read, upto |-> upto,
     entry |-> entry, seen |-> seen, again |-> again]
Away == Visit("none", "away", 0, <<>>, {}, 0, NoEntry, {}, {})

Past(start, moved, removed, back) ==
    [start |-> start, moved |-> moved, removed |-> removed, back |-> back]
Nothing == Past({}, {}, FALSE, FALSE)

Init ==
    /\ now = 0 /\ seq = 0 /\ opened = {}
    /\ posts = [id \in Ids |-> None]
    /\ visit = Away /\ past = Nothing

Reading == visit.pc # "away"
Remember(moved, removed, back) ==
    past' = IF Reading
            THEN Past(past.start, past.moved \cup moved, past.removed \/ removed, past.back \/ back)
            ELSE Nothing

-----------------------------------------------------------------------------
(* What happens to the board meanwhile. *)
Tick ==
    /\ now < MaxTime
    /\ now' = now + 1
    /\ UNCHANGED <<seq, posts, opened, visit, past>>

NewThread(date, local) ==
    /\ seq < MaxPosts
    /\ seq' = seq + 1
    /\ posts' = [posts EXCEPT ![seq'] = Row(0, date, local)]
    /\ opened' = opened \cup {seq'}
    /\ Remember({seq'}, FALSE, FALSE)
    /\ UNCHANGED <<now, visit>>

(* A thread posted here, and one that came with a date of its own.         *)
PostThread == NewThread(now, TRUE)
ImportThread(date) == NewThread(date, FALSE)

(* The thread was found when the reply was asked for; it may have been     *)
(* removed since.  Without sage it is bumped, if it is there.              *)
PostReply(t, sage) ==
    LET bumps == ~sage /\ posts[t] # None IN
    /\ seq < MaxPosts
    /\ t \in opened
    /\ seq' = seq + 1
    /\ posts' = [id \in Ids |->
                    IF id = seq' THEN Row(t, 0, TRUE)
                    ELSE IF bumps /\ id = t THEN Row(0, now, posts[t].local)
                    ELSE posts[id]]
    /\ Remember(IF bumps THEN {t} ELSE {}, FALSE, bumps /\ posts[t].bump > now)
    /\ UNCHANGED <<now, opened, visit>>

DeleteThread(t) ==
    /\ t \in OPs
    /\ posts' = [id \in Ids |-> IF id \in InThread(t) THEN None ELSE posts[id]]
    /\ Remember({}, TRUE, FALSE)
    /\ UNCHANGED <<now, seq, opened, visit>>

DeletePost(id) ==
    /\ id \in Standing \ OPs
    /\ posts' = [posts EXCEPT ![id] = None]
    /\ UNCHANGED <<now, seq, opened, visit, past>>

Change ==
    \/ Tick \/ PostThread
    \/ \E d \in Dates : ImportThread(d)
    \/ \E t \in opened : DeleteThread(t) \/ \E sage \in BOOLEAN : PostReply(t, sage)
    \/ \E id \in Ids : DeletePost(id)

-----------------------------------------------------------------------------
Steps(to) == visit' = to /\ UNCHANGED <<now, seq, posts, opened, past>>
Begin(to) ==
    /\ visit = Away
    /\ visit' = to
    /\ past' = Past(OPs, {}, FALSE, FALSE)
    /\ UNCHANGED <<now, seq, posts, opened>>

(* The index is walked from its first page to the one that does not exist. *)
GetBoardIndex == Begin(Visit("index", "count", 1, <<>>, {}, 0, NoEntry, {}, {}))
GetBoardCatalog == Begin(Visit("catalog", "list", 0, <<>>, {}, 0, NoEntry, {}, {}))
GetBoardOutbox == Begin(Visit("outbox", "list", 0, <<>>, {}, 0, NoEntry, {}, {}))

(* The post that was asked for opens a thread. *)
GetBoardThread(t) ==
    /\ t \in OPs
    /\ Begin(Visit("thread", "read", 0, [u \in {t} |-> 1], {}, 0, NoEntry, {}, {}))

(* Board counts the threads; a page beyond the last is not shown.          *)
PageExists ==
    LET pages == PagesOf(Cardinality(OPs)) IN
    /\ visit.pc = "count"
    /\ visit.page <= pages \/ pages = 0
    /\ Steps([visit EXCEPT !.pc = "list"])

NoSuchPage ==
    LET pages == PagesOf(Cardinality(OPs)) IN
    /\ visit.pc = "count"
    /\ visit.page > pages /\ pages # 0
    /\ Steps([visit EXCEPT !.pc = "over"])

(* The threads to read; the outbox leaves out those from elsewhere.        *)
List ==
    LET listed == {t \in Threads(visit.page) : visit.kind # "outbox" \/ posts[t].local}
    IN
    /\ visit.pc = "list"
    /\ Steps([visit EXCEPT
                !.todo = [t \in listed |-> Place(t)],
                !.pc = IF listed = {} THEN "over"
                       ELSE IF visit.kind = "catalog" THEN "stat" ELSE "read",
                !.again = visit.again \cup (listed \cap visit.seen)])

Todo == DOMAIN visit.todo
First == CHOOSE t \in Todo : \A u \in Todo : visit.todo[t] <= visit.todo[u]
Rest == [t \in Todo \ {First} |-> visit.todo[t]]
NextRead == IF visit.kind = "catalog" THEN "stat" ELSE "read"

(* An entry is shown, and the visitor goes on.                             *)
Shows(entry) ==
    LET last == Todo = {First} IN
    Steps([visit EXCEPT
            !.todo = Rest, !.read = {}, !.entry = entry, !.seen = @ \cup {entry.thread},
            !.page = IF last /\ visit.kind = "index" THEN @ + 1 ELSE @,
            !.pc = CASE ~last -> NextRead
                     [] last /\ visit.kind = "index" -> "count"
                     [] OTHER -> "over"])

Shown == IF visit.kind = "index" THEN Thread(First, Replies) ELSE Thread(First, 0)

(* There is no row left: the page is an error. *)
ReadNothing ==
    /\ visit.pc = "read"
    /\ Shown = {}
    /\ Steps([visit EXCEPT !.pc = "failed"])

(* Slip: whatever Thread returned is shown. *)
SlipRead ==
    /\ visit.pc = "read" /\ visit.kind # "outbox"
    /\ Steps([visit EXCEPT !.pc = "stat", !.read = Shown, !.upto = seq])

Read ==
    /\ visit.pc = "read" /\ visit.kind # "outbox"
    /\ Shown # {}
    /\ Steps([visit EXCEPT !.pc = "stat", !.read = Shown, !.upto = seq])

(* Slip: all but the first two. *)
SlipRepliesOf(ids) == {id \in ids : Cardinality({x \in ids : x < id}) >= 2}

(* All but the first, which is taken for the one that opened the thread.   *)
RepliesOf(ids) == {id \in ids : \E x \in ids : x < id}

(* The thread as it was listed, with the replies as they are now.          *)
ReadOutbox ==
    /\ visit.pc = "read" /\ visit.kind = "outbox"
    /\ Shown # {}
    /\ LET entry == Entry(First, RepliesOf(Shown), 0) IN
       Steps([visit EXCEPT
                !.todo = Rest, !.upto = seq, !.entry = entry, !.seen = @ \cup {First},
                !.pc = IF Todo = {First} THEN "over" ELSE "read"])

(* The catalog shows the opening post only, as it was listed.              *)
Stat ==
    /\ visit.pc = "stat"
    /\ Shows(Entry(First, IF visit.kind = "catalog" THEN {First} ELSE visit.read,
                   ThreadStat(First)))

Leave ==
    /\ visit.pc \in {"over", "failed"}
    /\ visit' = Away /\ past' = Nothing
    /\ UNCHANGED <<now, seq, posts, opened>>

Next ==
    \/ Change
    \/ GetBoardIndex \/ GetBoardCatalog \/ GetBoardOutbox
    \/ \E t \in opened : GetBoardThread(t)
    \/ PageExists \/ NoSuchPage \/ List \/ ReadNothing \/ Read \/ ReadOutbox \/ Stat
    \/ Leave

Spec == Init /\ [][Next]_vars

-----------------------------------------------------------------------------
Times == 0 .. MaxTime
Queues == UNION {[S -> Ids] : S \in SUBSET Ids}
Rows == [thread : {0} \cup Ids, bump : Times \cup Dates, local : BOOLEAN]

TypeOK ==
    /\ now \in Times /\ seq \in {0} \cup Ids
    /\ posts \in [Ids -> Rows \cup {None}]
    /\ opened \subseteq Ids
    /\ visit \in [kind : {"none", "index", "catalog", "outbox", "thread"},
                  pc : {"away", "count", "list", "read", "stat", "over", "failed"},
                  page : 0 .. MaxPosts + 1, todo : Queues, read : SUBSET Ids,
                  upto : {0} \cup Ids, seen : SUBSET Ids, again : SUBSET Ids,
                  entry : [thread : {0} \cup Ids, posts : SUBSET Ids, n : 0 .. MaxPosts]]
    /\ past \in [start : SUBSET Ids, moved : SUBSET Ids, removed : BOOLEAN, back : BOOLEAN]
    /\ visit.kind \in {"index", "thread"} /\ visit.pc = "stat" => visit.read # {}  \* the template takes the first

Over(kind) == visit.kind = kind /\ visit.pc = "over"

(* Whoever walks the index to its end has seen every thread that was there *)
(* all the time and was not bumped, unless a thread was removed meanwhile, *)
(* or one that was dated in the future came back to the present.           *)
WalkComplete ==
    Over("index") /\ ~past.removed /\ ~past.back => past.start \ past.moved \subseteq visit.seen

(* The walk shows a thread again only if another was put above it, or it   *)
(* came back from the future itself.                                       *)
SeenOnce == \A t \in visit.again : past.moved \ {t} # {} \/ past.back

(* Of the thread shown last, the posts that were left out although they    *)
(* were there, and those that were shown and are gone.                     *)
LeftOut == {id \in InThread(visit.entry.thread) : id <= visit.upto} \ visit.entry.posts
ShownGone == visit.entry.posts \ Standing

(* A page that leaves out posts of a thread says that there are more,      *)
(* unless one of those it shows was deleted.                               *)
HiddenTold ==
    visit.kind = "index" /\ visit.pc # "stat" /\ visit.entry # NoEntry
        => \/ LeftOut = {} \/ ShownGone # {}
           \/ visit.entry.n > Cardinality(visit.entry.posts)

(* The outbox gives each thread that stands with all replies that stand,   *)
(* and never an opening post among the replies; every thread that was      *)
(* opened here and stands when it is complete is in it.                    *)
OutboxTrue ==
    visit.kind = "outbox" /\ visit.pc # "failed" =>
        /\ visit.entry # NoEntry =>
              /\ visit.entry.posts \cap opened = {}
              /\ visit.entry.thread \in OPs => LeftOut \subseteq {visit.entry.thread}
        /\ visit.pc = "over" =>
              {t \in OPs \cap past.start : posts[t].local} \subseteq visit.seen

=============================================================================
