---------------------------- MODULE Federation ----------------------------
(***************************************************************************)
(* Boards of several instances that send each other their posts and their  *)
(* deletions: PostOut, PostDel and SendActivity at the sender,             *)
(* PostBoardInbox at the receiver, users who post, moderators who delete,  *)
(* resend and fetch (fedi/net.go, fedi/post.go, routes/activitypub.go,     *)
(* routes/api.go, routes/board.go, routes/admin.go).                       *)
(*                                                                         *)
(* A note is its apid.  A lookup and the statement that uses what it found *)
(* are separate steps.  A post's number on a board is <<n, k>>: the k-th   *)
(* row the board had for note n (posts_X is AUTOINCREMENT).                *)
(*                                                                         *)
(* Covered: refusals, lost and late requests, lost answers, time-outs,     *)
(* retries, failing statements, crashes, followers who join.  Not covered: *)
(* boards that come and go, forged senders, the post filter.               *)
(***************************************************************************)
EXTENDS Integers

CONSTANTS
    Boards,      \* the boards of all instances
    Host,        \* the instance of each board
    Followers,   \* each board's rows of the table followers at the start
    Joins,       \* bound: <<b, f>> when f may start to follow b later
    First,       \* which of a set of followers the table lists first
    Threads,     \* apids of notes that open a thread
    Replies,     \* apids of notes that reply
    Home,        \* the board each note is written on
    None,        \* no note
    Moderators,  \* numbers of those who may delete on a board at one time
    MaxRetries,  \* config.MaxRetries
    MaxResends,  \* bound: how often moderators force a post to be sent
    MaxFetches,  \* bound: how many threads are fetched from outboxes
    MayFail      \* may statements and requests fail, and processes die?

Notes == Threads \cup Replies
Zero == <<None, 0>>  \* the thread of an opening post

ASSUME FederationAssumption ==
    /\ None \notin Notes
    /\ Threads \cap Replies = {}
    /\ Followers \in [Boards -> SUBSET Boards]
    /\ Joins \subseteq Boards \X Boards
    /\ First \in [(SUBSET Boards) \ {{}} -> Boards]
    /\ \A S \in (SUBSET Boards) \ {{}} : First[S] \in S
    /\ Home \in [Notes -> Boards]
    /\ Moderators \in [Boards -> SUBSET Nat]
    /\ MaxRetries \in Nat \ {0}
    /\ MaxResends \in Nat
    /\ MaxFetches \in Nat
    /\ MayFail \in BOOLEAN

VARIABLES
    followers, \* the table followers
    rows,      \* rows[b][n]: board b's row of note n: its thread, is it local
    copies,    \* copies[b][n]: how many rows of note n board b has had
    forms,     \* requests of api.Post about to save
    outs,      \* goroutines that will run PostOut or PostDel
    sends,     \* goroutines of SendActivity, one per recipient
    requests,  \* activities on their way to an inbox
    handlers,  \* calls of PostBoardInbox that have looked up their post
    deletions, \* calls of GetDelete that have looked up their post
    imports,   \* calls of MergeOutbox, one per thread
    resends,   \* counts up to MaxResends
    fetches,   \* counts up to MaxFetches
    written,   \* history: the thread each note was written in, who was due it
    deleted,   \* history: notes deleted by a moderator of their home
    acked,     \* history: <<type, note, board>> of sends that ended with a 200
    lost,      \* history: likewise, of sends that were given up or died
    once,      \* history: <<board, note>> that something may have brought
    again      \* history: <<board, note>> that more than one thing may have

db == <<followers, rows, copies>>
net == <<sends, requests, handlers>>
staff == <<deletions, imports, resends, fetches>>
fates == <<acked, lost>>
ways == <<once, again>>
vars == <<db, forms, outs, net, staff, written, deleted, fates, ways>>

-----------------------------------------------------------------------------
(* Posts *)

Put(f, k, v) == [x \in DOMAIN f \cup {k} |-> IF x = k THEN v ELSE f[x]]
Drop(f, S) == [x \in DOMAIN f \ S |-> f[x]]

Number(b, n) == <<n, copies[b][n]>>
Stands(b, id) == \E n \in DOMAIN rows[b] : Number(b, n) = id
OPs(b) == {n \in DOMAIN rows[b] : rows[b][n].thread = Zero}
RepliesIn(b, t) == {n \in DOMAIN rows[b] : rows[b][n].thread = Number(b, t)}
Post(b, n) == [id |-> Number(b, n), thread |-> rows[b][n].thread]

Has(b, n) == n \in DOMAIN rows[b]

(* SavePost of a new post; the UNIQUE apid refuses a second row of a note. *)
Insert(b, n, t, local) ==
    /\ ~Has(b, n)
    /\ rows' = [rows EXCEPT ![b] = Put(@, n, [thread |-> t, local |-> local])]
    /\ copies' = [copies EXCEPT ![b][n] = @ + 1]
    /\ UNCHANGED followers

(* Slip: DeletePost also for opening posts. *)
SlipUnder(b, p) == {n \in DOMAIN rows[b] : Number(b, n) = p.id}

(* The rows that DeleteThread or DeletePost of p takes.                    *)
Under(b, p) ==
    {n \in DOMAIN rows[b] :
        Number(b, n) = p.id \/ (p.thread = Zero /\ rows[b][n].thread = p.id)}

Remove(b, p) ==
    /\ rows' = [rows EXCEPT ![b] = Drop(@, Under(b, p))]
    /\ UNCHANGED <<followers, copies>>

(* Each of S has one way more to come to its board.                        *)
Bring(S) == once' = once \cup S /\ again' = again \cup (S \cap once)

-----------------------------------------------------------------------------
(* Deliveries *)

Out(type, n, t, b, run) ==
    [type |-> type, note |-> n, thread |-> t, from |-> b, run |-> run]

(* PostOut: the board that owns the thread, when its row is not local.     *)
Owner(o) ==
    IF /\ o.type = "Create" /\ o.thread # Zero
       /\ ~rows[o.from][o.thread[1]].local
    THEN {Home[o.thread[1]]} \ followers[o.from]
    ELSE {}

(* Slip: only a Create has an audience. *)
SlipActivity(o) ==
    [type |-> o.type, note |-> o.note, thread |-> o.thread[1], from |-> o.from,
     all |-> IF o.type = "Create" THEN followers[o.from] ELSE {},
     owner |-> Owner(o), run |-> o.run]

(* Who gets it: the followers (activityBase), and then the owner.          *)
Activity(o) ==
    [type |-> o.type, note |-> o.note, thread |-> o.thread[1], from |-> o.from,
     all |-> followers[o.from], owner |-> Owner(o), run |-> o.run]

Audience(a) == a.all \cup a.owner

(* A Create goes to the first board of its audience on this instance,      *)
(* whichever inbox it was sent to; a Delete to the board of the inbox.     *)
Target(a, to) ==
    LET here == {b \in a.all : Host[b] = Host[to]} IN
        IF a.type = "Create" /\ here # {} THEN First[here] ELSE to

(* What the Create a may bring, and what more than one copy of it may.     *)
Brought(a) == {<<Target(a, to), a.note>> : to \in Audience(a)}
Twice(a) ==
    {<<Target(a, to), a.note>> : to \in
        {x \in Audience(a) : \E y \in Audience(a) \ {x} : Target(a, x) = Target(a, y)}}

(* The goroutine waiting for the answer to r, unless it gave up waiting.   *)
Waiting(r) == {s \in sends : /\ s.act = r.act /\ s.to = r.to
                             /\ s.try = r.try /\ s.flying}
Request(s) == [act |-> s.act, to |-> s.to, try |-> s.try]
Fate(s) == <<s.act.type, s.act.note, s.to>>

(* Slip: the loop never gives up and never counts. *)
SlipRetryForEver(s) == {[s EXCEPT !.flying = FALSE, !.try = @ - 1]}

(* After an attempt that failed: the next one, or none.                    *)
Retry(s) == IF s.try < MaxRetries THEN {[s EXCEPT !.flying = FALSE]} ELSE {}

Fails(S) ==
    /\ sends' = (sends \ S) \cup UNION {Retry(s) : s \in S}
    /\ lost' = lost \cup {Fate(s) : s \in {x \in S : Retry(x) = {}}}
    /\ UNCHANGED acked

(* Slip: no return after the 200. *)
SlipSucceeds(S) ==
    /\ sends' = (sends \ S) \cup UNION {Retry(s) : s \in S}
    /\ acked' = acked \cup {Fate(s) : s \in S}
    /\ UNCHANGED lost

Succeeds(S) ==
    /\ sends' = sends \ S
    /\ acked' = acked \cup {Fate(s) : s \in S}
    /\ UNCHANGED lost

-----------------------------------------------------------------------------
Init ==
    /\ followers = Followers
    /\ rows = [b \in Boards |-> <<>>]
    /\ copies = [b \in Boards |-> [n \in Notes |-> 0]]
    /\ forms = {} /\ outs = {}
    /\ sends = {} /\ requests = {} /\ handlers = {}
    /\ deletions = {} /\ imports = {} /\ resends = 0 /\ fetches = 0
    /\ written = <<>> /\ deleted = {}
    /\ acked = {} /\ lost = {} /\ once = {} /\ again = {}

(* The Follow case of PostBoardInbox (Follows.tla has the rest of it).     *)
FollowArrives(b, f) ==
    /\ f \notin followers[b]
    /\ followers' = [followers EXCEPT ![b] = @ \cup {f}]
    /\ UNCHANGED <<rows, copies, forms, outs, net, staff, written, deleted, fates, ways>>

(* api.Post: a reply's thread is looked up ...                             *)
PostArrives(n) ==
    /\ n \notin DOMAIN written
    /\ \A f \in forms : f.note # n
    /\ \E t \in IF n \in Threads THEN {Zero} ELSE {Number(Home[n], m) : m \in OPs(Home[n])} :
        forms' = forms \cup {[note |-> n, thread |-> t]}
    /\ UNCHANGED <<db, outs, net, staff, written, deleted, fates, ways>>

(* ... the post is saved, and PostOut started.                             *)
PostSaved(f) ==
    LET n == f.note  b == Home[n] IN
    /\ forms' = forms \ {f}
    /\ Insert(b, n, f.thread, TRUE)
    /\ written' = Put(written, n, [thread |-> f.thread[1], due |-> followers[b]])
    /\ outs' = outs \cup {Out("Create", n, f.thread, b, 0)}
    /\ Bring({<<b, n>>})
    /\ UNCHANGED <<net, staff, deleted, fates>>

(* PostOut or PostDel runs.  A thread that is gone by then is an error and *)
(* nothing is sent.                                                        *)
SendActivity(o) ==
    LET a == Activity(o) IN
    /\ outs' = outs \ {o}
    /\ IF o.thread = Zero \/ Stands(o.from, o.thread)
       THEN /\ sends' = sends \cup
                  {[act |-> a, to |-> b, try |-> 0, flying |-> FALSE] : b \in Audience(a)}
            /\ IF a.type = "Create"
               THEN /\ once' = once \cup Brought(a)
                    /\ again' = again \cup (Brought(a) \cap once) \cup Twice(a)
               ELSE UNCHANGED ways
       ELSE UNCHANGED <<sends, ways>>
    /\ UNCHANGED <<db, forms, requests, handlers, staff, written, deleted, fates>>

Attempt(s) ==
    LET next == [s EXCEPT !.try = @ + 1, !.flying = TRUE] IN
    /\ ~s.flying
    /\ sends' = (sends \ {s}) \cup {next}
    /\ requests' = requests \cup {Request(next)}
    /\ UNCHANGED <<db, forms, outs, handlers, staff, written, deleted, fates, ways>>

-----------------------------------------------------------------------------
(* PostBoardInbox: each error is a status other than 200. *)

Find(r, p) ==
    /\ requests' = requests \ {r}
    /\ handlers' = handlers \cup {[req |-> r, post |-> p]}
    /\ UNCHANGED <<db, forms, outs, sends, staff, written, deleted, fates, ways>>

Refuse(r) ==
    /\ requests' = requests \ {r}
    /\ Fails(Waiting(r))
    /\ UNCHANGED <<db, forms, outs, handlers, staff, written, deleted, ways>>

(* Slip: a reply to an unknown thread becomes a thread. *)
SlipCreateFound(r) ==
    LET b == Target(r.act, r.to)  t == r.act.thread IN
    /\ r.act.type = "Create"
    /\ Find(r, [id |-> Zero, thread |-> IF t \in OPs(b) THEN Number(b, t) ELSE Zero])

(* AsPost knows the thread, if the note replies.                           *)
CreateFound(r) ==
    LET b == Target(r.act, r.to)  t == r.act.thread IN
    /\ r.act.type = "Create"
    /\ t \in {None} \cup OPs(b)
    /\ Find(r, [id |-> Zero, thread |-> IF t = None THEN Zero ELSE Number(b, t)])

CreateRefused(r) ==
    /\ r.act.type = "Create"
    /\ r.act.thread \notin {None} \cup OPs(Target(r.act, r.to))
    /\ Refuse(r)

(* FindAPID.                                                               *)
DeleteFound(r) ==
    /\ r.act.type = "Delete"
    /\ Has(r.to, r.act.note)
    /\ Find(r, Post(r.to, r.act.note))

(* Slip: deleting what is not there succeeds. *)
SlipDeleteRefused(r) ==
    /\ r.act.type = "Delete"
    /\ ~Has(r.to, r.act.note)
    /\ requests' = requests \ {r}
    /\ Succeeds(Waiting(r))
    /\ UNCHANGED <<db, forms, outs, handlers, staff, written, deleted, ways>>

DeleteRefused(r) ==
    /\ r.act.type = "Delete"
    /\ ~Has(r.to, r.act.note)
    /\ Refuse(r)

(* SavePost, and the 200.                                                  *)
CreateSaved(k) ==
    LET r == k.req IN
    /\ r.act.type = "Create"
    /\ Insert(Target(r.act, r.to), r.act.note, k.post.thread, FALSE)
    /\ handlers' = handlers \ {k}
    /\ Succeeds(Waiting(r))
    /\ UNCHANGED <<forms, outs, requests, staff, written, deleted, ways>>

(* Slip: the error is logged and the answer is 200. *)
SlipSaveRefused(k) ==
    LET r == k.req IN
    /\ r.act.type = "Create"
    /\ Has(Target(r.act, r.to), r.act.note) \/ MayFail
    /\ handlers' = handlers \ {k}
    /\ Succeeds(Waiting(r))
    /\ UNCHANGED <<db, forms, outs, requests, staff, written, deleted, ways>>

(* SavePost fails: the board has the note already, or the database failed. *)
SaveRefused(k) ==
    LET r == k.req IN
    /\ r.act.type = "Create"
    /\ Has(Target(r.act, r.to), r.act.note) \/ MayFail
    /\ handlers' = handlers \ {k}
    /\ Fails(Waiting(r))
    /\ UNCHANGED <<db, forms, outs, requests, staff, written, deleted, ways>>

(* DeleteThread or DeletePost of what was found; the posts are gone even   *)
(* if the audit record, the last statement, fails.                         *)
DeleteDone(k) ==
    LET r == k.req IN
    /\ r.act.type = "Delete"
    /\ Remove(r.to, k.post)
    /\ handlers' = handlers \ {k}
    /\ \/ Succeeds(Waiting(r))
       \/ MayFail /\ Fails(Waiting(r))
    /\ UNCHANGED <<forms, outs, requests, staff, written, deleted, ways>>

-----------------------------------------------------------------------------
(* Moderators *)

(* GetDelete looks the post up ...                                         *)
DeleteArrives(b, n, m) ==
    /\ \A d \in deletions : ~(d.board = b /\ d.by = m)
    /\ deletions' = deletions \cup {[board |-> b, note |-> n, post |-> Post(b, n),
                                     local |-> rows[b][n].local, by |-> m]}
    /\ UNCHANGED <<db, forms, outs, net, imports, resends, fetches,
                   written, deleted, fates, ways>>

(* ... and deletes it; a local one is sent out, unless the audit failed.   *)
Deletes(d) ==
    /\ deletions' = deletions \ {d}
    /\ Remove(d.board, d.post)
    /\ \/ /\ d.local
          /\ outs' = outs \cup {Out("Delete", d.note, Zero, d.board, d.by)}
          /\ deleted' = deleted \cup {d.note}
       \/ /\ ~d.local \/ MayFail
          /\ UNCHANGED <<outs, deleted>>
    /\ UNCHANGED <<forms, net, imports, resends, fetches, written, fates, ways>>

(* GetAdminResend: a local post goes out once more.                        *)
Resend(b, n) ==
    /\ resends < MaxResends
    /\ rows[b][n].local
    /\ resends' = resends + 1
    /\ outs' = outs \cup {Out("Create", n, rows[b][n].thread, b, resends + 1)}
    /\ UNCHANGED <<db, forms, net, deletions, imports, fetches,
                   written, deleted, fates, ways>>

(* GetAdminFetch at board b: a local thread of c with its replies, as      *)
(* GenerateOutbox lists them.                                              *)
Fetch(b, c, t) ==
    LET found == RepliesIn(c, t) IN
    /\ fetches < MaxFetches
    /\ b # c /\ rows[c][t].local
    /\ fetches' = fetches + 1
    /\ imports' = imports \cup {[to |-> b, thread |-> t, id |-> Zero, todo |-> found,
                                 saving |-> None, run |-> fetches]}
    /\ Bring({<<b, n>> : n \in found \cup {t}})
    /\ UNCHANGED <<db, forms, outs, net, deletions, resends, written, deleted, fates>>

(* MergeOutbox: j is what is left to do of i.                              *)
Goes(i, j) ==
    imports' = (imports \ {i}) \cup
        IF j.id # Zero /\ j.todo = {} /\ j.saving = None THEN {} ELSE {j}

(* FindAPID of the opening post first, then of the replies; an error is    *)
(* taken to mean that the post is not there.                               *)
MergeFinds(i, n) ==
    /\ i.saving = None
    /\ n \in IF i.id = Zero THEN {i.thread} ELSE i.todo
    /\ \/ /\ Has(i.to, n)
          /\ Goes(i, IF n = i.thread THEN [i EXCEPT !.id = Number(i.to, n)]
                     ELSE [i EXCEPT !.todo = @ \ {n}])
       \/ /\ ~Has(i.to, n) \/ MayFail
          /\ Goes(i, [i EXCEPT !.saving = n, !.todo = @ \ {n}])
    /\ UNCHANGED <<db, forms, outs, net, deletions, resends, fetches,
                   written, deleted, fates, ways>>

MergeSaves(i) ==
    LET n == i.saving  op == n = i.thread IN
    /\ n # None
    /\ Insert(i.to, n, IF op THEN Zero ELSE i.id, FALSE)
    /\ Goes(i, [i EXCEPT !.saving = None,
                         !.id = IF op THEN <<n, copies[i.to][n] + 1>> ELSE @])
    /\ UNCHANGED <<forms, outs, net, deletions, resends, fetches,
                   written, deleted, fates, ways>>

(* SavePost fails: without its opening post a thread is given up.          *)
MergeRefused(i) ==
    /\ i.saving # None
    /\ Has(i.to, i.saving) \/ MayFail
    /\ IF i.saving = i.thread THEN imports' = imports \ {i}
       ELSE Goes(i, [i EXCEPT !.saving = None])
    /\ UNCHANGED <<db, forms, outs, net, deletions, resends, fetches,
                   written, deleted, fates, ways>>

-----------------------------------------------------------------------------
(* Failures *)

(* api.Post ends in an error, or a moderator's request does before it has  *)
(* deleted anything.                                                       *)
FormFails(f) ==
    /\ MayFail
    /\ forms' = forms \ {f}
    /\ UNCHANGED <<db, outs, net, staff, written, deleted, fates, ways>>

DeletionFails(d) ==
    /\ MayFail
    /\ deletions' = deletions \ {d}
    /\ UNCHANGED <<db, forms, outs, net, imports, resends, fetches,
                   written, deleted, fates, ways>>

(* A statement of PostOut or PostDel fails: nobody is sent anything.       *)
SendFails(o) ==
    /\ MayFail
    /\ outs' = outs \ {o}
    /\ lost' = lost \cup {<<o.type, o.note, b>> : b \in Boards}
    /\ UNCHANGED <<db, forms, net, staff, written, deleted, acked, ways>>

(* The request is lost, or the lookup for it fails.                        *)
RequestFails(r) == MayFail /\ Refuse(r)

(* A statement before the deletion of the posts fails.                     *)
DeleteFails(k) ==
    /\ MayFail /\ k.req.act.type = "Delete"
    /\ handlers' = handlers \ {k}
    /\ Fails(Waiting(k.req))
    /\ UNCHANGED <<db, forms, outs, requests, staff, written, deleted, ways>>

(* The sender stops waiting for a request that will be handled after all,  *)
(* or was: that its answer was lost makes no difference to the sender.     *)
TimesOut(s) ==
    /\ MayFail /\ s.flying
    /\ Fails({s})
    /\ again' = again \cup IF s.act.type = "Create" /\ Retry(s) # {}
                           THEN {<<Target(s.act, s.to), s.act.note>>} ELSE {}
    /\ UNCHANGED <<db, forms, outs, requests, handlers, staff, written, deleted, once>>

(* Finger or Sign fails: "permanent failure".                              *)
Dropped(s) ==
    /\ MayFail /\ ~s.flying
    /\ sends' = sends \ {s}
    /\ lost' = lost \cup {Fate(s)}
    /\ UNCHANGED <<db, forms, outs, requests, handlers, staff,
                   written, deleted, acked, ways>>

(* An instance dies with its goroutines; what it sent is on its way, and   *)
(* who waits for it to answer gets an error.                               *)
Crash(h) ==
    LET o == {x \in outs : Host[x.from] = h}
        k == {x \in handlers : Host[x.req.to] = h}
        s == {x \in sends : Host[x.act.from] = h}
        w == (UNION {Waiting(x.req) : x \in k}) \ s
    IN
    /\ MayFail
    /\ outs' = outs \ o
    /\ forms' = {x \in forms : Host[Home[x.note]] # h}
    /\ handlers' = handlers \ k
    /\ deletions' = {x \in deletions : Host[x.board] # h}
    /\ imports' = {x \in imports : Host[x.to] # h}
    /\ sends' = (sends \ (s \cup w)) \cup UNION {Retry(x) : x \in w}
    /\ lost' = lost \cup {Fate(x) : x \in s \cup {y \in w : Retry(y) = {}}}
                    \cup {<<x.type, x.note, b>> : x \in o, b \in Boards}
    /\ UNCHANGED <<db, requests, resends, fetches, written, deleted, acked, ways>>

(* Nothing is under way, and nobody has to post or moderate.               *)
Quiet ==
    /\ forms = {} /\ outs = {} /\ sends = {} /\ requests = {} /\ handlers = {}
    /\ deletions = {} /\ imports = {}
Rest == Quiet /\ UNCHANGED vars

Progress ==
    \/ \E f \in forms : PostSaved(f)
    \/ \E o \in outs : SendActivity(o)
    \/ \E s \in sends : Attempt(s)
    \/ \E r \in requests :
           CreateFound(r) \/ CreateRefused(r) \/ DeleteFound(r) \/ DeleteRefused(r)
    \/ \E k \in handlers : CreateSaved(k) \/ SaveRefused(k) \/ DeleteDone(k)
    \/ \E d \in deletions : Deletes(d)
    \/ \E i \in imports :
           MergeSaves(i) \/ MergeRefused(i) \/ \E n \in Notes : MergeFinds(i, n)

Arrival ==
    \/ \E n \in Notes : PostArrives(n)
    \/ \E j \in Joins : FollowArrives(j[1], j[2])
    \/ \E b \in Boards : \E n \in DOMAIN rows[b] :
        \/ \E m \in Moderators[b] : DeleteArrives(b, n, m)
        \/ Resend(b, n)
        \/ \E c \in Boards : n \in OPs(b) /\ Fetch(c, b, n)

Failure ==
    \/ \E f \in forms : FormFails(f)
    \/ \E o \in outs : SendFails(o)
    \/ \E s \in sends : TimesOut(s) \/ Dropped(s)
    \/ \E r \in requests : RequestFails(r)
    \/ \E k \in handlers : DeleteFails(k)
    \/ \E d \in deletions : DeletionFails(d)
    \/ \E b \in Boards : Crash(Host[b])

Next == Arrival \/ Progress \/ Failure \/ Rest

(* Goroutines that can go on go on, and a request that reached an instance *)
(* is handled.                                                             *)
Spec == Init /\ [][Next]_vars /\ WF_vars(Progress)

-----------------------------------------------------------------------------
(* Correctness *)

Numbers == {Zero} \cup (Notes \X Nat)
Rows == [thread : Numbers, local : BOOLEAN]
Types == {"Create", "Delete"}
Acts == [type : Types, note : Notes, thread : Notes \cup {None}, from : Boards,
         all : SUBSET Boards, owner : SUBSET Boards, run : Nat]
Reqs == [act : Acts, to : Boards, try : 1 .. MaxRetries]
Posts == [id : Numbers, thread : Numbers]

TypeOK ==
    /\ followers \in [Boards -> SUBSET Boards]
    /\ rows = [b \in Boards |-> rows[b]]
    /\ \A b \in Boards : \E S \in SUBSET Notes : rows[b] \in [S -> Rows]
    /\ copies \in [Boards -> [Notes -> Nat]]
    /\ forms \subseteq [note : Notes, thread : Numbers]
    /\ outs \subseteq [type : Types, note : Notes, thread : Numbers,
                       from : Boards, run : Nat]
    /\ \A s \in sends : s \in [act : Acts, to : Boards, try : 0 .. MaxRetries,
                               flying : BOOLEAN]
    /\ \A r \in requests : r \in Reqs
    /\ \A k \in handlers : k \in [req : Reqs, post : Posts]
    /\ deletions \subseteq [board : Boards, note : Notes, post : Posts,
                            local : BOOLEAN, by : Nat]
    /\ imports \subseteq [to : Boards, thread : Notes, id : Numbers, todo : SUBSET Notes,
                          saving : Notes \cup {None}, run : Nat]
    /\ resends \in 0 .. MaxResends
    /\ fetches \in 0 .. MaxFetches
    /\ \E S \in SUBSET Notes :
           written \in [S -> [thread : Notes \cup {None}, due : SUBSET Boards]]
    /\ deleted \subseteq Notes
    /\ acked \cup lost \subseteq Types \X Notes \X Boards
    /\ once \cup again \subseteq Boards \X Notes

(* Wherever a note has come to, by delivery, retry, resend or import, it   *)
(* stands in the thread it was written in, and is an opening post only if  *)
(* it was written as one.  (AsPost, AsThread, MergeOutbox.)                *)
SameThread ==
    \A b \in Boards : \A n \in DOMAIN rows[b] :
        n \in DOMAIN written /\ rows[b][n].thread[1] = written[n].thread

(* A reply whose thread is not there was saved after the thread had gone:  *)
(* no deletion, whoever asked for it and whatever it found when it began,  *)
(* leaves a reply behind.  (DeleteThread, PostBoardInbox, GetDelete.)      *)
Orphan(b, n) == rows[b][n].thread # Zero /\ ~Stands(b, rows[b][n].thread)
NoneStranded ==
    [][\A b \in Boards : \A n \in DOMAIN rows[b] :
          (n \in DOMAIN rows'[b] /\ ~Orphan(b, n)) => ~Orphan(b, n)']_vars

(* "posts which will be propagated to other instances that follow a board" *)
(* (views/faq.html): when nothing is under way, a post its board shows has *)
(* come to the instance of every board that followed when it was saved,    *)
(* unless sending it there failed.  (PostOut, SendActivity, the inbox.)    *)
Shown(n) ==
    LET b == Home[n] IN Has(b, n) /\ rows[b][n].local /\ ~Orphan(b, n)
Propagated ==
    Quiet => \A n \in DOMAIN written : \A f \in written[n].due :
        Shown(n) => \/ \E b \in Boards : Host[b] = Host[f] /\ copies[b][n] > 0
                    \/ <<"Create", n, f>> \in lost

(* A board gets a note a second time, after it removed the first, only if  *)
(* there was a second way for it to come: a Create repeated because its    *)
(* answer was late, a resend, an import, or two followers of one instance. *)
(* (The return after the 200 in SendActivity.)                             *)
NeverReturns ==
    \A b \in Boards, n \in Notes : copies[b][n] > 1 => <<b, n>> \in again

(* "This delete will be reflected on other instances that follow us"       *)
(* (views/admin/delete.html): when nothing is under way, a board that was  *)
(* to get a post does not have it after its home deleted it, unless it was *)
(* told in vain or the post has come to it twice.                          *)
ToldEveryone ==
    Quiet => \A n \in deleted : \A b \in written[n].due :
        \/ ~Has(b, n)
        \/ <<"Delete", n, b>> \in lost
        \/ copies[b][n] > 1

(* Deliveries end, acknowledged or given up, and imports end, whatever of  *)
(* them cannot be looked up or saved.  (SendActivity, MergeOutbox.)        *)
DeliveriesEnd == []<>Quiet

-----------------------------------------------------------------------------
(* Claims that do not hold *)

(* "This delete will be reflected on other instances that follow us": a    *)
(* board that acknowledged the Delete of a post does not have the post     *)
(* when nothing is under way.  (views/admin/delete.html.)                  *)
DeleteReflected ==
    Quiet => \A n \in Notes, b \in Boards :
        <<"Delete", n, b>> \in acked => ~Has(b, n)

(* "Tell everyone else if it's local": when nothing is under way, a board  *)
(* that acknowledged a post does not have it after its home deleted it,    *)
(* unless it was told in vain.  (routes/board.go.)                         *)
EveryoneTold ==
    Quiet => \A n \in deleted, b \in Boards :
        (<<"Create", n, b>> \in acked /\ <<"Delete", n, b>> \notin lost) => ~Has(b, n)
=============================================================================
