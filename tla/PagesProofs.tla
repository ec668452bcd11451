---------------------------- MODULE PagesProofs -----------------------------
(***************************************************************************)
(* What a visitor is shown, for any number of posts, any clock, any dates  *)
(* and pages of any length: the proofs about Pages.                        *)
(***************************************************************************)
EXTENDS Pages, FiniteSetTheorems, WellFoundedInduction, TLAPS

Bumps == Times \cup Dates
Kinds == {"none", "index", "catalog", "outbox", "thread"}
Pcs == {"away", "count", "list", "read", "stat", "over", "failed"}

(* The parts of TypeOK. *)
BoardType ==
    /\ now \in Times /\ seq \in {0} \cup Ids
    /\ posts \in [Ids -> Rows \cup {None}]
    /\ opened \subseteq Ids
VisitType ==
    /\ visit = Visit(visit.kind, visit.pc, visit.page, visit.todo, visit.read, visit.upto,
                     visit.entry, visit.seen, visit.again)
    /\ visit.kind \in Kinds /\ visit.pc \in Pcs /\ visit.page \in 0 .. MaxPosts + 1
    /\ visit.todo \in Queues /\ visit.read \subseteq Ids /\ visit.upto \in {0} \cup Ids
    /\ visit.seen \subseteq Ids /\ visit.again \subseteq Ids
    /\ visit.entry = Entry(visit.entry.thread, visit.entry.posts, visit.entry.n)
    /\ visit.entry.thread \in {0} \cup Ids /\ visit.entry.posts \subseteq Ids
    /\ visit.entry.n \in 0 .. MaxPosts
PastType ==
    /\ past = Past(past.start, past.moved, past.removed, past.back)
    /\ past.start \subseteq Ids /\ past.moved \subseteq Ids
    /\ past.removed \in BOOLEAN /\ past.back \in BOOLEAN
HasRead == visit.kind \in {"index", "thread"} /\ visit.pc = "stat" => visit.read # {}

(* The rows: ids are handed out once; a reply is younger than its thread.  *)
BoardOK ==
    /\ opened \subseteq 1 .. seq
    /\ \A id \in Standing :
        /\ id <= seq
        /\ posts[id].thread = 0 <=> id \in opened
        /\ posts[id].thread < id

(* Nothing but ids that were handed out is known to the visitor.           *)
KnownOK ==
    /\ Todo \cup visit.seen \cup past.start \subseteq opened
    /\ visit.upto <= seq
    /\ visit.entry # NoEntry => visit.entry.thread \in opened
    /\ visit.entry.posts \cup visit.read \subseteq 1 .. seq

(* Which steps a visit of each kind takes, and with threads left to read.  *)
StepsOK ==
    /\ visit.pc = "away" <=> visit = Away
    /\ visit.kind = "none" => visit = Away
    /\ visit.pc \in {"read", "stat"} => Todo # {}
    /\ visit.pc \in {"away", "count", "list", "over"} => Todo = {}
    /\ visit.pc = "count" => visit.kind = "index"
    /\ visit.kind = "thread" => visit.pc # "list"
    /\ visit.kind = "catalog" => visit.pc # "read"
    /\ visit.kind = "outbox" => visit.pc # "stat"
    /\ visit.kind # "index" => visit.page = 0 /\ visit.again = {}
    /\ visit.kind # "index" /\ visit.pc = "list" => visit.seen = {}
    /\ visit.kind = "index" => visit.page > 0
    /\ visit.kind = "index" /\ visit.pc \in {"read", "stat"} => visit.page <= MaxPosts

(* The places on the pages that were listed so far end here.               *)
Walking == visit.kind = "index" /\ visit.pc \in {"count", "list", "read", "stat"}
Bound == (IF visit.pc \in {"read", "stat"} THEN visit.page ELSE visit.page - 1) * PerPage

(* A thread that stays put is seen, listed, or on a page still to come.    *)
AheadOK ==
    Walking /\ ~past.removed /\ ~past.back =>
        \A t \in past.start \ past.moved :
            t \in OPs /\ (t \in visit.seen \cup Todo \/ Place(t) > Bound)

(* One that was listed stays on the pages behind, unless another one moves.*)
BehindOK ==
    Walking /\ ~past.back =>
        \A t \in (visit.seen \cup Todo) \cap OPs :
            past.moved \subseteq {t} => Place(t) <= Bound

(* What was read of a thread is of that thread as long as it stands.       *)
ReadOK ==
    visit.pc = "stat" /\ visit.kind # "catalog" =>
        /\ visit.read # {}
        /\ visit.read \subseteq 1 .. visit.upto
        /\ visit.read \cap Standing \subseteq InThread(First)

(* The outbox lists every local thread that was there.                     *)
ListedOK ==
    visit.kind = "outbox" /\ visit.pc \in {"read", "over"} =>
        {t \in OPs \cap past.start : posts[t].local} \subseteq visit.seen \cup Todo

Inv ==
    /\ TypeOK /\ BoardOK /\ KnownOK /\ StepsOK
    /\ AheadOK /\ BehindOK /\ ReadOK /\ ListedOK
    /\ WalkComplete /\ SeenOnce /\ HiddenTold /\ OutboxTrue
-----------------------------------------------------------------------------
(* Places in the order of the index.                                       *)

Higher(t) == {u \in OPs : Above(u, t)}

LEMMA Types == TypeOK <=> BoardType /\ VisitType /\ PastType /\ HasRead
<1> DEFINE E == [thread : {0} \cup Ids, posts : SUBSET Ids, n : 0 .. MaxPosts]
           V == [kind : Kinds, pc : Pcs, page : 0 .. MaxPosts + 1, todo : Queues,
                 read : SUBSET Ids, upto : {0} \cup Ids, seen : SUBSET Ids,
                 again : SUBSET Ids, entry : E]
           P == [start : SUBSET Ids, moved : SUBSET Ids, removed : BOOLEAN, back : BOOLEAN]
<1>1. visit.entry \in E <=>
        /\ visit.entry = Entry(visit.entry.thread, visit.entry.posts, visit.entry.n)
        /\ visit.entry.thread \in {0} \cup Ids /\ visit.entry.posts \subseteq Ids
        /\ visit.entry.n \in 0 .. MaxPosts
  BY DEF Entry
<1>2. visit \in V <=> VisitType
  <2> HIDE DEF E
  <2> QED
    BY <1>1 DEF VisitType, Visit
<1>3. past \in P <=> PastType
  BY DEF PastType, Past
<1> QED
  BY <1>2, <1>3 DEF TypeOK, BoardType, HasRead, Kinds, Pcs

LEMMA RowFacts ==
    ASSUME TypeOK, NEW id \in Standing
    PROVE  /\ id \in Ids /\ posts[id] \in Rows /\ id \in Nat
           /\ posts[id].bump \in Nat /\ posts[id].thread \in Nat
           /\ posts[id].local \in BOOLEAN
<1>1. id \in Ids /\ posts[id] \in Rows
  BY Types DEF BoardType, Standing
<1>2. /\ \A x \in {0} \cup Ids : x \in Nat
      /\ \A x \in Times \cup Dates : x \in Nat
  BY PagesAssumption DEF Ids, Times
<1>3. \A r \in Rows : r.thread \in {0} \cup Ids /\ r.bump \in Times \cup Dates /\ r.local \in BOOLEAN
  BY DEF Rows
<1>4. /\ posts[id].thread \in {0} \cup Ids /\ posts[id].bump \in Times \cup Dates
      /\ posts[id].local \in BOOLEAN
  BY <1>1, <1>3
<1>5. id \in Nat
  BY <1>1, <1>2
<1>6. posts[id].bump \in Nat
  BY <1>2, <1>4
<1>7. posts[id].thread \in Nat
  BY <1>2, <1>4
<1> QED
  BY <1>1, <1>4, <1>5, <1>6, <1>7

LEMMA HandedOut ==
    ASSUME TypeOK, BoardOK
    PROVE  /\ seq \in Nat
           /\ \A id \in Standing : id \in Nat /\ 0 < id /\ id <= seq
           /\ \A id \in opened : id \in Nat /\ 0 < id /\ id <= seq
           /\ OPs = Standing \cap opened
<1>1. seq \in Nat
  BY Types, PagesAssumption DEF BoardType, Ids
<1>2. \A id \in Standing : id \in Nat /\ 0 < id
  BY PagesAssumption DEF Standing, Ids
<1>3. \A id \in Standing : id <= seq
  BY DEF BoardOK
<1>4. \A id \in 1 .. seq : id \in Nat /\ 0 < id /\ id <= seq
  BY <1>1
<1>5. OPs = Standing \cap opened
  BY DEF OPs, BoardOK
<1> QED
  BY <1>1, <1>2, <1>3, <1>4, <1>5 DEF BoardOK

LEMMA Finite ==
    /\ IsFiniteSet(Ids) /\ Cardinality(Ids) = MaxPosts
    /\ \A S \in SUBSET Ids : IsFiniteSet(S) /\ Cardinality(S) \in 0 .. MaxPosts
<1>1. IsFiniteSet(Ids) /\ Cardinality(Ids) = MaxPosts
  BY PagesAssumption, FS_Interval DEF Ids
<1>2. ASSUME NEW S \in SUBSET Ids PROVE IsFiniteSet(S) /\ Cardinality(S) \in 0 .. MaxPosts
  <2>1. IsFiniteSet(S) /\ Cardinality(S) <= MaxPosts
    BY <1>1, FS_Subset
  <2> QED
    BY <2>1, FS_CardinalityType
<1> QED
  BY <1>1, <1>2

LEMMA SmallerSet ==
    ASSUME NEW S \in SUBSET Ids, NEW T \in SUBSET S
    PROVE  /\ Cardinality(T) <= Cardinality(S)
           /\ T # S => Cardinality(T) + 1 <= Cardinality(S)
<1>1. IsFiniteSet(S) /\ Cardinality(S) \in Nat /\ Cardinality(T) \in Nat
  BY Finite, PagesAssumption
<1>2. Cardinality(T) <= Cardinality(S) /\ (Cardinality(S) = Cardinality(T) => S = T)
  BY <1>1, FS_Subset
<1> QED
  BY <1>1, <1>2

LEMMA HigherInIds == \A t : Higher(t) \in SUBSET OPs /\ OPs \in SUBSET Ids
BY DEF Higher, OPs, Standing

LEMMA PlaceIsNat == \A t : Place(t) \in Nat
<1> TAKE t
<1>1. Cardinality(Higher(t)) \in Nat
  BY HigherInIds, Finite
<1> QED
  BY <1>1 DEF Place, Higher

LEMMA BoundIsInt ==
    ASSUME VisitType
    PROVE  visit.page \in Nat /\ Bound \in Int
BY PagesAssumption DEF VisitType, Bound

(* A thread's place is one of the places there are.                        *)
LEMMA PlaceRange ==
    ASSUME TypeOK, NEW t \in OPs
    PROVE  Place(t) \in 1 .. Cardinality(OPs) /\ Cardinality(OPs) \in 0 .. MaxPosts
<1>1. posts[t].bump \in Nat /\ t \in Nat
  BY RowFacts DEF OPs
<1>2. t \notin Higher(t)
  BY <1>1 DEF Higher, Above
<1>3. Cardinality(Higher(t)) + 1 <= Cardinality(OPs)
  BY <1>2, HigherInIds, SmallerSet
<1>4. Cardinality(Higher(t)) \in Nat /\ Cardinality(OPs) \in 0 .. MaxPosts
  BY HigherInIds, Finite
<1>5. Place(t) = Cardinality(Higher(t)) + 1
  BY DEF Place, Higher
<1> QED
  BY <1>3, <1>4, <1>5, PagesAssumption

(* Who is above has a smaller place.                                       *)
LEMMA AbovePlace ==
    ASSUME TypeOK, NEW t \in OPs, NEW u \in OPs, Above(t, u)
    PROVE  Place(t) < Place(u)
<1>1. \A x \in OPs : posts[x].bump \in Nat /\ x \in Nat
  BY RowFacts DEF OPs
<1>2. Higher(t) \cup {t} \subseteq Higher(u)
  BY <1>1 DEF Higher, Above
<1>3. t \notin Higher(t)
  BY <1>1 DEF Higher, Above
<1>4. Higher(t) # Higher(u) /\ Higher(t) \subseteq Higher(u)
  BY <1>2, <1>3
<1>5. Cardinality(Higher(t)) + 1 <= Cardinality(Higher(u))
  BY <1>4, HigherInIds, SmallerSet
<1>6. Cardinality(Higher(t)) \in Nat /\ Cardinality(Higher(u)) \in Nat
  BY HigherInIds, Finite
<1>7. Place(t) = Cardinality(Higher(t)) + 1 /\ Place(u) = Cardinality(Higher(u)) + 1
  BY DEF Place, Higher
<1> QED
  BY <1>5, <1>6, <1>7

(* No two threads have one place, and each place has its thread.           *)
LEMMA PlaceTaken ==
    ASSUME TypeOK, NEW k \in 1 .. Cardinality(OPs)
    PROVE  \E t \in OPs : Place(t) = k
<1> DEFINE n == Cardinality(OPs)
           f == [t \in OPs |-> Place(t)]
<1>1. n \in Nat /\ IsFiniteSet(1 .. n) /\ Cardinality(1 .. n) = n
  <2>1. n \in Nat
    BY HigherInIds, Finite
  <2> QED
    BY <2>1, FS_Interval
<1>2. f \in [OPs -> 1 .. n]
  BY PlaceRange
<1>3. ASSUME NEW t \in OPs, NEW u \in OPs, Place(t) = Place(u) PROVE t = u
  <2>1. posts[t].bump \in Nat /\ posts[u].bump \in Nat /\ t \in Nat /\ u \in Nat
    BY RowFacts DEF OPs
  <2>2. ~Above(t, u) /\ ~Above(u, t)
    BY <1>3, AbovePlace, PlaceRange
  <2> QED
    BY <2>1, <2>2 DEF Above
<1>4. f \in Injection(OPs, 1 .. n)
  BY <1>2, <1>3 DEF Injection, IsInjective
<1>5. f \in Surjection(OPs, 1 .. n)
  <2> HIDE DEF f
  <2> QED
    BY <1>1, <1>4, FS_Injection
<1> QED
  BY <1>5 DEF Surjection

(* What is put above a thread moves it down, what goes moves it up.        *)
LEMMA PlaceMoves ==
    ASSUME NEW t
    PROVE  /\ Place(t) \in Nat /\ Place(t)' \in Nat
           /\ Higher(t) \subseteq Higher(t)' => Place(t) <= Place(t)'
           /\ Higher(t)' \subseteq Higher(t) => Place(t)' <= Place(t)
<1> DEFINE H == Higher(t)
           G == Higher(t)'
<1>1. H \in SUBSET Ids /\ G \in SUBSET Ids
  BY DEF Higher, OPs, Standing
<1>2. Place(t) = Cardinality(H) + 1 /\ Place(t)' = Cardinality(G) + 1
  BY DEF Place, Higher
<1> HIDE DEF H, G
<1>3. Cardinality(H) \in Nat /\ Cardinality(G) \in Nat
  BY <1>1, Finite
<1>4. H \subseteq G => Cardinality(H) <= Cardinality(G)
  BY <1>1, SmallerSet
<1>5. G \subseteq H => Cardinality(G) <= Cardinality(H)
  BY <1>1, SmallerSet
<1>6. /\ Place(t) \in Nat /\ Place(t)' \in Nat
      /\ H \subseteq G => Place(t) <= Place(t)'
      /\ G \subseteq H => Place(t)' <= Place(t)
  BY <1>2, <1>3, <1>4, <1>5
<1> QED
  BY <1>6 DEF H, G
-----------------------------------------------------------------------------
(* What happens to the board while it is read: the rows that were there    *)
(* keep their thread, and past tells what became of their order.           *)
BoardStep ==
    /\ visit' = visit /\ seq <= seq' /\ opened \subseteq opened'
    /\ \A id \in opened' : id <= seq => id \in opened
    /\ \A id \in Standing' : id <= seq =>
        /\ id \in Standing
        /\ posts'[id].thread = posts[id].thread /\ posts'[id].local = posts[id].local
    /\ past'.start \subseteq past.start
    /\ Reading =>
        /\ past'.start = past.start /\ past.moved \subseteq past'.moved
        /\ past.removed => past'.removed
        /\ past.back => past'.back
        /\ ~past'.removed => OPs \subseteq OPs'
        /\ OPs' \ OPs \subseteq past'.moved
        /\ \A u \in OPs \cap OPs' :
            /\ u \notin past'.moved => posts'[u].bump = posts[u].bump
            /\ ~past'.back => posts[u].bump <= posts'[u].bump

LEMMA Remembers ==
    ASSUME PastType, NEW m \in SUBSET Ids, NEW r \in BOOLEAN, NEW b \in BOOLEAN,
           Remember(m, r, b)
    PROVE  /\ PastType' /\ past'.start \subseteq past.start
           /\ Reading => /\ past'.start = past.start
                         /\ past'.moved = past.moved \cup m
                         /\ past'.removed <=> past.removed \/ r
                         /\ past'.back <=> past.back \/ b
<1>1. CASE Reading
  BY <1>1 DEF PastType, Remember, Past
<1>2. CASE ~Reading
  BY <1>2 DEF PastType, Remember, Past, Nothing
<1> QED
  BY <1>1, <1>2

LEMMA TickStep ==
    ASSUME TypeOK, BoardOK, Tick
    PROVE  BoardType' /\ PastType' /\ BoardOK' /\ BoardStep
<1>1. BoardType /\ PastType
  BY Types
<1>2. now' \in Times
  BY <1>1, PagesAssumption DEF Tick, BoardType, Times
<1>3. BoardType' /\ PastType'
  BY <1>1, <1>2 DEF BoardType, PastType, Tick
<1>4. Standing' = Standing /\ OPs' = OPs
  BY DEF Standing, OPs, Tick
<1>5. BoardOK'
  BY <1>4 DEF BoardOK, Tick
<1>6. \A u \in OPs : posts[u].bump \in Nat
  BY RowFacts DEF OPs
<1>7. seq \in Nat
  BY <1>1, PagesAssumption DEF BoardType, Ids
<1>8. BoardStep
  BY <1>4, <1>6, <1>7 DEF BoardStep, Tick
<1> QED
  BY <1>3, <1>5, <1>8

LEMMA NewThreadStep ==
    ASSUME TypeOK, BoardOK, NEW date \in Times \cup Dates, NEW local \in BOOLEAN,
           NewThread(date, local)
    PROVE  BoardType' /\ PastType' /\ BoardOK' /\ BoardStep
<1>1. BoardType /\ PastType
  BY Types
<1>2. /\ seq \in Nat /\ seq' = seq + 1 /\ seq' \in Ids /\ seq' \notin Standing
      /\ seq' \notin opened /\ \A id \in Standing \cup opened : id \in Nat /\ id <= seq
  <2>1. seq \in Nat /\ seq < MaxPosts /\ seq' = seq + 1
    BY <1>1, PagesAssumption DEF NewThread, BoardType, Ids
  <2>2. seq' \in Ids
    BY <2>1, PagesAssumption DEF Ids
  <2>3. \A id \in Standing \cup opened : id \in Nat /\ id <= seq
    BY HandedOut
  <2> QED
    BY <2>1, <2>2, <2>3
<1>3. /\ Row(0, date, local) \in Rows /\ Row(0, date, local) # None
      /\ posts' = [posts EXCEPT ![seq'] = Row(0, date, local)]
  <2>1. Row(0, date, local) \in [thread : Nat, bump : Nat, local : BOOLEAN]
    BY PagesAssumption DEF Row, Times
  <2> QED
    BY <2>1, PagesAssumption DEF Row, Rows, NewThread
<1>4. /\ posts' \in [Ids -> Rows \cup {None}] /\ posts'[seq'] = Row(0, date, local)
      /\ \A id \in Ids : id # seq' => posts'[id] = posts[id]
  BY <1>1, <1>2, <1>3 DEF BoardType
<1>5. Standing' = Standing \cup {seq'}
  BY <1>2, <1>3, <1>4 DEF Standing
<1>6. OPs' = OPs \cup {seq'} /\ opened' = opened \cup {seq'} /\ visit' = visit
  <2>1. posts'[seq'].thread = 0
    BY <1>4 DEF Row
  <2>2. \A id \in Standing : id # seq' /\ posts'[id] = posts[id]
    BY <1>2, <1>4 DEF Standing
  <2> QED
    BY <1>5, <2>1, <2>2 DEF OPs, NewThread
<1>7. BoardType'
  BY <1>1, <1>2, <1>4, <1>6 DEF BoardType, NewThread
<1>8. BoardOK'
  <2>1. opened' \subseteq 1 .. seq'
    BY <1>2, <1>6 DEF BoardOK
  <2>2. ASSUME NEW id \in Standing
        PROVE  id <= seq' /\ (posts'[id].thread = 0 <=> id \in opened') /\ posts'[id].thread < id
    <3>1. posts'[id] = posts[id] /\ id # seq' /\ id \in Nat /\ id <= seq
      BY <1>2, <1>4 DEF Standing
    <3> QED
      BY <1>2, <1>6, <3>1 DEF BoardOK
  <2>3. seq' <= seq' /\ posts'[seq'].thread = 0 /\ seq' \in opened' /\ 0 < seq'
    BY <1>2, <1>4, <1>6 DEF Row
  <2> QED
    BY <1>5, <2>1, <2>2, <2>3 DEF BoardOK
<1>9. PastType' /\ past'.start \subseteq past.start
      /\ (Reading => /\ past'.start = past.start /\ past'.moved = past.moved \cup {seq'}
                     /\ past'.removed <=> past.removed \/ FALSE
                     /\ past'.back <=> past.back \/ FALSE)
  <2>1. \A m \in SUBSET Ids : Remember(m, FALSE, FALSE) =>
            PastType' /\ past'.start \subseteq past.start
            /\ (Reading => /\ past'.start = past.start /\ past'.moved = past.moved \cup m
                           /\ past'.removed <=> past.removed \/ FALSE
                           /\ past'.back <=> past.back \/ FALSE)
    BY <1>1, Remembers
  <2>2. Remember({seq'}, FALSE, FALSE) /\ {seq'} \in SUBSET Ids
    BY <1>2 DEF NewThread
  <2> QED
    BY <2>1, <2>2
<1>10. BoardStep
  <2>1. \A u \in Standing : posts'[u] = posts[u] /\ u \in Nat /\ posts[u].bump \in Nat
    BY <1>2, <1>4, RowFacts DEF Standing
  <2>2. OPs \subseteq Standing
    BY DEF OPs
  <2>3. \A id \in Standing' : id <= seq => id \in Standing
    BY <1>2, <1>5
  <2>4. \A id \in opened' : id <= seq => id \in opened
    BY <1>2, <1>6
  <2> QED
    BY <1>2, <1>6, <1>9, <2>1, <2>2, <2>3, <2>4 DEF BoardStep
<1> QED
  BY <1>7, <1>8, <1>9, <1>10

LEMMA PostReplyStep ==
    ASSUME TypeOK, BoardOK, NEW t \in opened, NEW sage \in BOOLEAN, PostReply(t, sage)
    PROVE  BoardType' /\ PastType' /\ BoardOK' /\ BoardStep
<1> DEFINE bumps == ~sage /\ posts[t] # None
           b == bumps /\ posts[t].bump > now
           m == IF bumps THEN {t} ELSE {}
<1>1. BoardType /\ PastType
  BY Types
<1>2. /\ seq \in Nat /\ seq' = seq + 1 /\ seq' \in Ids /\ seq' \notin Standing
      /\ seq' \notin opened /\ t \in Ids /\ t # seq'
  <2>1. seq \in Nat /\ seq < MaxPosts /\ seq' = seq + 1
    BY <1>1, PagesAssumption DEF PostReply, BoardType, Ids
  <2>2. seq' \in Ids
    BY <2>1, PagesAssumption DEF Ids
  <2>3. t \in Ids
    BY <1>1 DEF BoardType
  <2> QED
    BY <2>1, <2>2, <2>3, HandedOut
<1>3. bumps <=> ~sage /\ t \in OPs
  BY <1>2, HandedOut DEF Standing
<1>4. /\ now \in Times /\ \A x \in Times : x \in Nat
      /\ \A x \in Ids : x \in Nat /\ x > 0
  BY <1>1, PagesAssumption DEF BoardType, Times, Ids
<1>5. /\ Row(t, 0, TRUE) \in [thread : Nat, bump : Nat, local : BOOLEAN]
      /\ Row(t, 0, TRUE) \in Rows
  BY <1>2, <1>4, PagesAssumption DEF Row, Rows, Times
<1>6. t \in OPs => Row(0, now, posts[t].local) \in Rows
                   /\ Row(0, now, posts[t].local) \in [thread : Nat, bump : Nat, local : BOOLEAN]
  BY <1>2, <1>4, RowFacts DEF Row, Rows, OPs
<1>7. /\ posts' \in [Ids -> Rows \cup {None}]
      /\ posts'[seq'] = Row(t, 0, TRUE)
      /\ bumps => posts'[t] = Row(0, now, posts[t].local)
      /\ \A id \in Ids : id # seq' /\ (id # t \/ ~bumps) => posts'[id] = posts[id]
  <2>1. posts' = [id \in Ids |->
                    IF id = seq' THEN Row(t, 0, TRUE)
                    ELSE IF bumps /\ id = t THEN Row(0, now, posts[t].local)
                    ELSE posts[id]]
    BY DEF PostReply
  <2>2. \A id \in Ids : posts[id] \in Rows \cup {None}
    BY <1>1 DEF BoardType
  <2> HIDE DEF bumps
  <2> QED
    BY <1>2, <1>3, <1>5, <1>6, <2>1, <2>2
<1>8. bumps \in BOOLEAN /\ b \in BOOLEAN /\ m \in SUBSET Ids
  BY <1>2
<1>9. Remember(m, FALSE, b) /\ opened' = opened /\ visit' = visit /\ now' = now
  BY DEF PostReply
<1> HIDE DEF m, b, bumps
<1>10. \A id \in Standing : /\ posts'[id].thread = posts[id].thread
                            /\ posts'[id].local = posts[id].local
                            /\ id # t \/ ~bumps => posts'[id] = posts[id]
                            /\ posts'[id] # None
  <2> TAKE id \in Standing
  <2>1. id \in Ids /\ id # seq' /\ posts[id] # None
    BY <1>2 DEF Standing
  <2>2. CASE id = t /\ bumps
    <3>1. posts'[id] = Row(0, now, posts[t].local) /\ posts[t].thread = 0
      BY <1>3, <1>7, <2>2 DEF OPs
    <3>2. posts'[id] # None
      BY <1>3, <1>6, <2>2, <3>1, PagesAssumption
    <3> QED
      BY <2>2, <3>1, <3>2 DEF Row
  <2>3. CASE ~(id = t /\ bumps)
    BY <1>7, <2>1, <2>3
  <2> QED
    BY <2>2, <2>3
<1>11. Standing' = Standing \cup {seq'}
  <2>1. posts'[seq'] # None
    BY <1>5, <1>7, PagesAssumption
  <2>2. \A id \in Ids : id # seq' /\ id \notin Standing => posts'[id] = None
    BY <1>3, <1>7 DEF Standing, OPs
  <2> QED
    BY <1>2, <1>10, <2>1, <2>2 DEF Standing
<1>12. posts'[seq'].thread = t /\ t # 0
  BY <1>2, <1>4, <1>7 DEF Row
<1>13. OPs' = OPs
  BY <1>2, <1>10, <1>11, <1>12 DEF OPs
<1>14. BoardType'
  BY <1>1, <1>2, <1>7, <1>9 DEF BoardType
<1>15. BoardOK'
  <2>1. opened' \subseteq 1 .. seq'
    BY <1>2, <1>9 DEF BoardOK
  <2>2. ASSUME NEW id \in Standing
        PROVE  id <= seq' /\ (posts'[id].thread = 0 <=> id \in opened') /\ posts'[id].thread < id
    <3>1. id \in Nat /\ id <= seq
      BY HandedOut
    <3> QED
      BY <1>2, <1>9, <1>10, <3>1 DEF BoardOK
  <2>3. seq' <= seq' /\ posts'[seq'].thread # 0 /\ seq' \notin opened' /\ posts'[seq'].thread < seq'
    BY <1>2, <1>9, <1>12, HandedOut
  <2> QED
    BY <1>11, <2>1, <2>2, <2>3 DEF BoardOK
<1>16. PastType' /\ past'.start \subseteq past.start
       /\ (Reading => /\ past'.start = past.start /\ past'.moved = past.moved \cup m
                      /\ past'.removed <=> past.removed \/ FALSE
                      /\ past'.back <=> past.back \/ b)
  BY <1>1, <1>8, <1>9, Remembers
<1>17. BoardStep
  <2>1. \A id \in Standing' : id <= seq => id \in Standing
    BY <1>2, <1>11
  <2>2. ASSUME NEW u \in OPs
        PROVE  /\ u \notin m => posts'[u].bump = posts[u].bump
               /\ ~b => posts[u].bump <= posts'[u].bump
    <3>1. u \in Standing /\ posts[u].bump \in Nat
      BY RowFacts DEF OPs
    <3>2. CASE u = t /\ bumps
      BY <1>4, <1>7, <3>1, <3>2 DEF m, b, Row
    <3>3. CASE ~(u = t /\ bumps)
      BY <1>10, <3>1, <3>3
    <3> QED
      BY <3>2, <3>3
  <2> QED
    BY <1>2, <1>9, <1>10, <1>13, <1>16, <2>1, <2>2 DEF BoardStep
<1> QED
  BY <1>14, <1>15, <1>16, <1>17

LEMMA DeleteThreadStep ==
    ASSUME TypeOK, BoardOK, NEW t, DeleteThread(t)
    PROVE  BoardType' /\ PastType' /\ BoardOK' /\ BoardStep
<1>1. BoardType /\ PastType
  BY Types
<1>2. posts' = [id \in Ids |-> IF id \in InThread(t) THEN None ELSE posts[id]]
  BY DEF DeleteThread
<1>3. posts' \in [Ids -> Rows \cup {None}]
  BY <1>1, <1>2 DEF BoardType
<1>4. /\ \A id \in Ids : id \in Standing' => id \in Standing /\ posts'[id] = posts[id]
      /\ Standing' \subseteq Ids
  BY <1>2 DEF Standing
<1>5. OPs' \subseteq OPs
  BY <1>4 DEF OPs
<1>6. Remember({}, TRUE, FALSE) /\ UNCHANGED <<now, seq, opened, visit>>
  BY DEF DeleteThread
<1>7. PastType' /\ past'.start \subseteq past.start
      /\ (Reading => /\ past'.start = past.start /\ past'.moved = past.moved \cup {}
                     /\ past'.removed <=> past.removed \/ TRUE
                     /\ past'.back <=> past.back \/ FALSE)
  BY <1>1, <1>6, Remembers
<1>8. BoardType'
  BY <1>1, <1>3, <1>6 DEF BoardType
<1>9. BoardOK'
  BY <1>4, <1>6 DEF BoardOK
<1>10. \A u \in OPs : posts[u].bump \in Nat
  BY RowFacts DEF OPs
<1>11. BoardStep
  <2>1. seq \in Nat
    BY HandedOut
  <2>2. \A u \in OPs' : posts'[u] = posts[u]
    BY <1>4 DEF OPs
  <2> QED
    BY <1>4, <1>5, <1>6, <1>7, <1>10, <2>1, <2>2 DEF BoardStep
<1> QED
  BY <1>7, <1>8, <1>9, <1>11

LEMMA DeletePostStep ==
    ASSUME TypeOK, BoardOK, NEW d \in Ids, DeletePost(d)
    PROVE  BoardType' /\ PastType' /\ BoardOK' /\ BoardStep
<1>1. BoardType /\ PastType
  BY Types
<1>2. posts' = [posts EXCEPT ![d] = None] /\ d \in Standing \ OPs
  BY DEF DeletePost
<1>3. posts' \in [Ids -> Rows \cup {None}]
  BY <1>1, <1>2 DEF BoardType
<1>4. /\ Standing' = Standing \ {d}
      /\ \A id \in Standing' : posts'[id] = posts[id]
  BY <1>1, <1>2, <1>3 DEF Standing, BoardType
<1>5. OPs' = OPs
  BY <1>2, <1>4 DEF OPs
<1>6. UNCHANGED <<now, seq, opened, visit, past>>
  BY DEF DeletePost
<1>7. BoardType' /\ PastType'
  BY <1>1, <1>3, <1>6 DEF BoardType, PastType
<1>8. BoardOK'
  BY <1>4, <1>6 DEF BoardOK
<1>9. \A u \in OPs : posts[u].bump \in Nat
  BY RowFacts DEF OPs
<1>10. BoardStep
  <2>1. seq \in Nat
    BY HandedOut
  <2>2. \A u \in OPs' : posts'[u] = posts[u]
    BY <1>4 DEF OPs
  <2> QED
    BY <1>4, <1>5, <1>6, <1>9, <2>1, <2>2 DEF BoardStep
<1> QED
  BY <1>7, <1>8, <1>10

LEMMA ChangeStep ==
    ASSUME TypeOK, BoardOK, Change
    PROVE  BoardType' /\ PastType' /\ BoardOK' /\ BoardStep
<1>1. now \in Times
  BY Types DEF BoardType
<1>2. CASE Tick
  BY <1>2, TickStep
<1>3. CASE PostThread
  BY <1>1, <1>3, NewThreadStep DEF PostThread
<1>4. ASSUME NEW d \in Dates, ImportThread(d)
      PROVE  BoardType' /\ PastType' /\ BoardOK' /\ BoardStep
  BY <1>4, NewThreadStep DEF ImportThread
<1>5. ASSUME NEW t \in opened, DeleteThread(t)
      PROVE  BoardType' /\ PastType' /\ BoardOK' /\ BoardStep
  BY <1>5, DeleteThreadStep
<1>6. ASSUME NEW t \in opened, NEW sage \in BOOLEAN, PostReply(t, sage)
      PROVE  BoardType' /\ PastType' /\ BoardOK' /\ BoardStep
  BY <1>6, PostReplyStep
<1>7. ASSUME NEW d \in Ids, DeletePost(d)
      PROVE  BoardType' /\ PastType' /\ BoardOK' /\ BoardStep
  BY <1>7, DeletePostStep
<1> QED
  BY <1>2, <1>3, <1>4, <1>5, <1>6, <1>7 DEF Change

BumpsOK == \A id \in Standing : id \in Nat /\ posts[id].bump \in Nat

LEMMA BumpsAreNat == BoardType => BumpsOK
<1>1. /\ \A x \in Ids : x \in Nat
      /\ \A x \in Times \cup Dates : x \in Nat
  BY PagesAssumption DEF Ids, Times
<1>2. \A r \in Rows : r.bump \in Times \cup Dates
  BY DEF Rows
<1>3. ASSUME BoardType PROVE \A id \in Standing : id \in Ids /\ posts[id] \in Rows
  BY <1>3 DEF BoardType, Standing
<1> QED
  BY <1>1, <1>2, <1>3 DEF BumpsOK

(* While the visitor reads, a thread that stays put only moves down, and   *)
(* up only when another one was put above.                                 *)
LEMMA StayPutMovesDown ==
    ASSUME TypeOK, BoardOK, BoardType', BoardStep, Reading, ~past'.removed, ~past'.back,
           NEW t \in OPs, t \notin past'.moved
    PROVE  t \in OPs' /\ Place(t) <= Place(t)'
<1>1. OPs \subseteq OPs' /\ \A u \in OPs : posts[u].bump <= posts'[u].bump
  BY DEF BoardStep
<1>2. posts'[t].bump = posts[t].bump
  BY <1>1 DEF BoardStep
<1>3. \A id \in Standing : id \in Nat /\ posts[id].bump \in Nat
  BY BumpsAreNat, Types DEF BumpsOK
<1>4. \A id \in Standing' : id \in Nat /\ posts'[id].bump \in Nat
  <2>1. BumpsOK'
    BY BumpsAreNat, PTL
  <2> QED
    BY <2>1 DEF BumpsOK
<1>5. ASSUME NEW u \in OPs, Above(u, t) PROVE u \in OPs' /\ Above(u, t)'
  <2>1. /\ posts[u].bump \in Nat /\ posts'[u].bump \in Nat /\ posts[t].bump \in Nat
        /\ u \in Nat /\ t \in Nat /\ u \in OPs' /\ posts[u].bump <= posts'[u].bump
    BY <1>1, <1>3, <1>4 DEF OPs
  <2>2. Above(u, t)'
    BY <1>2, <1>5, <2>1 DEF Above
  <2> QED
    BY <2>1, <2>2
<1>6. Higher(t) \subseteq Higher(t)'
  BY <1>5 DEF Higher
<1> QED
  BY <1>1, <1>6, PlaceMoves

LEMMA AloneMovesUp ==
    ASSUME TypeOK, BoardOK, BoardType', BoardStep, Reading, ~past'.back,
           NEW t \in opened, t \in OPs', past'.moved \subseteq {t}
    PROVE  t \in OPs /\ Place(t)' <= Place(t)
<1>1. OPs \subseteq Standing /\ OPs' \subseteq Standing'
  BY DEF OPs
<1>2. t \in OPs
  <2>1. t \in Standing /\ posts'[t].thread = posts[t].thread
    BY <1>1, HandedOut DEF BoardStep
  <2> QED
    BY <2>1 DEF OPs
<1>3. \A id \in Standing : id \in Nat /\ posts[id].bump \in Nat
  BY BumpsAreNat, Types DEF BumpsOK
<1>4. \A id \in Standing' : id \in Nat /\ posts'[id].bump \in Nat
  <2>1. BumpsOK'
    BY BumpsAreNat, PTL
  <2> QED
    BY <2>1 DEF BumpsOK
<1>5. ASSUME NEW u \in OPs', Above(u, t)' PROVE u \in OPs /\ Above(u, t)
  <2>1. posts'[u].bump \in Nat /\ posts'[t].bump \in Nat /\ u \in Nat /\ t \in Nat
    BY <1>1, <1>4
  <2>2. u # t
    BY <1>5, <2>1 DEF Above
  <2>3. u \in OPs /\ posts'[u].bump = posts[u].bump
    BY <2>2 DEF BoardStep
  <2>4. posts[t].bump \in Nat /\ posts[t].bump <= posts'[t].bump
    BY <1>1, <1>2, <1>3 DEF BoardStep
  <2>5. Above(u, t)
    BY <1>5, <2>1, <2>3, <2>4 DEF Above
  <2> QED
    BY <2>3, <2>5
<1>6. Higher(t)' \subseteq Higher(t)
  BY <1>5 DEF Higher
<1> QED
  BY <1>2, <1>6, PlaceMoves

LEMMA BoardStepKeeps ==
    ASSUME Inv, BoardType', PastType', BoardOK', BoardStep
    PROVE  Inv'
<1> USE DEF Inv
<1>1. /\ visit' = visit /\ Todo' = Todo /\ First' = First /\ (Reading' <=> Reading)
      /\ (Walking' <=> Walking) /\ Bound' = Bound
      /\ (Walking => Reading)
  BY DEF BoardStep, Todo, First, Reading, Walking, Bound
<1>2. /\ seq \in Nat /\ seq' \in Nat /\ seq <= seq'
      /\ \A id \in Standing : id \in Nat /\ 0 < id /\ id <= seq
      /\ \A id \in opened : id \in Nat /\ 0 < id /\ id <= seq
      /\ \A id \in 1 .. seq : id \in Nat /\ id <= seq /\ id \in 1 .. seq'
  <2>1. seq' \in Nat
    BY PagesAssumption DEF BoardType, Ids
  <2>2. seq \in Nat /\ seq <= seq'
    BY HandedOut DEF BoardStep
  <2> QED
    BY <2>1, <2>2, HandedOut
<1>3. VisitType /\ PastType /\ HasRead
  BY Types
<1>4. TypeOK'
  <2>1. VisitType' /\ HasRead'
    BY <1>1, <1>3 DEF VisitType, HasRead
  <2>2. TypeOK' <=> BoardType' /\ VisitType' /\ PastType' /\ HasRead'
    BY Types, PTL
  <2> QED
    BY <2>1, <2>2
<1>5. KnownOK'
  <2>1. past'.start \subseteq past.start /\ opened \subseteq opened'
    BY DEF BoardStep
  <2>2. visit'.upto <= seq'
    <3>1. visit.upto \in Nat /\ visit.upto <= seq
      BY <1>3, PagesAssumption DEF KnownOK, VisitType, Ids
    <3> QED
      BY <1>1, <1>2, <3>1
  <2> QED
    BY <1>1, <1>2, <2>1, <2>2 DEF KnownOK
<1>6. StepsOK'
  BY <1>1 DEF StepsOK
<1>7. AheadOK'
  <2> SUFFICES ASSUME Walking, ~past'.removed, ~past'.back, NEW t \in past'.start \ past'.moved
               PROVE  t \in OPs' /\ (t \in visit.seen \cup Todo \/ Place(t)' > Bound)
    BY <1>1 DEF AheadOK
  <2>1. t \in past.start \ past.moved /\ ~past.removed /\ ~past.back /\ Reading
    BY <1>1 DEF BoardStep
  <2>2. t \in OPs /\ (t \in visit.seen \cup Todo \/ Place(t) > Bound)
    BY <2>1 DEF AheadOK
  <2>3. t \in OPs' /\ Place(t) <= Place(t)'
    BY <2>1, <2>2, StayPutMovesDown
  <2>4. Place(t) \in Nat /\ Place(t)' \in Nat /\ Bound \in Int
    <3>1. Place(t) \in Nat /\ Place(t)' \in Nat
      BY PlaceMoves
    <3>2. Bound \in Int
      BY <1>3, BoundIsInt
    <3> QED
      BY <3>1, <3>2
  <2> QED
    BY <2>2, <2>3, <2>4
<1>8. BehindOK'
  <2> SUFFICES ASSUME Walking, ~past'.back, NEW t \in visit.seen \cup Todo, t \in OPs',
                      past'.moved \subseteq {t}
               PROVE  Place(t)' <= Bound
    BY <1>1 DEF BehindOK
  <2>1. past.moved \subseteq {t} /\ ~past.back /\ Reading /\ t \in opened
    BY <1>1 DEF BoardStep, KnownOK
  <2>2. t \in OPs /\ Place(t)' <= Place(t)
    BY <2>1, AloneMovesUp
  <2>3. Place(t) <= Bound
    BY <2>1, <2>2 DEF BehindOK
  <2>4. Place(t) \in Nat /\ Place(t)' \in Nat /\ Bound \in Int
    <3>1. Place(t) \in Nat /\ Place(t)' \in Nat
      BY PlaceMoves
    <3>2. Bound \in Int
      BY <1>3, BoundIsInt
    <3> QED
      BY <3>1, <3>2
  <2> QED
    BY <2>2, <2>3, <2>4
<1>9. \A id \in Standing' : id <= seq => id \in Standing /\ posts'[id].thread = posts[id].thread
  BY DEF BoardStep
<1>10. ReadOK'
  <2> SUFFICES ASSUME visit.pc = "stat", visit.kind # "catalog"
               PROVE  /\ visit.read # {} /\ visit.read \subseteq 1 .. visit.upto
                      /\ visit.read \cap Standing' \subseteq InThread(First)'
    BY <1>1 DEF ReadOK
  <2>1. /\ visit.read # {} /\ visit.read \subseteq 1 .. visit.upto
        /\ visit.read \cap Standing \subseteq InThread(First)
    BY DEF ReadOK
  <2>2. visit.read \subseteq 1 .. seq
    BY DEF KnownOK
  <2>3. ASSUME NEW id \in visit.read, id \in Standing' PROVE id \in InThread(First)'
    BY <1>1, <1>2, <1>9, <2>1, <2>2, <2>3 DEF InThread
  <2> QED
    BY <2>1, <2>3
<1>11. \A t \in opened : t \in OPs' => t \in OPs /\ posts'[t].local = posts[t].local
  BY <1>2 DEF BoardStep, OPs
<1>12. {t \in OPs' \cap past'.start : posts'[t].local} \subseteq {t \in OPs \cap past.start : posts[t].local}
  BY <1>11 DEF BoardStep, KnownOK
<1>13. ListedOK'
  BY <1>1, <1>12 DEF ListedOK
<1>14. WalkComplete'
  <2>1. Over("index")' <=> Over("index")
    BY <1>1 DEF Over
  <2>2. Over("index") => Reading
    BY DEF Over, Reading
  <2> QED
    BY <1>1, <2>1, <2>2 DEF WalkComplete, BoardStep
<1>15. SeenOnce'
  <2>1. CASE Reading
    BY <1>1, <2>1 DEF SeenOnce, BoardStep
  <2>2. CASE ~Reading
    BY <1>1, <2>2 DEF SeenOnce, StepsOK, Reading, Away, Visit
  <2> QED
    BY <2>1, <2>2
<1>16. LeftOut' \subseteq LeftOut
  <2> SUFFICES ASSUME NEW id \in LeftOut' PROVE id \in LeftOut
    OBVIOUS
  <2>1. id \in Standing' /\ id <= visit.upto
    BY <1>1 DEF LeftOut, InThread
  <2>2. visit.upto \in Nat /\ visit.upto <= seq /\ id \in Nat
    BY <1>3, <2>1, PagesAssumption DEF VisitType, Ids, KnownOK, Standing
  <2>3. id \in Standing /\ posts'[id].thread = posts[id].thread
    BY <1>2, <1>9, <2>1, <2>2
  <2> QED
    BY <1>1, <2>1, <2>3 DEF LeftOut, InThread
<1>17. ShownGone \subseteq ShownGone'
  BY <1>1, <1>2, <1>9 DEF ShownGone, KnownOK
<1>18. HiddenTold'
  BY <1>1, <1>16, <1>17 DEF HiddenTold
<1>19. OutboxTrue'
  <2> SUFFICES ASSUME visit.kind = "outbox", visit.pc # "failed"
               PROVE  /\ visit.entry # NoEntry =>
                            /\ visit.entry.posts \cap opened' = {}
                            /\ visit.entry.thread \in OPs' => LeftOut' \subseteq {visit.entry.thread}
                      /\ visit.pc = "over" =>
                            {t \in OPs' \cap past'.start : posts'[t].local} \subseteq visit.seen
    BY <1>1 DEF OutboxTrue
  <2>1. visit.entry # NoEntry => visit.entry.posts \cap opened' = {}
    <3>1. \A id \in opened' : id <= seq => id \in opened
      BY DEF BoardStep
    <3> QED
      BY <1>2, <3>1 DEF OutboxTrue, KnownOK
  <2>2. visit.entry # NoEntry /\ visit.entry.thread \in OPs' => LeftOut' \subseteq {visit.entry.thread}
    BY <1>11, <1>16 DEF OutboxTrue, KnownOK
  <2>3. visit.pc = "over" => {t \in OPs' \cap past'.start : posts'[t].local} \subseteq visit.seen
    BY <1>12 DEF OutboxTrue
  <2> QED
    BY <2>1, <2>2, <2>3
<1> QED
  BY <1>4, <1>5, <1>6, <1>7, <1>8, <1>10, <1>13, <1>14, <1>15, <1>18, <1>19
-----------------------------------------------------------------------------
(* The visitor's own steps: the board stays as it is.                      *)

LEMMA Still ==
    ASSUME posts' = posts
    PROVE  /\ Standing' = Standing /\ OPs' = OPs
           /\ \A t : Place(t)' = Place(t) /\ InThread(t)' = InThread(t)
<1>1. Standing' = Standing /\ OPs' = OPs
  BY DEF Standing, OPs
<1>2. \A t : InThread(t)' = InThread(t)
  BY <1>1 DEF InThread
<1>3. \A t : {u \in OPs' : Above(u, t)'} = {u \in OPs : Above(u, t)}
  BY <1>1 DEF Above
<1>4. \A t : Place(t)' = Place(t)
  BY <1>3 DEF Place
<1> QED
  BY <1>1, <1>2, <1>4

LEMMA Fields ==
    ASSUME NEW k, NEW pc, NEW page, NEW todo, NEW read, NEW upto, NEW e, NEW seen, NEW again,
           visit' = Visit(k, pc, page, todo, read, upto, e, seen, again)
    PROVE  /\ visit'.kind = k /\ visit'.pc = pc /\ visit'.page = page /\ visit'.todo = todo
           /\ visit'.read = read /\ visit'.upto = upto /\ visit'.entry = e
           /\ visit'.seen = seen /\ visit'.again = again
           /\ Todo' = DOMAIN todo
           /\ pc # "away" => visit' # Away
BY DEF Visit, Todo, Away

LEMMA TypeMade ==
    ASSUME NEW k \in Kinds, NEW pc \in Pcs, NEW page \in 0 .. MaxPosts + 1, NEW todo \in Queues,
           NEW read \in SUBSET Ids, NEW upto \in {0} \cup Ids, NEW e,
           NEW seen \in SUBSET Ids, NEW again \in SUBSET Ids,
           e = Entry(e.thread, e.posts, e.n),
           e.thread \in {0} \cup Ids, e.posts \subseteq Ids, e.n \in 0 .. MaxPosts,
           visit' = Visit(k, pc, page, todo, read, upto, e, seen, again)
    PROVE  VisitType'
<1>1. /\ visit'.kind = k /\ visit'.pc = pc /\ visit'.page = page /\ visit'.todo = todo
      /\ visit'.read = read /\ visit'.upto = upto /\ visit'.entry = e
      /\ visit'.seen = seen /\ visit'.again = again
  BY Fields
<1> QED
  BY <1>1 DEF VisitType

LEMMA NoEntryIs ==
    /\ NoEntry = Entry(NoEntry.thread, NoEntry.posts, NoEntry.n)
    /\ NoEntry.thread = 0 /\ NoEntry.posts = {} /\ NoEntry.n = 0
BY DEF NoEntry, Entry

LEMMA EmptyQueue == <<>> \in Queues /\ DOMAIN <<>> = {}
BY DEF Queues

LEMMA QueueMade ==
    ASSUME NEW S \in SUBSET Ids, NEW f, f \in [S -> Ids]
    PROVE  f \in Queues
BY DEF Queues

LEMMA LeastPlace ==
    ASSUME NEW T \in SUBSET Nat, T # {}
    PROVE  \E m \in T : \A n \in T : m <= n
<1> DEFINE R == OpToRel(<, Nat)
<1>1. R = {x \in Nat \X Nat : x[1] < x[2]}
  BY DEF OpToRel
<1>2. IsWellFoundedOn(R, Nat)
  BY NatLessThanWellFounded
<1>3. PICK m \in T : \A n \in T : ~(<<n, m>> \in R)
  <2> HIDE DEF R
  <2> QED
    BY <1>2, WFMin
<1>4. \A n \in T : ~(n < m)
  BY <1>1, <1>3
<1> QED
  BY <1>4

(* There is a first thread among those left to be read.                    *)
LEMMA FirstIsOne ==
    ASSUME VisitType, Todo # {}
    PROVE  /\ First \in Todo /\ First \in Ids
           /\ Rest \in Queues /\ DOMAIN Rest = Todo \ {First}
<1> DEFINE T == {visit.todo[t] : t \in Todo}
<1>1. PICK S \in SUBSET Ids : visit.todo \in [S -> Ids]
  BY DEF VisitType, Queues
<1>2. Todo = S
  BY <1>1 DEF Todo
<1>3. \A t \in Todo : visit.todo[t] \in Ids
  BY <1>1, <1>2
<1>4. T \in SUBSET Nat /\ T # {}
  BY <1>3 DEF Ids
<1>5. PICK m \in T : \A n \in T : m <= n
  <2> HIDE DEF T
  <2> QED
    BY <1>4, LeastPlace
<1>6. \E t \in Todo : \A u \in Todo : visit.todo[t] <= visit.todo[u]
  BY <1>5
<1>7. First \in Todo
  BY <1>6 DEF First
<1>8. Rest \in [Todo \ {First} -> Ids]
  BY <1>3 DEF Rest
<1>9. DOMAIN Rest = Todo \ {First}
  BY DEF Rest
<1>10. Todo \ {First} \in SUBSET Ids
  BY <1>2
<1> HIDE DEF T
<1>11. Rest \in Queues
  BY <1>8, <1>10, QueueMade
<1> QED
  BY <1>2, <1>7, <1>9, <1>11

(* What a visitor's step leaves true of the board.                         *)
LEMMA BoardStill ==
    ASSUME TypeOK, BoardOK, UNCHANGED <<now, seq, posts, opened>>
    PROVE  BoardType' /\ BoardOK' /\ VisitType /\ PastType
<1>1. BoardType /\ VisitType /\ PastType
  BY Types
<1>2. Standing' = Standing
  BY Still
<1> QED
  BY <1>1, <1>2 DEF BoardType, BoardOK

LEMMA TypeAgain ==
    ASSUME BoardType', VisitType', PastType', HasRead'
    PROVE  TypeOK'
<1>1. TypeOK' <=> BoardType' /\ VisitType' /\ PastType' /\ HasRead'
  BY Types, PTL
<1> QED
  BY <1>1

LEMMA PastStill == ASSUME PastType, past' = past PROVE PastType'
BY DEF PastType

LEMMA LeaveKeeps ==
    ASSUME Inv, Leave
    PROVE  Inv'
<1> USE DEF Inv
<1>1. /\ visit' = Visit("none", "away", 0, <<>>, {}, 0, NoEntry, {}, {})
      /\ visit' = Away /\ past' = Past({}, {}, FALSE, FALSE) /\ UNCHANGED <<now, seq, posts, opened>>
  BY DEF Leave, Away, Nothing
<1>2. /\ visit'.kind = "none" /\ visit'.pc = "away" /\ visit'.page = 0 /\ visit'.todo = <<>>
      /\ visit'.read = {} /\ visit'.upto = 0 /\ visit'.entry = NoEntry /\ visit'.seen = {}
      /\ visit'.again = {} /\ Todo' = {}
  BY <1>1, Fields, EmptyQueue
<1>3. NoEntry.thread = 0 /\ NoEntry.posts = {} /\ NoEntry.n = 0
  BY NoEntryIs
<1>4. past'.start = {} /\ past'.moved = {} /\ past'.removed = FALSE /\ past'.back = FALSE
  BY <1>1 DEF Past
<1>5. TypeOK'
  <2>1. BoardType'
    BY <1>1, BoardStill
  <2>2. PastType'
    BY <1>1, <1>4 DEF PastType
  <2>3. 0 \in 0 .. MaxPosts /\ 0 \in 0 .. MaxPosts + 1
    BY PagesAssumption
  <2>4. VisitType'
    BY <1>1, <1>3, <2>3, TypeMade, EmptyQueue, NoEntryIs DEF Kinds, Pcs
  <2>5. HasRead'
    BY <1>2 DEF HasRead
  <2> QED
    BY <2>1, <2>2, <2>4, <2>5, TypeAgain
<1>6. BoardOK'
  BY <1>1, BoardStill
<1>7. KnownOK' /\ StepsOK'
  <2>1. 0 <= seq'
    BY <1>1, HandedOut
  <2> QED
    BY <1>1, <1>2, <1>3, <1>4, <2>1 DEF KnownOK, StepsOK
<1>8. AheadOK' /\ BehindOK' /\ ReadOK' /\ ListedOK'
  BY <1>2 DEF AheadOK, BehindOK, Walking, ReadOK, ListedOK
<1>9. WalkComplete' /\ SeenOnce' /\ HiddenTold' /\ OutboxTrue'
  BY <1>2 DEF WalkComplete, Over, SeenOnce, HiddenTold, OutboxTrue
<1> QED
  BY <1>5, <1>6, <1>7, <1>8, <1>9

LEMMA BeginKeeps ==
    ASSUME Inv, NEW k, NEW pc, NEW page, NEW todo \in Queues, DOMAIN todo \subseteq opened,
           Begin(Visit(k, pc, page, todo, {}, 0, NoEntry, {}, {})),
           \/ k = "index" /\ pc = "count" /\ page = 1 /\ DOMAIN todo = {}
           \/ k \in {"catalog", "outbox"} /\ pc = "list" /\ page = 0 /\ DOMAIN todo = {}
           \/ k = "thread" /\ pc = "read" /\ page = 0 /\ DOMAIN todo # {}
    PROVE  Inv'
<1> USE DEF Inv
<1>1. /\ visit' = Visit(k, pc, page, todo, {}, 0, NoEntry, {}, {})
      /\ past' = Past(OPs, {}, FALSE, FALSE) /\ UNCHANGED <<now, seq, posts, opened>>
  BY DEF Begin
<1>2. /\ visit'.kind = k /\ visit'.pc = pc /\ visit'.page = page /\ visit'.todo = todo
      /\ visit'.read = {} /\ visit'.upto = 0 /\ visit'.entry = NoEntry /\ visit'.seen = {}
      /\ visit'.again = {} /\ Todo' = DOMAIN todo /\ visit' # Away
  BY <1>1, Fields
<1>3. NoEntry.thread = 0 /\ NoEntry.posts = {} /\ NoEntry.n = 0
  BY NoEntryIs
<1>4. past'.start = OPs /\ past'.moved = {} /\ past'.removed = FALSE /\ past'.back = FALSE
  BY <1>1 DEF Past
<1>5. OPs \subseteq Ids /\ OPs \subseteq opened
  BY HigherInIds, HandedOut
<1>6. TypeOK'
  <2>1. BoardType'
    BY <1>1, BoardStill
  <2>2. PastType'
    BY <1>1, <1>4, <1>5 DEF PastType
  <2>3. 0 \in 0 .. MaxPosts /\ page \in 0 .. MaxPosts + 1
    BY PagesAssumption
  <2>4. VisitType'
    BY <1>1, <1>3, <2>3, TypeMade, NoEntryIs DEF Kinds, Pcs
  <2>5. HasRead'
    BY <1>2 DEF HasRead
  <2> QED
    BY <2>1, <2>2, <2>4, <2>5, TypeAgain
<1>7. BoardOK'
  BY <1>1, BoardStill
<1>8. KnownOK'
  <2>1. 0 <= seq'
    BY <1>1, HandedOut
  <2> QED
    BY <1>1, <1>2, <1>3, <1>4, <1>5, <2>1 DEF KnownOK
<1>9. StepsOK'
  BY <1>2 DEF StepsOK
<1>10. AheadOK'
  <2> SUFFICES ASSUME Walking', NEW t \in OPs PROVE t \in OPs' /\ Place(t)' > Bound'
    BY <1>4 DEF AheadOK
  <2>1. Bound' = 0
    BY <1>2, PagesAssumption DEF Walking, Bound
  <2>2. Place(t) \in Nat /\ Place(t) > 0 /\ OPs' = OPs /\ Place(t)' = Place(t)
    BY <1>1, Still, PlaceRange
  <2> QED
    BY <2>1, <2>2
<1>11. BehindOK'
  BY <1>2 DEF BehindOK, Walking
<1>12. ReadOK' /\ ListedOK'
  BY <1>2 DEF ReadOK, ListedOK
<1>13. WalkComplete' /\ SeenOnce' /\ HiddenTold' /\ OutboxTrue'
  BY <1>2 DEF WalkComplete, Over, SeenOnce, HiddenTold, OutboxTrue
<1> QED
  BY <1>6, <1>7, <1>8, <1>9, <1>10, <1>11, <1>12, <1>13

LEMMA BegunKeeps ==
    ASSUME Inv,
           \/ GetBoardIndex \/ GetBoardCatalog \/ GetBoardOutbox
           \/ \E t \in opened : GetBoardThread(t)
    PROVE  Inv'
<1>1. CASE GetBoardIndex
  BY <1>1, BeginKeeps, EmptyQueue DEF GetBoardIndex
<1>2. CASE GetBoardCatalog
  BY <1>2, BeginKeeps, EmptyQueue DEF GetBoardCatalog
<1>3. CASE GetBoardOutbox
  BY <1>3, BeginKeeps, EmptyQueue DEF GetBoardOutbox
<1>4. ASSUME NEW t \in opened, GetBoardThread(t) PROVE Inv'
  <2> DEFINE q == [u \in {t} |-> 1]
  <2>1. t \in Ids /\ 1 \in Ids
    BY Types, PagesAssumption DEF Inv, BoardType, Ids
  <2>2. q \in [{t} -> Ids] /\ DOMAIN q = {t} /\ {t} \in SUBSET Ids
    BY <2>1
  <2>3. Begin(Visit("thread", "read", 0, q, {}, 0, NoEntry, {}, {}))
    BY <1>4 DEF GetBoardThread
  <2> HIDE DEF q
  <2>4. q \in Queues /\ DOMAIN q \subseteq opened /\ DOMAIN q # {}
    BY <2>2, QueueMade
  <2> QED
    BY <2>3, <2>4, BeginKeeps
<1> QED
  BY <1>1, <1>2, <1>3, <1>4

(* A walk that goes on behind page q has n threads, and at most q pages.   *)
LEMMA Division ==
    ASSUME NEW n \in Nat, NEW page \in Nat
    PROVE  /\ page > PagesOf(n) => n <= (page - 1) * PerPage
           /\ (page - 1) * PerPage < n /\ page > 0 => page <= n
<1>1. PerPage \in Nat /\ PerPage > 0
  BY PagesAssumption
<1> DEFINE q == (n + PerPage - 1) \div PerPage
<1>2. q \in Nat /\ n + PerPage - 1 < (q + 1) * PerPage
  BY <1>1
<1> HIDE DEF q
<1>3. ASSUME page > q PROVE n <= (page - 1) * PerPage
  <2>1. q * PerPage <= (page - 1) * PerPage
    BY <1>1, <1>2, <1>3
  <2>2. n <= q * PerPage
    BY <1>1, <1>2
  <2> QED
    BY <1>1, <1>2, <2>1, <2>2
<1>4. ASSUME (page - 1) * PerPage < n, page > 0 PROVE page <= n
  <2>1. page - 1 <= (page - 1) * PerPage
    BY <1>1, <1>4
  <2>2. (page - 1) * PerPage \in Nat
    BY <1>1, <1>4
  <2> QED
    BY <1>4, <2>1, <2>2
<1> QED
  BY <1>3, <1>4 DEF PagesOf, q

LEMMA VisitorStep ==
    ASSUME TypeOK, BoardOK, UNCHANGED <<now, seq, posts, opened, past>>
    PROVE  /\ VisitType' /\ HasRead' => TypeOK'
           /\ BoardOK'
           /\ Standing' = Standing /\ OPs' = OPs
           /\ \A t : Place(t)' = Place(t) /\ InThread(t)' = InThread(t)
<1>1. BoardType' /\ PastType'
  BY BoardStill, PastStill
<1>2. BoardOK'
  BY BoardStill
<1>3. ASSUME VisitType', HasRead' PROVE TypeOK'
  BY <1>1, <1>3, TypeAgain
<1> QED
  BY <1>2, <1>3, Still

LEMMA PageExistsKeeps ==
    ASSUME Inv, PageExists
    PROVE  Inv'
<1> USE DEF Inv
<1>1. VisitType /\ visit.pc = "count" /\ UNCHANGED <<now, seq, posts, opened, past>>
  BY Types DEF PageExists, Steps
<1>2. visit' = Visit(visit.kind, "list", visit.page, visit.todo, visit.read, visit.upto,
                     visit.entry, visit.seen, visit.again)
  BY <1>1 DEF PageExists, Steps, VisitType, Visit
<1>3. /\ visit'.kind = visit.kind /\ visit'.pc = "list" /\ visit'.page = visit.page
      /\ visit'.todo = visit.todo /\ visit'.read = visit.read /\ visit'.upto = visit.upto
      /\ visit'.entry = visit.entry /\ visit'.seen = visit.seen /\ visit'.again = visit.again
      /\ Todo' = Todo /\ visit' # Away
  BY <1>2, Fields DEF Todo
<1>4. VisitType' /\ HasRead'
  BY <1>1, <1>2, <1>3, TypeMade DEF VisitType, HasRead, Pcs
<1>5. /\ TypeOK' /\ BoardOK' /\ Standing' = Standing /\ OPs' = OPs
      /\ \A t : Place(t)' = Place(t) /\ InThread(t)' = InThread(t)
  BY <1>1, <1>4, VisitorStep
<1>6. KnownOK' /\ StepsOK'
  BY <1>1, <1>3 DEF KnownOK, StepsOK
<1>7. AheadOK' /\ BehindOK'
  <2>1. (Walking' <=> Walking) /\ Bound' = Bound
    BY <1>1, <1>3 DEF Walking, Bound
  <2> QED
    BY <1>1, <1>3, <1>5, <2>1 DEF AheadOK, BehindOK
<1>8. ReadOK' /\ ListedOK'
  BY <1>1, <1>3, <1>5 DEF ReadOK, ListedOK, StepsOK
<1>9. WalkComplete' /\ SeenOnce'
  BY <1>1, <1>3 DEF WalkComplete, Over, SeenOnce
<1>10. LeftOut' = LeftOut /\ ShownGone' = ShownGone
  BY <1>1, <1>3, <1>5 DEF LeftOut, ShownGone
<1>11. HiddenTold' /\ OutboxTrue'
  BY <1>1, <1>3, <1>5, <1>10 DEF HiddenTold, OutboxTrue, StepsOK
<1> QED
  BY <1>5, <1>6, <1>7, <1>8, <1>9, <1>11

LEMMA NoSuchPageKeeps ==
    ASSUME Inv, NoSuchPage
    PROVE  Inv'
<1> USE DEF Inv
<1>1. VisitType /\ visit.pc = "count" /\ UNCHANGED <<now, seq, posts, opened, past>>
      /\ visit.page > PagesOf(Cardinality(OPs))
  BY Types DEF NoSuchPage, Steps
<1>2. visit' = Visit(visit.kind, "over", visit.page, visit.todo, visit.read, visit.upto,
                     visit.entry, visit.seen, visit.again)
  BY <1>1 DEF NoSuchPage, Steps, VisitType, Visit
<1>3. /\ visit'.kind = visit.kind /\ visit'.pc = "over" /\ visit'.page = visit.page
      /\ visit'.todo = visit.todo /\ visit'.read = visit.read /\ visit'.upto = visit.upto
      /\ visit'.entry = visit.entry /\ visit'.seen = visit.seen /\ visit'.again = visit.again
      /\ Todo' = Todo /\ visit' # Away
  BY <1>2, Fields DEF Todo
<1>4. VisitType' /\ HasRead'
  BY <1>1, <1>2, <1>3, TypeMade DEF VisitType, HasRead, Pcs
<1>5. /\ TypeOK' /\ BoardOK' /\ Standing' = Standing /\ OPs' = OPs
      /\ \A t : Place(t)' = Place(t) /\ InThread(t)' = InThread(t)
  BY <1>1, <1>4, VisitorStep
<1>6. KnownOK' /\ StepsOK'
  BY <1>1, <1>3 DEF KnownOK, StepsOK
<1>7. AheadOK' /\ BehindOK' /\ ReadOK'
  BY <1>3 DEF AheadOK, BehindOK, Walking, ReadOK
<1>8. visit.kind = "index"
  BY <1>1 DEF StepsOK
<1>9. WalkComplete'
  <2> SUFFICES ASSUME ~past.removed, ~past.back, NEW t \in past.start \ past.moved
               PROVE  t \in visit.seen
    BY <1>1, <1>3 DEF WalkComplete
  <2>1. Walking /\ Todo = {} /\ Bound = (visit.page - 1) * PerPage
    BY <1>1, <1>8 DEF Walking, StepsOK, Bound
  <2>2. t \in OPs /\ (t \in visit.seen \/ Place(t) > (visit.page - 1) * PerPage)
    BY <2>1 DEF AheadOK
  <2>3. Place(t) \in 1 .. Cardinality(OPs) /\ Cardinality(OPs) \in 0 .. MaxPosts
    BY <2>2, PlaceRange
  <2>4. Cardinality(OPs) \in Nat /\ visit.page \in Nat
    BY <1>1, <2>3, BoundIsInt, PagesAssumption
  <2>5. Cardinality(OPs) <= (visit.page - 1) * PerPage
    BY <1>1, <2>4, Division
  <2>6. (visit.page - 1) * PerPage \in Int
    BY <2>4, PagesAssumption
  <2>7. ~(Place(t) > (visit.page - 1) * PerPage)
    BY <2>3, <2>4, <2>5, <2>6
  <2> QED
    BY <2>2, <2>7
<1>10. SeenOnce'
  BY <1>1, <1>3 DEF SeenOnce
<1>11. LeftOut' = LeftOut /\ ShownGone' = ShownGone
  BY <1>1, <1>3, <1>5 DEF LeftOut, ShownGone
<1>12. ListedOK' /\ HiddenTold' /\ OutboxTrue'
  BY <1>1, <1>3, <1>8, <1>11 DEF ListedOK, HiddenTold, OutboxTrue
<1> QED
  BY <1>5, <1>6, <1>7, <1>9, <1>10, <1>12

LEMMA ReadNothingKeeps ==
    ASSUME Inv, ReadNothing
    PROVE  Inv'
<1> USE DEF Inv
<1>1. VisitType /\ visit.pc = "read" /\ UNCHANGED <<now, seq, posts, opened, past>>
  BY Types DEF ReadNothing, Steps
<1>2. visit' = Visit(visit.kind, "failed", visit.page, visit.todo, visit.read, visit.upto,
                     visit.entry, visit.seen, visit.again)
  BY <1>1 DEF ReadNothing, Steps, VisitType, Visit
<1>3. /\ visit'.kind = visit.kind /\ visit'.pc = "failed" /\ visit'.page = visit.page
      /\ visit'.todo = visit.todo /\ visit'.read = visit.read /\ visit'.upto = visit.upto
      /\ visit'.entry = visit.entry /\ visit'.seen = visit.seen /\ visit'.again = visit.again
      /\ Todo' = Todo /\ visit' # Away
  BY <1>2, Fields DEF Todo
<1>4. VisitType' /\ HasRead'
  BY <1>1, <1>2, <1>3, TypeMade DEF VisitType, HasRead, Pcs
<1>5. /\ TypeOK' /\ BoardOK' /\ Standing' = Standing /\ OPs' = OPs
      /\ \A t : Place(t)' = Place(t) /\ InThread(t)' = InThread(t)
  BY <1>1, <1>4, VisitorStep
<1>6. KnownOK' /\ StepsOK'
  BY <1>1, <1>3 DEF KnownOK, StepsOK
<1>7. AheadOK' /\ BehindOK' /\ ReadOK' /\ ListedOK'
  BY <1>3 DEF AheadOK, BehindOK, Walking, ReadOK, ListedOK
<1>8. WalkComplete' /\ SeenOnce' /\ OutboxTrue'
  BY <1>1, <1>3 DEF WalkComplete, Over, SeenOnce, OutboxTrue
<1>9. LeftOut' = LeftOut /\ ShownGone' = ShownGone
  BY <1>1, <1>3, <1>5 DEF LeftOut, ShownGone
<1>10. HiddenTold'
  BY <1>1, <1>3, <1>9 DEF HiddenTold
<1> QED
  BY <1>5, <1>6, <1>7, <1>8, <1>10

(* The threads of a page, and that there are none on the pages behind the  *)
(* first one that is empty.                                                *)
LEMMA PageListed ==
    ASSUME TypeOK, NEW page \in Nat, page > 0
    PROVE  /\ \A t \in OPs : t \in Threads(page) <=>
                (page - 1) * PerPage < Place(t) /\ Place(t) <= page * PerPage
           /\ Threads(page) = {} => \A t \in OPs : Place(t) <= (page - 1) * PerPage
           /\ Threads(page) # {} => page <= MaxPosts
<1>1. /\ PerPage \in Nat /\ PerPage > 0 /\ (page - 1) * PerPage \in Nat
      /\ page * PerPage = (page - 1) * PerPage + PerPage
  BY PagesAssumption
<1>2. \A t \in OPs : t \in Threads(page) <=>
        (page - 1) * PerPage < Place(t) /\ Place(t) <= page * PerPage
  BY DEF Threads, Slice
<1>3. /\ \A t \in OPs : Place(t) \in 1 .. Cardinality(OPs)
      /\ Cardinality(OPs) \in 0 .. MaxPosts /\ MaxPosts \in Nat
  BY PlaceRange, HigherInIds, Finite, PagesAssumption
<1>4. ASSUME Threads(page) = {}, NEW t \in OPs PROVE Place(t) <= (page - 1) * PerPage
  <2> DEFINE b == (page - 1) * PerPage
  <2> SUFFICES ASSUME Place(t) > b PROVE FALSE
    BY <1>1, <1>3
  <2>1. b + 1 \in 1 .. Cardinality(OPs)
    BY <1>1, <1>3
  <2>2. PICK u \in OPs : Place(u) = b + 1
    BY <2>1, PlaceTaken
  <2>3. b < b + 1 /\ b + 1 <= page * PerPage
    BY <1>1
  <2> QED
    BY <1>2, <1>4, <2>2, <2>3
<1>5. ASSUME Threads(page) # {} PROVE page <= MaxPosts
  <2>1. PICK t \in OPs : (page - 1) * PerPage < Place(t)
    BY <1>5 DEF Threads, Slice
  <2>2. (page - 1) * PerPage < Cardinality(OPs) /\ Cardinality(OPs) \in Nat
    BY <1>1, <1>3, <2>1
  <2>3. page <= Cardinality(OPs)
    BY <2>2, Division
  <2> QED
    BY <1>3, <2>3
<1> QED
  BY <1>2, <1>4, <1>5

LEMMA ListKeeps ==
    ASSUME Inv, List
    PROVE  Inv'
<1> USE DEF Inv
<1> DEFINE listed == {t \in Threads(visit.page) : visit.kind # "outbox" \/ posts[t].local}
           q == [t \in listed |-> Place(t)]
           pc == IF listed = {} THEN "over"
                 ELSE IF visit.kind = "catalog" THEN "stat" ELSE "read"
           again == visit.again \cup (listed \cap visit.seen)
<1>1. VisitType /\ visit.pc = "list" /\ UNCHANGED <<now, seq, posts, opened, past>>
  BY Types DEF List, Steps
<1>2. visit' = Visit(visit.kind, pc, visit.page, q, visit.read, visit.upto,
                     visit.entry, visit.seen, again)
  BY <1>1 DEF List, Steps, VisitType, Visit
<1>3. listed \subseteq OPs /\ listed \subseteq Ids /\ listed \subseteq opened
  <2>1. Threads(visit.page) \subseteq OPs
    BY DEF Threads, Slice
  <2> QED
    BY <2>1, HigherInIds, HandedOut
<1>4. q \in Queues /\ DOMAIN q = listed
  <2>1. \A t \in listed : Place(t) \in Ids
    <3>1. \A t \in OPs : Place(t) \in 1 .. Cardinality(OPs) /\ Cardinality(OPs) \in 0 .. MaxPosts
      BY PlaceRange
    <3>2. \A t \in OPs : Place(t) \in Ids
      BY <3>1, PagesAssumption DEF Ids
    <3> QED
      BY <1>3, <3>2
  <2>2. q \in [listed -> Ids]
    BY <2>1
  <2>3. DOMAIN q = listed
    OBVIOUS
  <2> HIDE DEF q, listed
  <2> QED
    BY <1>3, <2>2, <2>3, QueueMade
<1>5. again \subseteq Ids
  BY <1>1 DEF VisitType
<1>6. /\ pc = "over" <=> listed = {}
      /\ listed # {} /\ visit.kind = "catalog" => pc = "stat"
      /\ listed # {} /\ visit.kind # "catalog" => pc = "read"
      /\ pc \in {"over", "stat", "read"}
  OBVIOUS
<1>7. again = visit.again \cup (listed \cap visit.seen)
  OBVIOUS
<1>8. listed = {t \in Threads(visit.page) : visit.kind # "outbox" \/ posts[t].local}
  OBVIOUS
<1> HIDE DEF listed, q, pc, again
<1>9. /\ visit'.kind = visit.kind /\ visit'.pc = pc /\ visit'.page = visit.page
      /\ visit'.todo = q /\ visit'.read = visit.read /\ visit'.upto = visit.upto
      /\ visit'.entry = visit.entry /\ visit'.seen = visit.seen /\ visit'.again = again
      /\ Todo' = listed /\ visit' # Away
  BY <1>2, <1>4, <1>6, Fields
<1>10. VisitType' /\ HasRead'
  <2>1. VisitType'
    BY <1>1, <1>2, <1>4, <1>5, <1>6, TypeMade DEF VisitType, Pcs
  <2>2. HasRead'
    BY <1>6, <1>9 DEF HasRead
  <2> QED
    BY <2>1, <2>2
<1>11. /\ TypeOK' /\ BoardOK' /\ Standing' = Standing /\ OPs' = OPs
       /\ \A t : Place(t)' = Place(t) /\ InThread(t)' = InThread(t)
  BY <1>1, <1>10, VisitorStep
<1>12. Todo = {}
  BY <1>1 DEF StepsOK
<1>13. KnownOK'
  BY <1>1, <1>3, <1>9 DEF KnownOK
<1>14. visit.kind # "index" => visit.seen = {} /\ again = {} /\ visit.page = 0 /\ Threads(visit.page) = OPs
  BY <1>1, <1>7 DEF StepsOK, Threads
<1>15. visit.kind = "index" => visit.page > 0 /\ visit.page \in Nat /\ listed = Threads(visit.page)
  BY <1>1, <1>8, BoundIsInt DEF StepsOK
<1>16. visit.kind = "index" =>
         /\ \A t \in OPs : t \in listed <=>
              (visit.page - 1) * PerPage < Place(t) /\ Place(t) <= visit.page * PerPage
         /\ listed = {} => \A t \in OPs : Place(t) <= (visit.page - 1) * PerPage
         /\ listed # {} => visit.page <= MaxPosts
  BY <1>15, PageListed
<1>17. /\ \A t \in OPs : Place(t) \in Nat
       /\ visit.page * PerPage \in Int /\ (visit.page - 1) * PerPage \in Int
       /\ (visit.page - 1) * PerPage <= visit.page * PerPage
  <2>1. \A t : Place(t) \in Nat
    BY PlaceIsNat
  <2>2. visit.page \in Nat /\ PerPage \in Nat
    BY <1>1, BoundIsInt, PagesAssumption
  <2>3. visit.page * PerPage = (visit.page - 1) * PerPage + PerPage /\ (visit.page - 1) * PerPage \in Int
    BY <2>2
  <2> QED
    BY <2>1, <2>2, <2>3
<1>18. StepsOK'
  BY <1>1, <1>6, <1>9, <1>14, <1>15, <1>16 DEF StepsOK
<1>19. visit.kind = "index" => Walking /\ Bound = (visit.page - 1) * PerPage
  BY <1>1 DEF Walking, Bound
<1>20. Walking' => visit.kind = "index" /\ listed # {} /\ Bound' = visit.page * PerPage
  BY <1>6, <1>9 DEF Walking, Bound
<1>21. AheadOK'
  <2> SUFFICES ASSUME Walking', ~past.removed, ~past.back, NEW t \in past.start \ past.moved
               PROVE  t \in OPs /\ (t \in visit.seen \cup listed \/ Place(t) > visit.page * PerPage)
    BY <1>1, <1>9, <1>11, <1>20 DEF AheadOK
  <2>1. t \in OPs /\ (t \in visit.seen \/ Place(t) > (visit.page - 1) * PerPage)
    BY <1>12, <1>19, <1>20 DEF AheadOK
  <2> QED
    BY <1>16, <1>17, <1>20, <2>1
<1>22. BehindOK'
  <2> SUFFICES ASSUME Walking', ~past.back, NEW t \in visit.seen \cup listed, t \in OPs,
                      past.moved \subseteq {t}
               PROVE  Place(t) <= visit.page * PerPage
    BY <1>1, <1>9, <1>11, <1>20 DEF BehindOK
  <2>1. CASE t \in listed
    BY <1>16, <1>20, <2>1
  <2>2. CASE t \in visit.seen
    <3>1. Place(t) <= (visit.page - 1) * PerPage
      BY <1>19, <1>20, <2>2 DEF BehindOK
    <3> QED
      BY <1>17, <3>1
  <2> QED
    BY <2>1, <2>2
<1>23. ReadOK'
  BY <1>6, <1>9 DEF ReadOK
<1>24. visit.kind = "outbox" => {t \in OPs \cap past.start : posts[t].local} \subseteq listed
  BY <1>8, <1>14
<1>25. ListedOK'
  BY <1>1, <1>9, <1>11, <1>24 DEF ListedOK
<1>26. WalkComplete'
  <2> SUFFICES ASSUME visit.kind = "index", listed = {}, ~past.removed, ~past.back,
                      NEW t \in past.start \ past.moved
               PROVE  t \in visit.seen
    BY <1>1, <1>6, <1>9 DEF WalkComplete, Over
  <2>1. t \in OPs /\ (t \in visit.seen \/ Place(t) > (visit.page - 1) * PerPage)
    BY <1>12, <1>19 DEF AheadOK
  <2>2. Place(t) <= (visit.page - 1) * PerPage
    BY <1>16, <2>1
  <2> QED
    BY <1>17, <2>1, <2>2
<1>27. SeenOnce'
  <2> SUFFICES ASSUME NEW t \in again, ~past.back, past.moved \ {t} = {}
               PROVE  FALSE
    BY <1>1, <1>9 DEF SeenOnce
  <2>1. t \in listed \cap visit.seen
    BY <1>7 DEF SeenOnce
  <2>2. visit.kind = "index"
    BY <1>14, <2>1
  <2>3. t \in OPs /\ Place(t) <= (visit.page - 1) * PerPage
    BY <1>3, <1>19, <2>1, <2>2 DEF BehindOK
  <2>4. (visit.page - 1) * PerPage < Place(t)
    BY <1>16, <2>1, <2>2, <2>3
  <2> QED
    BY <1>17, <2>3, <2>4
<1>28. LeftOut' = LeftOut /\ ShownGone' = ShownGone
  BY <1>1, <1>9, <1>11 DEF LeftOut, ShownGone
<1>29. HiddenTold'
  BY <1>1, <1>9, <1>28 DEF HiddenTold
<1>30. OutboxTrue'
  <2> SUFFICES ASSUME visit.kind = "outbox"
               PROVE  /\ visit.entry # NoEntry =>
                            /\ visit.entry.posts \cap opened = {}
                            /\ visit.entry.thread \in OPs => LeftOut \subseteq {visit.entry.thread}
                      /\ listed = {} =>
                            {t \in OPs \cap past.start : posts[t].local} \subseteq visit.seen
    BY <1>1, <1>6, <1>9, <1>11, <1>28 DEF OutboxTrue
  <2> QED
    BY <1>1, <1>24 DEF OutboxTrue
<1> QED
  BY <1>11, <1>13, <1>18, <1>21, <1>22, <1>23, <1>25, <1>26, <1>27, <1>29, <1>30

LEMMA ReadKeeps ==
    ASSUME Inv, Read
    PROVE  Inv'
<1> USE DEF Inv
<1>1. /\ VisitType /\ visit.pc = "read" /\ visit.kind # "outbox" /\ Shown # {}
      /\ UNCHANGED <<now, seq, posts, opened, past>>
  BY Types DEF Read, Steps
<1>2. visit' = Visit(visit.kind, "stat", visit.page, visit.todo, Shown, seq,
                     visit.entry, visit.seen, visit.again)
  BY <1>1 DEF Read, Steps, VisitType, Visit
<1>3. /\ visit'.kind = visit.kind /\ visit'.pc = "stat" /\ visit'.page = visit.page
      /\ visit'.todo = visit.todo /\ visit'.read = Shown /\ visit'.upto = seq
      /\ visit'.entry = visit.entry /\ visit'.seen = visit.seen /\ visit'.again = visit.again
      /\ Todo' = Todo /\ First' = First /\ visit' # Away
  BY <1>2, Fields DEF Todo, First
<1>4. Shown \subseteq InThread(First) /\ InThread(First) \subseteq Standing
  BY DEF Shown, Thread, Latest, InThread
<1>5. Shown \subseteq Ids /\ Shown \subseteq 1 .. seq
  BY <1>4, HandedOut DEF Standing
<1>6. VisitType' /\ HasRead'
  <2>1. seq \in {0} \cup Ids
    BY Types DEF BoardType
  <2> QED
    BY <1>1, <1>2, <1>3, <1>5, <2>1, TypeMade DEF VisitType, HasRead, Pcs
<1>7. /\ TypeOK' /\ BoardOK' /\ Standing' = Standing /\ OPs' = OPs
      /\ \A t : Place(t)' = Place(t) /\ InThread(t)' = InThread(t)
  BY <1>1, <1>6, VisitorStep
<1>8. KnownOK'
  <2>1. seq <= seq'
    BY <1>1, HandedOut
  <2> QED
    BY <1>1, <1>3, <1>5, <2>1 DEF KnownOK
<1>9. StepsOK'
  BY <1>1, <1>3 DEF StepsOK
<1>10. AheadOK' /\ BehindOK'
  <2>1. (Walking' <=> Walking) /\ Bound' = Bound
    BY <1>1, <1>3 DEF Walking, Bound
  <2> QED
    BY <1>1, <1>3, <1>7, <2>1 DEF AheadOK, BehindOK
<1>11. ReadOK'
  BY <1>1, <1>3, <1>4, <1>5, <1>7 DEF ReadOK
<1>12. ListedOK' /\ WalkComplete' /\ SeenOnce' /\ HiddenTold' /\ OutboxTrue'
  BY <1>1, <1>3 DEF ListedOK, WalkComplete, Over, SeenOnce, HiddenTold, OutboxTrue
<1> QED
  BY <1>7, <1>8, <1>9, <1>10, <1>11, <1>12

(* The first row of a thread that stands is the post that opened it.       *)
LEMMA OpeningPostFirst ==
    ASSUME TypeOK, BoardOK, NEW t \in opened
    PROVE  /\ RepliesOf(InThread(t)) \cap opened = {}
           /\ t \in OPs => InThread(t) \ RepliesOf(InThread(t)) \subseteq {t}
<1>1. /\ \A id \in Standing : id \in Nat /\ 0 < id /\ id <= seq
      /\ \A id \in opened : id \in Nat /\ 0 < id /\ id <= seq
      /\ OPs = Standing \cap opened
  BY HandedOut
<1>2. ASSUME NEW id \in InThread(t), id # t PROVE id \notin opened /\ t < id
  <2>1. id \in Standing /\ posts[id].thread = t
    BY <1>2 DEF InThread
  <2> QED
    BY <1>1, <2>1 DEF BoardOK
<1>3. t \notin RepliesOf(InThread(t))
  <2> SUFFICES ASSUME NEW x \in InThread(t), x < t PROVE FALSE
    BY DEF RepliesOf
  <2>1. x # t /\ x \in Nat
    BY <1>1 DEF InThread
  <2> QED
    BY <1>1, <1>2, <2>1
<1>4. ASSUME t \in OPs, NEW id \in InThread(t), id # t PROVE id \in RepliesOf(InThread(t))
  <2>1. t \in InThread(t) /\ t < id
    BY <1>1, <1>2, <1>4 DEF InThread
  <2> QED
    BY <2>1 DEF RepliesOf
<1> QED
  BY <1>2, <1>3, <1>4 DEF RepliesOf

(* What an entry shown for thread t with the posts E leaves out.           *)
LEMMA LeftOutNext ==
    ASSUME NEW t, NEW E, posts' = posts, visit'.entry.thread = t, visit'.entry.posts = E
    PROVE  /\ LeftOut' \subseteq InThread(t) \ E
           /\ ShownGone' = E \ Standing
<1>1. Standing' = Standing
  BY Still
<1>2. ASSUME NEW id \in LeftOut' PROVE id \in InThread(t) /\ id \notin E
  <2>1. /\ id \in Standing' /\ (id = visit'.entry.thread \/ posts'[id].thread = visit'.entry.thread)
        /\ id \notin visit'.entry.posts
    BY <1>2 DEF LeftOut, InThread
  <2> QED
    BY <1>1, <2>1 DEF InThread
<1>3. ShownGone' = E \ Standing
  BY <1>1 DEF ShownGone
<1> QED
  BY <1>2, <1>3

LEMMA ReadOutboxKeeps ==
    ASSUME Inv, ReadOutbox
    PROVE  Inv'
<1> USE DEF Inv
<1> DEFINE pc == IF Todo = {First} THEN "over" ELSE "read"
           e == Entry(First, RepliesOf(Shown), 0)
<1>1. /\ VisitType /\ visit.pc = "read" /\ visit.kind = "outbox"
      /\ UNCHANGED <<now, seq, posts, opened, past>>
  BY Types DEF ReadOutbox, Steps
<1>2. visit' = Visit(visit.kind, pc, visit.page, Rest, visit.read, seq, e,
                     visit.seen \cup {First}, visit.again)
  BY <1>1 DEF ReadOutbox, Steps, VisitType, Visit
<1>3. /\ First \in Todo /\ First \in Ids /\ First \in opened
      /\ Rest \in Queues /\ DOMAIN Rest = Todo \ {First}
  BY <1>1, FirstIsOne DEF StepsOK, KnownOK
<1>4. Shown = InThread(First) /\ Shown \subseteq Standing
  BY <1>1 DEF Shown, Thread, InThread
<1>5. /\ e.thread = First /\ e.posts = RepliesOf(InThread(First)) /\ e.n = 0
      /\ e = Entry(e.thread, e.posts, e.n)
  BY <1>4 DEF Entry
<1>6. e.posts \subseteq Ids /\ e.posts \subseteq 1 .. seq
  BY <1>4, <1>5, HandedOut DEF RepliesOf, Standing
<1>7. pc \in {"over", "read"} /\ (pc = "over" <=> Todo \ {First} = {})
  BY <1>3
<1> HIDE DEF pc, e
<1>8. /\ visit'.kind = visit.kind /\ visit'.pc = pc /\ visit'.page = visit.page
      /\ visit'.read = visit.read /\ visit'.upto = seq /\ visit'.entry = e
      /\ visit'.seen = visit.seen \cup {First} /\ visit'.again = visit.again
      /\ Todo' = Todo \ {First} /\ visit' # Away
  BY <1>2, <1>3, <1>7, Fields
<1>9. VisitType' /\ HasRead'
  <2>1. seq \in {0} \cup Ids /\ 0 \in 0 .. MaxPosts
    BY Types, PagesAssumption DEF BoardType
  <2>2. VisitType'
    BY <1>1, <1>2, <1>3, <1>5, <1>6, <1>7, <2>1, TypeMade DEF VisitType, Pcs
  <2>3. HasRead'
    BY <1>1, <1>8 DEF HasRead
  <2> QED
    BY <2>2, <2>3
<1>10. /\ TypeOK' /\ BoardOK' /\ Standing' = Standing /\ OPs' = OPs
       /\ \A t : Place(t)' = Place(t) /\ InThread(t)' = InThread(t)
  BY <1>1, <1>9, VisitorStep
<1>11. KnownOK'
  <2>1. seq <= seq'
    BY <1>1, HandedOut
  <2> QED
    BY <1>1, <1>3, <1>5, <1>6, <1>8, <2>1 DEF KnownOK
<1>12. StepsOK'
  BY <1>1, <1>7, <1>8 DEF StepsOK
<1>13. AheadOK' /\ BehindOK' /\ ReadOK'
  BY <1>1, <1>7, <1>8 DEF AheadOK, BehindOK, Walking, ReadOK
<1>14. visit'.seen \cup Todo' = visit.seen \cup Todo
  BY <1>3, <1>8
<1>15. {t \in OPs \cap past.start : posts[t].local} \subseteq visit.seen \cup Todo
  BY <1>1 DEF ListedOK
<1>16. ListedOK'
  BY <1>1, <1>10, <1>14, <1>15 DEF ListedOK
<1>17. WalkComplete' /\ SeenOnce' /\ HiddenTold'
  BY <1>1, <1>8 DEF WalkComplete, Over, SeenOnce, HiddenTold
<1>18. /\ e.posts \cap opened = {}
       /\ First \in OPs => InThread(First) \ e.posts \subseteq {First}
  BY <1>3, <1>5, OpeningPostFirst
<1>19. LeftOut' \subseteq InThread(First) \ e.posts
  BY <1>1, <1>5, <1>8, LeftOutNext
<1>20. OutboxTrue'
  <2>1. pc = "over" => {t \in OPs \cap past.start : posts[t].local} \subseteq visit'.seen
    BY <1>7, <1>8, <1>14, <1>15
  <2> QED
    BY <1>1, <1>5, <1>8, <1>10, <1>18, <1>19, <2>1 DEF OutboxTrue
<1> QED
  BY <1>10, <1>11, <1>12, <1>13, <1>16, <1>17, <1>20

LEMMA StatKeeps ==
    ASSUME Inv, Stat
    PROVE  Inv'
<1> USE DEF Inv
<1> DEFINE last == Todo = {First}
           pc == CASE ~last -> NextRead
                   [] last /\ visit.kind = "index" -> "count"
                   [] OTHER -> "over"
           page == IF last /\ visit.kind = "index" THEN visit.page + 1 ELSE visit.page
           ids == IF visit.kind = "catalog" THEN {First} ELSE visit.read
           e == Entry(First, ids, ThreadStat(First))
<1>1. /\ VisitType /\ visit.pc = "stat" /\ visit.kind # "outbox" /\ visit.kind # "none"
      /\ UNCHANGED <<now, seq, posts, opened, past>>
  <2>1. visit.pc = "stat" /\ UNCHANGED <<now, seq, posts, opened, past>>
    BY DEF Stat, Shows, Steps
  <2>2. visit # Away
    BY <2>1 DEF Away, Visit
  <2> QED
    BY <2>1, <2>2, Types DEF StepsOK
<1>2. e.thread = First
  BY DEF Entry
<1>3. visit' = Visit(visit.kind, pc, page, Rest, {}, visit.upto, e,
                     visit.seen \cup {First}, visit.again)
  BY <1>1 DEF Stat, Shows, Steps, VisitType, Visit, Entry
<1>4. /\ First \in Todo /\ First \in Ids /\ First \in opened
      /\ Rest \in Queues /\ DOMAIN Rest = Todo \ {First}
  BY <1>1, FirstIsOne DEF StepsOK, KnownOK
<1>5. /\ e.posts = ids /\ e.n = Cardinality(InThread(First))
      /\ e = Entry(e.thread, e.posts, e.n)
  BY DEF Entry, ThreadStat
<1>6. InThread(First) \in SUBSET Ids
  BY DEF InThread, Standing
<1>7. Cardinality(InThread(First)) \in 0 .. MaxPosts
  BY <1>6, Finite
<1>8. ids \subseteq Ids /\ ids \subseteq 1 .. seq
  <2>1. visit.read \subseteq Ids /\ visit.read \subseteq 1 .. seq
    BY <1>1 DEF VisitType, KnownOK
  <2>2. First \in 1 .. seq
    BY <1>4 DEF BoardOK
  <2> QED
    BY <1>4, <2>1, <2>2
<1>9. /\ page \in 0 .. MaxPosts + 1
      /\ visit.kind # "index" => page = visit.page
      /\ visit.kind = "index" => page > 0
      /\ ~last => page = visit.page
      /\ last /\ visit.kind = "index" => page = visit.page + 1
  <2>1. visit.page \in 0 .. MaxPosts + 1 /\ MaxPosts \in Nat
    BY <1>1, PagesAssumption DEF VisitType
  <2>2. visit.kind = "index" => visit.page > 0 /\ visit.page <= MaxPosts
    BY <1>1 DEF StepsOK
  <2> QED
    BY <2>1, <2>2
<1>10. /\ last <=> Todo \ {First} = {}
       /\ visit.kind = "index" => pc = IF last THEN "count" ELSE "read"
       /\ visit.kind = "thread" => pc = IF last THEN "over" ELSE "read"
       /\ visit.kind = "catalog" => pc = IF last THEN "over" ELSE "stat"
       /\ pc \in {"count", "over", "read", "stat"}
  BY <1>4 DEF NextRead
<1>11. visit.kind \in {"index", "thread", "catalog"}
  BY <1>1 DEF VisitType, Kinds
<1>12. visit.kind # "catalog" => ids = visit.read
  OBVIOUS
<1> HIDE DEF last, pc, page, ids, e
<1>13. /\ visit'.kind = visit.kind /\ visit'.pc = pc /\ visit'.page = page
       /\ visit'.read = {} /\ visit'.upto = visit.upto /\ visit'.entry = e
       /\ visit'.seen = visit.seen \cup {First} /\ visit'.again = visit.again
       /\ Todo' = Todo \ {First} /\ visit' # Away
  BY <1>3, <1>4, <1>10, Fields
<1>14. VisitType' /\ HasRead'
  <2>1. VisitType'
    <3>1. /\ visit.kind \in Kinds /\ visit.upto \in {0} \cup Ids
          /\ visit.seen \cup {First} \subseteq Ids /\ visit.again \subseteq Ids
      BY <1>1, <1>4 DEF VisitType
    <3>2. /\ e.thread \in {0} \cup Ids /\ e.posts \subseteq Ids /\ e.n \in 0 .. MaxPosts
          /\ e = Entry(e.thread, e.posts, e.n)
      BY <1>2, <1>4, <1>5, <1>7, <1>8
    <3>3. pc \in Pcs /\ page \in 0 .. MaxPosts + 1 /\ Rest \in Queues /\ {} \in SUBSET Ids
      BY <1>4, <1>9, <1>10 DEF Pcs
    <3> QED
      BY <1>3, <3>1, <3>2, <3>3, TypeMade
  <2>2. HasRead'
    BY <1>10, <1>13 DEF HasRead
  <2> QED
    BY <2>1, <2>2
<1>15. /\ TypeOK' /\ BoardOK' /\ Standing' = Standing /\ OPs' = OPs
       /\ \A t : Place(t)' = Place(t) /\ InThread(t)' = InThread(t)
  BY <1>1, <1>14, VisitorStep
<1>16. KnownOK'
  BY <1>1, <1>2, <1>4, <1>5, <1>8, <1>13 DEF KnownOK
<1>17. StepsOK'
  <2>1. \/ visit.kind = "index" /\ last /\ pc = "count" /\ Todo' = {}
        \/ visit.kind = "index" /\ ~last /\ pc = "read" /\ Todo' # {} /\ page = visit.page
        \/ visit.kind \in {"thread", "catalog"} /\ last /\ pc = "over" /\ Todo' = {}
        \/ visit.kind = "thread" /\ ~last /\ pc = "read" /\ Todo' # {}
        \/ visit.kind = "catalog" /\ ~last /\ pc = "stat" /\ Todo' # {}
    BY <1>9, <1>10, <1>11, <1>13
  <2>2. visit.kind = "index" => page > 0 /\ visit.page <= MaxPosts
    BY <1>1, <1>9 DEF StepsOK
  <2>3. visit.kind # "index" => page = 0 /\ visit.again = {}
    BY <1>1, <1>9 DEF StepsOK
  <2> QED
    BY <1>13, <2>1, <2>2, <2>3 DEF StepsOK
<1>18. visit'.seen \cup Todo' = visit.seen \cup Todo
  BY <1>4, <1>13
<1>19. Walking' => Walking /\ Bound' = Bound
  <2> SUFFICES ASSUME Walking' PROVE Walking /\ Bound' = Bound
    OBVIOUS
  <2>1. visit.kind = "index" /\ Walking
    BY <1>1, <1>13 DEF Walking
  <2>2. visit.page \in Nat /\ PerPage \in Nat
    BY <1>1, BoundIsInt, PagesAssumption
  <2>3. Bound = visit.page * PerPage
    BY <1>1 DEF Bound
  <2>4. Bound' = (IF pc \in {"read", "stat"} THEN page ELSE page - 1) * PerPage
    BY <1>13 DEF Bound
  <2>5. (IF pc \in {"read", "stat"} THEN page ELSE page - 1) = visit.page
    BY <1>9, <1>10, <2>1, <2>2
  <2> QED
    BY <2>1, <2>3, <2>4, <2>5
<1>20. AheadOK' /\ BehindOK'
  BY <1>1, <1>15, <1>18, <1>19 DEF AheadOK, BehindOK
<1>21. ReadOK'
  BY <1>10, <1>11, <1>13 DEF ReadOK
<1>22. ListedOK' /\ OutboxTrue'
  BY <1>1, <1>13 DEF ListedOK, OutboxTrue
<1>23. WalkComplete' /\ SeenOnce'
  BY <1>1, <1>10, <1>13 DEF WalkComplete, Over, SeenOnce
<1>24. HiddenTold'
  <2> SUFFICES ASSUME visit.kind = "index", LeftOut' # {}, ShownGone' = {}
               PROVE  e.n > Cardinality(e.posts)
    BY <1>13 DEF HiddenTold
  <2>1. e.posts = visit.read /\ visit.read \cap Standing \subseteq InThread(First)
    BY <1>1, <1>5, <1>12 DEF ReadOK
  <2>2. LeftOut' \subseteq InThread(First) \ e.posts /\ ShownGone' = e.posts \ Standing
    BY <1>1, <1>2, <1>13, LeftOutNext
  <2>3. e.posts \subseteq InThread(First) /\ e.posts # InThread(First)
    BY <2>1, <2>2
  <2>4. Cardinality(e.posts) + 1 <= Cardinality(InThread(First))
    BY <1>6, <2>3, SmallerSet
  <2>5. Cardinality(e.posts) \in Nat /\ Cardinality(InThread(First)) \in Nat
    BY <1>5, <1>6, <1>8, Finite
  <2> QED
    BY <1>5, <2>4, <2>5
<1> QED
  BY <1>15, <1>16, <1>17, <1>20, <1>21, <1>22, <1>23, <1>24
-----------------------------------------------------------------------------
LEMMA InitOK == Init => Inv
<1> SUFFICES ASSUME Init PROVE Inv
  OBVIOUS
<1>1. /\ now = 0 /\ seq = 0 /\ opened = {} /\ posts = [id \in Ids |-> None]
      /\ visit = Away /\ past = Nothing
  BY DEF Init
<1>2. Standing = {} /\ OPs = {}
  BY <1>1 DEF Standing, OPs
<1>3. /\ visit = Visit("none", "away", 0, <<>>, {}, 0, NoEntry, {}, {})
      /\ visit.kind = "none" /\ visit.pc = "away" /\ visit.page = 0 /\ visit.todo = <<>>
      /\ visit.read = {} /\ visit.upto = 0 /\ visit.entry = NoEntry /\ visit.seen = {}
      /\ visit.again = {} /\ Todo = {}
  BY <1>1, EmptyQueue DEF Away, Visit, Todo
<1>4. past.start = {} /\ past.moved = {} /\ past.removed = FALSE /\ past.back = FALSE
  BY <1>1 DEF Nothing, Past
<1>5. TypeOK
  <2>1. BoardType
    BY <1>1, PagesAssumption DEF BoardType, Times
  <2>2. PastType
    BY <1>1, <1>4 DEF PastType, Nothing
  <2>3. 0 \in 0 .. MaxPosts /\ 0 \in 0 .. MaxPosts + 1
    BY PagesAssumption
  <2>4. VisitType
    BY <1>3, <2>3, EmptyQueue, NoEntryIs DEF VisitType, Kinds, Pcs
  <2>5. HasRead
    BY <1>3 DEF HasRead
  <2> QED
    BY <2>1, <2>2, <2>4, <2>5, Types
<1>6. BoardOK /\ KnownOK /\ StepsOK
  BY <1>1, <1>2, <1>3, <1>4, NoEntryIs DEF BoardOK, KnownOK, StepsOK
<1>7. AheadOK /\ BehindOK /\ ReadOK /\ ListedOK
  BY <1>3 DEF AheadOK, BehindOK, Walking, ReadOK, ListedOK
<1>8. WalkComplete /\ SeenOnce /\ HiddenTold /\ OutboxTrue
  BY <1>3 DEF WalkComplete, Over, SeenOnce, HiddenTold, OutboxTrue
<1> QED
  BY <1>5, <1>6, <1>7, <1>8 DEF Inv

LEMMA StutterKeeps ==
    ASSUME Inv, UNCHANGED vars
    PROVE  Inv'
<1> USE DEF Inv
<1>1. /\ UNCHANGED <<now, seq, posts, opened, past>> /\ visit' = visit
      /\ Todo' = Todo /\ First' = First /\ (Walking' <=> Walking) /\ Bound' = Bound
  BY DEF vars, Todo, First, Walking, Bound
<1>2. VisitType' /\ HasRead'
  BY <1>1, Types DEF VisitType, HasRead
<1>3. /\ TypeOK' /\ BoardOK' /\ Standing' = Standing /\ OPs' = OPs
      /\ \A t : Place(t)' = Place(t) /\ InThread(t)' = InThread(t)
  BY <1>1, <1>2, VisitorStep
<1>4. KnownOK' /\ StepsOK'
  BY <1>1 DEF KnownOK, StepsOK
<1>5. AheadOK' /\ BehindOK' /\ ListedOK'
  BY <1>1, <1>3 DEF AheadOK, BehindOK, ListedOK
<1>6. ReadOK'
  BY <1>1, <1>3 DEF ReadOK, InThread
<1>7. WalkComplete' /\ SeenOnce'
  BY <1>1 DEF WalkComplete, Over, SeenOnce
<1>8. LeftOut' = LeftOut /\ ShownGone' = ShownGone
  BY <1>1, <1>3 DEF LeftOut, ShownGone, InThread
<1>9. HiddenTold' /\ OutboxTrue'
  BY <1>1, <1>3, <1>8 DEF HiddenTold, OutboxTrue
<1> QED
  BY <1>3, <1>4, <1>5, <1>6, <1>7, <1>9

LEMMA NextKeeps == Inv /\ [Next]_vars => Inv'
<1> SUFFICES ASSUME Inv, [Next]_vars PROVE Inv'
  OBVIOUS
<1>1. CASE Change
  BY <1>1, ChangeStep, BoardStepKeeps DEF Inv
<1>2. CASE \/ GetBoardIndex \/ GetBoardCatalog \/ GetBoardOutbox
           \/ \E t \in opened : GetBoardThread(t)
  BY <1>2, BegunKeeps
<1>3. CASE PageExists
  BY <1>3, PageExistsKeeps
<1>4. CASE NoSuchPage
  BY <1>4, NoSuchPageKeeps
<1>5. CASE List
  BY <1>5, ListKeeps
<1>6. CASE ReadNothing
  BY <1>6, ReadNothingKeeps
<1>7. CASE Read
  BY <1>7, ReadKeeps
<1>8. CASE ReadOutbox
  BY <1>8, ReadOutboxKeeps
<1>9. CASE Stat
  BY <1>9, StatKeeps
<1>10. CASE Leave
  BY <1>10, LeaveKeeps
<1>11. CASE UNCHANGED vars
  BY <1>11, StutterKeeps
<1> QED
  BY <1>1, <1>2, <1>3, <1>4, <1>5, <1>6, <1>7, <1>8, <1>9, <1>10, <1>11 DEF Next

LEMMA Invariance == Spec => []Inv
BY InitOK, NextKeeps, PTL DEF Spec

(* Every variable keeps its type: no page has more rows than there are     *)
(* posts, and the template of the index never gets an empty thread.        *)
THEOREM TypeCorrect == Spec => []TypeOK
<1>1. Inv => TypeOK
  BY DEF Inv
<1> QED
  BY <1>1, Invariance, PTL

(* Who walks the index page by page, while others post and reply, misses   *)
(* no thread that was there from the start and stayed where it was, as     *)
(* long as no thread is removed and none is dated back: however long the   *)
(* pages are and whatever comes in between.                                *)
THEOREM WalkCompleteHolds == Spec => []WalkComplete
<1>1. Inv => WalkComplete
  BY DEF Inv
<1> QED
  BY <1>1, Invariance, PTL

(* A thread is shown twice on such a walk only when another one was put    *)
(* above it meanwhile, or one came back from the future.                   *)
THEOREM SeenOnceHolds == Spec => []SeenOnce
<1>1. Inv => SeenOnce
  BY DEF Inv
<1> QED
  BY <1>1, Invariance, PTL

(* A page of the index that leaves out posts of a thread counts more than  *)
(* it shows, unless one of those shown was deleted, although rows and      *)
(* count are read one after the other.                                     *)
THEOREM HiddenToldHolds == Spec => []HiddenTold
<1>1. Inv => HiddenTold
  BY DEF Inv
<1> QED
  BY <1>1, Invariance, PTL

(* The outbox has every local thread that stands all the time, with all    *)
(* replies that stand, and no opening post among the replies, although the *)
(* first row of each thread is taken off unseen.                           *)
THEOREM OutboxTrueHolds == Spec => []OutboxTrue
<1>1. Inv => OutboxTrue
  BY DEF Inv
<1> QED
  BY <1>1, Invariance, PTL
=============================================================================
