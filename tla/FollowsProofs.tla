--------------------------- MODULE FollowsProofs ----------------------------
(***************************************************************************)
(* What holds of the lists of boards and followers for any boards,         *)
(* instances, requests and number of attempts: the proofs about Follows.   *)
(***************************************************************************)
EXTENDS Follows, TLAPS

(* Who is asked names boards, and the loop is at an attempt.               *)
ReqsOK ==
    \A r \in Requests :
        /\ req[r].pc = "new" <=> req[r] = New
        /\ req[r].pc # "new" =>
               /\ req[r].from \in Boards /\ req[r].to \in Boards
               /\ req[r].op \in {"follow", "unfollow"}
               /\ req[r].try \in 1 .. MaxRetries
        /\ req[r].pc = "record" => req[r].op = "follow"

(* Attempts are under way for requests that were made.                     *)
WireOK == \A x \in wire \cup accepts : req[x[1]].pc # "new"

Inv1 == TypeOK /\ ReqsOK /\ WireOK

(* An inbox that sends an Accept has recorded the follower, and so has one *)
(* that answered 200 to a Follow.                                          *)
Knows(p) == p[1] \in followers[p[2]]

Inv2 ==
    /\ FollowersKnow
    /\ \A x \in accepts : Knows(Pair(x[1]))
    /\ \A r \in Requests : req[r].pc = "record" => Knows(Pair(r)) \/ Pair(r) \in missed

(* Where it is certain what was asked for last, at most one request is     *)
(* still at it, and the list says so unless a Follow is yet to be          *)
(* recorded.                                                               *)
Certain(p) ==
    /\ \A r, q \in Requests :
           UnderWay(r) /\ UnderWay(q) /\ Pair(r) = p /\ Pair(q) = p => r = q
    /\ \A r \in Requests : UnderWay(r) /\ Pair(r) = p =>
           (req[r].op = "follow" <=> want[p] = "yes")
    /\ Settled(p) \/ want[p] = "no" =>
           (p[2] \in following[p[1]] <=> want[p] = "yes")

Inv3 == \A p \in Pairs : want[p] # "unknown" => Certain(p)

-----------------------------------------------------------------------------
States == [pc : {"new", "send", "flying", "record", "done"},
           op : {"none", "follow", "unfollow"},
           from : Boards \cup {None}, to : Boards \cup {None},
           try : 0 .. MaxRetries]

(* Steps of one request that has been made: to another attempt, or past    *)
(* the loop.                                                               *)
Moves(r) ==
    /\ req' = [req EXCEPT ![r] = req'[r]]
    /\ req'[r] \in States
    /\ req'[r].pc # "new"
    /\ req'[r].op = req[r].op /\ req'[r].from = req[r].from /\ req'[r].to = req[r].to
    /\ req'[r].try \in 1 .. MaxRetries
    /\ req'[r].pc = "record" => req[r].op = "follow"
    /\ UnderWay(r)

LEMMA AnswerMoves ==
    ASSUME Inv1, NEW r \in Requests, NEW n \in 1 .. MaxRetries, NEW ok \in BOOLEAN
    PROVE  /\ UnderWay(r) /\ Sent(r, ok) =>
                 /\ Moves(r) /\ req'[r].pc \in {"record", "done"}
                 /\ req'[r].pc = "record" /\ ~ok => Pair(r) \in missed'
           /\ UnderWay(r) /\ Failed(r) =>
                 /\ Moves(r) /\ req'[r].pc \in {"send", "record", "done"}
                 /\ req'[r].pc = "record" => Pair(r) \in missed'
           /\ Answer(r, n, ok) =>
                 \/ UNCHANGED <<req, missed>>
                 \/ /\ Moves(r)
                    /\ req'[r].pc = "record" => ok \/ Pair(r) \in missed'
           /\ Sent(r, ok) \/ Failed(r) \/ Answer(r, n, ok) =>
                 /\ missed \subseteq missed'
                 /\ req[r].pc # "new" => missed' \subseteq Pairs
                 /\ UNCHANGED req \/ (req'[r].pc = "done" => req[r].op # "follow")
<1> USE FollowsAssumption
<1>1. req \in [Requests -> States] /\ missed \subseteq Pairs
  BY DEF Inv1, TypeOK, States
<1>2. ASSUME UnderWay(r)
      PROVE  req[r].pc # "new" /\ req[r].from \in Boards /\ req[r].to \in Boards
             /\ req[r].try \in 1 .. MaxRetries /\ req[r].op \in {"follow", "unfollow"}
  BY <1>2 DEF Inv1, ReqsOK, UnderWay
<1>3. ASSUME UnderWay(r), NEW b \in BOOLEAN, Sent(r, b)
      PROVE  /\ Moves(r) /\ req'[r].pc \in {"record", "done"}
             /\ req'[r].pc = "record" /\ ~b => Pair(r) \in missed'
  BY <1>1, <1>2, <1>3 DEF Sent, Moves, States
<1>4. ASSUME UnderWay(r), Failed(r)
      PROVE  /\ Moves(r) /\ req'[r].pc \in {"send", "record", "done"}
             /\ req'[r].pc = "record" => Pair(r) \in missed'
  <2>1. CASE req[r].try < MaxRetries
    BY <1>1, <1>2, <1>4, <2>1 DEF Failed, Moves, States
  <2>2. CASE ~(req[r].try < MaxRetries)
    BY <1>3, <1>4, <2>2 DEF Failed
  <2> QED
    BY <2>1, <2>2
<1>5. Waits(r, n) => UnderWay(r)
  BY DEF Waits, UnderWay
<1>6. Pair(r) \in Pairs \/ req[r].pc = "new"
  BY DEF Inv1, ReqsOK, Pair, Pairs
<1>7. Sent(r, ok) \/ Failed(r) \/ Answer(r, n, ok) =>
          missed \subseteq missed' /\ missed' \subseteq missed \cup {Pair(r)}
  BY DEF Sent, Failed, Answer
<1>8. Sent(r, ok) \/ Failed(r) \/ Answer(r, n, ok) =>
          UNCHANGED req \/ (req'[r].pc = "done" => req[r].op # "follow")
  BY <1>1 DEF Sent, Failed, Answer, States
<1> QED
  BY <1>1, <1>3, <1>4, <1>5, <1>6, <1>7, <1>8 DEF Answer

(* What the steps of requests that were made do to the types.              *)
Tables == [Boards -> SUBSET Boards]
Attempts == Requests \X (1 .. MaxRetries)

LEMMA MadeInv1 ==
    ASSUME Inv1, NEW r \in Requests, Moves(r) \/ UNCHANGED req,
           following' \in Tables, followers' \in Tables,
           want' \in [Pairs -> {"yes", "no", "unknown"}], missed' \subseteq Pairs,
           wire' \subseteq Attempts, accepts' \subseteq Attempts,
           \A x \in wire' \cup accepts' : req[x[1]].pc # "new"
    PROVE  Inv1'
<1>1. req \in [Requests -> States]
  BY DEF Inv1, TypeOK, States
<1>2. /\ req' \in [Requests -> States]
      /\ \A q \in Requests \ {r} : req'[q] = req[q]
  BY <1>1 DEF Moves
<1>3. ReqsOK'
  <2>1. CASE UNCHANGED req
    BY <2>1 DEF Inv1, ReqsOK
  <2>2. CASE Moves(r)
    <3>1. req[r].pc # "new"
      BY <2>2 DEF Moves, UnderWay
    <3>2. /\ req[r].from \in Boards /\ req[r].to \in Boards
          /\ req[r].op \in {"follow", "unfollow"}
      BY <3>1 DEF Inv1, ReqsOK
    <3>3. req'[r].pc # "new" /\ req'[r] # New
      BY <2>2 DEF Moves, New
    <3> QED
      BY <1>2, <2>2, <3>2, <3>3 DEF Moves, Inv1, ReqsOK
  <2> QED
    BY <2>1, <2>2
<1>4. TypeOK'
  BY <1>2 DEF TypeOK, States, Tables, Attempts
<1>5. WireOK'
  <2>1. \A q \in Requests : req[q].pc # "new" => req'[q].pc # "new"
    BY <1>2 DEF Moves
  <2>2. \A x \in Attempts : x[1] \in Requests
    BY DEF Attempts
  <2> QED
    BY <2>1, <2>2 DEF WireOK
<1> QED
  BY <1>3, <1>4, <1>5 DEF Inv1

LEMMA Init1 == Init => Inv1
<1> SUFFICES ASSUME Init PROVE Inv1
  OBVIOUS
<1> USE FollowsAssumption
<1>1. TypeOK
  BY DEF Init, TypeOK, New
<1>2. ReqsOK /\ WireOK
  BY DEF Init, ReqsOK, WireOK, New
<1> QED
  BY <1>1, <1>2 DEF Inv1

LEMMA Asks1 ==
    ASSUME Inv1, NEW r \in Requests, NEW b \in Boards, NEW t \in Boards,
           Follow(r, b, t) \/ Unfollow(r, b, t)
    PROVE  Inv1'
<1> USE FollowsAssumption
<1>1. PICK op \in {"follow", "unfollow"} : Asks(r, op, b, t)
  BY DEF Follow, Unfollow
<1>2. following' \in Tables /\ followers' = followers
  BY DEF Follow, Unfollow, Asks, Inv1, TypeOK, Tables
<1>3. /\ req' \in [Requests -> States]
      /\ req'[r] = [pc |-> "send", op |-> op, from |-> b, to |-> t, try |-> 1]
      /\ \A q \in Requests \ {r} : req'[q] = req[q]
  BY <1>1 DEF Asks, Inv1, TypeOK, States
<1>4. want' \in [Pairs -> {"yes", "no", "unknown"}]
  BY <1>1 DEF Asks, Inv1, TypeOK, Pairs
<1>5. TypeOK'
  BY <1>1, <1>2, <1>3, <1>4 DEF Asks, Inv1, TypeOK, States, Tables
<1>6. ReqsOK'
  <2>1. req'[r] # New
    BY <1>3 DEF New
  <2> QED
    BY <1>3, <2>1 DEF Inv1, ReqsOK
<1>7. WireOK'
  <2>1. \A q \in Requests : req[q].pc # "new" => req'[q].pc # "new"
    BY <1>3
  <2>2. \A x \in wire \cup accepts : x[1] \in Requests
    BY DEF Inv1, TypeOK
  <2>3. UNCHANGED <<wire, accepts>>
    BY <1>1 DEF Asks
  <2> QED
    BY <2>1, <2>2, <2>3 DEF Inv1, WireOK
<1> QED
  BY <1>5, <1>6, <1>7 DEF Inv1

(* The steps of the asking side that change no table.                      *)
LEMMA Loop1 ==
    ASSUME Inv1, NEW r \in Requests, Attempt(r) \/ Dropped(r) \/ TimesOut(r)
    PROVE  Inv1' /\ Moves(r)
<1> USE FollowsAssumption
<1>1. UnderWay(r) /\ req[r].pc # "new"
  BY DEF Attempt, Dropped, TimesOut, UnderWay
<1>2. req[r].try \in 1 .. MaxRetries
  BY <1>1 DEF Inv1, ReqsOK
<1>3. /\ Moves(r)
      /\ missed' \subseteq Pairs
      /\ wire' \subseteq wire \cup {<<r, req[r].try>>}
      /\ UNCHANGED <<tables, accepts, want>>
  <2>1. CASE Attempt(r)
    <3>1. Moves(r)
      BY <1>1, <1>2, <2>1 DEF Attempt, Moves, Inv1, TypeOK, ReqsOK, States
    <3> QED
      BY <2>1, <3>1 DEF Attempt, history, Inv1, TypeOK
  <2>2. CASE Dropped(r)
    BY <1>1, <1>2, <2>2, AnswerMoves DEF Dropped
  <2>3. CASE TimesOut(r)
    BY <1>1, <1>2, <2>3, AnswerMoves DEF TimesOut
  <2> QED
    BY <2>1, <2>2, <2>3
<1>4. wire' \subseteq Attempts /\ accepts' \subseteq Attempts
  BY <1>2, <1>3 DEF Inv1, TypeOK, Attempts
<1>5. \A x \in wire' \cup accepts' : req[x[1]].pc # "new"
  BY <1>1, <1>3 DEF Inv1, WireOK
<1>6. /\ following' \in Tables /\ followers' \in Tables
      /\ want' \in [Pairs -> {"yes", "no", "unknown"}]
  BY <1>3 DEF tables, Inv1, TypeOK, Tables
<1> QED
  BY <1>3, <1>4, <1>5, <1>6, MadeInv1

LEMMA Record1 ==
    ASSUME Inv1, NEW r \in Requests, Record(r) \/ AskFails(r)
    PROVE  Inv1' /\ Moves(r)
<1>1. UnderWay(r) /\ req[r].pc # "new"
  BY DEF Record, AskFails, UnderWay
<1>2. Moves(r)
  BY <1>1 DEF Record, AskFails, Moves, Inv1, TypeOK, ReqsOK, States
<1>3. Pair(r) \in Pairs /\ req[r].from \in Boards /\ req[r].to \in Boards
  BY <1>1 DEF Inv1, ReqsOK, Pair, Pairs
<1>4. following' \in Tables
  BY <1>3 DEF Record, AskFails, tables, Inv1, TypeOK, Tables
<1>5. want' \in [Pairs -> {"yes", "no", "unknown"}]
  BY <1>3 DEF Record, AskFails, history, Inv1, TypeOK
<1>6. UNCHANGED <<followers, wire, accepts, missed>>
  BY DEF Record, AskFails, tables, history
<1> QED
  BY <1>2, <1>4, <1>5, <1>6, MadeInv1 DEF Inv1, TypeOK, WireOK, Tables, Attempts

(* The steps of an inbox.                                                  *)
Inbox(r, n) ==
    \/ FollowArrives(r, n) \/ FollowRefused(r, n) \/ UndoArrives(r, n)
    \/ AcceptEnds(r, n) \/ ConnectionLost(r, n)

LEMMA Inbox1 ==
    ASSUME Inv1, NEW r \in Requests, NEW n \in 1 .. MaxRetries, Inbox(r, n)
    PROVE  /\ Inv1'
           /\ UNCHANGED req \/ Moves(r)
           /\ UNCHANGED <<following, want>>
           /\ missed \subseteq missed'
           /\ req[r].from \in Boards /\ req[r].to \in Boards
<1>1. /\ <<r, n>> \in wire \cup accepts
      /\ wire' \subseteq wire /\ accepts' \subseteq accepts \cup {<<r, n>>}
      /\ UNCHANGED <<following, want>>
      /\ \/ UNCHANGED <<req, missed>>
         \/ \E ok \in BOOLEAN : Answer(r, n, ok)
      /\ AddFollow(r) \/ UNCHANGED followers
  BY DEF Inbox, FollowArrives, FollowRefused, UndoArrives, AcceptEnds, ConnectionLost,
         Taken, tables, history
<1>2. req[r].pc # "new"
  BY <1>1 DEF Inv1, WireOK
<1>3. req[r].from \in Boards /\ req[r].to \in Boards
  BY <1>2 DEF Inv1, ReqsOK
<1>4. /\ UNCHANGED req \/ Moves(r)
      /\ missed \subseteq missed' /\ missed' \subseteq Pairs
  BY <1>1, <1>2, AnswerMoves DEF Inv1, TypeOK
<1>5. followers' \in Tables
  BY <1>1, <1>3 DEF AddFollow, Inv1, TypeOK, Tables
<1>6. /\ wire' \subseteq Attempts /\ accepts' \subseteq Attempts
      /\ \A x \in wire' \cup accepts' : req[x[1]].pc # "new"
  BY <1>1, <1>2 DEF Inv1, TypeOK, WireOK, Attempts
<1> QED
  BY <1>1, <1>3, <1>4, <1>5, <1>6, MadeInv1 DEF Inv1, TypeOK, Tables

LEMMA Crash1 == ASSUME Inv1, NEW i \in Instances, Crash(i) PROVE Inv1'
<1> DEFINE died == {r \in Requests : UnderWay(r) /\ Host[req[r].from] = i}
<1>1. \A r \in Requests :
         req'[r] = IF r \in died THEN [req[r] EXCEPT !.pc = "done"] ELSE req[r]
  BY DEF Crash
<1>2. req' \in [Requests -> States]
  BY DEF Crash, Inv1, TypeOK, States
<1>3. \A r \in died : req[r].pc # "new" /\ req[r] \in States
  BY DEF UnderWay, Inv1, TypeOK, States
<1> HIDE DEF died
<1>4. TypeOK'
  BY <1>2 DEF Crash, tables, Inv1, TypeOK, States
<1>5. ReqsOK'
  <2>1. ASSUME NEW r \in Requests, r \in died
        PROVE  /\ req'[r].pc = "done" /\ req'[r] # New
               /\ req'[r].from = req[r].from /\ req'[r].to = req[r].to
               /\ req'[r].op = req[r].op /\ req'[r].try = req[r].try
    <3>1. req[r] \in States /\ req'[r] = [req[r] EXCEPT !.pc = "done"]
      BY <1>1, <1>3, <2>1
    <3>2. req'[r].pc = "done"
      BY <3>1 DEF States
    <3> QED
      BY <3>1, <3>2 DEF States, New
  <2>2. ASSUME NEW r \in Requests, r \notin died PROVE req'[r] = req[r]
    BY <1>1, <2>2
  <2>3. \A r \in died : req[r].pc # "new"
    BY <1>3
  <2> QED
    BY <2>1, <2>2, <2>3 DEF Inv1, ReqsOK
<1>6. WireOK'
  <2>1. \A r \in Requests : req[r].pc # "new" => req'[r].pc # "new"
    BY <1>1, <1>3 DEF States
  <2>2. \A x \in wire \cup accepts : x[1] \in Requests
    BY DEF Inv1, TypeOK
  <2>3. wire' = wire /\ accepts' \subseteq accepts
    BY DEF Crash
  <2> QED
    BY <2>1, <2>2, <2>3 DEF Inv1, WireOK
<1> QED
  BY <1>4, <1>5, <1>6 DEF Inv1

(* The cases of Next.                                                      *)
LEMMA Steps ==
    ASSUME [Next]_vars
    PROVE  \/ UNCHANGED vars
           \/ \E r \in Requests, b, t \in Boards : Follow(r, b, t) \/ Unfollow(r, b, t)
           \/ \E r \in Requests :
                 Attempt(r) \/ Dropped(r) \/ TimesOut(r) \/ Record(r) \/ AskFails(r)
           \/ \E r \in Requests, n \in 1 .. MaxRetries : Inbox(r, n)
           \/ \E i \in Instances : Crash(i)
BY DEF Next, Continue, Inbox, Rest

LEMMA Step1 == Inv1 /\ [Next]_vars => Inv1'
<1> SUFFICES ASSUME Inv1, [Next]_vars PROVE Inv1'
  OBVIOUS
<1>1. CASE UNCHANGED vars
  BY <1>1 DEF vars, tables, history, Inv1, TypeOK, ReqsOK, WireOK
<1> QED
  BY <1>1, Steps, Asks1, Loop1, Record1, Inbox1, Crash1

(* Every variable keeps its type; in particular no activity is sent more   *)
(* than MaxRetries times.                                                  *)
THEOREM TypeCorrect == Spec => []TypeOK
<1>1. Inv1 => TypeOK
  BY DEF Inv1
<1> QED
  BY <1>1, Init1, Step1, PTL DEF Spec

-----------------------------------------------------------------------------
(* The two lists.                                                          *)
LEMMA Init2 == Init => Inv2
BY DEF Init, Inv2, FollowersKnow, New, Pairs

(* Followers are never removed, and neither are the pairs missed.  So a    *)
(* step keeps Inv2 if each new row of following, each new Accept and each  *)
(* request that gets past its loop has what it needs.                      *)
LEMMA KeepsInv2 ==
    ASSUME Inv2, missed \subseteq missed',
           \A p \in Pairs : Knows(p) => Knows(p)',
           \A p \in Pairs : p[2] \in following'[p[1]] /\ p[2] \notin following[p[1]] =>
               Knows(p)' \/ p \in missed',
           \A x \in accepts' : Pair(x[1])' \in Pairs /\ Pair(x[1])' = Pair(x[1]),
           \A x \in accepts' \ accepts : Knows(Pair(x[1]))',
           \A r \in Requests : req'[r].pc = "record" =>
               Pair(r)' \in Pairs /\ Pair(r)' = Pair(r),
           \A r \in Requests : req'[r].pc = "record" /\ req[r].pc # "record" =>
               Knows(Pair(r))' \/ Pair(r)' \in missed'
    PROVE  Inv2'
<1>1. FollowersKnow'
  BY DEF Inv2, FollowersKnow, Knows
<1>2. \A x \in accepts' : Knows(Pair(x[1]))'
  <2> SUFFICES ASSUME NEW x \in accepts', x \in accepts PROVE Knows(Pair(x[1]))'
    OBVIOUS
  <2>1. Knows(Pair(x[1])) /\ Pair(x[1]) \in Pairs
    BY DEF Inv2
  <2> QED
    BY <2>1 DEF Knows
<1>3. \A r \in Requests : req'[r].pc = "record" => Knows(Pair(r))' \/ Pair(r)' \in missed'
  <2> SUFFICES ASSUME NEW r \in Requests, req'[r].pc = "record", req[r].pc = "record"
               PROVE  Knows(Pair(r))' \/ Pair(r)' \in missed'
    OBVIOUS
  <2>1. Knows(Pair(r)) \/ Pair(r) \in missed
    BY DEF Inv2
  <2> QED
    BY <2>1 DEF Knows
<1> QED
  BY <1>1, <1>2, <1>3 DEF Inv2

(* Requests that were made are about boards, and stay about them.          *)
LEMMA PairsStay ==
    ASSUME Inv1
    PROVE  /\ \A r \in Requests : req[r].pc # "new" => Pair(r) \in Pairs
           /\ \A x \in wire \cup accepts : x[1] \in Requests /\ Pair(x[1]) \in Pairs
           /\ \A r \in Requests : Moves(r) \/ UNCHANGED req =>
                 /\ \A q \in Requests : Pair(q)' = Pair(q)
                 /\ \A q \in Requests \ {r} : req'[q] = req[q]
<1>1. \A r \in Requests : req[r].pc # "new" => Pair(r) \in Pairs
  BY DEF Inv1, ReqsOK, Pair, Pairs
<1>2. \A x \in wire \cup accepts : x[1] \in Requests
  BY DEF Inv1, TypeOK
<1>3. ASSUME NEW r \in Requests, Moves(r) \/ UNCHANGED req, NEW q \in Requests
      PROVE  Pair(q)' = Pair(q) /\ (q # r => req'[q] = req[q])
  <2>1. q # r => req'[q] = req[q]
    BY <1>3 DEF Moves, Inv1, TypeOK
  <2> QED
    BY <1>3, <2>1 DEF Moves, Pair
<1> QED
  BY <1>1, <1>2, <1>3 DEF Inv1, WireOK

LEMMA Asks2 ==
    ASSUME Inv1, Inv2, NEW r \in Requests, NEW b \in Boards, NEW t \in Boards,
           Follow(r, b, t) \/ Unfollow(r, b, t)
    PROVE  Inv2'
<1>1. /\ req[r] = New /\ UNCHANGED <<followers, accepts, missed>>
      /\ \A p \in Pairs : following'[p[1]] \subseteq following[p[1]]
  BY DEF Follow, Unfollow, Asks, Inv1, TypeOK, Pairs
<1>2. /\ \A q \in Requests \ {r} : req'[q] = req[q] /\ Pair(q)' = Pair(q)
      /\ req'[r].pc = "send"
  BY DEF Follow, Unfollow, Asks, Pair, Inv1, TypeOK
<1>3. \A x \in accepts : x[1] # r
  BY <1>1 DEF Inv1, WireOK, New
<1>4. \A x \in accepts' : Pair(x[1])' \in Pairs /\ Pair(x[1])' = Pair(x[1])
  BY <1>1, <1>2, <1>3, PairsStay
<1>5. \A q \in Requests : req'[q].pc = "record" =>
         q # r /\ Pair(q)' \in Pairs /\ Pair(q)' = Pair(q)
  BY <1>2, PairsStay
<1> QED
  BY <1>1, <1>2, <1>4, <1>5, KeepsInv2 DEF Knows

LEMMA Asking2 ==
    ASSUME Inv1, Inv2, NEW r \in Requests,
           Attempt(r) \/ Dropped(r) \/ TimesOut(r) \/ Record(r) \/ AskFails(r)
    PROVE  Inv2'
<1>1. Moves(r)
  BY Loop1, Record1
<1>2. UnderWay(r) /\ Pair(r) \in Pairs /\ UNCHANGED <<followers, accepts>>
  <2>1. UnderWay(r) /\ req[r].pc # "new"
    BY <1>1 DEF Moves, UnderWay
  <2> QED
    BY <2>1, PairsStay
    DEF Attempt, Dropped, TimesOut, Record, AskFails, tables
<1>3. /\ missed \subseteq missed'
      /\ req'[r].pc = "record" => Pair(r) \in missed'
  <2>0. 1 \in 1 .. MaxRetries
    BY FollowsAssumption
  <2>1. CASE Attempt(r)
    BY <2>1 DEF Attempt, history, Inv1, TypeOK
  <2>2. CASE Dropped(r)
    BY <1>2, <2>0, <2>2, AnswerMoves DEF Dropped
  <2>3. CASE TimesOut(r)
    BY <1>2, <2>0, <2>3, AnswerMoves DEF TimesOut
  <2>4. CASE Record(r) \/ AskFails(r)
    BY <2>4 DEF Record, AskFails, history, Inv1, TypeOK
  <2> QED
    BY <2>1, <2>2, <2>3, <2>4
<1>4. \A p \in Pairs : p[2] \in following'[p[1]] /\ p[2] \notin following[p[1]] =>
         p = Pair(r) /\ req[r].pc = "record"
  <2>1. CASE Record(r)
    BY <2>1 DEF Record, Pair, Pairs, Inv1, TypeOK
  <2>2. CASE UNCHANGED following
    BY <2>2
  <2> QED
    BY <2>1, <2>2 DEF Attempt, Dropped, TimesOut, AskFails, tables
<1>5. req[r].pc = "record" => Knows(Pair(r)) \/ Pair(r) \in missed
  BY DEF Inv2
<1> QED
  BY <1>1, <1>2, <1>3, <1>4, <1>5, PairsStay, KeepsInv2 DEF Knows, Inv1, WireOK

LEMMA Inbox2 ==
    ASSUME Inv1, Inv2, NEW r \in Requests, NEW n \in 1 .. MaxRetries, Inbox(r, n)
    PROVE  Inv2'
<1>1. /\ UNCHANGED req \/ Moves(r)
      /\ UNCHANGED following /\ missed \subseteq missed'
      /\ req[r].from \in Boards /\ req[r].to \in Boards
  BY Inbox1
<1>2. /\ <<r, n>> \in wire \cup accepts
      /\ AddFollow(r) \/ UNCHANGED followers
      /\ accepts' \subseteq accepts \cup {<<r, n>>}
      /\ <<r, n>> \in accepts' \ accepts => AddFollow(r)
  BY DEF Inbox, FollowArrives, FollowRefused, UndoArrives, AcceptEnds, ConnectionLost,
         Taken, tables
<1>3. Pair(r) \in Pairs /\ \A q \in Requests : Pair(q)' = Pair(q)
  BY <1>1, <1>2, PairsStay
<1>4. /\ \A p \in Pairs : Knows(p) => Knows(p)'
      /\ AddFollow(r) => Knows(Pair(r))'
  <2>1. ASSUME AddFollow(r)
        PROVE  Knows(Pair(r))' /\ \A p \in Pairs : Knows(p) => Knows(p)'
    <3>1. /\ \A b \in Boards : followers[b] \subseteq followers'[b]
          /\ req[r].from \in followers'[req[r].to]
      BY <1>1, <2>1 DEF AddFollow, Inv1, TypeOK
    <3>2. Pair(r)[1] \in followers'[Pair(r)[2]]
      BY <3>1 DEF Pair
    <3>3. Knows(Pair(r))'
      BY <1>3, <3>2 DEF Knows
    <3>4. \A p \in Pairs : p[2] \in Boards
      BY DEF Pairs
    <3> QED
      BY <3>1, <3>3, <3>4 DEF Knows
  <2>2. UNCHANGED followers => \A p \in Pairs : Knows(p) => Knows(p)'
    BY DEF Knows
  <2> QED
    BY <1>2, <2>1, <2>2
<1>5. req'[r].pc = "record" /\ req[r].pc # "record" =>
          Knows(Pair(r))' \/ Pair(r) \in missed'
  <2>1. CASE FollowArrives(r, n)
    BY <2>1 DEF FollowArrives
  <2>2. CASE FollowRefused(r, n) \/ ConnectionLost(r, n)
    BY <2>2, AnswerMoves DEF FollowRefused, ConnectionLost
  <2>3. CASE UndoArrives(r, n)
    <3>1. req[r].op # "follow" /\ Answer(r, n, TRUE)
      BY <2>3 DEF UndoArrives, Follows
    <3> QED
      BY <3>1, AnswerMoves DEF Moves
  <2>4. CASE AcceptEnds(r, n)
    <3>1. Knows(Pair(r))
      BY <2>4 DEF AcceptEnds, Inv2
    <3> QED
      BY <1>3, <1>4, <3>1
  <2> QED
    BY <2>1, <2>2, <2>3, <2>4 DEF Inbox
<1>6. \A q \in Requests : req'[q].pc = "record" /\ req[q].pc # "record" => q = r
  BY <1>1, PairsStay
<1>7. \A q \in Requests : req'[q].pc = "record" => Pair(q) \in Pairs
  <2>1. \A q \in Requests : req'[q].pc = "record" => req[q].pc # "new"
    BY <1>1, <1>6, PairsStay DEF Moves, UnderWay
  <2> QED
    BY <2>1, PairsStay
<1>8. \A x \in accepts' : x[1] \in Requests /\ Pair(x[1]) \in Pairs
  BY <1>2, <1>3, PairsStay
<1>9. \A x \in accepts' \ accepts : x = <<r, n>>
  BY <1>2
<1> QED
  BY <1>1, <1>2, <1>3, <1>4, <1>5, <1>6, <1>7, <1>8, <1>9, KeepsInv2

LEMMA Crash2 == ASSUME Inv1, Inv2, NEW i \in Instances, Crash(i) PROVE Inv2'
<1>1. UNCHANGED <<following, followers, missed>> /\ accepts' \subseteq accepts
  BY DEF Crash, tables
<1>2. \A r \in Requests : Pair(r)' = Pair(r) /\ (req'[r].pc = "record" => req[r].pc = "record")
  BY DEF Crash, Pair, Inv1, TypeOK
<1> QED
  BY <1>1, <1>2, PairsStay, KeepsInv2 DEF Knows

LEMMA Step2 == Inv1 /\ Inv2 /\ [Next]_vars => Inv2'
<1> SUFFICES ASSUME Inv1, Inv2, [Next]_vars PROVE Inv2'
  OBVIOUS
<1>1. CASE UNCHANGED vars
  BY <1>1 DEF vars, tables, history, Inv2, FollowersKnow, Knows, Pair
<1> QED
  BY <1>1, Steps, Asks2, Asking2, Inbox2, Crash2

(* A board that is listed as followed knows its follower, unless the       *)
(* Follow was never answered with 200, whatever is lost and whoever dies.  *)
THEOREM FollowersKnowHolds == Spec => []FollowersKnow
<1>1. Inv2 => FollowersKnow
  BY DEF Inv2
<1> QED
  BY <1>1, Init1, Step1, Init2, Step2, PTL DEF Spec
-----------------------------------------------------------------------------
(* The list and what was asked for.                                        *)
LEMMA Init3 == Init => Inv3
BY DEF Init, Inv3, Certain, Settled, UnderWay, New, Pairs

(* A pair that a step leaves certain stays so if the step makes no request *)
(* come under way on it, and settles it only with the list as it should be.*)
LEMMA StaysCertain ==
    ASSUME NEW p \in Pairs, Certain(p), want'[p] = want[p],
           \A q \in Requests : UnderWay(q)' /\ Pair(q)' = p =>
               UnderWay(q) /\ Pair(q) = p /\ req'[q].op = req[q].op,
           p[2] \in following'[p[1]] <=> p[2] \in following[p[1]],
           Settled(p)' => Settled(p) \/ want[p] = "no"
    PROVE  Certain(p)'
BY DEF Certain

LEMMA Asks3 ==
    ASSUME Inv1, Inv3, NEW r \in Requests, NEW b \in Boards, NEW t \in Boards,
           Follow(r, b, t) \/ Unfollow(r, b, t)
    PROVE  Inv3'
<1>1. PICK op \in {"follow", "unfollow"} :
          /\ Asks(r, op, b, t)
          /\ op = "unfollow" => following' = [following EXCEPT ![b] = @ \ {t}]
          /\ op = "follow" => UNCHANGED following
  BY DEF Follow, Unfollow
<1>2. /\ req'[r] = [pc |-> "send", op |-> op, from |-> b, to |-> t, try |-> 1]
      /\ \A q \in Requests \ {r} : req'[q] = req[q]
      /\ ~UnderWay(r)
  BY <1>1 DEF Asks, Inv1, TypeOK, UnderWay, New
<1>3. /\ UnderWay(r)' /\ Pair(r)' = <<b, t>>
      /\ \A q \in Requests \ {r} : UnderWay(q)' = UnderWay(q) /\ Pair(q)' = Pair(q)
  BY <1>2 DEF UnderWay, Pair
<1>4. ASSUME NEW p \in Pairs, p # <<b, t>>, want'[p] # "unknown" PROVE Certain(p)'
  <2>1. want'[p] = want[p] /\ (p[2] \in following'[p[1]] <=> p[2] \in following[p[1]])
    BY <1>1, <1>4 DEF Asks, Inv1, TypeOK, Pairs
  <2>2. Certain(p)
    BY <1>4, <2>1 DEF Inv3
  <2>3. Settled(p)' => Settled(p)
    BY <1>2, <1>3 DEF Settled
  <2> QED
    BY <1>2, <1>3, <1>4, <2>1, <2>2, <2>3, StaysCertain
<1>5. ASSUME want'[<<b, t>>] # "unknown" PROVE Certain(<<b, t>>)'
  <2>1. <<b, t>> \in Pairs
    BY DEF Pairs
  <2>2. want'[<<b, t>>] = IF Others(r, <<b, t>>) THEN "unknown"
                          ELSE IF op = "follow" THEN "yes" ELSE "no"
    BY <1>1, <2>1 DEF Asks, Inv1, TypeOK
  <2>3. ~Others(r, <<b, t>>) /\ (op = "follow" <=> want'[<<b, t>>] = "yes")
    BY <1>5, <2>2
  <2>4. \A q \in Requests : UnderWay(q)' /\ Pair(q)' = <<b, t>> => q = r
    BY <1>3, <2>3 DEF Others
  <2>5. ~Settled(<<b, t>>)'
    BY <1>3 DEF Settled
  <2>6. want'[<<b, t>>] = "no" => t \notin following'[b]
    BY <1>1, <2>3 DEF Inv1, TypeOK
  <2> QED
    BY <1>2, <2>3, <2>4, <2>5, <2>6 DEF Certain
<1> QED
  BY <1>4, <1>5 DEF Inv3

(* A step of a request that was made, which is not its last one or is the  *)
(* last one to unfollow.                                                   *)
LEMMA Moved3 ==
    ASSUME Inv1, Inv3, NEW r \in Requests, UNCHANGED <<following, want>>,
           \/ UNCHANGED req
           \/ Moves(r) /\ (req'[r].pc = "done" => req[r].op # "follow")
    PROVE  Inv3'
<1> SUFFICES ASSUME NEW p \in Pairs, want'[p] # "unknown" PROVE Certain(p)'
  BY DEF Inv3
<1>1. Certain(p)
  BY DEF Inv3
<1>2. \A q \in Requests : Pair(q)' = Pair(q) /\ (q # r => req'[q] = req[q])
  BY PairsStay
<1>3. \A q \in Requests : UnderWay(q)' => UnderWay(q) /\ req'[q].op = req[q].op
  BY <1>2 DEF UnderWay, Moves
<1>4. Settled(p)' => Settled(p) \/ want[p] = "no"
  <2> SUFFICES ASSUME Settled(p)', ~Settled(p) PROVE want[p] = "no"
    OBVIOUS
  <2>1. PICK q \in Requests : UnderWay(q) /\ Pair(q) = p
    BY DEF Settled
  <2>2. ~UnderWay(q)'
    BY <1>2, <2>1 DEF Settled
  <2>3. q = r /\ Moves(r)
    BY <1>2, <2>1, <2>2 DEF UnderWay
  <2>4. req[r].op # "follow"
    BY <2>2, <2>3 DEF Moves, UnderWay
  <2>5. want[p] # "yes"
    BY <1>1, <2>1, <2>3, <2>4 DEF Certain
  <2> QED
    BY <2>5 DEF Inv1, TypeOK
<1> QED
  BY <1>1, <1>2, <1>3, <1>4, StaysCertain

LEMMA Looped3 ==
    ASSUME Inv1, Inv3, NEW r \in Requests, Attempt(r) \/ Dropped(r) \/ TimesOut(r)
    PROVE  Inv3'
<1>1. Moves(r) /\ UnderWay(r)
  BY Loop1 DEF Moves
<1>2. UNCHANGED <<following, want>>
  BY DEF Attempt, Dropped, TimesOut, tables, history
<1>3. UNCHANGED req \/ (req'[r].pc = "done" => req[r].op # "follow")
  <2>0. 1 \in 1 .. MaxRetries
    BY FollowsAssumption
  <2>1. CASE Attempt(r)
    BY <2>1 DEF Attempt, Inv1, TypeOK
  <2>2. CASE Dropped(r) \/ TimesOut(r)
    BY <2>0, <2>2, AnswerMoves DEF Dropped, TimesOut
  <2> QED
    BY <2>1, <2>2
<1> QED
  BY <1>1, <1>2, <1>3, Moved3

LEMMA Inbox3 ==
    ASSUME Inv1, Inv3, NEW r \in Requests, NEW n \in 1 .. MaxRetries, Inbox(r, n)
    PROVE  Inv3'
<1>1. (UNCHANGED req \/ Moves(r)) /\ UNCHANGED <<following, want>>
  BY Inbox1
<1>2. \/ UNCHANGED req
      \/ \E ok \in BOOLEAN : Answer(r, n, ok)
  BY DEF Inbox, FollowArrives, FollowRefused, UndoArrives, AcceptEnds, ConnectionLost
<1>3. UNCHANGED req \/ (req'[r].pc = "done" => req[r].op # "follow")
  BY <1>2, AnswerMoves
<1> QED
  BY <1>1, <1>3, Moved3

LEMMA Record3 ==
    ASSUME Inv1, Inv3, NEW r \in Requests, Record(r) PROVE Inv3'
<1>1. /\ Moves(r) /\ UnderWay(r) /\ req[r].op = "follow" /\ want' = want
      /\ req[r].from \in Boards /\ req[r].to \in Boards
  <2>1. req[r].pc = "record" /\ UnderWay(r)
    BY DEF Record, UnderWay
  <2> QED
    BY <2>1, Record1 DEF Record, history, Inv1, ReqsOK
<1>2. \A q \in Requests : Pair(q)' = Pair(q) /\ (q # r => req'[q] = req[q])
  BY <1>1, PairsStay
<1>3. ~UnderWay(r)'
  BY DEF Record, UnderWay, Inv1, TypeOK
<1>4. \A q \in Requests : UnderWay(q)' => UnderWay(q) /\ q # r /\ req'[q] = req[q]
  BY <1>2, <1>3 DEF UnderWay
<1>5. following' = [following EXCEPT ![req[r].from] = @ \cup {req[r].to}]
  BY DEF Record
<1> SUFFICES ASSUME NEW p \in Pairs, want'[p] # "unknown" PROVE Certain(p)'
  BY DEF Inv3
<1>6. Certain(p)
  BY <1>1 DEF Inv3
<1>7. CASE p = Pair(r)
  <2>1. want[p] = "yes"
    BY <1>1, <1>6, <1>7 DEF Certain
  <2>2. p[2] \in following'[p[1]]
    BY <1>1, <1>5, <1>7 DEF Pair, Inv1, TypeOK
  <2> QED
    BY <1>1, <1>2, <1>4, <1>6, <2>1, <2>2 DEF Certain
<1>8. CASE p # Pair(r)
  <2>1. p[2] \in following'[p[1]] <=> p[2] \in following[p[1]]
    BY <1>1, <1>5, <1>8 DEF Pair, Pairs, Inv1, TypeOK
  <2>2. Settled(p)' => Settled(p)
    <3> SUFFICES ASSUME Settled(p)', NEW q \in Requests, UnderWay(q), Pair(q) = p
                 PROVE  FALSE
      BY DEF Settled
    <3>1. q # r
      BY <1>8
    <3>2. UnderWay(q)' /\ Pair(q)' = p
      BY <1>2, <3>1 DEF UnderWay
    <3> QED
      BY <3>2 DEF Settled
  <2> QED
    BY <1>1, <1>2, <1>4, <1>6, <2>1, <2>2, StaysCertain
<1> QED
  BY <1>7, <1>8

(* Requests that are cut short make their pairs uncertain.                 *)
LEMMA Cut3 ==
    ASSUME Inv1, Inv3, NEW died \in SUBSET Requests, UNCHANGED following,
           \A r \in Requests : UnderWay(r)' <=> UnderWay(r) /\ r \notin died,
           \A r \in Requests : Pair(r)' = Pair(r),
           \A p \in Pairs : want'[p] = IF \E r \in died : Pair(r) = p THEN "unknown" ELSE want[p],
           \A r \in Requests : req'[r].op = req[r].op
    PROVE  Inv3'
<1> SUFFICES ASSUME NEW p \in Pairs, want'[p] # "unknown" PROVE Certain(p)'
  BY DEF Inv3
<1>1. want'[p] = want[p] /\ \A r \in died : Pair(r) # p
  OBVIOUS
<1>2. Certain(p)
  BY <1>1 DEF Inv3
<1>3. Settled(p)' => Settled(p)
  BY <1>1 DEF Settled
<1> QED
  BY <1>1, <1>2, <1>3, StaysCertain

LEMMA AskFails3 ==
    ASSUME Inv1, Inv3, NEW r \in Requests, AskFails(r) PROVE Inv3'
<1>1. Moves(r) /\ \A q \in Requests : Pair(q)' = Pair(q) /\ (q # r => req'[q] = req[q])
  BY Record1, PairsStay
<1>2. \A q \in Requests : /\ req'[q].op = req[q].op
                          /\ UnderWay(q)' <=> UnderWay(q) /\ q # r
  BY <1>1 DEF AskFails, Moves, UnderWay, Inv1, TypeOK
<1>3. \A p \in Pairs : want'[p] = IF \E q \in {r} : Pair(q) = p THEN "unknown" ELSE want[p]
  BY DEF AskFails, Inv1, TypeOK
<1>4. UNCHANGED following
  BY DEF AskFails, tables
<1> QED
  BY <1>1, <1>2, <1>3, <1>4, Cut3

LEMMA Crash3 == ASSUME Inv1, Inv3, NEW i \in Instances, Crash(i) PROVE Inv3'
<1> DEFINE died == {r \in Requests : UnderWay(r) /\ Host[req[r].from] = i}
<1>1. \A r \in Requests :
         /\ req'[r] = IF r \in died THEN [req[r] EXCEPT !.pc = "done"] ELSE req[r]
         /\ req[r] \in States
  BY DEF Crash, Inv1, TypeOK, States
<1>2. /\ \A p \in Pairs :
            want'[p] = IF \E r \in died : Pair(r) = p THEN "unknown" ELSE want[p]
      /\ UNCHANGED following
  BY DEF Crash, tables
<1>3. died \in SUBSET Requests
  OBVIOUS
<1> HIDE DEF died
<1>4. \A r \in Requests : /\ req'[r].op = req[r].op
                          /\ Pair(r)' = Pair(r)
                          /\ UnderWay(r)' <=> UnderWay(r) /\ r \notin died
  BY <1>1 DEF States, Pair, UnderWay
<1> QED
  BY <1>2, <1>3, <1>4, Cut3

LEMMA Step3 == Inv1 /\ Inv3 /\ [Next]_vars => Inv3'
<1> SUFFICES ASSUME Inv1, Inv3, [Next]_vars PROVE Inv3'
  OBVIOUS
<1>1. CASE UNCHANGED vars
  BY <1>1 DEF vars, tables, history, Inv3, Certain, Settled, UnderWay, Pair
<1> QED
  BY <1>1, Steps, Asks3, Looped3, Inbox3, Record3, AskFails3, Crash3

(* What the list of boards followed says is what was last asked for, as    *)
(* long as requests on one pair do not overlap and none is cut short.      *)
THEOREM AsAskedHolds == Spec => []AsAsked
<1>1. Inv3 => AsAsked
  BY DEF Inv3, Certain, AsAsked
<1> QED
  BY <1>1, Init1, Step1, Init3, Step3, PTL DEF Spec
=============================================================================
