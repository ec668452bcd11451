---------------------------- MODULE EntryProofs -----------------------------
(***************************************************************************)
(* What bans and captchas keep for any requests, addresses, batches and    *)
(* any time, with failures and crashes: the proofs about Entry.            *)
(***************************************************************************)
EXTENDS Entry, FiniteSetTheorems, TLAPS

(* What a request holds at each of its steps.                              *)
LocalsOK(r) ==
    /\ req[r].pc = "new" <=> req[r] = New
    /\ req[r].pc # "new" => req[r].source \in Sources
    /\ req[r].pc \in {"check", "drop"} => req[r].kind \in {"post", "ask"}
    /\ req[r].pc \in {"solve", "spend"} => req[r].kind = "post"
    /\ req[r].kind = "post" => req[r].form \in shown
    /\ req[r].pc = "drop" => req[r].exp \in Times /\ req[r].exp < now
    /\ req[r].pc \in {"list", "make"} => req[r].kind = "visit"
    /\ req[r].pc = "list" => req[r].round = 0 \/ req[r].made = Batch
    /\ req[r].pc = "audit" => req[r].kind = "ban"
    /\ req[r].pc = "make" => req[r].round \in 1 .. Rounds /\ req[r].made < Batch
    /\ UnderWay(r) => req[r].out = "none"
    /\ req[r].out = "gone" => req[r].kind = "post"

Inv1 == TypeOK /\ \A r \in Requests : LocalsOK(r)

(* Whose ban is not in force now was free to enter, and so was everybody   *)
(* whom Banned let through.                                                *)
Free(r) ==
    /\ UnderWay(r) /\ req[r].pc # "audit" /\ ~InForce(bans[req[r].source], now) => r \in free
    /\ req[r].pc = "drop" => r \in free
    /\ PastBan(r) => r \in free

Inv2 == \A r \in Requests : Free(r)

(* The captchas that were made so far.  Those that are gone were judged.   *)
Made(c) ==
    \/ c[1][2] < req[c[1][1]].round
    \/ c[1][2] = req[c[1][1]].round /\ c[2] <= req[c[1][1]].made

Inv3 ==
    /\ \A c \in pool \cup shown : Made(c)
    /\ \A c \in Captchas : judged[c] # {} => Made(c)
    /\ \A c \in Captchas : Made(c) => (c \in pool <=> judged[c] = {})
    /\ \A c \in Captchas : \A r \in judged[c] : req[r].pc = "done" /\ req[r].out # "gone"
    /\ \A r \in Requests : ~req[r].late
    /\ FirstAnswerCounts

(* The batches that are in the table, in part, or being made.              *)
Stored == {b \in Batches : \E i \in 1 .. Batch : <<b, i>> \in pool}
Making == {<<r, req[r].round>> : r \in Makers}

Inv4 == Cardinality(Stored \cup Making) <= most
-----------------------------------------------------------------------------
States ==
    [pc : {"new", "check", "drop", "solve", "spend", "list", "make", "audit", "done"},
     kind : {"none", "post", "ask", "visit", "ban"},
     source : Sources \cup {None}, exp : Times \cup {None},
     form : Captchas \cup {None}, right : BOOLEAN,
     round : 0 .. Rounds, made : 0 .. Batch, late : BOOLEAN,
     out : {"none", "in", "banned", "gone", "wrong", "failed"}]

(* Steps of one request: nothing else happens to the requests.             *)
Only(r) == req' = [req EXCEPT ![r] = req'[r]]

LEMMA OneMoves ==
    ASSUME Inv1, NEW r \in Requests, Only(r), req'[r] \in States, LocalsOK(r)',
           now' \in Times, now <= now', shown \subseteq shown', shown' \subseteq Captchas,
           bans' \in [Sources -> Times \cup {None}], pool' \subseteq Captchas,
           free' \subseteq Requests, judged' \in [Captchas -> SUBSET Requests], most' \in Nat
    PROVE  Inv1'
<1> USE EntryAssumption
<1>1. req' \in [Requests -> States]
  BY DEF Inv1, TypeOK, Only, States
<1>2. TypeOK'
  BY <1>1 DEF TypeOK, States
<1>3. ASSUME NEW q \in Requests
      PROVE  LocalsOK(q)'
  <2>1. CASE q = r
    BY <2>1
  <2>2. CASE q # r
    <3>1. req'[q] = req[q]
      BY <2>2 DEF Only, Inv1, TypeOK
    <3>2. now \in Int /\ now' \in Int /\ Times \subseteq Int
      BY DEF Inv1, TypeOK, Times
    <3>3. LocalsOK(q)
      BY DEF Inv1
    <3>4. req[q].pc = "drop" => req[q].exp < now'
      <4> SUFFICES ASSUME req[q].pc = "drop" PROVE req[q].exp < now'
        OBVIOUS
      <4>1. req[q].exp \in Int /\ req[q].exp < now
        BY <3>2, <3>3 DEF LocalsOK
      <4> QED
        BY <3>2, <4>1
    <3> QED
      BY ONLY <3>1, <3>3, <3>4, shown \subseteq shown' DEF LocalsOK, UnderWay
  <2> QED
    BY <2>1, <2>2
<1> QED
  BY <1>2, <1>3 DEF Inv1

LEMMA InitInv1 == Init => Inv1
<1> USE EntryAssumption
<1> SUFFICES ASSUME Init PROVE Inv1
  OBVIOUS
<1>1. New \in States
  BY DEF New, At, States, Times
<1>2. TypeOK
  BY <1>1 DEF Init, TypeOK, States, Times
<1>3. \A r \in Requests : LocalsOK(r)
  BY DEF Init, LocalsOK, New, At, UnderWay
<1> QED
  BY <1>2, <1>3 DEF Inv1

LEMMA ArrivalStates ==
    ASSUME NEW p \in {"check", "list", "audit"}, NEW k \in {"post", "ask", "visit", "ban"},
           NEW s \in Sources, NEW c \in Captchas \cup {None}, NEW right \in BOOLEAN
    PROVE  At(p, k, s, c, right) \in States
BY EntryAssumption DEF At, States

(* What a request becomes when it arrives, in each of the ways it can.     *)
LEMMA ArrivesInv1 ==
    ASSUME Inv1, NEW r \in Requests, NEW s \in Sources
    PROVE  /\ Asks(r, s) \/ Visits(r, s) => Inv1'
           /\ \A c \in shown, right \in BOOLEAN : Posts(r, s, c, right) => Inv1'
           /\ \A exp \in Times : Ban(r, s, exp) => Inv1'
<1> USE EntryAssumption
<1>1. TypeOK /\ req \in [Requests -> States]
  BY DEF Inv1, TypeOK, States
<1>2. ASSUME NEW new, Arrives(r, new), new \in States,
             /\ new.pc # "new" /\ new.source \in Sources
             /\ new.pc \in {"check", "list"} /\ new.out = "none"
             /\ new.pc = "check" => new.kind \in {"post", "ask"}
             /\ new.kind = "post" => new.form \in shown
             /\ new.pc = "list" => new.kind = "visit" /\ new.round = 0
      PROVE  Inv1'
  <2>1. Only(r) /\ req'[r] = new
    BY <1>1, <1>2 DEF Arrives, Only
  <2>2. LocalsOK(r)'
    <3>1. shown' = shown /\ New.pc = "new"
      BY <1>2 DEF Arrives, New, At
    <3> QED
      BY <1>2, <2>1, <3>1 DEF LocalsOK, UnderWay
  <2>3. /\ now' \in Times /\ now <= now' /\ shown' = shown /\ shown \subseteq Captchas
        /\ bans' \in [Sources -> Times \cup {None}] /\ pool' \subseteq Captchas
        /\ free' \subseteq Requests /\ judged' \in [Captchas -> SUBSET Requests] /\ most' \in Nat
    BY <1>1, <1>2 DEF Arrives, TypeOK, tables, Times
  <2> QED
    BY <1>2, <2>1, <2>2, <2>3, OneMoves
<1>3. Asks(r, s) => Inv1'
  BY <1>2, ArrivalStates DEF Asks, At
<1>4. Visits(r, s) => Inv1'
  BY <1>2, ArrivalStates DEF Visits, At
<1>5. ASSUME NEW c \in shown, NEW right \in BOOLEAN, Posts(r, s, c, right)
      PROVE  Inv1'
  <2>1. c \in Captchas
    BY <1>1 DEF TypeOK
  <2> QED
    BY <1>2, <1>5, <2>1, ArrivalStates DEF Posts, At
<1>6. ASSUME NEW exp \in Times, Ban(r, s, exp)
      PROVE  Inv1'
  <2> DEFINE new == At("audit", "ban", s, None, FALSE)
  <2>1. new \in States
    BY ArrivalStates
  <2>2. Only(r) /\ req'[r] = new
    BY <1>1, <1>6 DEF Ban, Only
  <2>3. LocalsOK(r)'
    BY ONLY <2>2, s \in Sources DEF LocalsOK, UnderWay, New, At
  <2>4. /\ now' \in Times /\ now <= now' /\ shown' = shown /\ shown \subseteq Captchas
        /\ bans' \in [Sources -> Times \cup {None}] /\ pool' \subseteq Captchas
        /\ free' \subseteq Requests /\ judged' \in [Captchas -> SUBSET Requests] /\ most' \in Nat
    BY <1>1, <1>6 DEF Ban, TypeOK, tables, Times, Watch
  <2> QED
    BY <2>1, <2>2, <2>3, <2>4, OneMoves
<1> QED
  BY <1>3, <1>4, <1>5, <1>6

(* How a request under way may be left by its step.                        *)
Left(r) ==
    /\ Only(r)
    /\ req'[r] \in States
    /\ req'[r].pc # "new"
    /\ req'[r].kind = req[r].kind /\ req'[r].source = req[r].source /\ req'[r].form = req[r].form

LEMMA EndsLeft ==
    ASSUME Inv1, NEW r \in Requests, UnderWay(r), shown \subseteq shown',
           NEW out \in {"in", "banned", "gone", "wrong", "failed"}, Ends(r, out),
           out = "gone" => req[r].kind = "post"
    PROVE  /\ Left(r) /\ LocalsOK(r)'
           /\ req'[r].pc = "done" /\ req'[r].out = out /\ req'[r].late = req[r].late
           /\ req'[r].round = req[r].round /\ req'[r].made = req[r].made
<1>1. req \in [Requests -> States]
  BY DEF Inv1, TypeOK, States
<1>2. LocalsOK(r) /\ req[r].pc # "new"
  BY DEF Inv1, UnderWay
<1>3. /\ Left(r) /\ req'[r] = [req[r] EXCEPT !.pc = "done", !.out = out]
      /\ req'[r].pc = "done" /\ req'[r].out = out /\ req'[r].late = req[r].late
      /\ req'[r].round = req[r].round /\ req'[r].made = req[r].made
  BY <1>1, <1>2 DEF Ends, Left, Only, States
<1>4. New.pc = "new"
  BY DEF New, At
<1>5. LocalsOK(r)'
  BY ONLY <1>2, <1>3, <1>4, shown \subseteq shown', out = "gone" => req[r].kind = "post"
     DEF LocalsOK, Left, UnderWay
<1> QED
  BY <1>3, <1>5

LEMMA PassesLeft ==
    ASSUME Inv1, NEW r \in Requests, req[r].pc \in {"check", "drop"}, shown \subseteq shown',
           Passes(r)
    PROVE  /\ Left(r) /\ LocalsOK(r)' /\ req'[r].late = req[r].late
           /\ req'[r].pc \in {"solve", "done"}
           /\ req'[r].out \in {"none", "in"} /\ UnderWay(r)
           /\ req'[r].round = req[r].round /\ req'[r].made = req[r].made
<1>1. req \in [Requests -> States]
  BY DEF Inv1, TypeOK, States
<1>2. LocalsOK(r) /\ UnderWay(r)
  BY DEF Inv1, UnderWay
<1>3. CASE req[r].kind = "post"
  <2>1. /\ Left(r) /\ req'[r] = [req[r] EXCEPT !.pc = "solve"]
        /\ req'[r].pc = "solve" /\ req'[r].out = req[r].out /\ req'[r].late = req[r].late
        /\ req'[r].round = req[r].round /\ req'[r].made = req[r].made
    BY <1>1, <1>3 DEF Passes, Goes, Left, Only, States
  <2>2. New.pc = "new"
    BY DEF New, At
  <2>3. LocalsOK(r)'
    BY ONLY <1>2, <1>3, <2>1, <2>2, shown \subseteq shown' DEF LocalsOK, Left, UnderWay
  <2> QED
    BY <1>2, <2>1, <2>3 DEF LocalsOK
<1>4. CASE req[r].kind # "post"
  BY <1>2, <1>4, EndsLeft DEF Passes
<1> QED
  BY <1>3, <1>4

LEMMA FieldsInStates ==
    ASSUME NEW x \in States
    PROVE  /\ \A b \in BOOLEAN : [x EXCEPT !.pc = "spend", !.late = b] \in States
           /\ \A n \in 0 .. Batch, p \in {"list", "make"} :
                 [x EXCEPT !.made = n, !.pc = p] \in States
           /\ \A exp \in Times : [x EXCEPT !.pc = "drop", !.exp = exp] \in States
<1>1. ASSUME NEW b \in BOOLEAN
      PROVE  [x EXCEPT !.pc = "spend", !.late = b] \in States
  BY DEF States
<1>2. ASSUME NEW n \in 0 .. Batch, NEW p \in {"list", "make"}
      PROVE  [x EXCEPT !.made = n, !.pc = p] \in States
  BY DEF States
<1>3. ASSUME NEW exp \in Times
      PROVE  [x EXCEPT !.pc = "drop", !.exp = exp] \in States
  BY DEF States
<1> QED
  BY <1>1, <1>2, <1>3

(* The steps of a request that is under way.                               *)
Step(r) == Continue(r) \/ Fails(r)

LEMMA StepLeft ==
    ASSUME Inv1, NEW r \in Requests, Step(r)
    PROVE  /\ Left(r) /\ LocalsOK(r)' /\ UnderWay(r)
           /\ shown \subseteq shown' /\ UNCHANGED now
<1> USE EntryAssumption
<1>0. req \in [Requests -> States]
  BY DEF Inv1, TypeOK, States
<1>1. req \in [Requests -> States] /\ LocalsOK(r) /\ New.pc = "new"
  BY DEF Inv1, TypeOK, States, New, At
<1>2. UnderWay(r) /\ shown \subseteq shown' /\ UNCHANGED now
  BY DEF Step, Continue, CheckPasses, CheckHolds, CheckExpired, Dropped, NotFound, Found, Spent,
         Verdict, Picks, RunsOut, Starts, Makes, Audited, Fails, UnderWay, history, tables
<1>3. CASE CheckPasses(r) \/ Dropped(r)
  BY <1>2, <1>3, PassesLeft DEF CheckPasses, Dropped
<1>4. CASE CheckHolds(r) \/ Audited(r) \/ Fails(r)
  BY <1>2, <1>4, EndsLeft DEF CheckHolds, Audited, Fails
<1>5. CASE NotFound(r)
  BY <1>1, <1>2, <1>5, EndsLeft DEF NotFound, LocalsOK
<1>6. CASE Spent(r)
  BY <1>2, <1>6, EndsLeft DEF Spent, Verdict
<1>7. CASE \E c \in pool : Picks(r, c)
  BY <1>2, <1>7, EndsLeft DEF Picks
<1>8. CASE CheckExpired(r)
  <2>1. bans[req[r].source] \in Times /\ bans[req[r].source] < now
    BY <1>1, <1>8 DEF CheckExpired, Over, Inv1, TypeOK, LocalsOK, Times
  <2>2. /\ Left(r) /\ req'[r] = [req[r] EXCEPT !.pc = "drop", !.exp = bans[req[r].source]]
        /\ req'[r].pc = "drop" /\ req'[r].exp = bans[req[r].source] /\ req'[r].out = req[r].out
    <3>1. req' = [req EXCEPT ![r] = [req[r] EXCEPT !.pc = "drop", !.exp = bans[req[r].source]]]
      BY <1>8 DEF CheckExpired
    <3>2. [req[r] EXCEPT !.pc = "drop", !.exp = bans[req[r].source]] \in States
      BY <1>0, <2>1, FieldsInStates
    <3> QED
      BY <1>0, <3>1, <3>2 DEF Left, Only, States
  <2>3. req[r].pc = "check" /\ UNCHANGED <<now, shown>>
    BY <1>8 DEF CheckExpired
  <2>4. LocalsOK(r)'
    BY ONLY <1>1, <2>1, <2>2, <2>3 DEF LocalsOK, Left, UnderWay
  <2> QED
    BY <1>2, <2>2, <2>4
<1>9. CASE Found(r)
  <2>0. PICK b \in BOOLEAN : req' = [req EXCEPT ![r].pc = "spend", ![r].late = b]
    BY <1>9 DEF Found
  <2>1. /\ Left(r) /\ req'[r].pc = "spend" /\ req'[r].out = req[r].out
    <3>1. req' = [req EXCEPT ![r] = [req[r] EXCEPT !.pc = "spend", !.late = b]]
      BY <2>0
    <3>2. [req[r] EXCEPT !.pc = "spend", !.late = b] \in States
      BY <1>0, FieldsInStates
    <3> QED
      BY <1>0, <3>1, <3>2 DEF Left, Only, States
  <2>2. req[r].pc = "solve" /\ UNCHANGED shown
    BY <1>9 DEF Found
  <2>3. LocalsOK(r)'
    BY ONLY <1>1, <2>1, <2>2 DEF LocalsOK, Left, UnderWay
  <2> QED
    BY <1>2, <2>1, <2>3
<1>10. CASE RunsOut(r)
  <2>1. req[r].round \in 0 .. Rounds /\ req[r].round < Rounds
    BY <1>1, <1>10 DEF RunsOut, Starts, States
  <2>2. /\ Left(r) /\ req'[r].pc = "make" /\ req'[r].out = req[r].out
        /\ req'[r].round \in 1 .. Rounds /\ req'[r].made < Batch
    BY <1>1, <1>10, <2>1 DEF RunsOut, Starts, Left, Only, States
  <2>3. req[r].pc = "list" /\ UNCHANGED shown
    BY <1>10 DEF RunsOut, Starts
  <2>4. LocalsOK(r)'
    BY ONLY <1>1, <2>2, <2>3 DEF LocalsOK, Left, UnderWay
  <2> QED
    BY <1>2, <2>2, <2>4
<1>11. CASE Makes(r)
  <2>1. req[r].made \in 0 .. Batch /\ req[r].made < Batch /\ req[r].round \in 1 .. Rounds
    BY <1>1, <1>11 DEF Makes, States, LocalsOK
  <2>2. /\ Left(r) /\ req'[r].pc \in {"list", "make"} /\ req'[r].out = req[r].out
        /\ req'[r].round = req[r].round /\ req'[r].made = req[r].made + 1
        /\ req'[r].pc = "make" <=> req[r].made + 1 # Batch
    <3>1. PICK p \in {"list", "make"} :
              /\ req' = [req EXCEPT ![r].made = req[r].made + 1, ![r].pc = p]
              /\ p = "make" <=> req[r].made + 1 # Batch
      BY <1>11 DEF Makes
    <3>2. req[r].made + 1 \in 0 .. Batch
      BY <2>1
    <3> QED
      <4>1. req' = [req EXCEPT ![r] = [req[r] EXCEPT !.made = req[r].made + 1, !.pc = p]]
        BY <3>1
      <4>2. [req[r] EXCEPT !.made = req[r].made + 1, !.pc = p] \in States
        BY <1>0, <3>2, FieldsInStates
      <4>3. req'[r] = [req[r] EXCEPT !.made = req[r].made + 1, !.pc = p] /\ Only(r)
        BY <1>0, <4>1 DEF Only
      <4>4. /\ req'[r].kind = req[r].kind /\ req'[r].source = req[r].source
            /\ req'[r].form = req[r].form /\ req'[r].out = req[r].out
            /\ req'[r].round = req[r].round
        BY <4>3
      <4>5. req'[r].pc = p /\ req'[r].made = req[r].made + 1
        BY <1>0, <4>3 DEF States
      <4> QED
        BY <3>1, <4>2, <4>3, <4>4, <4>5 DEF Left
  <2>3. req[r].pc = "make" /\ UNCHANGED shown
    BY <1>11 DEF Makes
  <2>4. /\ req'[r].pc = "make" => req'[r].made < Batch
        /\ req'[r].pc = "list" => req'[r].made = Batch
    BY <2>1, <2>2
  <2>5. LocalsOK(r)'
    BY ONLY <1>1, <2>1, <2>2, <2>3, <2>4 DEF LocalsOK, Left, UnderWay
  <2> QED
    BY <1>2, <2>2, <2>5
<1> QED
  BY <1>3, <1>4, <1>5, <1>6, <1>7, <1>8, <1>9, <1>10, <1>11 DEF Step, Continue

LEMMA StepInv1 ==
    ASSUME Inv1, NEW r \in Requests, Step(r)
    PROVE  Inv1'
<1> USE EntryAssumption
<1>1. TypeOK /\ LocalsOK(r) /\ now \in Int
  BY DEF Inv1, TypeOK, Times
<1>2. /\ shown' \subseteq Captchas /\ free' \subseteq Requests
      /\ bans' \in [Sources -> Times \cup {None}]
      /\ judged' \in [Captchas -> SUBSET Requests]
  BY <1>1 DEF TypeOK, Step, Continue, CheckPasses, CheckHolds, CheckExpired, Dropped, Watch,
         NotFound, Found, Spent, Verdict, Picks, RunsOut, Starts, Makes, Audited, Fails,
         history, tables
<1>3. pool' \subseteq Captchas
  <2>1. CASE Makes(r)
    <3>1. <<<<r, req[r].round>>, req[r].made + 1>> \in Captchas
      BY <1>1, <2>1 DEF Makes, LocalsOK, TypeOK, Captchas, Batches
    <3> QED
      BY <1>1, <2>1, <3>1 DEF Makes, TypeOK
  <2>2. CASE ~Makes(r)
    BY <1>1, <2>2 DEF TypeOK, Step, Continue, CheckPasses, CheckHolds, CheckExpired, Dropped,
         NotFound, Found, Spent, Picks, RunsOut, Starts, Audited, Fails, tables
  <2> QED
    BY <2>1, <2>2
<1>4. most' \in Nat
  <2>1. CASE RunsOut(r)
    <3>1. IsFiniteSet(Makers')
      BY FS_Subset DEF Makers
    <3>2. Cardinality(Makers') \in Nat
      BY <3>1, FS_CardinalityType
    <3> QED
      BY <1>1, <2>1, <3>2 DEF RunsOut, Starts, TypeOK
  <2>2. CASE ~RunsOut(r)
    BY <1>1, <2>2 DEF TypeOK, Step, Continue, CheckPasses, CheckHolds, CheckExpired, Dropped,
         NotFound, Found, Spent, Picks, Makes, Audited, Fails, history
  <2> QED
    BY <2>1, <2>2
<1> QED
  BY <1>1, <1>2, <1>3, <1>4, StepLeft, OneMoves DEF Left, TypeOK

LEMMA RestInv1 ==
    ASSUME Inv1, Tick \/ Crash \/ UNCHANGED vars
    PROVE  Inv1'
<1> USE EntryAssumption
<1>1. TypeOK /\ now \in Int /\ req \in [Requests -> States]
  BY DEF Inv1, TypeOK, Times, States
<1>2. CASE Tick
  <2>1. now' = now + 1 /\ now' \in Times /\ UNCHANGED <<req, shown>>
    BY <1>1, <1>2 DEF Tick, Times, TypeOK
  <2>2. TypeOK'
    BY <1>1, <1>2, <2>1 DEF Tick, Watch, TypeOK, tables
  <2>3. ASSUME NEW r \in Requests
        PROVE  LocalsOK(r)'
    <3>1. LocalsOK(r)
      BY DEF Inv1
    <3>2. req[r].pc = "drop" => req[r].exp < now'
      BY <1>1, <2>1, <3>1 DEF LocalsOK, Times
    <3> QED
      BY ONLY <2>1, <3>1, <3>2 DEF LocalsOK, UnderWay
  <2> QED
    BY <2>2, <2>3 DEF Inv1
<1>3. CASE Crash
  <2>1. req' \in [Requests -> States]
    <3>1. ASSUME NEW x \in States
          PROVE  [x EXCEPT !.pc = "done", !.out = "failed"] \in States
      BY ONLY x \in States DEF States
    <3> QED
      BY <1>1, <1>3, <3>1 DEF Crash
  <2>2. TypeOK'
    BY <1>1, <1>3, <2>1 DEF Crash, TypeOK, States, tables, history
  <2>3. ASSUME NEW r \in Requests
        PROVE  LocalsOK(r)'
    <3>1. LocalsOK(r) /\ New.pc = "new" /\ UNCHANGED <<now, shown>>
      BY <1>3 DEF Inv1, New, At, Crash
    <3>2. CASE UnderWay(r)
      <4>1. /\ req'[r].pc = "done" /\ req'[r].out = "failed"
            /\ req'[r].source = req[r].source /\ req'[r].kind = req[r].kind
            /\ req'[r].form = req[r].form
        BY <1>1, <1>3, <3>2 DEF Crash, States
      <4> QED
        BY ONLY <3>1, <3>2, <4>1 DEF LocalsOK, UnderWay
    <3>3. CASE ~UnderWay(r)
      <4>1. req'[r] = req[r]
        BY <1>1, <1>3, <3>3 DEF Crash
      <4> QED
        BY ONLY <3>1, <4>1 DEF LocalsOK, UnderWay
    <3> QED
      BY <3>2, <3>3
  <2> QED
    BY <2>2, <2>3 DEF Inv1
<1>4. CASE UNCHANGED vars
  BY <1>1, <1>4 DEF Inv1, vars, tables, history, TypeOK, LocalsOK, UnderWay
<1> QED
  BY <1>2, <1>3, <1>4

LEMMA NextInv1 ==
    ASSUME Inv1, [Next]_vars
    PROVE  Inv1'
BY ArrivesInv1, StepInv1, RestInv1 DEF Next, Step, Rest

(* The types hold, and no batch is larger than Batch, whatever fails.      *)
THEOREM TypeCorrect == Spec => []TypeOK
<1>1. Inv1 => TypeOK
  BY DEF Inv1
<1> QED
  BY InitInv1, NextInv1, <1>1, PTL DEF Spec

-----------------------------------------------------------------------------
(* Who was let in.                                                         *)

LEMMA Watched ==
    ASSUME Inv1, Inv2, NEW q \in Requests, req'[q] = req[q],
           UNCHANGED <<bans, now>> \/ Watch(bans', now'), free \subseteq free'
    PROVE  Free(q)'
<1>1. Free(q)
  BY DEF Inv2
<1>2. CASE UNCHANGED <<bans, now>>
  BY <1>1, <1>2 DEF Free, UnderWay, PastBan, InForce
<1>3. CASE Watch(bans', now')
  BY <1>1, <1>3 DEF Watch, Free, UnderWay, PastBan, InForce
<1> QED
  BY <1>2, <1>3

LEMMA InitInv2 == Init => Inv2
<1> SUFFICES ASSUME Init, NEW r \in Requests PROVE Free(r)
  BY DEF Inv2
<1>1. req[r] = New
  BY DEF Init
<1> QED
  BY <1>1 DEF Free, UnderWay, PastBan, New, At

LEMMA ArrivesInv2 ==
    ASSUME Inv1, Inv2, NEW r \in Requests, NEW new, Arrives(r, new), new.out = "none",
           new.pc \in {"check", "list"}
    PROVE  Inv2'
<1>1. req \in [Requests -> States]
  BY DEF Inv1, TypeOK, States
<1>2. /\ UNCHANGED <<bans, now>> /\ free \subseteq free' /\ req'[r] = new
      /\ \A q \in Requests \ {r} : req'[q] = req[q]
      /\ ~InForce(bans[new.source], now) => r \in free'
  BY <1>1 DEF Arrives, tables
<1>3. Free(r)'
  BY <1>2 DEF Free, UnderWay, PastBan, InForce
<1> QED
  BY <1>2, <1>3, Watched DEF Inv2

LEMMA StepInv2 ==
    ASSUME Inv1, Inv2, NEW r \in Requests, Step(r)
    PROVE  Inv2'
<1>1. Left(r) /\ UnderWay(r) /\ UNCHANGED now /\ LocalsOK(r)'
  BY StepLeft
<1>2. \A q \in Requests \ {r} : req'[q] = req[q]
  BY <1>1 DEF Left, Only, Inv1, TypeOK
<1>3. free \subseteq free' /\ (UNCHANGED <<bans, now>> \/ Watch(bans', now'))
  BY <1>1 DEF Step, Continue, CheckPasses, CheckHolds, CheckExpired, Dropped, Watch, NotFound,
         Found, Spent, Verdict, Picks, RunsOut, Starts, Makes, Audited, Fails, history, tables
<1>4. Free(r) /\ LocalsOK(r) /\ req \in [Requests -> States]
  BY DEF Inv1, Inv2, TypeOK, States
<1>5. Free(r)'
  <2>1. CASE CheckPasses(r) \/ Dropped(r)
    <3>1. r \in free
      BY <1>1, <1>4, <2>1 DEF CheckPasses, Dropped, Free, InForce
    <3> QED
      BY <1>3, <3>1 DEF Free
  <2>2. CASE CheckExpired(r)
    <3>1. ~InForce(bans[req[r].source], now)
      BY <2>2, EntryAssumption DEF CheckExpired, Over, InForce, Inv1, TypeOK, LocalsOK, Times
    <3>2. r \in free
      BY <1>1, <1>4, <2>2, <3>1 DEF CheckExpired, Free
    <3> QED
      BY <1>3, <3>2 DEF Free
  <2>3. CASE CheckHolds(r) \/ Fails(r) \/ NotFound(r)
    <3>1. req'[r].pc = "done" /\ req'[r].out # "in"
      BY <1>4, <2>3 DEF CheckHolds, Fails, NotFound, Ends, States
    <3> QED
      BY <3>1 DEF Free, PastBan, UnderWay
  <2>4. CASE Found(r) \/ Spent(r)
    <3>1. r \in free
      BY <1>4, <2>4 DEF Found, Spent, Verdict, Free, PastBan
    <3> QED
      BY <1>3, <3>1 DEF Free
  <2>5. CASE \/ Audited(r) \/ RunsOut(r) \/ Makes(r)
             \/ \E c \in pool : Picks(r, c)
    <3>1. req[r].kind \notin {"post", "ask"} \/ Audited(r)
      BY <1>4, <2>5 DEF RunsOut, Makes, Picks, LocalsOK
    <3>2. CASE Audited(r)
      <4>1. req'[r].pc = "done"
        BY <1>4, <3>2 DEF Audited, Ends, States
      <4>2. req'[r].kind \notin {"post", "ask"}
        BY <1>1, <1>4, <3>2 DEF Audited, LocalsOK, Left
      <4> QED
        BY <4>1, <4>2 DEF Free, UnderWay, PastBan
    <3>3. CASE ~Audited(r)
      <4>1. /\ req'[r].pc \in {"make", "list", "done"} /\ UNCHANGED <<bans, now>>
            /\ req[r].pc \in {"list", "make"}
        BY <1>1, <1>4, <2>5, <3>3 DEF RunsOut, Starts, Makes, Picks, Ends, States, tables
      <4>2. req'[r].kind \notin {"post", "ask"} /\ req'[r].source = req[r].source
        BY <1>1, <3>1, <3>3 DEF Left
      <4>3. UnderWay(r)' /\ ~InForce(bans[req[r].source], now) => r \in free
        BY <1>1, <1>4, <4>1 DEF Free
      <4> QED
        BY <1>3, <4>1, <4>2, <4>3 DEF Free, PastBan, UnderWay, InForce
    <3> QED
      BY <3>2, <3>3
  <2> QED
    BY <2>1, <2>2, <2>3, <2>4, <2>5 DEF Step, Continue
<1> QED
  BY <1>2, <1>3, <1>5, Watched DEF Inv2

LEMMA NextInv2 ==
    ASSUME Inv1, Inv2, [Next]_vars
    PROVE  Inv2'
<1>1. req \in [Requests -> States]
  BY DEF Inv1, TypeOK, States
<1>2. CASE Tick
  BY <1>2, Watched DEF Tick, Watch, tables, Inv2
<1>3. ASSUME NEW r \in Requests, NEW s \in Sources,
             \/ \E c \in shown, right \in BOOLEAN : Posts(r, s, c, right)
             \/ Asks(r, s) \/ Visits(r, s)
      PROVE  Inv2'
  BY <1>3, ArrivesInv2 DEF Posts, Asks, Visits, At
<1>4. ASSUME NEW r \in Requests, NEW s \in Sources, NEW exp \in Times, Ban(r, s, exp)
      PROVE  Inv2'
  <2>1. /\ Watch(bans', now') /\ free \subseteq free'
        /\ \A q \in Requests \ {r} : req'[q] = req[q]
        /\ req'[r] = At("audit", "ban", s, None, FALSE)
    BY <1>1, <1>4 DEF Ban, Watch
  <2>2. Free(r)'
    BY <2>1 DEF Free, PastBan, At
  <2> QED
    BY <2>1, <2>2, Watched DEF Inv2
<1>5. CASE Crash
  <2>1. UNCHANGED <<bans, now, free>>
    BY <1>5 DEF Crash, tables, history
  <2>2. ASSUME NEW q \in Requests, UnderWay(q)
        PROVE  Free(q)'
    <3>1. req'[q].pc = "done" /\ req'[q].out = "failed"
      BY <1>1, <1>5, <2>2 DEF Crash, States
    <3> QED
      BY <3>1 DEF Free, PastBan, UnderWay
  <2>3. ASSUME NEW q \in Requests, ~UnderWay(q)
        PROVE  Free(q)'
    BY <1>5, <2>1, <2>3, Watched DEF Crash
  <2> QED
    BY <2>2, <2>3 DEF Inv2
<1>6. CASE UNCHANGED vars
  BY <1>6 DEF vars, tables, history, Inv2, Free, UnderWay, PastBan, InForce
<1> QED
  BY <1>2, <1>3, <1>4, <1>5, <1>6, StepInv2 DEF Next, Step, Rest

(* Nobody gets past redirBanned who was banned throughout.                 *)
THEOREM KeptOutHolds == Spec => []KeptOut
<1>1. Inv2 => KeptOut
  BY DEF Inv2, Free, KeptOut
<1> QED
  BY InitInv1, NextInv1, InitInv2, NextInv2, <1>1, PTL DEF Spec

(* A ban in force goes only in a race of Banned with its renewal.          *)
THEOREM BanKeptHolds == Spec => BanKept
<1>1. ASSUME Inv1, [Next]_vars, NEW s \in Sources, InForce(bans[s], now), bans'[s] = None
      PROVE  \E r \in Requests : /\ req[r].pc = "drop" /\ req[r].source = s
                                 /\ req[r].exp < bans[s]
  <2>1. bans \in [Sources -> Times \cup {None}] /\ bans[s] # None
    BY <1>1 DEF Inv1, TypeOK, InForce
  <2>2. \A exp \in Times : exp # None
    BY EntryAssumption DEF Times
  <2>3. PICK r \in Requests : Dropped(r) /\ req[r].source = s
    BY <1>1, <2>1, <2>2 DEF Next, Continue, vars, tables, Tick, Arrives, Posts, Asks, Visits, Ban,
         CheckPasses, CheckHolds, CheckExpired, Dropped, NotFound, Found, Spent, Picks, RunsOut,
         Starts, Makes, Audited, Fails, Crash, Rest
  <2>4. req[r].exp \in Times /\ req[r].exp < now /\ req[r].pc = "drop"
    BY <1>1, <2>3 DEF Dropped, Inv1, LocalsOK
  <2>5. bans[s] \in Int /\ now <= bans[s] /\ now \in Int /\ req[r].exp \in Int
    BY <1>1, <2>1, <2>4, EntryAssumption DEF InForce, Inv1, TypeOK, Times
  <2> QED
    BY <2>3, <2>4, <2>5
<1>2. ASSUME Inv1, [Next]_vars
      PROVE  [\A s \in Sources : InForce(bans[s], now) /\ bans'[s] = None =>
                \E r \in Requests : /\ req[r].pc = "drop" /\ req[r].source = s
                                    /\ req[r].exp < bans[s]]_vars
  BY <1>1, <1>2
<1> QED
  BY InitInv1, NextInv1, <1>2, PTL DEF Spec, BanKept

-----------------------------------------------------------------------------
(* What happens to captchas.                                               *)

LEMMA InitInv34 == Init => Inv3 /\ Inv4
<1> SUFFICES ASSUME Init PROVE Inv3 /\ Inv4
  OBVIOUS
<1>1. \A r \in Requests : /\ req[r].round = 0 /\ req[r].made = 0
                          /\ req[r].out = "none" /\ req[r].pc = "new" /\ ~req[r].late
  BY DEF Init, New, At
<1>2. \A c \in Captchas : ~Made(c)
  BY <1>1 DEF Made, Captchas, Batches
<1>3. Inv3
  BY <1>1, <1>2 DEF Init, Inv3, FirstAnswerCounts
<1>4. Stored \cup Making = {}
  BY <1>1 DEF Init, Stored, Making, Makers
<1> QED
  BY <1>3, <1>4, FS_EmptySet DEF Init, Inv4

(* Steps that judge nothing, make nothing and refuse no captcha.           *)
LEMMA Quiet ==
    ASSUME Inv1, Inv3, UNCHANGED <<pool, judged>>, shown' \subseteq shown \cup pool,
           req' \in [Requests -> States],
           \A r \in Requests :
               /\ req'[r].round = req[r].round /\ req'[r].made = req[r].made
               /\ ~req'[r].late
               /\ req[r].pc = "done" => req'[r] = req[r]
               /\ req'[r].out = "gone" => req'[r].form = req[r].form /\ req[r].out = "gone"
    PROVE  Inv3'
<1>1. \A c \in Captchas : Made(c)' <=> Made(c)
  BY DEF Made, Captchas, Batches
<1>2. pool \subseteq Captchas /\ shown \subseteq Captchas
      /\ judged \in [Captchas -> SUBSET Requests]
  BY DEF Inv1, TypeOK
<1>3. FirstAnswerCounts'
  BY DEF Inv3, FirstAnswerCounts
<1>4. \A c \in Captchas : \A r \in judged'[c] : req'[r].pc = "done" /\ req'[r].out # "gone"
  BY <1>2 DEF Inv3
<1> QED
  BY <1>1, <1>2, <1>3, <1>4 DEF Inv3

(* A captcha that can be found was judged by nobody.                       *)
LEMMA FoundFresh ==
    ASSUME Inv1, Inv3, NEW c \in pool
    PROVE  judged[c] = {}
BY DEF Inv1, TypeOK, Inv3

LEMMA QuietSteps ==
    ASSUME Inv1, Inv3, NEW r \in Requests,
           \/ CheckPasses(r) \/ CheckHolds(r) \/ CheckExpired(r) \/ Dropped(r) \/ Found(r)
           \/ Audited(r) \/ Fails(r) \/ \E c \in pool : Picks(r, c)
    PROVE  Inv3'
<1>1. Left(r) /\ UnderWay(r) /\ LocalsOK(r)
  BY StepLeft DEF Step, Continue, Inv1
<1>2. UNCHANGED <<pool, judged>> /\ shown' \subseteq shown \cup pool
  BY DEF CheckPasses, CheckHolds, CheckExpired, Dropped, Found, Audited, Fails, Picks, tables, history
<1>3. req \in [Requests -> States]
  BY DEF Inv1, TypeOK, States
<1>4. req' \in [Requests -> States] /\ \A q \in Requests \ {r} : req'[q] = req[q]
  BY <1>1, <1>3 DEF Left, Only
<1>5. /\ req'[r].round = req[r].round /\ req'[r].made = req[r].made
      /\ ~req'[r].late /\ req'[r].out # "gone"
  <2>1. ~req[r].late /\ req[r].out = "none"
    BY <1>1 DEF Inv3, LocalsOK
  <2>2. CASE CheckPasses(r) \/ Dropped(r)
    BY <1>2, <2>1, <2>2, PassesLeft DEF CheckPasses, Dropped
  <2>3. CASE CheckHolds(r) \/ Audited(r) \/ Fails(r) \/ \E c \in pool : Picks(r, c)
    BY <1>3, <2>1, <2>3 DEF CheckHolds, Audited, Fails, Picks, Ends, States
  <2>4. CASE CheckExpired(r)
    BY <1>3, <2>1, <2>4 DEF CheckExpired, States
  <2>5. CASE Found(r)
    <3>1. judged[req[r].form] = {}
      BY <2>5, FoundFresh DEF Found
    <3>2. req' = [req EXCEPT ![r].pc = "spend", ![r].late = FALSE]
      BY <2>5, <3>1 DEF Found
    <3> QED
      BY <1>3, <2>1, <3>2 DEF States
  <2> QED
    BY <2>2, <2>3, <2>4, <2>5
<1>6. req[r].pc # "done"
  BY <1>1 DEF UnderWay
<1>7. \A q \in Requests : ~req[q].late
  BY DEF Inv3
<1> QED
  BY <1>2, <1>4, <1>5, <1>6, <1>7, Quiet

LEMMA NotFoundInv3 ==
    ASSUME Inv1, Inv3, NEW r \in Requests, NotFound(r)
    PROVE  Inv3'
<1>1. req \in [Requests -> States] /\ judged \in [Captchas -> SUBSET Requests]
      /\ shown \subseteq Captchas /\ pool \subseteq Captchas
  BY DEF Inv1, TypeOK, States
<1>2. /\ UNCHANGED <<pool, judged, shown>> /\ req[r].pc = "solve"
      /\ \A q \in Requests \ {r} : req'[q] = req[q]
      /\ \A q \in Requests : /\ req'[q].round = req[q].round /\ req'[q].made = req[q].made
                             /\ req'[q].late = req[q].late /\ req'[q].form = req[q].form
  BY <1>1 DEF NotFound, Ends, tables, history, States
<1>3. \A c \in Captchas : Made(c)' <=> Made(c)
  BY <1>2 DEF Made, Captchas, Batches
<1>4. req[r].form \in shown /\ req[r].form \notin pool
  BY <1>2 DEF NotFound, Inv1, LocalsOK
<1>5. judged[req[r].form] # {}
  BY <1>1, <1>4 DEF Inv3
<1>6. \A c \in Captchas : r \notin judged[c]
  BY <1>2 DEF Inv3
<1>7. FirstAnswerCounts'
  BY <1>1, <1>2, <1>4, <1>5, <1>6 DEF Inv3, FirstAnswerCounts
<1> QED
  BY <1>1, <1>2, <1>3, <1>6, <1>7 DEF Inv3

LEMMA SpentInv3 ==
    ASSUME Inv1, Inv3, NEW r \in Requests, Spent(r)
    PROVE  Inv3'
<1>1. req \in [Requests -> States] /\ judged \in [Captchas -> SUBSET Requests]
      /\ shown \subseteq Captchas /\ pool \subseteq Captchas
  BY DEF Inv1, TypeOK, States
<1> DEFINE c == req[r].form
<1>2. c \in shown /\ req[r].pc = "spend"
  BY DEF Spent, Verdict, Inv1, LocalsOK
<1>3. /\ UNCHANGED shown /\ pool' = pool \ {c}
      /\ judged' = [judged EXCEPT ![c] = @ \cup {r}]
      /\ \A q \in Requests \ {r} : req'[q] = req[q]
      /\ \A q \in Requests : /\ req'[q].round = req[q].round /\ req'[q].made = req[q].made
                             /\ req'[q].late = req[q].late /\ req'[q].form = req[q].form
      /\ req'[r].pc = "done" /\ req'[r].out \in {"in", "wrong"}
  BY <1>1 DEF Spent, Verdict, Ends, States
<1>4. \A d \in Captchas : Made(d)' <=> Made(d)
  BY <1>3 DEF Made, Captchas, Batches
<1>5. /\ judged'[c] = judged[c] \cup {r}
      /\ \A d \in Captchas \ {c} : judged'[d] = judged[d]
  BY <1>1, <1>2, <1>3
<1>6. Made(c)
  BY <1>2 DEF Inv3
<1>7. \A d \in Captchas : Made(d)' => (d \in pool' <=> judged'[d] = {})
  BY <1>3, <1>4, <1>5 DEF Inv3
<1>8. \A d \in Captchas : judged[d] \subseteq judged'[d]
  BY <1>1, <1>5
<1>9. FirstAnswerCounts'
  <2>1. ASSUME NEW q \in Requests, req'[q].out = "gone"
        PROVE  judged'[req'[q].form] \ {q} # {}
    <3>1. q # r /\ req'[q] = req[q] /\ judged[req[q].form] \ {q} # {}
      BY <1>3, <2>1 DEF Inv3, FirstAnswerCounts
    <3>2. req[q].form \in Captchas
      BY <1>1, <2>1, <3>1 DEF Inv1, LocalsOK
    <3> QED
      BY <1>8, <3>1, <3>2
  <2> QED
    BY <2>1 DEF FirstAnswerCounts
<1>10. \A d \in Captchas : \A q \in judged'[d] : req'[q].pc = "done" /\ req'[q].out # "gone"
  BY <1>1, <1>3, <1>5 DEF Inv3
<1>11. \A d \in Captchas : judged'[d] # {} => Made(d)'
  BY <1>4, <1>5, <1>6 DEF Inv3
<1>12. \A d \in pool' \cup shown' : Made(d)'
  BY <1>1, <1>3, <1>4 DEF Inv3
<1> QED
  BY <1>3, <1>7, <1>9, <1>10, <1>11, <1>12 DEF Inv3

LEMMA RunsOutInv3 ==
    ASSUME Inv1, Inv3, NEW r \in Requests, RunsOut(r)
    PROVE  Inv3'
<1>1. req \in [Requests -> States] /\ judged \in [Captchas -> SUBSET Requests]
      /\ shown \subseteq Captchas /\ pool \subseteq Captchas
  BY DEF Inv1, TypeOK, States
<1>2. /\ UNCHANGED <<pool, judged, shown>> /\ req[r].pc = "list"
      /\ \A q \in Requests \ {r} : req'[q] = req[q]
      /\ \A q \in Requests : /\ req'[q].out = req[q].out
                             /\ req'[q].late = req[q].late /\ req'[q].form = req[q].form
      /\ req'[r].round = req[r].round + 1 /\ req'[r].made = 0
  BY <1>1 DEF RunsOut, Starts, tables, States
<1>3. pool = {}
  BY DEF RunsOut
<1>4. ASSUME NEW d \in Captchas
      PROVE  Made(d)' <=> Made(d)
  <2>1. PICK q \in Requests, n \in 1 .. Rounds, i \in 1 .. Batch : d = <<<<q, n>>, i>>
    BY DEF Captchas, Batches
  <2>2. /\ req[q].round \in Int /\ req[q].made \in Int /\ req'[q].round \in Int
        /\ n \in Int /\ n >= 1 /\ i \in Int /\ i >= 1 /\ i <= Batch /\ Batch \in Int
    BY <1>1, <1>2, EntryAssumption DEF States
  <2>3. q = r => req[q].round = 0 \/ req[q].made = Batch
    BY <1>2 DEF Inv1, LocalsOK
  <2>4. /\ Made(d) <=> n < req[q].round \/ (n = req[q].round /\ i <= req[q].made)
        /\ Made(d)' <=> n < req'[q].round \/ (n = req'[q].round /\ i <= req'[q].made)
    BY <2>1 DEF Made
  <2>5. CASE q = r
    BY ONLY <1>2, <2>2, <2>3, <2>4, <2>5
  <2>6. CASE q # r
    BY <1>2, <2>4, <2>6
  <2> QED
    BY <2>5, <2>6
<1>5. FirstAnswerCounts'
  BY <1>2 DEF Inv3, FirstAnswerCounts
<1>6. \A d \in Captchas : \A q \in judged'[d] : req'[q].pc = "done" /\ req'[q].out # "gone"
  BY <1>1, <1>2 DEF Inv3
<1> QED
  BY <1>1, <1>2, <1>4, <1>5, <1>6 DEF Inv3

LEMMA MakesInv3 ==
    ASSUME Inv1, Inv3, NEW r \in Requests, Makes(r)
    PROVE  Inv3'
<1>1. req \in [Requests -> States] /\ judged \in [Captchas -> SUBSET Requests]
      /\ shown \subseteq Captchas /\ pool \subseteq Captchas
  BY DEF Inv1, TypeOK, States
<1> DEFINE c == <<<<r, req[r].round>>, req[r].made + 1>>
<1>2. /\ UNCHANGED <<judged, shown>> /\ req[r].pc = "make" /\ pool' = pool \cup {c}
      /\ \A q \in Requests \ {r} : req'[q] = req[q]
      /\ \A q \in Requests : /\ req'[q].out = req[q].out
                             /\ req'[q].late = req[q].late /\ req'[q].form = req[q].form
      /\ req'[r].round = req[r].round /\ req'[r].made = req[r].made + 1
  BY <1>1 DEF Makes, history, States
<1>3. ASSUME NEW d \in Captchas
      PROVE  /\ Made(d)' <=> Made(d) \/ d = c
             /\ d = c => ~Made(d)
  <2>1. PICK q \in Requests, n \in 1 .. Rounds, i \in 1 .. Batch : d = <<<<q, n>>, i>>
    BY DEF Captchas, Batches
  <2>2. /\ req[q].round \in Int /\ req[q].made \in Int /\ n \in Int /\ i \in Int
    BY <1>1, EntryAssumption DEF States
  <2>3. /\ Made(d) <=> n < req[q].round \/ (n = req[q].round /\ i <= req[q].made)
        /\ Made(d)' <=> n < req'[q].round \/ (n = req'[q].round /\ i <= req'[q].made)
    BY <2>1 DEF Made
  <2>4. d = c <=> q = r /\ n = req[r].round /\ i = req[r].made + 1
    BY <2>1
  <2>5. CASE q = r
    BY ONLY <1>2, <2>2, <2>3, <2>4, <2>5
  <2>6. CASE q # r
    BY <1>2, <2>3, <2>4, <2>6
  <2> QED
    BY <2>5, <2>6
<1>4. FirstAnswerCounts'
  BY <1>2 DEF Inv3, FirstAnswerCounts
<1>5. \A d \in Captchas : \A q \in judged'[d] : req'[q].pc = "done" /\ req'[q].out # "gone"
  BY <1>1, <1>2 DEF Inv3
<1>6. pool' \subseteq Captchas
  BY StepInv1 DEF Step, Continue, Inv1, TypeOK
<1>7. \A d \in Captchas : Made(d)' => (d \in pool' <=> judged'[d] = {})
  BY <1>2, <1>3 DEF Inv3
<1>8. \A d \in pool' \cup shown' : Made(d)'
  BY <1>1, <1>2, <1>3, <1>6 DEF Inv3
<1>9. \A d \in Captchas : judged'[d] # {} => Made(d)'
  BY <1>2, <1>3 DEF Inv3
<1> QED
  BY <1>2, <1>4, <1>5, <1>7, <1>8, <1>9 DEF Inv3

LEMMA NextInv3 ==
    ASSUME Inv1, Inv3, [Next]_vars
    PROVE  Inv3'
<1>0. \A p, k, s, c, b :
          /\ At(p, k, s, c, b).round = 0 /\ At(p, k, s, c, b).made = 0
          /\ ~At(p, k, s, c, b).late /\ At(p, k, s, c, b).out = "none"
  BY DEF At
<1>1. req \in [Requests -> States]
  BY DEF Inv1, TypeOK, States
<1>2. req' \in [Requests -> States]
  BY NextInv1 DEF Inv1, TypeOK, States
<1>3. \A q \in Requests : ~req[q].late
  BY DEF Inv3
<1>4. CASE Tick
  BY <1>1, <1>3, <1>4, Quiet DEF Tick, tables
<1>5. ASSUME NEW r \in Requests, NEW p, NEW k, NEW s, NEW c, NEW b, req[r] = New,
             req' = [req EXCEPT ![r] = At(p, k, s, c, b)], UNCHANGED <<pool, judged, shown>>
      PROVE  Inv3'
  <2> DEFINE new == At(p, k, s, c, b)
  <2>1. New.round = 0 /\ New.made = 0 /\ New.pc = "new"
    BY DEF New, At
  <2>2. /\ req'[r] = new /\ \A q \in Requests \ {r} : req'[q] = req[q]
    BY <1>1, <1>5
  <2> QED
    BY <1>0, <1>2, <1>3, <1>5, <2>1, <2>2, Quiet
<1>6. ASSUME NEW r \in Requests, NEW s \in Sources,
             \/ \E c \in shown, right \in BOOLEAN : Posts(r, s, c, right)
             \/ Asks(r, s) \/ Visits(r, s)
      PROVE  Inv3'
  <2>1. ASSUME NEW p, NEW k, NEW c, NEW b, Arrives(r, At(p, k, s, c, b))
        PROVE  Inv3'
    BY <1>5, <2>1 DEF Arrives, tables
  <2> QED
    BY <1>6, <2>1 DEF Posts, Asks, Visits
<1>7. ASSUME NEW r \in Requests, NEW s \in Sources, NEW exp \in Times, Ban(r, s, exp)
      PROVE  Inv3'
  BY <1>5, <1>7 DEF Ban
<1>8. ASSUME NEW r \in Requests, Continue(r) \/ Fails(r)
      PROVE  Inv3'
  BY <1>8, QuietSteps, NotFoundInv3, SpentInv3, RunsOutInv3, MakesInv3 DEF Continue
<1>9. CASE Crash
  <2>1. \A q \in Requests :
            /\ req'[q].round = req[q].round /\ req'[q].made = req[q].made
            /\ req'[q].late = req[q].late /\ req'[q].form = req[q].form
            /\ req'[q].out \in {req[q].out, "failed"}
            /\ req[q].pc = "done" => req'[q] = req[q]
    BY <1>1, <1>9 DEF Crash, States, UnderWay
  <2> QED
    BY <1>2, <1>3, <1>9, <2>1, Quiet DEF Crash, tables, history
<1>10. CASE UNCHANGED vars
  BY <1>1, <1>3, <1>10, Quiet DEF vars, tables, history
<1> QED
  BY <1>4, <1>6, <1>7, <1>8, <1>9, <1>10 DEF Next, Rest

(* There is no second guess at a captcha, except by checks that overlap.   *)
THEOREM OneGuessHolds == Spec => []OneGuess
<1>1. Inv1 /\ Inv3 => OneGuess
  BY DEF Inv1, TypeOK, Inv3, OneGuess
<1> QED
  BY InitInv1, NextInv1, InitInv34, NextInv3, <1>1, PTL DEF Spec

(* A captcha is gone only if somebody else answered it.                    *)
THEOREM FirstAnswerCountsHolds == Spec => []FirstAnswerCounts
<1>1. Inv3 => FirstAnswerCounts
  BY DEF Inv3
<1> QED
  BY InitInv1, NextInv1, InitInv34, NextInv3, <1>1, PTL DEF Spec

-----------------------------------------------------------------------------
(* How many captchas there are.                                            *)

Groups == Stored \cup Making

LEMMA GroupsFinite ==
    ASSUME Inv1
    PROVE  /\ Groups \subseteq Batches /\ IsFiniteSet(Batches)
           /\ \A T \in SUBSET Groups : Cardinality(T) <= Cardinality(Groups)
           /\ \A T \in SUBSET Batches : IsFiniteSet(T) /\ Cardinality(T) \in Nat
<1> USE EntryAssumption
<1>1. Groups \subseteq Batches
  BY DEF Groups, Stored, Making, Makers, Batches, Inv1, LocalsOK
<1>2. IsFiniteSet(Batches)
  <2>1. IsFiniteSet(1 .. Rounds)
    BY FS_Interval
  <2> QED
    BY <2>1, FS_Product DEF Batches
<1>3. \A T \in SUBSET Batches : IsFiniteSet(T) /\ Cardinality(T) \in Nat
  BY <1>2, FS_Subset, FS_CardinalityType
<1>4. IsFiniteSet(Groups)
  BY <1>1, <1>3
<1>5. \A T \in SUBSET Groups : Cardinality(T) <= Cardinality(Groups)
  BY <1>4, FS_Subset
<1> QED
  BY <1>1, <1>2, <1>3, <1>5

LEMMA FewerGroups ==
    ASSUME Inv1, Inv4, Groups' \subseteq Groups, most' = most
    PROVE  Inv4'
<1>1. Cardinality(Groups') <= Cardinality(Groups) /\ Cardinality(Groups) <= most
  BY GroupsFinite DEF Inv4, Groups
<1>2. Cardinality(Groups') \in Nat /\ Cardinality(Groups) \in Nat /\ most \in Nat
  BY GroupsFinite DEF Inv1, TypeOK
<1> QED
  BY <1>1, <1>2 DEF Inv4, Groups

LEMMA RunsOutInv4 ==
    ASSUME Inv1, Inv1', NEW r \in Requests, RunsOut(r)
    PROVE  Inv4'
<1> USE EntryAssumption
<1>1. Groups' = Making'
  BY DEF RunsOut, Starts, tables, Groups, Stored
<1>2. IsFiniteSet(Makers')
  BY FS_Subset DEF Makers
<1> DEFINE named(q) == <<q, req'[q].round>>
           name == [q \in Makers' |-> named(q)]
<1>3. name \in [Makers' -> Making'] /\ \A g \in Making' : \E q \in Makers' : name[q] = g
  BY DEF Making
<1>4. name \in Surjection(Makers', Making')
  BY <1>3 DEF Surjection
<1>5. Cardinality(Making') <= Cardinality(Makers')
  BY <1>2, <1>4, FS_Surjection
<1>6. Cardinality(Making') \in Nat /\ Cardinality(Makers') \in Nat /\ most \in Nat
  <2>1. Making' \subseteq Batches
    BY DEF Making, Makers, Batches, Inv1, LocalsOK
  <2> QED
    BY <1>2, <2>1, GroupsFinite, FS_CardinalityType DEF Inv1, TypeOK
<1>7. Cardinality(Makers') <= most'
  BY <1>6 DEF RunsOut, Starts
<1>8. most' \in Nat
  BY DEF Inv1, TypeOK
<1> QED
  BY <1>1, <1>5, <1>6, <1>7, <1>8 DEF Inv4, Groups

LEMMA StepInv4 ==
    ASSUME Inv1, Inv4, NEW r \in Requests, Step(r)
    PROVE  Inv4'
<1>1. req \in [Requests -> States] /\ LocalsOK(r)
  BY DEF Inv1, TypeOK, States
<1>2. Left(r)
  BY StepLeft
<1>3. \A q \in Requests \ {r} : req'[q] = req[q]
  BY <1>1, <1>2 DEF Left, Only
<1>4. CASE RunsOut(r)
  BY <1>4, StepInv1, RunsOutInv4
<1>5. CASE Makes(r)
  <2>1. r \in Makers /\ <<r, req[r].round>> \in Making
    BY <1>5 DEF Makes, Makers, Making
  <2>2. req'[r].round = req[r].round /\ most' = most
        /\ pool' = pool \cup {<<<<r, req[r].round>>, req[r].made + 1>>}
    BY <1>1, <1>5 DEF Makes, States, history
  <2>3. Stored' \subseteq Stored \cup Making
    BY <2>1, <2>2 DEF Stored
  <2>4. Making' \subseteq Making
    BY <1>3, <2>1, <2>2 DEF Making, Makers
  <2> QED
    BY <2>2, <2>3, <2>4, FewerGroups DEF Groups
<1>6. CASE ~RunsOut(r) /\ ~Makes(r)
  <2>1. pool' \subseteq pool /\ most' = most /\ req'[r].pc # "make"
    BY <1>1, <1>6 DEF Step, Continue, CheckPasses, CheckHolds, CheckExpired, Dropped, Passes,
         NotFound, Found, Spent, Verdict, Picks, Audited, Fails, Ends, Goes, States,
         history, tables
  <2>2. Stored' \subseteq Stored
    BY <2>1 DEF Stored
  <2>3. Making' \subseteq Making
    BY <1>3, <2>1 DEF Making, Makers
  <2> QED
    BY <2>1, <2>2, <2>3, FewerGroups DEF Groups
<1> QED
  BY <1>4, <1>5, <1>6

LEMMA NextInv4 ==
    ASSUME Inv1, Inv4, [Next]_vars
    PROVE  Inv4'
<1>1. req \in [Requests -> States]
  BY DEF Inv1, TypeOK, States
<1>2. ASSUME UNCHANGED <<pool, most>>,
             \A q \in Requests : req'[q].pc = "make" => req'[q] = req[q]
      PROVE  Inv4'
  <2>1. Stored' = Stored /\ Making' \subseteq Making
    BY <1>2 DEF Stored, Making, Makers
  <2> QED
    BY <1>2, <2>1, FewerGroups DEF Groups
<1>3. CASE Tick \/ UNCHANGED vars
  BY <1>2, <1>3 DEF Tick, vars, tables, history
<1>4. ASSUME NEW r \in Requests, NEW p, NEW k, NEW s, NEW c, NEW b, p # "make",
             req' = [req EXCEPT ![r] = At(p, k, s, c, b)], UNCHANGED <<pool, most>>
      PROVE  Inv4'
  <2>1. At(p, k, s, c, b).pc = p
    BY DEF At
  <2> QED
    BY <1>1, <1>2, <1>4, <2>1
<1>5. ASSUME NEW r \in Requests, NEW s \in Sources,
             \/ \E c \in shown, right \in BOOLEAN : Posts(r, s, c, right)
             \/ Asks(r, s) \/ Visits(r, s) \/ \E exp \in Times : Ban(r, s, exp)
      PROVE  Inv4'
  <2>1. ASSUME NEW p, NEW k, NEW c, NEW b, p # "make", Arrives(r, At(p, k, s, c, b))
        PROVE  Inv4'
    BY <1>4, <2>1 DEF Arrives, tables
  <2>2. ASSUME NEW exp \in Times, Ban(r, s, exp)
        PROVE  Inv4'
    BY <1>4, <2>2 DEF Ban
  <2> QED
    BY <1>5, <2>1, <2>2 DEF Posts, Asks, Visits
<1>6. CASE Crash
  <2>1. \A q \in Requests : req'[q].pc = "make" => req'[q] = req[q]
    BY <1>1, <1>6 DEF Crash, States, UnderWay
  <2> QED
    BY <1>2, <1>6, <2>1 DEF Crash, tables, history
<1> QED
  BY <1>3, <1>5, <1>6, StepInv4 DEF Next, Step, Rest

(* There are never more captchas than one batch for each of those who made *)
(* some at once, for any batch and any number of visitors.                 *)
THEOREM PoolBoundedHolds == Spec => []PoolBounded
<1> USE EntryAssumption
<1>1. ASSUME Inv1, Inv4
      PROVE  PoolBounded
  <2>1. pool \subseteq Stored \X (1 .. Batch)
    <3>1. SUFFICES ASSUME NEW c \in pool
                   PROVE  c \in Stored \X (1 .. Batch)
      OBVIOUS
    <3>2. PICK b \in Batches, i \in 1 .. Batch : c = <<b, i>>
      BY <1>1 DEF Inv1, TypeOK, Captchas
    <3> QED
      BY <3>1, <3>2 DEF Stored
  <2>2. IsFiniteSet(Stored) /\ IsFiniteSet(1 .. Batch) /\ Cardinality(1 .. Batch) = Batch
    <3>1. IsFiniteSet(Stored)
      BY <1>1, GroupsFinite, FS_Subset DEF Groups
    <3>2. 1 \in Int /\ Batch \in Int /\ 1 <= Batch /\ Batch - 1 + 1 = Batch
      OBVIOUS
    <3>3. IsFiniteSet(1 .. Batch)
      BY <3>2, FS_Interval
    <3>4. Cardinality(1 .. Batch) = Batch
      BY <3>2, FS_Interval
    <3> QED
      BY <3>1, <3>3, <3>4
  <2>3. /\ IsFiniteSet(Stored \X (1 .. Batch))
        /\ Cardinality(Stored \X (1 .. Batch)) = Cardinality(Stored) * Batch
    BY <2>2, FS_Product
  <2>4. IsFiniteSet(pool) /\ Cardinality(pool) <= Cardinality(Stored) * Batch
    BY <2>1, <2>3, FS_Subset
  <2>5. Cardinality(Stored) <= most
    <3>1. Stored \in SUBSET Groups
      BY DEF Groups
    <3>2. Cardinality(Stored) <= Cardinality(Groups) /\ Cardinality(Groups) <= most
      BY <1>1, <3>1, GroupsFinite DEF Inv4, Groups
    <3>3. Cardinality(Stored) \in Nat /\ Cardinality(Groups) \in Nat /\ most \in Nat
      BY <1>1, <3>1, GroupsFinite DEF Inv1, TypeOK
    <3> QED
      BY <3>2, <3>3
  <2>6. Cardinality(Stored) \in Nat /\ Cardinality(pool) \in Nat /\ most \in Nat
    BY <1>1, <2>2, <2>4, FS_CardinalityType DEF Inv1, TypeOK
  <2>7. \A n, k, b \in Nat : n <= k => n * b <= b * k
    OBVIOUS
  <2>8. Cardinality(Stored) * Batch <= Batch * most
    BY <2>5, <2>6, <2>7
  <2>9. Cardinality(Stored) * Batch \in Nat /\ Batch * most \in Nat
    BY <2>6
  <2> QED
    BY <2>4, <2>6, <2>8, <2>9 DEF PoolBounded
<1> QED
  BY InitInv1, NextInv1, InitInv34, NextInv4, <1>1, PTL DEF Spec

(* An answer to a captcha counts once (checkCaptcha, Solve).               *)
THEOREM CountsOnceHolds == Spec => []CountsOnce
BY OneGuessHolds, FirstAnswerCountsHolds, PTL DEF CountsOnce
=============================================================================
