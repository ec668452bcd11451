--------------------------- MODULE SessionsProofs ---------------------------
(***************************************************************************)
(* What Sessions promises, for any requests, names, levels and times.      *)
(***************************************************************************)
EXTENDS Sessions, TLAPS

TokenType == [user : Users, level : Levels, exp : 0 .. MaxTime + Life]
ReqType == [pc : {"new", "password", "privilege", "in", "work", "save", "delete", "done"},
            user : Users \cup {None}, row : Rows \cup {None},
            password : Passwords \cup {None}, level : Levels \cup {None}, age : 0 .. MaxTime]

(* What a request holds in each of its steps. *)
LocalsOK(q) ==
    /\ q.pc \in {"password", "privilege"} => q.user \in Users /\ q.password \in Passwords
    /\ q.pc \in {"save", "delete"} => q.user \in Users /\ q.level \in Levels /\ q.level >= Admin
    /\ q.level # None => q.age < Life

(* A token ends less than a life after its level was had last. *)
TokenOK(tk) ==
    /\ tk.exp <= now + Life
    /\ \/ Has(tk.user, tk.level)
       \/ last[<<tk.user, tk.level>>] # None /\ tk.exp <= last[<<tk.user, tk.level>>] + Life

PastOK == \A x \in Users \X Levels : last[x] # None => last[x] <= now

(* Who has the right password at this moment is known to have known it. *)
KnewOK(r) ==
    /\ req[r].pc \in {"password", "privilege"} /\ Right(req[r].user, req[r].password, mods) => r \in knew
    /\ req[r].pc \in {"privilege", "in"} => r \in knew

Inv ==
    /\ TypeOK /\ PastOK
    /\ \A r \in Requests : LocalsOK(req[r]) /\ KnewOK(r)
    /\ \A tk \in tokens : TokenOK(tk)

LEMMA Consts ==
    /\ Life \in Nat /\ Life > 0 /\ MaxTime \in Nat /\ Admin \in Levels /\ Admin \in Int
    /\ \A l \in Levels : l \in Int /\ l # None
    /\ \A n \in Int : n # None
    /\ \A u \in Users : u # None
    /\ \A w \in Rows : w # None
BY SessionsAssumption DEF Admin, Rows

LEMMA DoneType == Done \in ReqType /\ Done.pc = "done" /\ Done.level = None
                  /\ New \in ReqType /\ New.pc = "new" /\ New.level = None
BY Consts DEF Done, New, At, ReqType

-----------------------------------------------------------------------------
LEMMA InitInv == Init => Inv
<1> SUFFICES ASSUME Init PROVE Inv
  OBVIOUS
<1>1. TypeOK
  BY Consts, DoneType DEF Init, TypeOK, ReqType, Times
<1>2. PastOK /\ \A tk \in tokens : TokenOK(tk)
  BY DEF Init, PastOK
<1>3. \A r \in Requests : LocalsOK(req[r]) /\ KnewOK(r)
  BY DoneType DEF Init, LocalsOK, KnewOK
<1> QED
  BY <1>1, <1>2, <1>3 DEF Inv

(* One request goes on, and nothing else changes. *)
LEMMA GoesInv ==
    ASSUME Inv, NEW r \in Requests, NEW to \in ReqType, Goes(r, to), LocalsOK(to),
           to.pc \in {"password", "privilege"} /\ Right(to.user, to.password, mods) => r \in knew,
           to.pc \in {"privilege", "in"} => r \in knew
    PROVE  Inv'
<1>1. /\ req' = [req EXCEPT ![r] = to]
      /\ now' = now /\ mods' = mods /\ tokens' = tokens /\ last' = last /\ knew' = knew
  BY DEF Goes
<1>2. req \in [Requests -> ReqType]
  BY DEF Inv, TypeOK, ReqType
<1>3. req' \in [Requests -> ReqType] /\ req'[r] = to /\ \A q \in Requests \ {r} : req'[q] = req[q]
  BY <1>1, <1>2
<1>4. TypeOK'
  BY <1>1, <1>3 DEF Inv, TypeOK, ReqType
<1>5. PastOK' /\ \A tk \in tokens' : TokenOK(tk)'
  BY <1>1 DEF Inv, PastOK, TokenOK, Has
<1>6. ASSUME NEW q \in Requests PROVE LocalsOK(req[q])' /\ KnewOK(q)'
  <2>1. CASE q = r
    BY <1>1, <1>3, <2>1 DEF KnewOK, LocalsOK, Right
  <2>2. CASE q # r
    BY <1>1, <1>3, <2>2 DEF Inv, KnewOK, LocalsOK, Right
  <2> QED
    BY <2>1, <2>2
<1> QED
  BY <1>4, <1>5, <1>6 DEF Inv

(* A row changes, and its request is done. *)
LEMMA ChangesInv ==
    ASSUME Inv, NEW r \in Requests, NEW u \in Users, NEW row \in Rows \cup {None},
           Changes(u, row), req' = [req EXCEPT ![r] = Done], now' = now, tokens' = tokens
    PROVE  Inv'
<1>1. /\ req \in [Requests -> ReqType] /\ mods \in [Users -> Rows \cup {None}]
      /\ last \in [Users \X Levels -> Times \cup {None}] /\ now \in Times
      /\ tokens \subseteq TokenType /\ knew \subseteq Requests
  BY DEF Inv, TypeOK, ReqType, TokenType
<1>2. req' \in [Requests -> ReqType] /\ req'[r] = Done /\ \A q \in Requests \ {r} : req'[q] = req[q]
  BY <1>1, DoneType
<1>3. /\ mods' = [mods EXCEPT ![u] = row]
      /\ last' = [x \in Users \X Levels |->
                    IF x[1] = u /\ Has(u, x[2]) THEN now ELSE last[x]]
      /\ knew' = knew \cup {q \in Requests : /\ req[q].pc \in {"password", "privilege"}
                                             /\ req[q].user = u
                                             /\ Right(u, req[q].password, mods')}
  BY DEF Changes
<1>4. TypeOK'
  <2>1. mods' \in [Users -> Rows \cup {None}] /\ knew' \subseteq Requests
    BY <1>1, <1>3
  <2>2. last' \in [Users \X Levels -> Times \cup {None}]
    BY <1>1, <1>3
  <2> QED
    BY <1>1, <1>2, <2>1, <2>2 DEF TypeOK, ReqType, TokenType
<1>5. PastOK'
  BY <1>1, <1>3 DEF Inv, PastOK, Times
<1>6. ASSUME NEW tk \in tokens PROVE TokenOK(tk)'
  <2>1. tk.user \in Users /\ tk.level \in Levels /\ tk.exp \in Int /\ TokenOK(tk)
        /\ <<tk.user, tk.level>> \in Users \X Levels
    BY <1>1 DEF Inv, TokenType
  <2>2. CASE tk.user = u /\ Has(u, tk.level)
    <3>1. last'[<<tk.user, tk.level>>] = now
      BY <1>3, <2>1, <2>2
    <3>2. now # None /\ tk.exp <= now + Life
      BY <1>1, <2>1, Consts DEF TokenOK, Times
    <3> QED
      BY <3>1, <3>2 DEF TokenOK
  <2>3. CASE ~(tk.user = u /\ Has(u, tk.level))
    <3>1. last'[<<tk.user, tk.level>>] = last[<<tk.user, tk.level>>]
      BY <1>3, <2>1, <2>3
    <3>2. tk.user # u => mods'[tk.user] = mods[tk.user]
      BY <1>1, <1>3, <2>1
    <3> QED
      BY <2>1, <2>3, <3>1, <3>2 DEF TokenOK, Has
  <2> QED
    BY <2>2, <2>3
<1>7. ASSUME NEW q \in Requests PROVE LocalsOK(req[q])' /\ KnewOK(q)'
  <2>1. CASE q = r
    BY <1>2, <2>1, DoneType DEF LocalsOK, KnewOK
  <2>2. CASE q # r
    <3>1. req'[q] = req[q] /\ LocalsOK(req[q]) /\ KnewOK(q)
      BY <1>2, <2>2 DEF Inv
    <3>2. LocalsOK(req[q])'
      BY <3>1 DEF LocalsOK
    <3>3. ASSUME req[q].pc \in {"password", "privilege"}, Right(req[q].user, req[q].password, mods')
          PROVE  q \in knew'
      <4>1. CASE req[q].user = u
        BY <1>3, <3>3, <4>1
      <4>2. CASE req[q].user # u
        <5>1. req[q].user \in Users
          BY <3>1, <3>3 DEF LocalsOK
        <5>2. mods'[req[q].user] = mods[req[q].user]
          BY <1>1, <1>3, <4>2, <5>1
        <5> QED
          BY <1>3, <3>1, <3>3, <5>2 DEF KnewOK, Right
      <4> QED
        BY <4>1, <4>2
    <3>4. knew \subseteq knew'
      BY <1>3
    <3> QED
      BY <3>1, <3>2, <3>3, <3>4 DEF KnewOK, Right
  <2> QED
    BY <2>1, <2>2
<1> QED
  BY <1>4, <1>5, <1>6, <1>7 DEF Inv

(* What a token is good for, and for how long. *)
LEMMA ValidRecent ==
    ASSUME Inv, NEW tk \in tokens, NEW l \in Levels, hasPriv(tk, l)
    PROVE  /\ Lapse(tk.user, tk.level) \in 0 .. MaxTime
           /\ Lapse(tk.user, tk.level) < Life
           /\ tk.user \in Users /\ tk.level \in Levels /\ tk.level >= l
<1>1. /\ tk.user \in Users /\ tk.level \in Levels /\ tk.exp \in Int
      /\ TokenOK(tk) /\ now \in Times /\ PastOK
      /\ last \in [Users \X Levels -> Times \cup {None}]
      /\ <<tk.user, tk.level>> \in Users \X Levels
  BY DEF Inv, TypeOK
<1>2. now < tk.exp /\ tk.level >= l
  BY DEF hasPriv, Valid
<1>3. CASE Has(tk.user, tk.level)
  BY <1>1, <1>2, <1>3, Consts DEF Lapse
<1>4. CASE ~Has(tk.user, tk.level)
  <2> DEFINE t == last[<<tk.user, tk.level>>]
  <2>1. t \in Times /\ tk.exp <= t + Life /\ t <= now
    BY <1>1, <1>4 DEF TokenOK, PastOK
  <2> QED
    BY <1>1, <1>2, <1>4, <2>1, Consts DEF Lapse, Times
<1> QED
  BY <1>3, <1>4

LEMMA NextInv == Inv /\ [Next]_vars => Inv'
<1> SUFFICES ASSUME Inv, [Next]_vars PROVE Inv'
  OBVIOUS
<1>t. /\ req \in [Requests -> ReqType] /\ mods \in [Users -> Rows \cup {None}]
      /\ last \in [Users \X Levels -> Times \cup {None}] /\ now \in Times
      /\ tokens \subseteq TokenType /\ knew \subseteq Requests
  BY DEF Inv, TypeOK, ReqType, TokenType
<1>k. \A r \in Requests : LocalsOK(req[r]) /\ KnewOK(r) /\ req[r] \in ReqType
  BY <1>t DEF Inv
<1>d. ASSUME NEW r \in Requests, Goes(r, Done) PROVE Inv'
  BY <1>d, GoesInv, DoneType DEF LocalsOK
<1>1. CASE Tick
  <2>1. /\ now' = now + 1 /\ now < MaxTime
        /\ mods' = mods /\ tokens' = tokens /\ req' = req /\ last' = last /\ knew' = knew
    BY <1>1 DEF Tick
  <2>2. TypeOK'
    BY <2>1, <1>t, Consts DEF TypeOK, Times, ReqType, TokenType
  <2>3. PastOK'
    BY <2>1, <1>t DEF Inv, PastOK, Times
  <2>4. ASSUME NEW tk \in tokens PROVE TokenOK(tk)'
    <3>1. tk.exp \in Int /\ TokenOK(tk)
      BY <1>t DEF TokenType, Inv
    <3>2. tk.exp <= now' + Life
      BY <2>1, <3>1, <1>t, Consts DEF TokenOK, Times
    <3> QED
      BY <2>1, <3>1, <3>2 DEF TokenOK, Has
  <2>5. \A r \in Requests : LocalsOK(req[r])' /\ KnewOK(r)'
    BY <2>1, <1>k DEF LocalsOK, KnewOK, Right
  <2> QED
    BY <2>1, <2>2, <2>3, <2>4, <2>5 DEF Inv
<1>2. ASSUME NEW r \in Requests, NEW u \in Users, NEW p \in Passwords, PostAdminLogin(r, u, p)
      PROVE  Inv'
  <2> DEFINE to == At("password", u, None, p, None, 0)
  <2>1. to \in ReqType /\ to.pc = "password" /\ to.user = u /\ to.password = p /\ to.level = None
    BY Consts DEF At, ReqType
  <2> HIDE DEF to
  <2>2. /\ req' = [req EXCEPT ![r] = to]
        /\ now' = now /\ mods' = mods /\ tokens' = tokens /\ last' = last
        /\ knew' = IF Right(u, p, mods) THEN knew \cup {r} ELSE knew
    BY <1>2 DEF PostAdminLogin, to
  <2>3. req' \in [Requests -> ReqType] /\ req'[r] = to /\ \A q \in Requests \ {r} : req'[q] = req[q]
    BY <2>1, <2>2, <1>t
  <2>4. TypeOK'
    BY <2>2, <2>3, <1>t DEF TypeOK, ReqType, TokenType
  <2>5. PastOK' /\ \A tk \in tokens' : TokenOK(tk)'
    BY <2>2 DEF Inv, PastOK, TokenOK, Has
  <2>6. ASSUME NEW q \in Requests PROVE LocalsOK(req[q])' /\ KnewOK(q)'
    <3>1. CASE q = r
      BY <2>1, <2>2, <2>3, <3>1 DEF LocalsOK, KnewOK, Right
    <3>2. CASE q # r
      BY <2>2, <2>3, <3>2, <1>k DEF LocalsOK, KnewOK, Right
    <3> QED
      BY <3>1, <3>2
  <2> QED
    BY <2>4, <2>5, <2>6 DEF Inv
<1>3. ASSUME NEW r \in Requests, PasswordWrong(r) \/ PrivilegeGone(r) \/ Worked(r) \/ Fails(r)
      PROVE  Inv'
  BY <1>3, <1>d DEF PasswordWrong, PrivilegeGone, Worked, Fails
<1>4. ASSUME NEW r \in Requests, PasswordRight(r)
      PROVE  Inv'
  <2> DEFINE to == At("privilege", req[r].user, None, req[r].password, None, 0)
  <2>1. /\ req[r].pc = "password" /\ Right(req[r].user, req[r].password, mods) /\ Goes(r, to)
    BY <1>4 DEF PasswordRight
  <2>2. req[r].user \in Users /\ req[r].password \in Passwords /\ r \in knew
    BY <2>1, <1>k DEF LocalsOK, KnewOK
  <2>3. /\ to \in ReqType /\ to.pc = "privilege" /\ to.user \in Users
        /\ to.password \in Passwords /\ to.level = None
    BY <2>2, Consts DEF At, ReqType
  <2> HIDE DEF to
  <2> QED
    BY <2>1, <2>2, <2>3, GoesInv DEF LocalsOK
<1>5. ASSUME NEW r \in Requests, Privilege(r)
      PROVE  Inv'
  <2> DEFINE to == At("in", req[r].user, None, None, None, 0)
             tk0 == Token(req[r].user, mods[req[r].user].level, now + Life)
  <2>1. /\ req[r].pc = "privilege" /\ mods[req[r].user] # None
        /\ tokens' = tokens \cup {tk0} /\ req' = [req EXCEPT ![r] = to]
        /\ now' = now /\ mods' = mods /\ last' = last /\ knew' = knew
    BY <1>5 DEF Privilege
  <2>2. req[r].user \in Users /\ r \in knew
    BY <2>1, <1>k DEF LocalsOK, KnewOK
  <2>3. to \in ReqType /\ to.pc = "in" /\ to.level = None
    BY <2>2, Consts DEF At, ReqType
  <2>4. mods[req[r].user].level \in Levels
    BY <2>1, <2>2, <1>t DEF Rows
  <2>5. /\ tk0 \in TokenType /\ tk0.user = req[r].user
        /\ tk0.level = mods[req[r].user].level /\ tk0.exp = now + Life
    BY <2>2, <2>4, <1>t, Consts DEF Token, TokenType, Times
  <2> HIDE DEF to, tk0
  <2>6. req' \in [Requests -> ReqType] /\ req'[r] = to /\ \A q \in Requests \ {r} : req'[q] = req[q]
    BY <2>1, <2>3, <1>t
  <2>7. TypeOK'
    BY <2>1, <2>5, <2>6, <1>t DEF TypeOK, ReqType, TokenType
  <2>8. PastOK'
    BY <2>1 DEF Inv, PastOK
  <2>9. ASSUME NEW tk \in tokens' PROVE TokenOK(tk)'
    <3>1. CASE tk = tk0
      <4>1. tk.exp <= now + Life /\ Has(tk.user, tk.level)
        BY <2>1, <2>5, <3>1, <1>t, Consts DEF Has, Times
      <4> QED
        BY <2>1, <4>1 DEF TokenOK, Has
    <3>2. CASE tk \in tokens
      BY <2>1, <3>2 DEF Inv, TokenOK, Has
    <3> QED
      BY <2>1, <3>1, <3>2
  <2>10. ASSUME NEW q \in Requests PROVE LocalsOK(req[q])' /\ KnewOK(q)'
    <3>1. CASE q = r
      BY <2>1, <2>2, <2>3, <2>6, <3>1 DEF LocalsOK, KnewOK
    <3>2. CASE q # r
      BY <2>1, <2>6, <3>2, <1>k DEF LocalsOK, KnewOK, Right
    <3> QED
      BY <3>1, <3>2
  <2> QED
    BY <2>7, <2>8, <2>9, <2>10 DEF Inv
<1>6. ASSUME NEW r \in Requests, NEW tk \in tokens, NEW l \in Levels,
             NEW pc \in {"work", "save", "delete"}, NEW u \in Users \cup {None},
             NEW row \in Rows \cup {None}, Arrives(r, tk, l, pc, u, row),
             pc \in {"save", "delete"} => u \in Users /\ l = Admin
      PROVE  Inv'
  <2> DEFINE age == Lapse(tk.user, tk.level)
             to == At(pc, u, row, None, tk.level, age)
  <2>1. hasPriv(tk, l) /\ Goes(r, to)
    BY <1>6 DEF Arrives
  <2>2. age \in 0 .. MaxTime /\ age < Life /\ tk.level \in Levels /\ tk.level >= l
    BY <2>1, ValidRecent
  <2> HIDE DEF age
  <2>3. /\ to \in ReqType /\ to.pc = pc /\ to.user = u /\ to.level = tk.level /\ to.age = age
    BY <1>6, <2>2, Consts DEF At, ReqType
  <2> HIDE DEF to
  <2>4. LocalsOK(to)
    BY <1>6, <2>2, <2>3 DEF LocalsOK
  <2> QED
    BY <2>1, <2>3, <2>4, GoesInv
<1>7. ASSUME NEW r \in Requests, NEW tk \in tokens, NEW u \in Users
      PROVE  /\ GetModeratorDel(r, tk, u) => Inv'
             /\ \A i \in Inputs, p \in Passwords : PostModerator(r, tk, u, i, p) => Inv'
  <2>2. GetModeratorDel(r, tk, u) => Inv'
    BY <1>6, Consts DEF GetModeratorDel
  <2>3. ASSUME NEW i \in Inputs, NEW p \in Passwords, PostModerator(r, tk, u, i, p) PROVE Inv'
    <3>1. Row(ModType(i), p) \in Rows
      BY SessionsAssumption DEF Row, Rows
    <3> QED
      BY <1>6, <2>3, <3>1, Consts DEF PostModerator
  <2> QED
    BY <2>2, <2>3
<1>w. ASSUME NEW r \in Requests, NEW tk \in tokens, NEW l \in Levels, Works(r, tk, l)
      PROVE  Inv'
  BY <1>6, <1>w DEF Works
<1>8. ASSUME NEW r \in Requests, Stored(r)
      PROVE  Inv'
  <2>1. /\ req[r].pc \in {"save", "delete"} /\ Changes(req[r].user, req[r].row)
        /\ req' = [req EXCEPT ![r] = Done] /\ now' = now /\ tokens' = tokens
    BY <1>8 DEF Stored
  <2>2. req[r].user \in Users /\ req[r].row \in Rows \cup {None}
    BY <2>1, <1>k DEF LocalsOK, ReqType
  <2> QED
    BY <2>1, <2>2, ChangesInv
<1>9. ASSUME NEW r \in Requests, NEW u \in Users, NEW i \in Inputs, NEW p \in Passwords,
             Console(r, u, i, p)
      PROVE  Inv'
  <2>1. Row(Limit(i), p) \in Rows
    BY SessionsAssumption DEF Row, Rows, Limit, Admin
  <2>2. /\ Changes(u, Row(Limit(i), p))
        /\ req' = [req EXCEPT ![r] = Done] /\ now' = now /\ tokens' = tokens
    BY <1>9 DEF Console
  <2> QED
    BY <2>1, <2>2, ChangesInv
<1>10. CASE Crash
  <2>1. /\ req' = [r \in Requests |-> IF UnderWay(r) THEN Done ELSE req[r]]
        /\ now' = now /\ mods' = mods /\ tokens' = tokens /\ last' = last /\ knew' = knew
    BY <1>10 DEF Crash
  <2>2. req' \in [Requests -> ReqType]
        /\ \A q \in Requests : req'[q] \in {Done, req[q]}
    BY <2>1, <1>t, DoneType
  <2>3. TypeOK'
    BY <2>1, <2>2, <1>t DEF TypeOK, ReqType, TokenType
  <2>4. PastOK' /\ \A tk \in tokens' : TokenOK(tk)'
    BY <2>1 DEF Inv, PastOK, TokenOK, Has
  <2>5. ASSUME NEW q \in Requests PROVE LocalsOK(req[q])' /\ KnewOK(q)'
    <3>1. CASE req'[q] = Done
      BY <3>1, DoneType DEF LocalsOK, KnewOK
    <3>2. CASE req'[q] = req[q]
      BY <2>1, <3>2, <1>k DEF LocalsOK, KnewOK, Right
    <3> QED
      BY <2>2, <3>1, <3>2
  <2> QED
    BY <2>3, <2>4, <2>5 DEF Inv
<1>11. CASE UNCHANGED vars
  <2>1. /\ req' = req /\ now' = now /\ mods' = mods /\ tokens' = tokens
        /\ last' = last /\ knew' = knew
    BY <1>11 DEF vars
  <2>2. TypeOK' /\ PastOK' /\ \A tk \in tokens' : TokenOK(tk)'
    BY <2>1 DEF Inv, TypeOK, PastOK, TokenOK, Has
  <2>3. \A q \in Requests : LocalsOK(req[q])' /\ KnewOK(q)'
    BY <2>1, <1>k DEF LocalsOK, KnewOK, Right
  <2> QED
    BY <2>2, <2>3 DEF Inv
<1> QED
  BY <1>1, <1>2, <1>3, <1>4, <1>5, <1>w, <1>7, <1>8, <1>9, <1>10, <1>11 DEF Next, Continue, Rest

-----------------------------------------------------------------------------
(* Every row, token and request keeps its type. *)
THEOREM TypeCorrect == Spec => []TypeOK
BY InitInv, NextInv, PTL DEF Spec, Inv

(* What is done with a session is done by somebody who had its level less  *)
(* than the life of a token ago.                                           *)
THEOREM RightsEndHolds == Spec => []RightsEnd
<1>1. Inv => RightsEnd
  BY DEF Inv, LocalsOK, RightsEnd
<1> QED
  BY <1>1, InitInv, NextInv, PTL DEF Spec

(* A session is given to those only who knew the password. *)
THEOREM LoginHonestHolds == Spec => []LoginHonest
<1>1. Inv => LoginHonest
  BY DEF Inv, KnewOK, LoginHonest
<1> QED
  BY <1>1, InitInv, NextInv, PTL DEF Spec

(* The rows of moderators change by administrators and the console only.   *)
THEOREM OnlyAdminsHolds == Spec => OnlyAdmins
<1> DEFINE A == \A u \in Users : mods'[u] # mods[u] =>
          \E r \in Requests :
              \/ req[r] = New /\ req'[r] = Done /\ mods'[u] # None
              \/ req[r].user = u /\ req[r].level # None /\ req[r].level >= Admin
                                 /\ req[r].row = mods'[u]
<1>1. ASSUME Inv, [Next]_vars
      PROVE  A
  <2> SUFFICES ASSUME NEW u \in Users, mods'[u] # mods[u]
               PROVE  \E r \in Requests :
                         \/ req[r] = New /\ req'[r] = Done /\ mods'[u] # None
                         \/ req[r].user = u /\ req[r].level # None /\ req[r].level >= Admin
                                            /\ req[r].row = mods'[u]
    OBVIOUS
  <2>t. mods \in [Users -> Rows \cup {None}] /\ DOMAIN req = Requests
        /\ \A r \in Requests : LocalsOK(req[r])
    BY <1>1 DEF Inv, TypeOK
  <2>1. ASSUME NEW r \in Requests, Stored(r)
        PROVE  req[r].user = u /\ req[r].level # None /\ req[r].level >= Admin /\ req[r].row = mods'[u]
    <3>1. /\ req[r].pc \in {"save", "delete"}
          /\ mods' = [mods EXCEPT ![req[r].user] = req[r].row]
      BY <2>1 DEF Stored, Changes
    <3>2. req[r].user = u /\ mods'[u] = req[r].row
      BY <2>t, <3>1
    <3>3. req[r].level \in Levels /\ req[r].level >= Admin
      BY <2>t, <3>1 DEF LocalsOK
    <3> QED
      BY <3>2, <3>3, Consts
  <2>2. ASSUME NEW r \in Requests, NEW v \in Users, NEW i \in Inputs, NEW p \in Passwords,
               Console(r, v, i, p)
        PROVE  req[r] = New /\ req'[r] = Done /\ mods'[u] # None
    <3>1. /\ req[r] = New /\ req' = [req EXCEPT ![r] = Done]
          /\ mods' = [mods EXCEPT ![v] = Row(Limit(i), p)]
      BY <2>2 DEF Console, Changes
    <3>2. Row(Limit(i), p) \in Rows
      BY SessionsAssumption DEF Row, Rows, Limit, Admin
    <3>3. mods'[u] = Row(Limit(i), p)
      BY <2>t, <3>1
    <3> QED
      BY <2>t, <3>1, <3>2, <3>3, Consts
  <2>3. CASE mods' = mods
    BY <2>3
  <2> QED
    BY <1>1, <2>1, <2>2, <2>3
       DEF Next, Continue, Tick, PostAdminLogin, Works, Arrives, GetModeratorDel, PostModerator,
           PasswordWrong, PasswordRight, PrivilegeGone, Privilege, Worked, Goes, Fails, Crash, Rest, vars
<1> QED
  BY <1>1, InitInv, NextInv, PTL DEF Spec, OnlyAdmins
=============================================================================
