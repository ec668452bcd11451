------------------------------ MODULE Sessions ------------------------------
(***************************************************************************)
(* Moderators, their logins and what they may do (routes/admin.go, the     *)
(* middleware in server.go, the table moderators in database/sqlite3.go).  *)
(* A login gives out a signed token with the rights of that moment, which  *)
(* is never compared with the table again.                                 *)
(***************************************************************************)
EXTENDS Integers

CONSTANTS
    Requests,   \* requests, each made once
    Users,      \* names of moderators
    Passwords,
    Inputs,     \* numbers an administrator enters for a level
    Levels,     \* the levels that come of them; 0 is a janitor, 2 an admin
    Life,       \* how long a token lasts, seven days
    MaxTime,    \* how long the clock is watched
    None,       \* no row, no name, no password
    MayFail     \* may statements fail, and the process die?

Admin == 2

(* ModType is one byte wide; the tool that makes moderators has a limit.   *)
ModType(i) == i % 256

Limit(i) == IF i > Admin THEN Admin ELSE i

ASSUME SessionsAssumption ==
    /\ Inputs \subseteq Nat /\ Levels \subseteq 0 .. 255
    /\ Admin \in Levels
    /\ \A i \in Inputs : ModType(i) \in Levels /\ (i <= Admin => i \in Levels)
    /\ Life \in Nat \ {0} /\ MaxTime \in Nat
    /\ MayFail \in BOOLEAN
    /\ None \notin Users /\ None \notin Passwords /\ None \notin Int
    /\ None \notin [level : Levels, password : Passwords]

VARIABLES
    now,        \* the clock
    mods,       \* the table moderators
    tokens,     \* tokens that were given out
    req,        \* each request: its next step and what it holds
    last,       \* history: when a name had a level last, before the row changed
    knew        \* history: logins during which the password was the right one

vars == <<now, mods, tokens, req, last, knew>>

-----------------------------------------------------------------------------
Rows == [level : Levels, password : Passwords]
Row(l, p) == [level |-> l, password |-> p]
Times == 0 .. MaxTime

Token(u, l, exp) == [user |-> u, level |-> l, exp |-> exp]

(* A request: its step, the name and the row or the password it is about,  *)
(* the level of its token, and for how long the name in the token had not  *)
(* had that level any more (history).                                      *)
At(pc, u, row, p, level, age) ==
    [pc |-> pc, user |-> u, row |-> row, password |-> p, level |-> level, age |-> age]
New == At("new", None, None, None, None, 0)
Done == At("done", None, None, None, None, 0)

UnderWay(r) == req[r].pc \notin {"new", "done", "in"}

Has(u, l) == mods[u] # None /\ mods[u].level = l
Lapse(u, l) == IF Has(u, l) THEN 0 ELSE now - last[<<u, l>>]
Right(u, p, table) == table[u] # None /\ table[u].password = p

(* Slip: tokens that do not end. *)
SlipValid(tk) == TRUE

(* What jwt.Parse makes of a token. *)
Valid(tk) == now < tk.exp

(* Slip: any moderator may. *)
SlipHasPriv(tk, l) == tk \in tokens /\ Valid(tk)

hasPriv(tk, l) == tk \in tokens /\ Valid(tk) /\ tk.level >= l

(* The row of u changes, or goes. *)
Changes(u, row) ==
    /\ mods' = [mods EXCEPT ![u] = row]
    /\ last' = [x \in Users \X Levels |->
                    IF x[1] = u /\ Has(u, x[2]) THEN now ELSE last[x]]
    /\ knew' = knew \cup {r \in Requests : /\ req[r].pc \in {"password", "privilege"}
                                           /\ req[r].user = u
                                           /\ Right(u, req[r].password, mods')}

-----------------------------------------------------------------------------
Init ==
    /\ now = 0
    /\ mods \in [Users -> Rows \cup {None}]
    /\ tokens = {}
    /\ req = [r \in Requests |-> New]
    /\ last = [x \in Users \X Levels |-> None]
    /\ knew = {}

Tick ==
    /\ now < MaxTime
    /\ now' = now + 1
    /\ UNCHANGED <<mods, tokens, req, last, knew>>

(* Who has a token of a moderator is not let in again while it lasts.      *)
PostAdminLogin(r, u, p) ==
    /\ req[r] = New
    /\ req' = [req EXCEPT ![r] = At("password", u, None, p, None, 0)]
    /\ knew' = IF Right(u, p, mods) THEN knew \cup {r} ELSE knew
    /\ UNCHANGED <<now, mods, tokens, last>>

Goes(r, to) ==
    /\ req' = [req EXCEPT ![r] = to]
    /\ UNCHANGED <<now, mods, tokens, last, knew>>

PasswordWrong(r) ==
    /\ req[r].pc = "password"
    /\ ~Right(req[r].user, req[r].password, mods)
    /\ Goes(r, Done)

(* Slip: a name without a row has no password to be wrong. *)
SlipPasswordRight(r) ==
    /\ req[r].pc = "password"
    /\ mods[req[r].user] = None \/ Right(req[r].user, req[r].password, mods)
    /\ Goes(r, At("privilege", req[r].user, None, req[r].password, None, 0))

PasswordRight(r) ==
    /\ req[r].pc = "password"
    /\ Right(req[r].user, req[r].password, mods)
    /\ Goes(r, At("privilege", req[r].user, None, req[r].password, None, 0))

(* The row is gone since the password was read. *)
PrivilegeGone(r) ==
    /\ req[r].pc = "privilege"
    /\ mods[req[r].user] = None
    /\ Goes(r, Done)

(* The rights are those of the row as it is now, which may be another than *)
(* the one the password was compared with.                                 *)
Privilege(r) ==
    /\ req[r].pc = "privilege"
    /\ mods[req[r].user] # None
    /\ tokens' = tokens \cup {Token(req[r].user, mods[req[r].user].level, now + Life)}
    /\ req' = [req EXCEPT ![r] = At("in", req[r].user, None, None, None, 0)]
    /\ UNCHANGED <<now, mods, last, knew>>

-----------------------------------------------------------------------------
(* A request with a token that is good for the level l.                    *)
Arrives(r, tk, l, pc, u, row) ==
    /\ req[r] = New
    /\ hasPriv(tk, l)
    /\ Goes(r, At(pc, u, row, None, tk.level, Lapse(tk.user, tk.level)))

(* Handlers that other modules are about. *)
Works(r, tk, l) == Arrives(r, tk, l, "work", None, None)
Worked(r) == req[r].pc = "work" /\ Goes(r, Done)

PostModerator(r, tk, u, i, p) == Arrives(r, tk, Admin, "save", u, Row(ModType(i), p))
GetModeratorDel(r, tk, u) == Arrives(r, tk, Admin, "delete", u, None)

(* SaveModerator, which makes the row or replaces it, and DeleteModerator, *)
(* after which GetModeratorDel panics and the answer is an error.          *)
Stored(r) ==
    /\ req[r].pc \in {"save", "delete"}
    /\ Changes(req[r].user, req[r].row)
    /\ req' = [req EXCEPT ![r] = Done]
    /\ UNCHANGED <<now, tokens>>

(* The tool that makes moderators, and the start with a random password.   *)
Console(r, u, i, p) ==
    /\ req[r] = New
    /\ Changes(u, Row(Limit(i), p))
    /\ req' = [req EXCEPT ![r] = Done]
    /\ UNCHANGED <<now, tokens>>

(* A statement fails, and the request with it. *)
Fails(r) == MayFail /\ UnderWay(r) /\ Goes(r, Done)

(* The process dies; the key tokens are signed with is in a file.          *)
Crash ==
    /\ MayFail
    /\ req' = [r \in Requests |-> IF UnderWay(r) THEN Done ELSE req[r]]
    /\ UNCHANGED <<now, mods, tokens, last, knew>>

(* Everything asked for is done, and the clock is no longer watched.       *)
Rest ==
    /\ \A r \in Requests : req[r].pc \in {"done", "in"}
    /\ now = MaxTime
    /\ UNCHANGED vars

Continue(r) ==
    \/ PasswordWrong(r) \/ PasswordRight(r) \/ PrivilegeGone(r) \/ Privilege(r)
    \/ Worked(r) \/ Stored(r)

Next ==
    \/ Tick
    \/ \E r \in Requests :
        \/ \E u \in Users, p \in Passwords :
            \/ PostAdminLogin(r, u, p)
            \/ \E i \in Inputs : Console(r, u, i, p)
        \/ \E tk \in tokens :
            \/ \E l \in Levels : Works(r, tk, l)
            \/ \E u \in Users :
                \/ GetModeratorDel(r, tk, u)
                \/ \E i \in Inputs, p \in Passwords : PostModerator(r, tk, u, i, p)
        \/ Continue(r) \/ Fails(r)
    \/ Crash
    \/ Rest

Spec == Init /\ [][Next]_vars

-----------------------------------------------------------------------------
TypeOK ==
    /\ now \in Times
    /\ mods \in [Users -> Rows \cup {None}]
    /\ tokens \subseteq [user : Users, level : Levels, exp : 0 .. MaxTime + Life]
    /\ req \in [Requests ->
            [pc : {"new", "password", "privilege", "in", "work", "save", "delete", "done"},
             user : Users \cup {None}, row : Rows \cup {None},
             password : Passwords \cup {None}, level : Levels \cup {None}, age : 0 .. MaxTime]]
    /\ last \in [Users \X Levels -> Times \cup {None}]
    /\ knew \subseteq Requests

(* Rights end: whatever is done with a session, the moderator had its level *)
(* less than the life of a token ago, be the row changed, removed or made   *)
(* again meanwhile.                                                         *)
RightsEnd == \A r \in Requests : req[r].level # None => req[r].age < Life

(* Nobody gets a session who did not know the password at some moment since *)
(* the login began, however the row changes between its two statements.     *)
LoginHonest == \A r \in Requests : req[r].pc \in {"privilege", "in"} => r \in knew

(* A moderator's row changes by the console, or by a request that came with *)
(* the session of an administrator, to what that request was to make of it. *)
OnlyAdmins ==
    [][\A u \in Users : mods'[u] # mods[u] =>
          \E r \in Requests :
              \/ req[r] = New /\ req'[r] = Done /\ mods'[u] # None
              \/ req[r].user = u /\ req[r].level # None /\ req[r].level >= Admin
                                 /\ req[r].row = mods'[u]]_vars
=============================================================================
