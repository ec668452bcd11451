------------------------------- MODULE Entry --------------------------------
(***************************************************************************)
(* What a visitor has to pass before a post or a report is taken: the ban  *)
(* of the address and the captcha (redirBanned in routes/main.go,          *)
(* checkCaptcha in routes/board.go, captcha/captcha.go and the statements  *)
(* of both in database/sqlite3.go).  Each is a look and a later deletion,  *)
(* with other requests in between.  Who is logged in passes both unasked.  *)
(***************************************************************************)
EXTENDS Integers, FiniteSets

CONSTANTS
    Requests,       \* requests, each made once
    Sources,        \* addresses of visitors
    Batch,          \* captchas made at a time, 50 in Fetch
    Rounds,         \* how often a request may find all captchas spent
    MaxTime,        \* how long the clock is watched
    None,           \* no source, no captcha, no ban
    MayFail         \* may statements fail, and the process die?

ASSUME EntryAssumption ==
    /\ IsFiniteSet(Requests)
    /\ Batch \in Nat \ {0} /\ MaxTime \in Nat /\ Rounds \in Nat
    /\ MayFail \in BOOLEAN
    /\ None \notin Sources /\ None \notin 0 .. MaxTime
    /\ None \notin (Requests \X (1 .. Rounds)) \X (1 .. Batch)

VARIABLES
    now,        \* the clock
    bans,       \* the table bans: when the ban of a source expires
    pool,       \* the table captchas
    req,        \* each request: its next step and what it holds
    shown,      \* captchas that stand in some page
    free,       \* history: requests during which the source was not banned once
    judged,     \* history: each captcha's requests that got a verdict on it
    most        \* history: the most requests that were making captchas at once

tables == <<bans, pool>>
history == <<free, judged, most>>
vars == <<now, tables, req, shown, history>>

-----------------------------------------------------------------------------
Times == 0 .. MaxTime

(* Identifiers are random and never the same: a captcha is named by who    *)
(* made it, in which round of the loop of Fetch.                           *)
Batches == Requests \X (1 .. Rounds)
Captchas == Batches \X (1 .. Batch)

(* A request before its first statement: pc is the step that runs it.      *)
At(pc, kind, s, c, right) ==
    [pc |-> pc, kind |-> kind, source |-> s, exp |-> None, form |-> c, right |-> right,
     round |-> 0, made |-> 0, late |-> FALSE, out |-> "none"]
New == At("new", "none", None, None, FALSE)

UnderWay(r) == req[r].pc \notin {"new", "done"}
Makers == {r \in Requests : req[r].pc = "make"}

(* A ban is in force up to and including its last moment.                  *)
InForce(exp, t) == exp # None /\ t <= exp

(* Slip: a ban ends with its last moment. *)
SlipOver(exp) == exp # None /\ now >= exp

(* time.Now().After(expires), for a row that was found.                    *)
Over(exp) == exp # None /\ now > exp

(* The history of who was free to enter, when bans and clock become these. *)
Watch(b, t) == free' = free \cup {r \in Requests : UnderWay(r) /\ ~InForce(b[req[r].source], t)}

Ends(r, out) == req' = [req EXCEPT ![r].pc = "done", ![r].out = out]
Goes(r, pc) == req' = [req EXCEPT ![r].pc = pc]

(* redirBanned lets the request through: to the captcha if it is to leave  *)
(* something.                                                              *)
Passes(r) == IF req[r].kind = "post" THEN Goes(r, "solve") ELSE Ends(r, "in")

-----------------------------------------------------------------------------
Init ==
    /\ now = 0
    /\ bans \in [Sources -> Times \cup {None}]
    /\ pool = {}
    /\ req = [r \in Requests |-> New]
    /\ shown = {}
    /\ free = {}
    /\ judged = [c \in Captchas |-> {}]
    /\ most = 0

Tick ==
    /\ now < MaxTime
    /\ now' = now + 1
    /\ Watch(bans, now + 1)
    /\ UNCHANGED <<tables, req, shown, judged, most>>

(* A request comes in that asks for s.                                     *)
Arrives(r, new) ==
    /\ req[r] = New
    /\ req' = [req EXCEPT ![r] = new]
    /\ free' = IF InForce(bans[new.source], now) THEN free ELSE free \cup {r}
    /\ UNCHANGED <<now, tables, shown, judged, most>>

(* Post and PostBoardReport, with a captcha from some page, answered right *)
(* or wrong.                                                               *)
Posts(r, s, c, right) == Arrives(r, At("check", "post", s, c, right))

(* GetBoardReport and GetBanned.                                           *)
Asks(r, s) == Arrives(r, At("check", "ask", s, None, FALSE))

(* A page with a form, or GetCaptcha.                                      *)
Visits(r, s) == Arrives(r, At("list", "visit", s, None, FALSE))

-----------------------------------------------------------------------------
(* Banned.                                                                 *)

CheckPasses(r) ==
    /\ req[r].pc = "check"
    /\ bans[req[r].source] = None
    /\ Passes(r)
    /\ UNCHANGED <<now, tables, shown, history>>

CheckHolds(r) ==
    /\ req[r].pc = "check"
    /\ bans[req[r].source] # None /\ ~Over(bans[req[r].source])
    /\ Ends(r, "banned")
    /\ UNCHANGED <<now, tables, shown, history>>

CheckExpired(r) ==
    /\ req[r].pc = "check"
    /\ Over(bans[req[r].source])
    /\ req' = [req EXCEPT ![r].pc = "drop", ![r].exp = bans[req[r].source]]
    /\ UNCHANGED <<now, tables, shown, history>>

(* The DELETE, which names the source only.                                *)
Dropped(r) ==
    /\ req[r].pc = "drop"
    /\ bans' = [bans EXCEPT ![req[r].source] = None]
    /\ Watch(bans', now)
    /\ Passes(r)
    /\ UNCHANGED <<now, pool, shown, judged, most>>

(* Slip: an error is taken for "not banned". *)
SlipFails(r) ==
    /\ MayFail
    /\ IF req[r].pc = "check" THEN Passes(r) ELSE UnderWay(r) /\ Ends(r, "failed")
    /\ UNCHANGED <<now, tables, shown, history>>

(* A statement fails, and the request with it.                             *)
Fails(r) ==
    /\ MayFail
    /\ UnderWay(r)
    /\ Ends(r, "failed")
    /\ UNCHANGED <<now, tables, shown, history>>

(* PostAdminBan up to the upsert, which leaves the record to be made.  The *)
(* end may lie in the past.                                                *)
Ban(r, s, exp) ==
    /\ req[r] = New
    /\ bans' = [bans EXCEPT ![s] = exp]
    /\ req' = [req EXCEPT ![r] = At("audit", "ban", s, None, FALSE)]
    /\ Watch(bans', now)
    /\ UNCHANGED <<now, pool, shown, judged, most>>

Audited(r) ==
    /\ req[r].pc = "audit"
    /\ Ends(r, "in")
    /\ UNCHANGED <<now, tables, shown, history>>

-----------------------------------------------------------------------------
(* Solve.                                                                  *)

(* No such row, which is an error.                                         *)
NotFound(r) ==
    /\ req[r].pc = "solve"
    /\ req[r].form \notin pool
    /\ Ends(r, "gone")
    /\ UNCHANGED <<now, tables, shown, history>>

Found(r) ==
    /\ req[r].pc = "solve"
    /\ req[r].form \in pool
    /\ req' = [req EXCEPT ![r].pc = "spend", ![r].late = judged[req[r].form] # {}]
    /\ UNCHANGED <<now, tables, shown, history>>

Verdict(r) ==
    /\ req[r].pc = "spend"
    /\ Ends(r, IF req[r].right THEN "in" ELSE "wrong")
    /\ judged' = [judged EXCEPT ![req[r].form] = @ \cup {r}]

(* Slip: a wrong answer leaves the captcha for another try. *)
SlipSpent(r) ==
    /\ Verdict(r)
    /\ pool' = IF req[r].right THEN pool \ {req[r].form} ELSE pool
    /\ UNCHANGED <<now, bans, shown, free, most>>

(* The captcha goes, whatever the answer; a second DELETE finds nothing    *)
(* and is no error.                                                        *)
Spent(r) ==
    /\ Verdict(r)
    /\ pool' = pool \ {req[r].form}
    /\ UNCHANGED <<now, bans, shown, free, most>>

-----------------------------------------------------------------------------
(* Fetch.                                                                  *)

(* One of the captchas there are, at random.                               *)
Picks(r, c) ==
    /\ req[r].pc = "list"
    /\ c \in pool
    /\ shown' = shown \cup {c}
    /\ Ends(r, "in")
    /\ UNCHANGED <<now, tables, history>>

(* Where a request starts to make captchas. *)
Starts(r) ==
    /\ req[r].round < Rounds
    /\ req' = [req EXCEPT ![r].pc = "make", ![r].round = @ + 1, ![r].made = 0]
    /\ most' = IF Cardinality(Makers') > most THEN Cardinality(Makers') ELSE most
    /\ UNCHANGED <<now, tables, shown, free, judged>>

(* Slip: new captchas are made for every visitor. *)
SlipRunsOut(r) == req[r].pc = "list" /\ (pool = {} \/ req[r].round = 0) /\ Starts(r)

(* There are none, or none any more.                                       *)
RunsOut(r) == req[r].pc = "list" /\ pool = {} /\ Starts(r)

(* One round of the loop around Make.                                      *)
Makes(r) ==
    /\ req[r].pc = "make"
    /\ pool' = pool \cup {<<<<r, req[r].round>>, req[r].made + 1>>}
    /\ req' = [req EXCEPT ![r].made = @ + 1,
                         ![r].pc = IF req[r].made + 1 = Batch THEN "list" ELSE "make"]
    /\ UNCHANGED <<now, bans, shown, history>>

-----------------------------------------------------------------------------
(* The process dies; the tables stay, and so do pages people look at.      *)
Crash ==
    /\ MayFail
    /\ req' = [r \in Requests |->
                  IF UnderWay(r) THEN [req[r] EXCEPT !.pc = "done", !.out = "failed"] ELSE req[r]]
    /\ UNCHANGED <<now, tables, shown, history>>

(* Everything asked for is done, and the clock is no longer watched.       *)
Rest ==
    /\ \A r \in Requests : req[r].pc = "done"
    /\ now = MaxTime
    /\ UNCHANGED vars

Continue(r) ==
    \/ CheckPasses(r) \/ CheckHolds(r) \/ CheckExpired(r) \/ Dropped(r)
    \/ NotFound(r) \/ Found(r) \/ Spent(r)
    \/ \E c \in pool : Picks(r, c)
    \/ RunsOut(r) \/ Makes(r)
    \/ Audited(r)

Next ==
    \/ Tick
    \/ \E r \in Requests :
        \/ \E s \in Sources :
            \/ \E c \in shown, right \in BOOLEAN : Posts(r, s, c, right)
            \/ Asks(r, s)
            \/ Visits(r, s)
            \/ \E exp \in Times : Ban(r, s, exp)
        \/ Continue(r) \/ Fails(r)
    \/ Crash
    \/ Rest

Spec == Init /\ [][Next]_vars

-----------------------------------------------------------------------------
TypeOK ==
    /\ now \in Times
    /\ bans \in [Sources -> Times \cup {None}]
    /\ pool \subseteq Captchas
    /\ req \in [Requests ->
            [pc : {"new", "check", "drop", "solve", "spend", "list", "make", "audit", "done"},
             kind : {"none", "post", "ask", "visit", "ban"},
             source : Sources \cup {None}, exp : Times \cup {None},
             form : Captchas \cup {None}, right : BOOLEAN,
             round : 0 .. Rounds, made : 0 .. Batch, late : BOOLEAN,
             out : {"none", "in", "banned", "gone", "wrong", "failed"}]]
    /\ shown \subseteq Captchas
    /\ free \subseteq Requests
    /\ judged \in [Captchas -> SUBSET Requests]
    /\ most \in Nat

PastBan(r) ==
    \/ req[r].pc \in {"solve", "spend"}
    \/ req[r].kind \in {"post", "ask"} /\ req[r].out = "in"

(* Nobody gets past redirBanned who was banned for as long as the check    *)
(* took, be it that other requests drop bans, renew them or shorten them.  *)
KeptOut == \A r \in Requests : PastBan(r) => r \in free

(* A ban in force is taken away only if a moderator renewed it while       *)
(* Banned was about to drop the one it had found expired.                  *)
BanKept ==
    [][\A s \in Sources : InForce(bans[s], now) /\ bans'[s] = None =>
          \E r \in Requests : /\ req[r].pc = "drop" /\ req[r].source = s
                              /\ req[r].exp < bans[s]]_vars

(* Who is judged on a captcha began before anybody was done with it: there *)
(* is no second try, right or wrong, except for checks that overlap.       *)
OneGuess == \A c \in Captchas : \A r \in judged[c] : ~req[r].late

(* A captcha that is gone when it is to be solved was spent by somebody    *)
(* else, who was shown the same one.                                       *)
FirstAnswerCounts ==
    \A r \in Requests : req[r].out = "gone" => judged[req[r].form] \ {r} # {}

(* An answer counts once: who comes after it finds the captcha gone, and   *)
(* who finds it gone comes after an answer.                                *)
CountsOnce == OneGuess /\ FirstAnswerCounts

(* The table of captchas never holds more than one batch for each visitor  *)
(* that was making some at the same time.                                  *)
PoolBounded == Cardinality(pool) <= Batch * most

=============================================================================
