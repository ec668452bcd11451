-------------------------------- MODULE Desk --------------------------------
(***************************************************************************)
(* What lies on the moderators' desk: reports and news (the tables of      *)
(* these names in database/sqlite3.go, the handlers in routes/admin.go).   *)
(* Rows are acted on by number, from a page that may be old, and the       *)
(* number of the newest row is handed out again once the row is gone.      *)
(***************************************************************************)
EXTENDS Integers

CONSTANTS
    Papers,     \* whatever is ever filed as a report or posted as news
    BoardOf,    \* the board that each would be a report on
    Tabs,       \* browser tabs of moderators
    MaxNumber,  \* how many rows a table may come to have
    None        \* no row

ASSUME DeskAssumption ==
    /\ MaxNumber \in Nat
    /\ None \notin Papers
    /\ DOMAIN BoardOf = Papers

VARIABLES
    reports,    \* the table reports: what was filed under each number
    done,       \* reports that are marked as resolved
    news,       \* the table news
    text,       \* whose text an article carries
    tab,        \* what each tab shows
    filed       \* history: papers ever filed or posted

vars == <<reports, done, news, text, tab, filed>>

-----------------------------------------------------------------------------
Numbers == 1 .. MaxNumber
Empty == [n \in Numbers |-> None]
Tables == [Numbers -> Papers \cup {None}]
Standing(table) == {x \in Papers : \E n \in Numbers : table[n] = x}

(* The rows of a table whose papers are among S. *)
Select(table, S) == [n \in Numbers |-> IF table[n] \in S THEN table[n] ELSE None]

Newest(n, table) == table[n] # None /\ \A k \in Numbers : k > n => table[k] = None

(* Slip: the lowest number that is free. *)
SlipIsNext(table, n) == table[n] = None /\ \A k \in Numbers : k < n => table[k] # None

(* INTEGER PRIMARY KEY without AUTOINCREMENT: one more than the largest. *)
IsNext(table, n) ==
    /\ \A k \in Numbers : k >= n => table[k] = None
    /\ n > 1 => table[n - 1] # None

Page(loading, r, n, f) == [loading |-> loading, reports |-> r, news |-> n, form |-> f]

Form(n, x) == [number |-> n, text |-> x]

-----------------------------------------------------------------------------
Init ==
    /\ reports = Empty
    /\ done = {}
    /\ news = Empty
    /\ text = [x \in Papers |-> x]
    /\ tab = [t \in Tabs |-> Page(FALSE, Empty, Empty, Form(0, None))]
    /\ filed = {}

FileReport(x, n) ==
    /\ x \notin filed
    /\ IsNext(reports, n)
    /\ reports' = [reports EXCEPT ![n] = x]
    /\ filed' = filed \cup {x}
    /\ UNCHANGED <<done, news, text, tab>>

(* DeletePost and DeleteThread remove the reports of a post or a thread.   *)
RemoveReports(S) ==
    /\ \A x, y \in S : BoardOf[x] = BoardOf[y]
    /\ reports' = Select(reports, Papers \ S)
    /\ UNCHANGED <<done, news, text, tab, filed>>

Unresolved == Select(reports, Papers \ done)

(* What the tab t shows from now on.  A form stays in a tab of its own.    *)
Shows(t, loading, r, n) ==
    /\ tab' = [tab EXCEPT ![t] = Page(loading, r, n, tab[t].form)]
    /\ UNCHANGED <<reports, done, news, text, filed>>

(* GetAdmin lists what is not resolved, and the news by a later statement. *)
GetAdmin(t) == Shows(t, TRUE, Unresolved, Empty)
News(t) == tab[t].loading /\ Shows(t, FALSE, tab[t].reports, news)

(* A statement of GetAdmin fails: the page is an error. *)
PageFails(t) == tab[t].loading /\ Shows(t, FALSE, Empty, Empty)

GetAdminBoard(t, b) ==
    Shows(t, FALSE, Select(Unresolved, {x \in Papers : BoardOf[x] = b}), Empty)

(* Slip: resolves all that is reported of the board. *)
SlipResolve(t, n) ==
    /\ ~tab[t].loading /\ tab[t].reports[n] # None
    /\ done' = done \cup {x \in Standing(reports) :
                              reports[n] # None /\ BoardOf[x] = BoardOf[reports[n]]}
    /\ UNCHANGED <<reports, news, text, tab, filed>>

(* Whatever has the number that the page shows, if anything has.           *)
Resolve(t, n) ==
    /\ ~tab[t].loading /\ tab[t].reports[n] # None
    /\ done' = done \cup ({reports[n]} \ {None})
    /\ UNCHANGED <<reports, news, text, tab, filed>>

-----------------------------------------------------------------------------
(* SaveNews with the number 0. *)
PostNews(x, n) ==
    /\ x \notin filed
    /\ IsNext(news, n)
    /\ news' = [news EXCEPT ![n] = x]
    /\ filed' = filed \cup {x}
    /\ UNCHANGED <<reports, done, text, tab>>

DeleteNews(t, n) ==
    /\ ~tab[t].loading /\ tab[t].news[n] # None
    /\ news' = [news EXCEPT ![n] = None]
    /\ UNCHANGED <<reports, done, text, tab, filed>>

(* GetAdminNewsUpdate; an error if there is no such article any more.      *)
NewsUpdate(t, n) ==
    /\ ~tab[t].loading /\ tab[t].news[n] # None
    /\ news[n] # None
    /\ tab' = [tab EXCEPT ![t] = Page(FALSE, tab[t].reports, tab[t].news, Form(n, text[news[n]]))]
    /\ UNCHANGED <<reports, done, news, text, filed>>

(* Slip: the UPDATE without its WHERE. *)
SlipUpdateNews(t) ==
    /\ tab[t].form.text # None
    /\ text' = [x \in Papers |-> IF x \in Standing(news) THEN tab[t].form.text ELSE text[x]]
    /\ UNCHANGED <<reports, done, news, tab, filed>>

(* SaveNews with the number of the form: an UPDATE, of no row perhaps.     *)
UpdateNews(t) ==
    /\ tab[t].form.text # None
    /\ text' = [x \in Papers |->
                    IF x = news[tab[t].form.number] THEN tab[t].form.text ELSE text[x]]
    /\ UNCHANGED <<reports, done, news, tab, filed>>

-----------------------------------------------------------------------------
Next ==
    \/ \E x \in Papers, n \in Numbers : FileReport(x, n) \/ PostNews(x, n)
    \/ \E S \in SUBSET Standing(reports) : RemoveReports(S)
    \/ \E t \in Tabs :
        \/ GetAdmin(t) \/ News(t) \/ PageFails(t)
        \/ \E x \in Papers : GetAdminBoard(t, BoardOf[x])
        \/ \E n \in Numbers : Resolve(t, n) \/ DeleteNews(t, n) \/ NewsUpdate(t, n)
        \/ UpdateNews(t)

Spec == Init /\ [][Next]_vars

-----------------------------------------------------------------------------
TypeOK ==
    /\ reports \in Tables /\ news \in Tables
    /\ done \subseteq Papers
    /\ text \in [Papers -> Papers]
    /\ tab \in [Tabs -> [loading : BOOLEAN, reports : Tables, news : Tables,
                         form : [number : Numbers \cup {0}, text : Papers \cup {None}]]]
    /\ filed \subseteq Papers

(* As long as the newest row on a page is still there, each number on that *)
(* page is the one of the same row, or of none, however old the page is    *)
(* and whatever else was removed and added.                                *)
Holds(page, table) ==
    \A k \in Numbers :
        Newest(k, page) /\ table[k] = page[k] =>
            \A n \in Numbers : page[n] # None => table[n] \in {page[n], None}

NumbersHold == \A t \in Tabs : Holds(tab[t].reports, reports) /\ Holds(tab[t].news, news)

(* A report is marked as resolved, and an article removed, by somebody who *)
(* was shown it, or whose page is so old that its newest row is gone.      *)
Shown(x, page, table) ==
    \/ x \in Standing(page)
    \/ page # Empty /\ \A k \in Numbers : Newest(k, page) => table[k] # page[k]

ActsAsSeen ==
    [][/\ \A x \in done' \ done : \E t \in Tabs : Shown(x, tab[t].reports, reports)
       /\ \A x \in Standing(news) \ Standing(news)' :
            \E t \in Tabs : Shown(x, tab[t].news, news)]_vars

(* An edit may land on another article than the one that was opened, which *)
(* has its number by now; but never while the opened one is there.         *)
EditsApart == \A x \in Standing(news) : text[x] = x \/ text[x] \notin Standing(news)

(* What was removed never comes back, be it by a late edit.                *)
GoneForGood ==
    [][\A x \in filed : /\ x \notin Standing(reports) => x \notin Standing(reports)'
                        /\ x \notin Standing(news) => x \notin Standing(news)']_vars
=============================================================================
