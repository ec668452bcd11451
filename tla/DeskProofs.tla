----------------------------- MODULE DeskProofs -----------------------------
(***************************************************************************)
(* What moderators act on: the proofs about Desk, for any papers, tabs and *)
(* length of the tables, and those about Filter, for any moderators and    *)
(* patterns.                                                               *)
(***************************************************************************)
EXTENDS Desk, Filter, TLAPS

(* Every page and form is about papers that were filed, and a paper that   *)
(* was not filed yet is as it will be.                                     *)
PageKnown(t) == Standing(tab[t].reports) \subseteq filed /\ Standing(tab[t].news) \subseteq filed

Known ==
    /\ Standing(reports) \subseteq filed /\ Standing(news) \subseteq filed
    /\ \A t \in Tabs : PageKnown(t)
    /\ \A x \in Papers : IF x \in filed THEN text[x] \in filed ELSE text[x] = x

(* What a form carries is the text of the article with its number, unless  *)
(* it is nobody's text any more.                                           *)
FormOK(t) ==
    tab[t].form.text # None =>
        /\ tab[t].form.number \in Numbers
        /\ tab[t].form.text \in filed
        /\ \A k \in Numbers : news[k] = tab[t].form.text => k = tab[t].form.number

Once == \A i, k \in Numbers : news[i] = news[k] /\ news[i] # None => i = k

Inv == TypeOK /\ Once /\ Known /\ NumbersHold /\ EditsApart /\ \A t \in Tabs : FormOK(t)

TabType == [loading : BOOLEAN, reports : Tables, news : Tables,
            form : [number : Numbers \cup {0}, text : Papers \cup {None}]]

-----------------------------------------------------------------------------
LEMMA EmptyTable == Empty \in Tables /\ Standing(Empty) = {} /\ \A table : Holds(Empty, table)
BY DeskAssumption DEF Empty, Tables, Standing, Holds, Newest

(* A selection from a table has rows of it only. *)
LEMMA SelectRows ==
    ASSUME NEW table \in Tables, NEW S
    PROVE  /\ Select(table, S) \in Tables
           /\ \A n \in Numbers : Select(table, S)[n] \in {table[n], None}
           /\ Standing(Select(table, S)) \subseteq Standing(table)
BY DeskAssumption DEF Select, Tables, Standing

(* Removing rows, and showing rows, keeps the pages true. *)
LEMMA FewerRows ==
    ASSUME NEW page \in Tables, NEW table \in Tables, NEW new \in Tables,
           Holds(page, table), \A n \in Numbers : new[n] \in {table[n], None}
    PROVE  Holds(page, new)
BY DEF Holds, Newest

LEMMA FreshPage ==
    ASSUME NEW page \in Tables, NEW table \in Tables,
           \A n \in Numbers : page[n] \in {table[n], None}
    PROVE  Holds(page, table)
BY DEF Holds, Newest

(* A new row gets a number no page shows while its newest row is there. *)
LEMMA OneMoreRow ==
    ASSUME NEW page \in Tables, NEW table \in Tables, NEW n \in Numbers, NEW x \in Papers,
           Holds(page, table), IsNext(table, n), x \notin Standing(page)
    PROVE  Holds(page, [table EXCEPT ![n] = x])
<1> DEFINE new == [table EXCEPT ![n] = x]
<1> SUFFICES ASSUME NEW k \in Numbers, Newest(k, page), new[k] = page[k],
                    NEW m \in Numbers, page[m] # None
             PROVE  new[m] \in {page[m], None}
  BY DEF Holds
<1>1. k # n
  BY DEF Standing, Tables
<1>2. table[k] = page[k] /\ page[k] # None
  BY <1>1 DEF Tables, Newest
<1>3. k < n /\ m <= k
  BY <1>2 DEF IsNext, Newest, Numbers
<1>4. new[m] = table[m]
  BY <1>3 DEF Tables, Numbers
<1> QED
  BY <1>2, <1>4 DEF Holds

LEMMA MoreStanding ==
    ASSUME NEW table \in Tables, NEW n \in Numbers, NEW x \in Papers
    PROVE  /\ [table EXCEPT ![n] = x] \in Tables
           /\ Standing([table EXCEPT ![n] = x]) \subseteq Standing(table) \cup {x}
BY DEF Tables, Standing

-----------------------------------------------------------------------------
LEMMA InitInv == Init => Inv
<1> SUFFICES ASSUME Init PROVE Inv
  OBVIOUS
<1>1. TypeOK
  BY EmptyTable DEF Init, TypeOK, Page, Form
<1>2. Known
  BY EmptyTable DEF Init, Known, PageKnown, Page
<1>3. NumbersHold
  BY EmptyTable DEF Init, NumbersHold, Page
<1>4. EditsApart
  BY EmptyTable DEF Init, EditsApart
<1>5. \A t \in Tabs : FormOK(t)
  BY DEF Init, FormOK, Page, Form
<1>6. Once
  BY DEF Init, Once, Empty
<1> QED
  BY <1>1, <1>2, <1>3, <1>4, <1>5, <1>6 DEF Inv

(* A tab that shows rows of the tables, or what it showed before. *)
LEMMA ShowsInv ==
    ASSUME Inv, NEW t \in Tabs, NEW l \in BOOLEAN, NEW r \in Tables, NEW n \in Tables,
           Shows(t, l, r, n),
           Standing(r) \subseteq filed, Standing(n) \subseteq filed,
           Holds(r, reports), Holds(n, news)
    PROVE  Inv'
<1> DEFINE new == Page(l, r, n, tab[t].form)
<1>1. /\ tab' = [tab EXCEPT ![t] = new]
      /\ reports' = reports /\ done' = done /\ news' = news /\ text' = text /\ filed' = filed
  BY DEF Shows
<1>2. new \in TabType /\ tab \in [Tabs -> TabType]
  BY DEF Inv, TypeOK, TabType, Page
<1>3. /\ new.reports = r /\ new.news = n /\ new.form = tab[t].form
      /\ tab'[t] = new /\ \A u \in Tabs \ {t} : tab'[u] = tab[u]
  BY <1>1, <1>2 DEF Page
<1>4. TypeOK'
  <2>1. tab' \in [Tabs -> TabType]
    BY <1>1, <1>2
  <2> QED
    BY <1>1, <2>1 DEF Inv, TypeOK, TabType
<1>5. Known'
  BY <1>1, <1>3 DEF Inv, Known, PageKnown, Standing
<1>6. NumbersHold'
  BY <1>1, <1>3 DEF Inv, NumbersHold
<1>7. EditsApart' /\ Once'
  BY <1>1 DEF Inv, EditsApart, Standing, Once
<1>8. \A u \in Tabs : FormOK(u)'
  BY <1>1, <1>3 DEF Inv, FormOK
<1> QED
  BY <1>4, <1>5, <1>6, <1>7, <1>8 DEF Inv

LEMMA NextInv == Inv /\ [Next]_vars => Inv'
<1> SUFFICES ASSUME Inv, [Next]_vars PROVE Inv'
  OBVIOUS
<1> USE DeskAssumption
<1>t. /\ reports \in Tables /\ news \in Tables /\ tab \in [Tabs -> TabType]
      /\ text \in [Papers -> Papers] /\ done \subseteq Papers /\ filed \subseteq Papers
  BY DEF Inv, TypeOK, TabType
<1>k. Once /\ Known /\ NumbersHold /\ EditsApart /\ \A t \in Tabs : FormOK(t)
  BY DEF Inv
<1>1. ASSUME NEW x \in Papers, NEW n \in Numbers, FileReport(x, n)
      PROVE  Inv'
  <2>1. /\ x \notin filed /\ IsNext(reports, n) /\ reports' = [reports EXCEPT ![n] = x]
        /\ filed' = filed \cup {x}
        /\ done' = done /\ news' = news /\ text' = text /\ tab' = tab
    BY <1>1 DEF FileReport
  <2>2. reports' \in Tables /\ Standing(reports)' \subseteq Standing(reports) \cup {x}
    <3>1. Standing(reports)' = Standing(reports')
      BY DEF Standing
    <3> QED
      BY <2>1, <3>1, <1>t, MoreStanding
  <2>3. TypeOK'
    BY <2>1, <2>2, <1>t DEF TypeOK, TabType
  <2>4. Known'
    BY <2>1, <2>2, <1>k DEF Known, PageKnown, Standing
  <2>5. NumbersHold'
    <3> SUFFICES ASSUME NEW t \in Tabs PROVE Holds(tab[t].reports, reports')
      BY <2>1, <1>k DEF NumbersHold
    <3>1. tab[t].reports \in Tables /\ x \notin Standing(tab[t].reports)
      BY <2>1, <1>t, <1>k DEF Known, PageKnown, TabType
    <3> QED
      BY <2>1, <3>1, <1>t, <1>k, OneMoreRow DEF NumbersHold
  <2>6. EditsApart' /\ Once' /\ \A t \in Tabs : FormOK(t)'
    BY <2>1, <1>k DEF EditsApart, FormOK, Standing, Once
  <2> QED
    BY <2>3, <2>4, <2>5, <2>6 DEF Inv
<1>2. ASSUME NEW S \in SUBSET Standing(reports), RemoveReports(S)
      PROVE  Inv'
  <2>1. /\ reports' = Select(reports, Papers \ S)
        /\ done' = done /\ news' = news /\ text' = text /\ tab' = tab /\ filed' = filed
    BY <1>2 DEF RemoveReports
  <2>2. /\ reports' \in Tables /\ \A n \in Numbers : reports'[n] \in {reports[n], None}
        /\ Standing(reports)' \subseteq Standing(reports)
    BY <2>1, <1>t, SelectRows DEF Standing
  <2>3. TypeOK' /\ Known'
    BY <2>1, <2>2, <1>t, <1>k DEF TypeOK, TabType, Known, PageKnown, Standing
  <2>4. NumbersHold'
    <3> SUFFICES ASSUME NEW t \in Tabs PROVE Holds(tab[t].reports, reports')
      BY <2>1, <1>k DEF NumbersHold
    <3>1. tab[t].reports \in Tables
      BY <1>t DEF TabType
    <3> QED
      BY <2>2, <3>1, <1>t, <1>k, FewerRows DEF NumbersHold
  <2>5. EditsApart' /\ Once' /\ \A t \in Tabs : FormOK(t)'
    BY <2>1, <1>k DEF EditsApart, FormOK, Standing, Once
  <2> QED
    BY <2>3, <2>4, <2>5 DEF Inv
<1>3. ASSUME NEW t \in Tabs, \/ GetAdmin(t) \/ News(t) \/ PageFails(t)
                             \/ \E x \in Papers : GetAdminBoard(t, BoardOf[x])
      PROVE  Inv'
  <2>1. /\ Unresolved \in Tables /\ Standing(Unresolved) \subseteq filed
        /\ Holds(Unresolved, reports)
    BY <1>t, <1>k, SelectRows, FreshPage DEF Unresolved, Known
  <2>2. Standing(Empty) \subseteq filed /\ Empty \in Tables
        /\ Holds(Empty, news) /\ Holds(Empty, reports)
    BY EmptyTable
  <2>3. /\ tab[t].reports \in Tables /\ Standing(tab[t].reports) \subseteq filed
        /\ Holds(tab[t].reports, reports)
    BY <1>t, <1>k DEF TabType, Known, PageKnown, NumbersHold
  <2>4. Standing(news) \subseteq filed /\ Holds(news, news)
    BY <1>t, <1>k, FreshPage DEF Known
  <2>5. CASE GetAdmin(t)
    BY <2>1, <2>2, <2>5, ShowsInv DEF GetAdmin
  <2>6. CASE News(t)
    BY <1>t, <2>3, <2>4, <2>6, ShowsInv DEF News
  <2>7. CASE PageFails(t)
    BY <2>2, <2>7, ShowsInv DEF PageFails
  <2>8. ASSUME NEW x \in Papers, GetAdminBoard(t, BoardOf[x]) PROVE Inv'
    <3> DEFINE r == Select(Unresolved, {y \in Papers : BoardOf[y] = BoardOf[x]})
    <3>1. /\ r \in Tables /\ \A n \in Numbers : r[n] \in {Unresolved[n], None}
          /\ Standing(r) \subseteq Standing(Unresolved)
      BY <2>1, SelectRows
    <3>2. \A n \in Numbers : Unresolved[n] \in {reports[n], None}
      BY <1>t, SelectRows DEF Unresolved
    <3>3. Holds(r, reports)
      BY <3>1, <3>2, <1>t, FreshPage
    <3>4. Shows(t, FALSE, r, Empty)
      BY <2>8 DEF GetAdminBoard
    <3> HIDE DEF r
    <3> QED
      BY <2>1, <2>2, <3>1, <3>3, <3>4, ShowsInv
  <2> QED
    BY <1>3, <2>5, <2>6, <2>7, <2>8
<1>4. ASSUME NEW t \in Tabs, NEW n \in Numbers, Resolve(t, n)
      PROVE  Inv'
  <2>1. /\ done' = done \cup ({reports[n]} \ {None})
        /\ reports' = reports /\ news' = news /\ text' = text /\ tab' = tab /\ filed' = filed
    BY <1>4 DEF Resolve
  <2>2. done' \subseteq Papers
    BY <2>1, <1>t DEF Tables
  <2> QED
    BY <2>1, <2>2, <1>t, <1>k DEF Inv, TypeOK, TabType, Known, PageKnown, NumbersHold, EditsApart, FormOK, Standing, Once
<1>5. ASSUME NEW x \in Papers, NEW n \in Numbers, PostNews(x, n)
      PROVE  Inv'
  <2>1. /\ x \notin filed /\ IsNext(news, n) /\ news' = [news EXCEPT ![n] = x]
        /\ filed' = filed \cup {x}
        /\ done' = done /\ reports' = reports /\ text' = text /\ tab' = tab
    BY <1>5 DEF PostNews
  <2>2. news' \in Tables /\ Standing(news)' \subseteq Standing(news) \cup {x}
    <3>1. Standing(news)' = Standing(news')
      BY DEF Standing
    <3> QED
      BY <2>1, <3>1, <1>t, MoreStanding
  <2>3. TypeOK'
    BY <2>1, <2>2, <1>t DEF TypeOK, TabType
  <2>4. Known'
    BY <2>1, <2>2, <1>k DEF Known, PageKnown, Standing
  <2>5. NumbersHold'
    <3> SUFFICES ASSUME NEW t \in Tabs PROVE Holds(tab[t].news, news')
      BY <2>1, <1>k DEF NumbersHold
    <3>1. tab[t].news \in Tables /\ x \notin Standing(tab[t].news)
      BY <2>1, <1>t, <1>k DEF Known, PageKnown, TabType
    <3> QED
      BY <2>1, <3>1, <1>t, <1>k, OneMoreRow DEF NumbersHold
  <2>6. EditsApart'
    <3> SUFFICES ASSUME NEW w \in Standing(news)'
                 PROVE  text[w] = w \/ text[w] \notin Standing(news)'
      BY <2>1 DEF EditsApart
    <3>1. w \in Papers /\ (w \in filed => text[w] \in filed)
      BY <1>k DEF Known, Standing
    <3>2. CASE w = x
      BY <2>1, <1>k, <3>2 DEF Known
    <3>3. CASE w # x
      <4>1. w \in Standing(news) /\ w \in filed
        BY <2>2, <3>3, <1>k DEF Known
      <4> QED
        BY <2>1, <2>2, <3>1, <4>1, <1>k DEF EditsApart
    <3> QED
      BY <3>2, <3>3
  <2>7. ASSUME NEW t \in Tabs PROVE FormOK(t)'
    <3> SUFFICES ASSUME tab[t].form.text # None
                 PROVE  /\ tab[t].form.number \in Numbers
                        /\ tab[t].form.text \in filed'
                        /\ \A k \in Numbers : news'[k] = tab[t].form.text => k = tab[t].form.number
      BY <2>1 DEF FormOK
    <3>1. /\ tab[t].form.number \in Numbers /\ tab[t].form.text \in filed
          /\ \A k \in Numbers : news[k] = tab[t].form.text => k = tab[t].form.number
      BY <1>k DEF FormOK
    <3>2. \A k \in Numbers : news'[k] = tab[t].form.text => news[k] = tab[t].form.text
      BY <2>1, <3>1, <1>t DEF Tables
    <3> QED
      BY <2>1, <3>1, <3>2
  <2>8. Once'
    <3>1. \A k \in Numbers : news[k] # x
      BY <2>1, <1>k DEF Known, Standing
    <3> QED
      BY <2>1, <3>1, <1>t, <1>k DEF Once, Tables
  <2> QED
    BY <2>3, <2>4, <2>5, <2>6, <2>7, <2>8 DEF Inv
<1>6. ASSUME NEW t \in Tabs, NEW n \in Numbers, DeleteNews(t, n)
      PROVE  Inv'
  <2>1. /\ news' = [news EXCEPT ![n] = None]
        /\ done' = done /\ reports' = reports /\ text' = text /\ tab' = tab /\ filed' = filed
    BY <1>6 DEF DeleteNews
  <2>2. /\ news' \in Tables /\ \A k \in Numbers : news'[k] \in {news[k], None}
        /\ Standing(news)' \subseteq Standing(news)
    BY <2>1, <1>t DEF Standing, Tables
  <2>3. TypeOK' /\ Known'
    BY <2>1, <2>2, <1>t, <1>k DEF TypeOK, TabType, Known, PageKnown, Standing
  <2>4. NumbersHold'
    <3> SUFFICES ASSUME NEW u \in Tabs PROVE Holds(tab[u].news, news')
      BY <2>1, <1>k DEF NumbersHold
    <3>1. tab[u].news \in Tables
      BY <1>t DEF TabType
    <3> QED
      BY <2>2, <3>1, <1>t, <1>k, FewerRows DEF NumbersHold
  <2>5. EditsApart'
    BY <2>1, <2>2, <1>k DEF EditsApart
  <2>6. \A u \in Tabs : FormOK(u)'
    BY <2>1, <2>2, <1>k DEF FormOK
  <2>7. Once'
    BY <2>2, <1>k DEF Once
  <2> QED
    BY <2>3, <2>4, <2>5, <2>6, <2>7 DEF Inv
<1>7. ASSUME NEW t \in Tabs, NEW n \in Numbers, NewsUpdate(t, n)
      PROVE  Inv'
  <2> DEFINE f == Form(n, text[news[n]])
             new == Page(FALSE, tab[t].reports, tab[t].news, f)
  <2>1. /\ news[n] # None /\ tab' = [tab EXCEPT ![t] = new]
        /\ done' = done /\ reports' = reports /\ text' = text /\ news' = news /\ filed' = filed
    BY <1>7 DEF NewsUpdate
  <2>2. news[n] \in Standing(news) /\ news[n] \in Papers
    BY <2>1, <1>t DEF Tables, Standing
  <2>3. f.number = n /\ f.text = text[news[n]] /\ f \in [number : Numbers \cup {0}, text : Papers \cup {None}]
    BY <2>2, <1>t DEF Form
  <2>4. new \in TabType
    BY <2>3, <1>t DEF Page, TabType
  <2>5. /\ new.reports = tab[t].reports /\ new.news = tab[t].news /\ new.form = f
        /\ tab'[t] = new /\ \A u \in Tabs \ {t} : tab'[u] = tab[u]
    BY <2>1, <1>t DEF Page
  <2>6. TypeOK'
    <3>1. tab' \in [Tabs -> TabType]
      BY <2>1, <2>4, <1>t
    <3> QED
      BY <2>1, <3>1, <1>t DEF TypeOK, TabType
  <2>9. f.text \in filed /\ \A k \in Numbers : news[k] = f.text => k = n
    <3>1. f.text \in filed
      BY <2>2, <2>3, <1>k DEF Known
    <3>2. ASSUME NEW k \in Numbers, news[k] = f.text PROVE k = n
      <4>1. f.text \in Standing(news) /\ news[k] # None
        BY <2>2, <2>3, <3>2, <1>t DEF Standing
      <4>2. f.text = news[n]
        BY <2>2, <2>3, <4>1, <1>k DEF EditsApart
      <4> QED
        BY <3>2, <4>1, <4>2, <1>k DEF Once
    <3> QED
      BY <3>1, <3>2
  <2> HIDE DEF new, f
  <2>7. Known'
    BY <2>1, <2>5, <1>k DEF Known, PageKnown, Standing
  <2>8. NumbersHold' /\ EditsApart' /\ Once'
    BY <2>1, <2>5, <1>k DEF NumbersHold, EditsApart, Standing, Once
  <2>10. \A u \in Tabs : FormOK(u)'
    <3> SUFFICES ASSUME NEW u \in Tabs PROVE FormOK(u)'
      OBVIOUS
    <3>1. CASE u = t
      BY <2>1, <2>3, <2>5, <2>9, <3>1 DEF FormOK
    <3>2. CASE u # t
      BY <2>1, <2>5, <1>k, <3>2 DEF FormOK
    <3> QED
      BY <3>1, <3>2
  <2> QED
    BY <2>6, <2>7, <2>8, <2>10 DEF Inv
<1>8. ASSUME NEW t \in Tabs, UpdateNews(t)
      PROVE  Inv'
  <2> DEFINE f == tab[t].form
  <2>1. /\ f.text # None
        /\ text' = [x \in Papers |-> IF x = news[f.number] THEN f.text ELSE text[x]]
        /\ done' = done /\ reports' = reports /\ tab' = tab /\ news' = news /\ filed' = filed
    BY <1>8 DEF UpdateNews
  <2>2. /\ f.number \in Numbers /\ f.text \in filed
        /\ f.text \in Standing(news) => news[f.number] = f.text
    BY <2>1, <1>k DEF FormOK, Standing
  <2>3. TypeOK'
    BY <2>1, <2>2, <1>t DEF TypeOK, TabType
  <2>4. news[f.number] \in Papers => news[f.number] \in filed
    BY <2>2, <1>k DEF Known, Standing
  <2>5. Known'
    <3>1. \A x \in Papers : IF x \in filed THEN text'[x] \in filed ELSE text'[x] = x
      BY <2>1, <2>2, <2>4, <1>k DEF Known
    <3> QED
      BY <2>1, <3>1, <1>k DEF Known, PageKnown, Standing
  <2>6. EditsApart'
    <3> SUFFICES ASSUME NEW x \in Standing(news)
                 PROVE  text'[x] = x \/ text'[x] \notin Standing(news)
      BY <2>1 DEF EditsApart, Standing
    <3>1. x \in Papers
      BY DEF Standing
    <3> QED
      BY <2>1, <2>2, <3>1, <1>k DEF EditsApart
  <2>7. NumbersHold' /\ Once' /\ \A u \in Tabs : FormOK(u)'
    BY <2>1, <1>k DEF NumbersHold, FormOK, Once
  <2> QED
    BY <2>3, <2>5, <2>6, <2>7 DEF Inv
<1>9. CASE UNCHANGED vars
  BY <1>9, <1>k DEF vars, Inv, TypeOK, TabType, Known, PageKnown, NumbersHold, EditsApart, FormOK, Standing, Once
<1> QED
  BY <1>1, <1>2, <1>3, <1>4, <1>5, <1>6, <1>7, <1>8, <1>9 DEF Next
-----------------------------------------------------------------------------
(* The tables, the pages and the forms keep their types. *)
THEOREM TypeCorrect == Spec => []TypeOK
BY InitInv, NextInv, PTL DEF Spec, Inv

(* For any number of rows, moderators and changes: a page whose newest row *)
(* stands misleads nobody.                                                 *)
THEOREM NumbersHoldAlways == Spec => []NumbersHold
BY InitInv, NextInv, PTL DEF Spec, Inv

(* An edit never puts the text of one standing article on another. *)
THEOREM EditsApartHolds == Spec => []EditsApart
BY InitInv, NextInv, PTL DEF Spec, Inv

(* What is resolved or removed was seen, or the page was visibly too old. *)
THEOREM ActsAsSeenHolds == Spec => ActsAsSeen
<1> DEFINE A == /\ \A x \in done' \ done : \E t \in Tabs : Shown(x, tab[t].reports, reports)
                /\ \A x \in Standing(news) \ Standing(news)' :
                     \E t \in Tabs : Shown(x, tab[t].news, news)
<1> USE DeskAssumption
<1>1. ASSUME NEW page \in Tables, NEW table \in Tables, NEW n \in Numbers,
             Holds(page, table), page[n] # None, table[n] # None
      PROVE  Shown(table[n], page, table)
  <2>1. page # Empty
    BY <1>1 DEF Empty
  <2>2. CASE \E k \in Numbers : Newest(k, page) /\ table[k] = page[k]
    <3>1. table[n] = page[n] /\ table[n] \in Papers
      BY <1>1, <2>2 DEF Holds, Tables
    <3> QED
      BY <3>1 DEF Shown, Standing
  <2> QED
    BY <2>1, <2>2 DEF Shown
<1>2. ASSUME Inv, [Next]_vars
      PROVE  A
  <2>t. /\ reports \in Tables /\ news \in Tables /\ NumbersHold
        /\ \A t \in Tabs : tab[t].reports \in Tables /\ tab[t].news \in Tables
    BY <1>2 DEF Inv, TypeOK
  <2>1. ASSUME NEW t \in Tabs, NEW n \in Numbers, Resolve(t, n) PROVE A
    <3>1. /\ tab[t].reports[n] # None /\ news' = news
          /\ \A x \in done' \ done : x = reports[n] /\ x # None
      BY <2>1 DEF Resolve
    <3>2. \A x \in done' \ done : Shown(x, tab[t].reports, reports)
      BY <1>1, <2>t, <3>1 DEF NumbersHold
    <3> QED
      BY <3>1, <3>2 DEF Standing
  <2>2. ASSUME NEW t \in Tabs, NEW n \in Numbers, DeleteNews(t, n) PROVE A
    <3>1. /\ tab[t].news[n] # None /\ done' = done
          /\ news' = [news EXCEPT ![n] = None]
      BY <2>2 DEF DeleteNews
    <3>2. \A x \in Standing(news) \ Standing(news)' : x = news[n] /\ x # None
      BY <2>t, <3>1 DEF Standing, Tables
    <3>3. \A x \in Standing(news) \ Standing(news)' : Shown(x, tab[t].news, news)
      BY <1>1, <2>t, <3>1, <3>2 DEF NumbersHold
    <3> QED
      BY <3>1, <3>3
  <2>3. ASSUME NEW x \in Papers, NEW n \in Numbers, FileReport(x, n) \/ PostNews(x, n) PROVE A
    <3>1. CASE FileReport(x, n)
      BY <3>1 DEF FileReport, Standing
    <3>2. CASE PostNews(x, n)
      <4>1. done' = done /\ news' = [news EXCEPT ![n] = x] /\ news[n] = None
        BY <3>2 DEF PostNews, IsNext, Numbers
      <4>2. Standing(news) \subseteq Standing(news)'
        BY <2>t, <4>1 DEF Standing, Tables
      <4> QED
        BY <4>1, <4>2
    <3> QED
      BY <2>3, <3>1, <3>2
  <2>4. ASSUME done' = done, news' = news PROVE A
    BY <2>4 DEF Standing
  <2> QED
    BY <1>2, <2>1, <2>2, <2>3, <2>4
       DEF Next, RemoveReports, GetAdmin, News, PageFails, GetAdminBoard, Shows, NewsUpdate, UpdateNews, vars
<1> QED
  BY <1>2, InitInv, NextInv, PTL DEF Spec, ActsAsSeen

(* Removed reports and articles stay removed. *)
THEOREM GoneForGoodHolds == Spec => GoneForGood
<1> DEFINE G == \A x \in filed :
                    /\ x \notin Standing(reports) => x \notin Standing(reports)'
                    /\ x \notin Standing(news) => x \notin Standing(news)'
<1>1. ASSUME Inv, [Next]_vars
      PROVE  G
  <2>t. reports \in Tables /\ news \in Tables
    BY <1>1 DEF Inv, TypeOK
  <2>1. ASSUME NEW x \in Papers, NEW n \in Numbers, FileReport(x, n) PROVE G
    <3>1. /\ x \notin filed /\ news' = news
          /\ Standing(reports)' \subseteq Standing(reports) \cup {x}
      BY <2>1, <2>t, MoreStanding DEF FileReport, Standing
    <3> QED
      BY <3>1 DEF Standing
  <2>2. ASSUME NEW x \in Papers, NEW n \in Numbers, PostNews(x, n) PROVE G
    <3>1. /\ x \notin filed /\ reports' = reports
          /\ Standing(news)' \subseteq Standing(news) \cup {x}
      BY <2>2, <2>t, MoreStanding DEF PostNews, Standing
    <3> QED
      BY <3>1 DEF Standing
  <2>3. ASSUME NEW S \in SUBSET Standing(reports), RemoveReports(S) PROVE G
    <3>1. news' = news /\ Standing(reports)' \subseteq Standing(reports)
      BY <2>3, <2>t, SelectRows DEF RemoveReports, Standing
    <3> QED
      BY <3>1 DEF Standing
  <2>4. ASSUME NEW t \in Tabs, NEW n \in Numbers, DeleteNews(t, n) PROVE G
    <3>1. reports' = reports /\ news' = [news EXCEPT ![n] = None]
      BY <2>4 DEF DeleteNews
    <3>2. Standing(news)' \subseteq Standing(news)
      BY <2>t, <3>1, DeskAssumption DEF Standing, Tables
    <3> QED
      BY <3>1, <3>2 DEF Standing
  <2>5. ASSUME reports' = reports, news' = news PROVE G
    BY <2>5 DEF Standing
  <2> QED
    BY <1>1, <2>1, <2>2, <2>3, <2>4, <2>5
       DEF Next, GetAdmin, News, PageFails, GetAdminBoard, Shows, Resolve, NewsUpdate, UpdateNews, vars
<1> QED
  BY <1>1, InitInv, NextInv, PTL DEF Spec, GoneForGood

-----------------------------------------------------------------------------
(* The filter.                                                             *)

(* While changes are clean at most one is under way, and but for its       *)
(* number the map is the table; a pattern to be compiled is in its row.    *)
InStep ==
    clean =>
        /\ Settled => compiled = regexps
        /\ \A p \in Requests : req[p] # Idle =>
            /\ \A q \in Requests : q # p => req[q] = Idle
            /\ compiled = Drop(regexps, req[p].id)
            /\ req[p].pc = "compile" =>
                /\ req[p].id \in DOMAIN regexps
                /\ regexps[req[p].id] = req[p].pattern

(* What is to be compiled is a pattern.                                    *)
HasPattern == \A p \in Requests : req[p].pc = "compile" => req[p].pattern \in Patterns

FilterInv == FilterTypeOK /\ HasPattern /\ InStep

-----------------------------------------------------------------------------
(* Maps of patterns are closed under the two operations on them.           *)
LEMMA MapOperations ==
    ASSUME NEW numbers, NEW f \in Maps(numbers)
    PROVE  /\ \A k \in numbers, v \in Patterns : Put(f, k, v) \in Maps(numbers)
           /\ \A k : Drop(f, k) \in Maps(numbers)
<1>1. PICK S \in SUBSET numbers : f \in [S -> Patterns]
  BY DEF Maps
<1>2. ASSUME NEW k \in numbers, NEW v \in Patterns PROVE Put(f, k, v) \in Maps(numbers)
  <2>1. Put(f, k, v) \in [S \cup {k} -> Patterns]
    BY <1>1 DEF Put
  <2>2. S \cup {k} \in SUBSET numbers
    BY <1>1, <1>2
  <2> QED
    BY <2>1, <2>2 DEF Maps
<1>3. ASSUME NEW k PROVE Drop(f, k) \in Maps(numbers)
  <2>1. Drop(f, k) \in [S \ {k} -> Patterns]
    BY <1>1 DEF Drop
  <2>2. S \ {k} \in SUBSET numbers
    BY <1>1
  <2> QED
    BY <2>1, <2>2 DEF Maps
<1> QED
  BY <1>2, <1>3

(* Every table can be compiled. *)
LEMMA TablesAreMaps == Maps(1 .. MaxId) \subseteq Maps(0 .. MaxId)
<1>1. 1 .. MaxId \subseteq 0 .. MaxId
  BY FilterAssumption
<1> QED
  BY <1>1 DEF Maps

(* A dropped entry that is put back is as it was; one that was not there   *)
(* is not missed.                                                          *)
LEMMA PutBack ==
    ASSUME NEW numbers, NEW f \in Maps(numbers), NEW k, NEW v
    PROVE  /\ k \in DOMAIN f => Put(Drop(f, k), k, f[k]) = f
           /\ k \notin DOMAIN f => Drop(Put(f, k, v), k) = f
<1>1. PICK S \in SUBSET numbers : f \in [S -> Patterns]
  BY DEF Maps
<1>2. ASSUME k \in DOMAIN f PROVE Put(Drop(f, k), k, f[k]) = f
  <2>1. DOMAIN Drop(f, k) \cup {k} = S
    BY <1>1, <1>2 DEF Drop
  <2>2. \A x \in S : Put(Drop(f, k), k, f[k])[x] = f[x]
    BY <1>1, <2>1 DEF Put, Drop
  <2> QED
    BY <1>1, <2>1, <2>2 DEF Put
<1>3. ASSUME k \notin DOMAIN f PROVE Drop(Put(f, k, v), k) = f
  <2>1. DOMAIN Put(f, k, v) \ {k} = S
    BY <1>1, <1>3 DEF Put
  <2>2. \A x \in S : Drop(Put(f, k, v), k)[x] = f[x]
    BY <1>1, <1>3, <2>1 DEF Put, Drop
  <2> QED
    BY <1>1, <2>1, <2>2 DEF Drop
<1> QED
  BY <1>2, <1>3

-----------------------------------------------------------------------------
LEMMA FilterInitInv == FilterInit => FilterInv
<1> SUFFICES ASSUME FilterInit PROVE FilterInv
  OBVIOUS
<1> USE FilterAssumption
<1>1. regexps \in Maps(1 .. MaxId) /\ compiled \in Maps(0 .. MaxId)
  <2>1. <<>> \in [{} -> Patterns]
    OBVIOUS
  <2> QED
    BY <2>1 DEF FilterInit, Maps
<1>2. FilterTypeOK
  BY <1>1 DEF FilterInit, FilterTypeOK, Idle
<1>3. InStep
  BY DEF FilterInit, InStep
<1>4. HasPattern
  BY DEF FilterInit, HasPattern, Idle
<1> QED
  BY <1>2, <1>3, <1>4 DEF FilterInv

LEMMA AddRegexpInv ==
    ASSUME FilterInv, NEW p \in Requests, NEW pattern \in Patterns, AddRegexp(p, pattern)
    PROVE  FilterInv'
<1> USE FilterAssumption DEF FilterInv
<1>1. PICK id \in 1 .. MaxId :
        /\ NextId(id)
        /\ regexps' = Put(regexps, id, pattern)
        /\ last' = id
        /\ req' = [req EXCEPT ![p] = [pc |-> "compile", id |-> id, pattern |-> pattern]]
  BY DEF AddRegexp
<1>2. FilterTypeOK'
  <2>1. regexps' \in Maps(1 .. MaxId)
    BY <1>1, MapOperations DEF FilterTypeOK
  <2>2. req' \in [Requests -> [pc : {"idle", "compile", "delete"}, id : 0 .. MaxId,
                               pattern : Patterns \cup {NoPattern}]]
    BY <1>1 DEF FilterTypeOK
  <2> QED
    BY <1>1, <2>1, <2>2 DEF FilterTypeOK, AddRegexp
<1>3. HasPattern'
  BY <1>1 DEF HasPattern, FilterTypeOK
<1>4. InStep'
  <2> SUFFICES ASSUME clean' PROVE InStep'
    BY DEF InStep
  <2>1. clean /\ Settled /\ compiled = regexps
    BY DEF AddRegexp, InStep
  <2>2. id \notin DOMAIN regexps
    <3>1. \A x \in DOMAIN regexps : x < id
      BY <1>1 DEF NextId
    <3> QED
      BY <3>1
  <2>3. compiled' = Drop(regexps', id)
    BY <1>1, <2>1, <2>2, PutBack DEF AddRegexp, FilterTypeOK
  <2>4. \A q \in Requests : q # p => req'[q] = Idle
    BY <1>1, <2>1 DEF Settled, FilterTypeOK
  <2>5. req'[p] = [pc |-> "compile", id |-> id, pattern |-> pattern]
    BY <1>1 DEF FilterTypeOK
  <2>6. id \in DOMAIN regexps' /\ regexps'[id] = pattern
    BY <1>1 DEF Put
  <2>7. ~Settled'
    BY <2>5 DEF Settled, Idle
  <2>8. ASSUME NEW q \in Requests, req'[q] # Idle PROVE q = p
    BY <2>4, <2>8
  <2> QED
    BY <2>3, <2>4, <2>5, <2>6, <2>7, <2>8 DEF InStep
<1> QED
  BY <1>2, <1>3, <1>4

LEMMA AddIgnoredInv ==
    ASSUME FilterInv, NEW p \in Requests, NEW pattern \in Patterns, AddIgnored(p, pattern)
    PROVE  FilterInv'
<1> USE FilterAssumption DEF FilterInv, AddIgnored
<1>1. FilterTypeOK'
  BY DEF FilterTypeOK
<1>2. HasPattern'
  BY DEF HasPattern, FilterTypeOK
<1>3. InStep'
  BY DEF InStep
<1> QED
  BY <1>1, <1>2, <1>3

(* Every request back to rest: what is left to show of one that ends.      *)
LEMMA EndOfChange ==
    ASSUME FilterInv, NEW p \in Requests, req[p] # Idle,
           req' = [req EXCEPT ![p] = Idle], clean' = clean,
           clean => compiled' = regexps'
    PROVE  HasPattern' /\ InStep'
<1> USE DEF FilterInv
<1>1. HasPattern'
  BY DEF HasPattern, FilterTypeOK, Idle
<1>2. ASSUME clean PROVE Settled' /\ compiled' = regexps'
  <2>1. \A q \in Requests : q # p => req[q] = Idle
    BY <1>2 DEF InStep
  <2> QED
    BY <1>2, <2>1 DEF Settled, FilterTypeOK
<1>3. InStep'
  BY <1>2 DEF InStep, Settled
<1> QED
  BY <1>1, <1>3

LEMMA AddedInv == ASSUME FilterInv, NEW p \in Requests, Added(p) PROVE FilterInv'
<1> USE FilterAssumption DEF FilterInv
<1>1. req[p] # Idle
  BY DEF Added, Idle
<1>2. compiled' \in Maps(0 .. MaxId)
  BY MapOperations DEF Added, FilterTypeOK, HasPattern
<1>3. FilterTypeOK'
  BY <1>2 DEF FilterTypeOK, Added, Idle
<1>4. ASSUME clean PROVE compiled' = regexps'
  <2>1. /\ compiled = Drop(regexps, req[p].id)
        /\ req[p].id \in DOMAIN regexps
        /\ regexps[req[p].id] = req[p].pattern
    BY <1>1, <1>4 DEF InStep, Added
  <2> QED
    BY <2>1, PutBack DEF Added, FilterTypeOK
<1>5. HasPattern' /\ InStep'
  BY <1>1, <1>4, EndOfChange DEF Added
<1> QED
  BY <1>3, <1>5

LEMMA DeleteRegexpInv ==
    ASSUME FilterInv, NEW p \in Requests, NEW id \in 0 .. MaxId, DeleteRegexp(p, id)
    PROVE  FilterInv'
<1> USE FilterAssumption DEF FilterInv
<1>1. compiled' \in Maps(0 .. MaxId)
  BY MapOperations DEF DeleteRegexp, FilterTypeOK
<1>2. FilterTypeOK'
  BY <1>1 DEF FilterTypeOK, DeleteRegexp
<1>3. HasPattern'
  BY DEF HasPattern, FilterTypeOK, DeleteRegexp
<1>4. InStep'
  <2> SUFFICES ASSUME clean' PROVE InStep'
    BY DEF InStep
  <2>1. Settled /\ compiled = regexps
    BY DEF DeleteRegexp, InStep
  <2>2. /\ req'[p] = [pc |-> "delete", id |-> id, pattern |-> NoPattern]
        /\ \A q \in Requests : q # p => req'[q] = Idle
    BY <2>1 DEF DeleteRegexp, Settled, FilterTypeOK
  <2>3. compiled' = Drop(regexps', id)
    BY <2>1 DEF DeleteRegexp
  <2>4. ~Settled'
    BY <2>2 DEF Settled, Idle
  <2>5. ASSUME NEW q \in Requests, req'[q] # Idle PROVE q = p
    BY <2>2, <2>5
  <2> QED
    BY <2>2, <2>3, <2>4, <2>5 DEF InStep
<1> QED
  BY <1>2, <1>3, <1>4

LEMMA DeletedInv == ASSUME FilterInv, NEW p \in Requests, Deleted(p) PROVE FilterInv'
<1> USE FilterAssumption DEF FilterInv
<1>1. req[p] # Idle
  BY DEF Deleted, Idle
<1>2. regexps' \in Maps(1 .. MaxId)
  BY MapOperations DEF Deleted, FilterTypeOK
<1>3. FilterTypeOK'
  BY <1>2 DEF FilterTypeOK, Deleted, Idle
<1>4. ASSUME clean PROVE compiled' = regexps'
  BY <1>1, <1>4 DEF InStep, Deleted
<1>5. HasPattern' /\ InStep'
  BY <1>1, <1>4, EndOfChange DEF Deleted
<1> QED
  BY <1>3, <1>5

LEMMA DeleteFailsInv == ASSUME FilterInv, NEW p \in Requests, DeleteFails(p) PROVE FilterInv'
<1> USE FilterAssumption DEF FilterInv, DeleteFails
<1>1. FilterTypeOK'
  <2>1. Idle \in [pc : {"idle", "compile", "delete"}, id : 0 .. MaxId,
                  pattern : Patterns \cup {NoPattern}]
    BY DEF Idle
  <2> QED
    BY <2>1 DEF FilterTypeOK
<1>2. HasPattern'
  BY DEF HasPattern, FilterTypeOK, Idle
<1>3. InStep'
  BY DEF InStep
<1> QED
  BY <1>1, <1>2, <1>3

LEMMA RestartInv == ASSUME FilterInv, Restart PROVE FilterInv'
<1> USE FilterAssumption DEF FilterInv, Restart
<1>1. compiled' \in Maps(0 .. MaxId)
  BY TablesAreMaps DEF FilterTypeOK
<1>2. FilterTypeOK'
  BY <1>1 DEF FilterTypeOK, Idle
<1>3. HasPattern'
  BY DEF HasPattern, Idle
<1>4. InStep'
  BY DEF InStep, Settled
<1> QED
  BY <1>2, <1>3, <1>4

LEMMA FilterNextInv == FilterInv /\ [FilterNext]_filterVars => FilterInv'
<1> SUFFICES ASSUME FilterInv, [FilterNext]_filterVars PROVE FilterInv'
  OBVIOUS
<1>1. CASE UNCHANGED filterVars
  BY <1>1 DEF FilterInv, FilterTypeOK, HasPattern, InStep, Settled, filterVars
<1>2. ASSUME NEW id \in 1 .. MaxId, InsertElsewhere(id) PROVE FilterInv'
  BY <1>2, FilterAssumption DEF InsertElsewhere, FilterInv, FilterTypeOK, HasPattern, InStep, Settled
<1> QED
  BY <1>1, <1>2, AddRegexpInv, AddIgnoredInv, AddedInv, DeleteRegexpInv, DeletedInv,
     DeleteFailsInv, RestartInv DEF FilterNext

LEMMA FilterSpecInv == FilterSpec => []FilterInv
BY FilterInitInv, FilterNextInv, PTL DEF FilterSpec

-----------------------------------------------------------------------------
(* Every variable keeps its type, whatever is added, deleted, repeated or  *)
(* fails and whenever the process is restarted.                            *)
THEOREM FilterTypeCorrect == FilterSpec => []FilterTypeOK
<1>1. FilterInv => FilterTypeOK
  BY DEF FilterInv
<1> QED
  BY <1>1, FilterSpecInv, PTL

(* Once clean changes are done, a post is rejected just if it matches a    *)
(* listed pattern.                                                         *)
THEOREM RejectsHolds == FilterSpec => []Rejects
<1>1. FilterInv => Rejects
  BY DEF FilterInv, InStep, Rejects, Passes, InForce, Stored
<1> QED
  BY <1>1, FilterSpecInv, PTL

(* While a clean change is under way, only its own pattern is in doubt.    *)
THEOREM OnlyInDoubtHolds == FilterSpec => []OnlyInDoubt
<1>1. ASSUME FilterInv PROVE OnlyInDoubt
  <2> SUFFICES ASSUME clean, NEW id \in DOMAIN regexps \cup DOMAIN compiled,
                      \A p \in Requests : req[p] # Idle => req[p].id # id
               PROVE  /\ id \in DOMAIN regexps \cap DOMAIN compiled
                      /\ regexps[id] = compiled[id]
    BY DEF OnlyInDoubt
  <2>1. CASE Settled
    BY <1>1, <2>1 DEF FilterInv, InStep
  <2>2. CASE ~Settled
    <3>1. PICK p \in Requests : req[p] # Idle
      BY <2>2 DEF Settled
    <3>2. compiled = Drop(regexps, req[p].id) /\ req[p].id # id
      BY <1>1, <3>1 DEF FilterInv, InStep
    <3> QED
      BY <3>2 DEF Drop
  <2> QED
    BY <2>1, <2>2
<1> QED
  BY <1>1, FilterSpecInv, PTL
=============================================================================
