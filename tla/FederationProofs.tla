-------------------------- MODULE FederationProofs --------------------------
(***************************************************************************)
(* Proofs about Federation for any boards, followers and notes, any number *)
(* of retries, resends and imports, whatever fails and whenever an         *)
(* instance dies.                                                          *)
(***************************************************************************)
EXTENDS Federation, TLAPS

Outs == [type : Types, note : Notes, thread : Numbers, from : Boards, run : Nat]
Sending == [act : Acts, to : Boards, try : 0 .. MaxRetries, flying : BOOLEAN]
Handling == [req : Reqs, post : Posts]
Deleting == [board : Boards, note : Notes, post : Posts, local : BOOLEAN, by : Nat]
Importing == [to : Boards, thread : Notes, id : Numbers, todo : SUBSET Notes,
              saving : Notes \cup {None}, run : Nat]
Writings == [thread : Notes \cup {None}, due : SUBSET Boards]
Fates == Types \X Notes \X Boards

(* n was written in the thread whose number is id somewhere, or opened one. *)
Filed(n, id) == n \in DOMAIN written /\ id \in Numbers /\ written[n].thread = id[1]
Opens(t) == t \in DOMAIN written /\ written[t].thread = None

WrittenOK ==
    /\ \E S \in SUBSET Notes : written \in [S -> Writings]
    /\ \A n \in DOMAIN written : written[n].thread # None => Opens(written[n].thread)

RowsOK ==
    /\ rows = [b \in Boards |-> rows[b]]
    /\ \A b \in Boards : \E S \in SUBSET Notes : rows[b] \in [S -> Rows]
    /\ \A b \in Boards : \A n \in DOMAIN rows[b] :
          Filed(n, rows[b][n].thread) /\ (rows[b][n].local => b = Home[n])

DbOK ==
    /\ followers \in [Boards -> SUBSET Boards]
    /\ copies \in [Boards -> [Notes -> Nat]]
    /\ RowsOK

FormOK(f) ==
    /\ f \in [note : Notes, thread : Numbers]
    /\ f.note \notin DOMAIN written
    /\ f.thread # Zero => Opens(f.thread[1])
FormsOK == \A f \in forms : FormOK(f) /\ \A g \in forms : g.note = f.note => g = f

OutOK(o) ==
    /\ o \in Outs
    /\ o.note \in DOMAIN written /\ o.from = Home[o.note]
    /\ IF o.type = "Create" THEN Filed(o.note, o.thread) ELSE o.thread = Zero
OutsOK == \A o \in outs : OutOK(o)

ActOK(a) ==
    /\ a \in Acts
    /\ a.note \in DOMAIN written /\ a.from = Home[a.note]
    /\ a.type = "Create" => written[a.note].thread = a.thread

SendOK(s) == s \in Sending /\ ActOK(s.act) /\ (s.flying = FALSE => s.try < MaxRetries)
SendsOK == \A s \in sends : SendOK(s)

RequestOK(r) == r \in Reqs /\ ActOK(r.act)
RequestsOK == \A r \in requests : RequestOK(r)

(* A post that was looked up: whether it opens a thread never changes.     *)
PostOK(p, n) == p \in Posts /\ p.id \in Notes \X Nat /\ p.id[1] = n /\ Filed(n, p.thread)

HandlerOK(k) ==
    /\ k \in Handling /\ ActOK(k.req.act)
    /\ IF k.req.act.type = "Create" THEN k.post.thread[1] = k.req.act.thread
       ELSE PostOK(k.post, k.req.act.note)
HandlersOK == \A k \in handlers : HandlerOK(k)

DeletionOK(d) ==
    d \in Deleting /\ PostOK(d.post, d.note) /\ (d.local => d.board = Home[d.note])
DeletionsOK == \A d \in deletions : DeletionOK(d)

(* What was read from an outbox was written that way.                      *)
ImportOK(i) ==
    /\ i \in Importing
    /\ Opens(i.thread)
    /\ \A n \in i.todo : n \in DOMAIN written /\ written[n].thread = i.thread
    /\ i.saving \notin {None, i.thread} =>
           i.id # Zero /\ i.saving \in DOMAIN written /\ written[i.saving].thread = i.thread
    /\ i.saving \notin i.todo
    /\ i.saving = i.thread => i.id = Zero
    /\ i.id # Zero => i.id[1] = i.thread
ImportsOK == \A i \in imports : ImportOK(i)

HistoryOK ==
    /\ resends \in 0 .. MaxResends
    /\ fetches \in 0 .. MaxFetches
    /\ deleted \subseteq DOMAIN written
    /\ acked \subseteq Fates
    /\ lost \subseteq Fates
    /\ once \subseteq Boards \X DOMAIN written
    /\ again \subseteq Boards \X DOMAIN written

Inv ==
    /\ WrittenOK /\ DbOK /\ FormsOK /\ OutsOK /\ SendsOK /\ RequestsOK
    /\ HandlersOK /\ DeletionsOK /\ ImportsOK /\ HistoryOK

-----------------------------------------------------------------------------
(* What was in order stays so when nothing but history is added.           *)

Grows == \A n \in DOMAIN written : n \in DOMAIN written' /\ written'[n] = written[n]

LEMMA NoneFacts == None \notin Notes /\ Zero[1] = None /\ Zero \notin Notes \X Nat
BY FederationAssumption DEF Zero

LEMMA FiledKept ==
    ASSUME Grows, NEW n, NEW id, Filed(n, id)
    PROVE  Filed(n, id)'
BY DEF Grows, Filed, Numbers

LEMMA OpensKept ==
    ASSUME Grows, NEW t, Opens(t)
    PROVE  Opens(t)'
BY DEF Grows, Opens

LEMMA PostKept ==
    ASSUME Grows, NEW p, NEW n, PostOK(p, n)
    PROVE  PostOK(p, n)'
BY FiledKept DEF PostOK, Posts, Numbers

LEMMA OutKept ==
    ASSUME Grows, NEW o, OutOK(o)
    PROVE  OutOK(o)'
BY FiledKept DEF OutOK, Grows, Outs, Numbers

LEMMA ActKept ==
    ASSUME Grows, NEW a, ActOK(a)
    PROVE  ActOK(a)'
BY DEF Grows, ActOK, Acts

LEMMA HandlerKept ==
    ASSUME Grows, NEW k, HandlerOK(k)
    PROVE  HandlerOK(k)'
BY ActKept, PostKept DEF HandlerOK

LEMMA DeletionKept ==
    ASSUME Grows, NEW d, DeletionOK(d)
    PROVE  DeletionOK(d)'
BY PostKept DEF DeletionOK

LEMMA ImportKept ==
    ASSUME Grows, NEW i, ImportOK(i)
    PROVE  ImportOK(i)'
<1>1. Opens(i.thread)'
  BY OpensKept DEF ImportOK
<1> QED
  BY <1>1 DEF Grows, ImportOK

(* New goroutines, requests and calls have to be in order.                 *)
LEMMA Frame ==
    ASSUME Inv, Grows
    PROVE  /\ (\A o \in outs' : o \in outs \/ OutOK(o)') => OutsOK'
           /\ (\A s \in sends' : s \in sends \/ SendOK(s)) => SendsOK'
           /\ (\A r \in requests' : r \in requests \/ RequestOK(r)) => RequestsOK'
           /\ (\A k \in handlers' : k \in handlers \/ HandlerOK(k)) => HandlersOK'
           /\ (\A d \in deletions' : d \in deletions \/ DeletionOK(d)) => DeletionsOK'
           /\ (\A i \in imports' : i \in imports \/ ImportOK(i)) => ImportsOK'
<1>1. (\A o \in outs' : o \in outs \/ OutOK(o)') => OutsOK'
  BY OutKept DEF Inv, OutsOK
<1>2. (\A s \in sends' : s \in sends \/ SendOK(s)) => SendsOK'
  BY ActKept DEF Inv, SendsOK, SendOK
<1>3. (\A r \in requests' : r \in requests \/ RequestOK(r)) => RequestsOK'
  BY ActKept DEF Inv, RequestsOK, RequestOK
<1>4. (\A k \in handlers' : k \in handlers \/ HandlerOK(k)) => HandlersOK'
  BY HandlerKept DEF Inv, HandlersOK
<1>5. (\A d \in deletions' : d \in deletions \/ DeletionOK(d)) => DeletionsOK'
  BY DeletionKept DEF Inv, DeletionsOK
<1>6. (\A i \in imports' : i \in imports \/ ImportOK(i)) => ImportsOK'
  BY ImportKept DEF Inv, ImportsOK
<1> QED
  BY <1>1, <1>2, <1>3, <1>4, <1>5, <1>6

(* A step that leaves alone what was written.                              *)
LEMMA SameWritten ==
    ASSUME Inv, UNCHANGED written
    PROVE  /\ Grows /\ WrittenOK'
           /\ UNCHANGED db => DbOK'
           /\ (\A f \in forms' : f \in forms) => FormsOK'
<1>1. Grows /\ WrittenOK'
  BY DEF Grows, Inv, WrittenOK, Opens
<1>2. UNCHANGED db => DbOK'
  BY DEF Inv, DbOK, RowsOK, Filed, db
<1>3. (\A f \in forms' : f \in forms) => FormsOK'
  BY DEF Inv, FormsOK, FormOK, Opens
<1> QED
  BY <1>1, <1>2, <1>3

-----------------------------------------------------------------------------
(* Rows *)

LEMMA RowsFacts ==
    ASSUME RowsOK, NEW b \in Boards
    PROVE  /\ DOMAIN rows[b] \subseteq Notes
           /\ rows[b] \in [DOMAIN rows[b] -> Rows]
           /\ OPs(b) \subseteq DOMAIN rows[b]
           /\ \A n \in DOMAIN rows[b] :
                 /\ rows[b][n].thread \in Numbers /\ rows[b][n].local \in BOOLEAN
                 /\ Filed(n, rows[b][n].thread) /\ n \in DOMAIN written
                 /\ rows[b][n].local => b = Home[n]
<1>1. PICK S \in SUBSET Notes : rows[b] \in [S -> Rows]
  BY DEF RowsOK
<1>2. DOMAIN rows[b] = S
  BY <1>1
<1>3. \A n \in DOMAIN rows[b] : Filed(n, rows[b][n].thread) /\ (rows[b][n].local => b = Home[n])
  BY DEF RowsOK
<1> QED
  BY <1>1, <1>2, <1>3 DEF Rows, OPs, Filed

LEMMA WrittenFacts ==
    ASSUME WrittenOK
    PROVE  /\ DOMAIN written \subseteq Notes
           /\ \A n \in DOMAIN written :
                 /\ written[n] \in Writings
                 /\ written[n].due \subseteq Boards
                 /\ written[n].thread \in Notes \cup {None}
<1>1. PICK S \in SUBSET Notes : written \in [S -> Writings]
  BY DEF WrittenOK
<1> QED
  BY <1>1 DEF Writings

LEMMA OpeningPosts ==
    ASSUME DbOK, NEW b \in Boards, NEW t \in OPs(b)
    PROVE  t \in Notes /\ Opens(t) /\ Number(b, t) \in Notes \X Nat /\ Number(b, t)[1] = t
<1>1. t \in DOMAIN rows[b] /\ rows[b][t].thread = Zero
  BY DEF OPs
<1>2. t \in Notes /\ Filed(t, Zero)
  BY <1>1, RowsFacts DEF DbOK
<1> QED
  BY <1>2, NoneFacts DEF DbOK, Number, Filed, Opens

(* Board b's rows become R.                                                *)
LEMMA RowsStep ==
    ASSUME RowsOK, Grows, NEW b \in Boards, NEW R, NEW S \in SUBSET Notes, R \in [S -> Rows],
           rows' = [rows EXCEPT ![b] = R],
           \A n \in S : /\ n \in DOMAIN written' /\ written'[n].thread = R[n].thread[1]
                        /\ R[n].local => b = Home[n]
    PROVE  RowsOK'
<1>1. rows'[b] = R /\ \A c \in Boards : c # b => rows'[c] = rows[c]
  BY DEF RowsOK
<1>2. rows' = [c \in Boards |-> rows'[c]]
  BY DEF RowsOK
<1>3. ASSUME NEW c \in Boards
      PROVE  /\ \E T \in SUBSET Notes : rows'[c] \in [T -> Rows]
             /\ \A n \in DOMAIN rows'[c] :
                   /\ n \in DOMAIN written' /\ rows'[c][n].thread \in Numbers
                   /\ written'[n].thread = rows'[c][n].thread[1]
                   /\ rows'[c][n].local => c = Home[n]
  <2>1. CASE c = b
    BY <1>1, <2>1 DEF Rows
  <2>2. CASE c # b
    <3>1. rows'[c] = rows[c] /\ \E T \in SUBSET Notes : rows[c] \in [T -> Rows]
      BY <1>1, <2>2 DEF RowsOK
    <3>2. \A n \in DOMAIN rows[c] : Filed(n, rows[c][n].thread) /\ (rows[c][n].local => c = Home[n])
      BY DEF RowsOK
    <3> QED
      BY <3>1, <3>2 DEF Filed, Grows
  <2> QED
    BY <2>1, <2>2
<1>4. (\A c \in Boards : \E T \in SUBSET Notes : rows[c] \in [T -> Rows])'
  BY <1>3
<1>5. (\A c \in Boards : \A n \in DOMAIN rows[c] :
          Filed(n, rows[c][n].thread) /\ (rows[c][n].local => c = Home[n]))'
  BY <1>3 DEF Filed
<1> QED
  BY <1>2, <1>4, <1>5 DEF RowsOK

LEMMA InsertKeeps ==
    ASSUME DbOK, Grows, NEW b \in Boards, NEW n \in Notes, NEW t \in Numbers,
           NEW l \in BOOLEAN, Insert(b, n, t, l),
           n \in DOMAIN written', written'[n].thread = t[1], l => b = Home[n]
    PROVE  DbOK'
<1> DEFINE R == Put(rows[b], n, [thread |-> t, local |-> l])
           S == DOMAIN rows[b] \cup {n}
<1>1. rows' = [rows EXCEPT ![b] = R]
  BY DEF Insert
<1>2. /\ R[n] = [thread |-> t, local |-> l]
      /\ \A m \in DOMAIN rows[b] : m # n /\ R[m] = rows[b][m]
      /\ DOMAIN R = S
  BY DEF Put, Insert, Has
<1>3. S \in SUBSET Notes /\ R \in [S -> Rows]
  BY RowsFacts DEF DbOK, Put, Rows
<1> HIDE DEF R
<1>4. ASSUME NEW m \in S
      PROVE  /\ m \in DOMAIN written' /\ written'[m].thread = R[m].thread[1]
             /\ R[m].local => b = Home[m]
  <2>1. CASE m = n
    BY <1>2, <2>1
  <2>2. CASE m \in DOMAIN rows[b]
    <3>1. Filed(m, rows[b][m].thread) /\ (rows[b][m].local => b = Home[m])
      BY <2>2, RowsFacts DEF DbOK
    <3> QED
      BY <1>2, <2>2, <3>1 DEF Filed, Grows
  <2> QED
    BY <2>1, <2>2
<1>5. RowsOK'
  BY <1>1, <1>3, <1>4, RowsStep DEF DbOK
<1>6. copies' \in [Boards -> [Notes -> Nat]] /\ UNCHANGED followers
  BY DEF Insert, DbOK
<1> QED
  BY <1>5, <1>6 DEF DbOK

LEMMA RemoveKeeps ==
    ASSUME DbOK, Grows, NEW b \in Boards, NEW p, Remove(b, p)
    PROVE  DbOK'
<1> DEFINE R == Drop(rows[b], Under(b, p))
           S == DOMAIN rows[b] \ Under(b, p)
<1>1. rows' = [rows EXCEPT ![b] = R]
  BY DEF Remove
<1>2. \A m \in S : R[m] = rows[b][m]
  BY DEF Drop
<1>3. S \in SUBSET Notes /\ R \in [S -> Rows]
  BY RowsFacts DEF DbOK, Drop
<1> HIDE DEF R
<1>4. ASSUME NEW m \in S
      PROVE  /\ m \in DOMAIN written' /\ written'[m].thread = R[m].thread[1]
             /\ R[m].local => b = Home[m]
  <2>1. Filed(m, rows[b][m].thread) /\ (rows[b][m].local => b = Home[m])
    BY RowsFacts DEF DbOK
  <2> QED
    BY <1>2, <2>1 DEF Filed, Grows
<1>5. RowsOK'
  BY <1>1, <1>3, <1>4, RowsStep DEF DbOK
<1> QED
  BY <1>5 DEF DbOK, Remove

-----------------------------------------------------------------------------
(* Deliveries *)

LEMMA RetryFacts ==
    ASSUME NEW s, SendOK(s), NEW x \in Retry(s)
    PROVE  SendOK(x) /\ x.act = s.act /\ x.to = s.to /\ ~x.flying
<1>1. s \in Sending /\ ActOK(s.act)
  BY DEF SendOK
<1>2. x = [s EXCEPT !.flying = FALSE] /\ s.try < MaxRetries
  BY DEF Retry
<1>3. x \in Sending /\ x.act = s.act /\ x.try < MaxRetries /\ x.to = s.to /\ ~x.flying
  BY <1>1, <1>2 DEF Sending
<1> QED
  BY <1>1, <1>3 DEF SendOK

LEMMA FateFacts ==
    ASSUME NEW s, SendOK(s)
    PROVE  Fate(s) \in Fates
<1>1. s \in Sending
  BY DEF SendOK
<1> QED
  BY <1>1 DEF Fate, Sending, Acts, Fates

LEMMA FailsKeeps ==
    ASSUME Inv, Grows, NEW S \in SUBSET sends, Fails(S)
    PROVE  SendsOK' /\ acked' \subseteq Fates /\ lost' \subseteq Fates
<1>1. ASSUME NEW x \in sends' PROVE SendOK(x)
  <2>1. x \in sends \/ \E s \in S : x \in Retry(s)
    BY <1>1 DEF Fails
  <2>2. CASE x \in sends
    BY <2>2 DEF Inv, SendsOK
  <2>3. CASE \E s \in S : x \in Retry(s)
    BY <2>3, RetryFacts DEF Inv, SendsOK
  <2> QED
    BY <2>1, <2>2, <2>3
<1>2. \A s \in S : Fate(s) \in Fates
  BY FateFacts DEF Inv, SendsOK
<1> QED
  BY <1>1, <1>2, Frame DEF Fails, Inv, HistoryOK

LEMMA SucceedsKeeps ==
    ASSUME Inv, Grows, NEW S \in SUBSET sends, Succeeds(S)
    PROVE  SendsOK' /\ acked' \subseteq Fates /\ lost' \subseteq Fates
<1>1. \A s \in S : Fate(s) \in Fates
  BY FateFacts DEF Inv, SendsOK
<1> QED
  BY <1>1, Frame DEF Succeeds, Inv, HistoryOK

LEMMA WaitingFacts == ASSUME NEW r PROVE Waiting(r) \in SUBSET sends
BY DEF Waiting

LEMMA TargetFacts ==
    ASSUME NEW a \in Acts, NEW to \in Boards
    PROVE  Target(a, to) \in Boards /\ Host[Target(a, to)] = Host[to]
<1> DEFINE here == {b \in a.all : Host[b] = Host[to]}
<1>1. here \in SUBSET Boards
  BY DEF Acts
<1>2. CASE a.type = "Create" /\ here # {}
  <2>1. First[here] \in here
    BY <1>1, <1>2, FederationAssumption
  <2> QED
    BY <1>1, <1>2, <2>1 DEF Target
<1>3. CASE ~(a.type = "Create" /\ here # {})
  BY <1>3 DEF Target
<1> QED
  BY <1>2, <1>3

LEMMA ActivityFacts ==
    ASSUME Inv, NEW o \in outs, o.thread = Zero \/ Stands(o.from, o.thread)
    PROVE  /\ ActOK(Activity(o))
           /\ Audience(Activity(o)) \subseteq Boards
           /\ Activity(o).all = followers[o.from]
           /\ Activity(o).type = o.type /\ Activity(o).note = o.note
<1>1. o \in Outs /\ OutOK(o)
  BY DEF Inv, OutsOK, OutOK
<1>2. followers[o.from] \in SUBSET Boards
  BY <1>1 DEF Outs, Inv, DbOK
<1>3. o.thread[1] \in Notes \cup {None}
  BY <1>1 DEF Outs, Numbers, Zero
<1>4. Owner(o) \in SUBSET Boards
  <2>1. o.thread # Zero => o.thread[1] \in Notes
    BY <1>1 DEF Outs, Numbers
  <2> QED
    BY <2>1, FederationAssumption DEF Owner
<1>5. Activity(o) \in Acts
  BY <1>1, <1>2, <1>3, <1>4 DEF Activity, Acts, Outs
<1>6. ActOK(Activity(o))
  BY <1>1, <1>5 DEF ActOK, Activity, OutOK, Filed
<1> QED
  BY <1>2, <1>4, <1>6 DEF Activity, Audience

-----------------------------------------------------------------------------
(* The steps *)

LEMMA InvInit == ASSUME Init PROVE Inv
<1>1. written \in [{} -> Writings] /\ DOMAIN written = {}
  BY DEF Init
<1>2. rows = [b \in Boards |-> rows[b]] /\ \A b \in Boards : rows[b] = <<>>
  BY DEF Init
<1>3. <<>> \in [{} -> Rows] /\ DOMAIN <<>> = {}
  OBVIOUS
<1>4. RowsOK
  BY <1>2, <1>3 DEF RowsOK
<1>5. WrittenOK
  BY <1>1 DEF WrittenOK
<1>6. DbOK
  BY <1>4, FederationAssumption DEF DbOK, Init
<1> QED
  BY <1>5, <1>6, FederationAssumption
  DEF Init, Inv, FormsOK, OutsOK, SendsOK, RequestsOK, HandlersOK, DeletionsOK, ImportsOK, HistoryOK

LEMMA FollowKeeps ==
    ASSUME Inv, NEW b \in Boards, NEW f \in Boards, FollowArrives(b, f)
    PROVE  Inv'
<1>1. UNCHANGED <<rows, copies, forms, outs, net, staff, written, deleted, fates, ways>>
  BY DEF FollowArrives
<1>2. DbOK'
  BY <1>1 DEF FollowArrives, Inv, DbOK, RowsOK, Filed
<1> QED
  BY <1>1, <1>2, SameWritten, Frame DEF Inv, HistoryOK, net, staff, fates, ways

LEMMA PostArrivesKeeps ==
    ASSUME Inv, NEW n \in Notes, PostArrives(n)
    PROVE  Inv'
<1>1. /\ UNCHANGED <<db, outs, net, staff, written, deleted, fates, ways>>
      /\ n \notin DOMAIN written /\ \A f \in forms : f.note # n
  BY DEF PostArrives
<1>2. PICK t \in IF n \in Threads THEN {Zero} ELSE {Number(Home[n], m) : m \in OPs(Home[n])} :
        forms' = forms \cup {[note |-> n, thread |-> t]}
  BY DEF PostArrives
<1> DEFINE f == [note |-> n, thread |-> t]
<1>3. t = Zero \/ (t \in Notes \X Nat /\ Opens(t[1]))
  BY <1>2, OpeningPosts, FederationAssumption DEF Inv
<1>4. FormOK(f)
  BY <1>1, <1>3 DEF FormOK, Numbers
<1>5. FormsOK'
  BY <1>1, <1>2, <1>4 DEF Inv, FormsOK, FormOK, Opens
<1> QED
  BY <1>1, <1>5, SameWritten, Frame DEF Inv, HistoryOK, net, staff, fates, ways

LEMMA PostSavedKeeps ==
    ASSUME Inv, NEW f \in forms, PostSaved(f)
    PROVE  Inv'
<1> DEFINE n == f.note
           b == Home[n]
           w == [thread |-> f.thread[1], due |-> followers[b]]
           o == Out("Create", n, f.thread, b, 0)
<1>1. /\ n \in Notes /\ f.thread \in Numbers /\ n \notin DOMAIN written /\ b \in Boards
      /\ f.thread # Zero => Opens(f.thread[1])
      /\ \A g \in forms : g.note = n => g = f
  BY FederationAssumption DEF Inv, FormsOK, FormOK
<1>2. /\ forms' = forms \ {f} /\ Insert(b, n, f.thread, TRUE)
      /\ written' = Put(written, n, w) /\ outs' = outs \cup {o}
      /\ once' = once \cup {<<b, n>>} /\ again' = again \cup ({<<b, n>>} \cap once)
      /\ UNCHANGED <<net, staff, deleted, fates>>
  BY DEF PostSaved, Bring
<1>3. /\ DOMAIN written' = DOMAIN written \cup {n} /\ written'[n] = w
      /\ \A m \in DOMAIN written : written'[m] = written[m]
  BY <1>1, <1>2 DEF Put
<1>4. Grows
  BY <1>3 DEF Grows
<1>5. w \in Writings
  BY <1>1, NoneFacts DEF Writings, Inv, DbOK, Numbers
<1>6. WrittenOK'
  <2>1. PICK S \in SUBSET Notes : written \in [S -> Writings]
    BY DEF Inv, WrittenOK
  <2>2. written' \in [S \cup {n} -> Writings] /\ S \cup {n} \in SUBSET Notes
    BY <1>1, <1>2, <1>5, <2>1 DEF Put
  <2>3. w.thread # None => Opens(w.thread)'
    BY <1>1, <1>4, OpensKept, NoneFacts
  <2>4. ASSUME NEW m \in DOMAIN written', written'[m].thread # None
        PROVE  Opens(written[m].thread)'
    <3>1. CASE m = n
      BY <1>3, <2>3, <2>4, <3>1 DEF Opens
    <3>2. CASE m \in DOMAIN written
      BY <1>3, <2>4, <3>2 DEF Opens, Inv, WrittenOK
    <3> QED
      BY <1>3, <3>1, <3>2
  <2> QED
    BY <2>2, <2>4 DEF WrittenOK
<1>7. DbOK'
  <2>1. DbOK /\ n \in DOMAIN written' /\ written'[n].thread = f.thread[1]
    BY <1>3 DEF Inv
  <2>2. TRUE \in BOOLEAN /\ (TRUE => b = Home[n])
    OBVIOUS
  <2> HIDE DEF n, b, w, o
  <2> QED
    BY <1>1, <1>2, <1>4, <2>1, <2>2, InsertKeeps
<1>8. OutOK(o)'
  <2>1. o \in Outs
    BY <1>1 DEF Out, Outs, Types
  <2> QED
    BY <1>1, <1>3, <2>1 DEF Out, OutOK, Filed, Outs, Numbers
<1>9. FormsOK'
  <2>1. ASSUME NEW g \in forms'
        PROVE  FormOK(g)' /\ \A h \in forms' : h.note = g.note => h = g
    <3>1. g \in forms /\ g.note # n
      BY <1>1, <1>2, <2>1
    <3>2. FormOK(g)
      BY <3>1 DEF Inv, FormsOK
    <3>3. g.thread # Zero => Opens(g.thread[1])'
      BY <1>4, <3>2, OpensKept DEF FormOK
    <3> QED
      BY <1>2, <1>3, <3>1, <3>2, <3>3 DEF FormOK, Inv, FormsOK
  <2> QED
    BY <2>1 DEF FormsOK
<1>10. HistoryOK'
  BY <1>1, <1>2, <1>3 DEF Inv, HistoryOK, staff, fates
<1> HIDE DEF o
<1> QED
  BY <1>2, <1>4, <1>6, <1>7, <1>8, <1>9, <1>10, Frame DEF Inv, net, staff

LEMMA SendActivityKeeps ==
    ASSUME Inv, NEW o \in outs, SendActivity(o)
    PROVE  Inv'
<1> DEFINE a == Activity(o)
<1>1. /\ UNCHANGED <<db, forms, requests, handlers, staff, written, deleted, fates>>
      /\ outs' = outs \ {o}
  BY DEF SendActivity
<1>2. CASE ~(o.thread = Zero \/ Stands(o.from, o.thread))
  <2>1. UNCHANGED <<sends, ways>>
    BY <1>2 DEF SendActivity
  <2> QED
    BY <1>1, <2>1, SameWritten, Frame DEF Inv, HistoryOK, net, staff, fates, ways
<1>3. CASE o.thread = Zero \/ Stands(o.from, o.thread)
  <2>1. ActOK(a) /\ Audience(a) \subseteq Boards
    BY <1>3, ActivityFacts
  <2>2. sends' = sends \cup {[act |-> a, to |-> b, try |-> 0, flying |-> FALSE] : b \in Audience(a)}
    BY <1>3 DEF SendActivity
  <2>3. once' \subseteq once \cup Brought(a) /\ again' \subseteq again \cup Brought(a)
    BY <1>3 DEF SendActivity, ways, Brought, Twice
  <2> HIDE DEF a
  <2>4. ASSUME NEW b \in Audience(a)
        PROVE  SendOK([act |-> a, to |-> b, try |-> 0, flying |-> FALSE])
    BY <2>1, FederationAssumption DEF SendOK, Sending, ActOK
  <2>5. \A s \in sends' : s \in sends \/ SendOK(s)
    BY <2>2, <2>4
  <2>6. Brought(a) \subseteq Boards \X DOMAIN written
    BY <2>1, TargetFacts DEF Brought, ActOK
  <2>7. HistoryOK'
    BY <1>1, <2>3, <2>6 DEF Inv, HistoryOK, staff, fates
  <2> QED
    BY <1>1, <2>5, <2>7, SameWritten, Frame DEF Inv, net, staff
<1> QED
  BY <1>2, <1>3

LEMMA AttemptKeeps ==
    ASSUME Inv, NEW s \in sends, Attempt(s)
    PROVE  Inv'
<1> DEFINE next == [s EXCEPT !.try = @ + 1, !.flying = TRUE]
<1>1. /\ UNCHANGED <<db, forms, outs, handlers, staff, written, deleted, fates, ways>>
      /\ sends' = (sends \ {s}) \cup {next}
      /\ requests' = requests \cup {Request(next)}
  BY DEF Attempt
<1>2. s \in Sending /\ ActOK(s.act) /\ s.try < MaxRetries
  BY DEF Inv, SendsOK, SendOK, Attempt, Sending
<1>3. s.try + 1 \in 1 .. MaxRetries /\ s.try + 1 \in 0 .. MaxRetries
  BY <1>2, FederationAssumption DEF Sending
<1>4. /\ next \in Sending /\ next.act = s.act /\ next.flying /\ next.to = s.to
      /\ next.try \in 1 .. MaxRetries
  BY <1>2, <1>3 DEF Sending
<1> HIDE DEF next
<1>5. RequestOK(Request(next)) /\ SendOK(next)
  BY <1>2, <1>4 DEF RequestOK, Request, Reqs, SendOK, Sending, ActOK
<1> QED
  BY <1>1, <1>5, SameWritten, Frame DEF Inv, HistoryOK, net, staff, fates, ways

LEMMA FindKeeps ==
    ASSUME Inv, NEW r \in requests, NEW p, Find(r, p), HandlerOK([req |-> r, post |-> p])
    PROVE  Inv'
<1>1. /\ UNCHANGED <<db, forms, outs, sends, staff, written, deleted, fates, ways>>
      /\ requests' = requests \ {r}
      /\ handlers' = handlers \cup {[req |-> r, post |-> p]}
  BY DEF Find
<1> QED
  BY <1>1, SameWritten, Frame DEF Inv, HistoryOK, net, staff, fates, ways

LEMMA RefuseKeeps ==
    ASSUME Inv, NEW r \in requests, Refuse(r)
    PROVE  Inv'
<1>1. /\ UNCHANGED <<db, forms, outs, handlers, staff, written, deleted, ways>>
      /\ requests' = requests \ {r} /\ Fails(Waiting(r))
  BY DEF Refuse
<1>2. SendsOK' /\ acked' \subseteq Fates /\ lost' \subseteq Fates
  BY <1>1, SameWritten, FailsKeeps, WaitingFacts
<1> QED
  BY <1>1, <1>2, SameWritten, Frame DEF Inv, HistoryOK, staff, ways

LEMMA InboxKeeps ==
    ASSUME Inv, NEW r \in requests,
           CreateFound(r) \/ CreateRefused(r) \/ DeleteFound(r) \/ DeleteRefused(r)
    PROVE  Inv'
<1> DEFINE b == Target(r.act, r.to)
           t == r.act.thread
<1>1. r \in Reqs /\ ActOK(r.act) /\ r.act \in Acts /\ r.to \in Boards /\ b \in Boards
  BY TargetFacts DEF Inv, RequestsOK, RequestOK, Reqs
<1>2. CASE CreateFound(r)
  <2> DEFINE p == [id |-> Zero, thread |-> IF t = None THEN Zero ELSE Number(b, t)]
  <2>1. t \in {None} \cup OPs(b) /\ r.act.type = "Create" /\ Find(r, p)
    BY <1>2 DEF CreateFound
  <2>2. t # None => t \in Notes /\ Number(b, t) \in Notes \X Nat /\ Number(b, t)[1] = t
    BY <1>1, <2>1, OpeningPosts DEF Inv
  <2>3. p \in Posts /\ p.thread[1] = t
    BY <2>2, NoneFacts DEF Posts, Numbers
  <2> HIDE DEF p
  <2>4. HandlerOK([req |-> r, post |-> p])
    BY <1>1, <2>1, <2>3 DEF HandlerOK, Handling
  <2> QED
    BY <2>1, <2>4, FindKeeps
<1>3. CASE DeleteFound(r)
  <2> DEFINE p == Post(r.to, r.act.note)
             n == r.act.note
  <2>1. n \in DOMAIN rows[r.to] /\ r.act.type = "Delete" /\ Find(r, p)
    BY <1>3 DEF DeleteFound, Has
  <2>2. n \in Notes /\ Filed(n, rows[r.to][n].thread) /\ copies[r.to][n] \in Nat
    BY <1>1, <2>1, RowsFacts DEF Inv, DbOK, Acts
  <2>3. PostOK(p, n)
    BY <2>2 DEF PostOK, Post, Posts, Number, Numbers, Filed
  <2> HIDE DEF p
  <2>4. HandlerOK([req |-> r, post |-> p])
    BY <1>1, <2>1, <2>3 DEF HandlerOK, Handling, PostOK
  <2> QED
    BY <2>1, <2>4, FindKeeps
<1>4. CASE CreateRefused(r) \/ DeleteRefused(r)
  BY <1>4, RefuseKeeps DEF CreateRefused, DeleteRefused
<1> QED
  BY <1>2, <1>3, <1>4

(* A handler ends, in an answer that is a 200 or is not.                   *)
LEMMA EndKeeps ==
    ASSUME Inv, NEW k \in handlers, handlers' = handlers \ {k},
           Succeeds(Waiting(k.req)) \/ Fails(Waiting(k.req)), DbOK',
           UNCHANGED <<forms, outs, requests, staff, written, deleted, ways>>
    PROVE  Inv'
<1>1. SendsOK' /\ acked' \subseteq Fates /\ lost' \subseteq Fates
  BY SameWritten, FailsKeeps, SucceedsKeeps, WaitingFacts
<1> QED
  BY <1>1, SameWritten, Frame DEF Inv, HistoryOK, staff, ways

LEMMA HandlerFacts ==
    ASSUME Inv, NEW k \in handlers
    PROVE  /\ k.req \in Reqs /\ ActOK(k.req.act) /\ k.req.to \in Boards /\ k.post \in Posts
           /\ k.req.act.note \in Notes /\ k.req.act.note \in DOMAIN written
           /\ Target(k.req.act, k.req.to) \in Boards
           /\ HandlerOK(k)
<1>1. HandlerOK(k)
  BY DEF Inv, HandlersOK
<1>2. k.req \in Reqs /\ k.post \in Posts /\ ActOK(k.req.act)
  BY <1>1 DEF HandlerOK, Handling
<1>3. k.req.to \in Boards /\ k.req.act \in Acts /\ k.req.act.note \in Notes
  BY <1>2 DEF Reqs, Acts
<1> QED
  BY <1>1, <1>2, <1>3, TargetFacts DEF ActOK

LEMMA HandleKeeps ==
    ASSUME Inv, NEW k \in handlers,
           CreateSaved(k) \/ SaveRefused(k) \/ DeleteDone(k) \/ DeleteFails(k)
    PROVE  Inv'
<1> DEFINE r == k.req
           b == Target(r.act, r.to)
<1>1. CASE CreateSaved(k)
  <2>1. /\ Insert(b, r.act.note, k.post.thread, FALSE) /\ UNCHANGED written
        /\ r.act.type = "Create"
    BY <1>1 DEF CreateSaved
  <2>2. k.post.thread \in Numbers /\ written[r.act.note].thread = k.post.thread[1]
    BY <2>1, HandlerFacts DEF HandlerOK, ActOK, Posts
  <2>3. DbOK'
    BY <2>1, <2>2, HandlerFacts, SameWritten, InsertKeeps DEF Inv
  <2> QED
    BY <1>1, <2>3, EndKeeps DEF CreateSaved
<1>2. CASE SaveRefused(k) \/ DeleteFails(k)
  <2>1. UNCHANGED written /\ UNCHANGED db
    BY <1>2 DEF SaveRefused, DeleteFails
  <2> QED
    BY <1>2, <2>1, SameWritten, EndKeeps DEF SaveRefused, DeleteFails
<1>3. CASE DeleteDone(k)
  <2>1. UNCHANGED written /\ Remove(r.to, k.post)
    BY <1>3 DEF DeleteDone
  <2>2. DbOK'
    BY <2>1, HandlerFacts, SameWritten, RemoveKeeps DEF Inv
  <2> QED
    BY <1>3, <2>2, EndKeeps DEF DeleteDone
<1> QED
  BY <1>1, <1>2, <1>3

LEMMA DeleteArrivesKeeps ==
    ASSUME Inv, NEW b \in Boards, NEW n \in DOMAIN rows[b], NEW m \in Moderators[b],
           DeleteArrives(b, n, m)
    PROVE  Inv'
<1> DEFINE d == [board |-> b, note |-> n, post |-> Post(b, n),
                 local |-> rows[b][n].local, by |-> m]
<1>1. /\ UNCHANGED <<db, forms, outs, net, imports, resends, fetches, written, deleted, fates, ways>>
      /\ deletions' = deletions \cup {d}
  BY DEF DeleteArrives
<1>2. /\ n \in Notes /\ Filed(n, rows[b][n].thread) /\ rows[b][n].local \in BOOLEAN
      /\ rows[b][n].local => b = Home[n]
  BY RowsFacts DEF Inv, DbOK
<1>3. m \in Nat /\ copies[b][n] \in Nat
  BY <1>2, FederationAssumption DEF Inv, DbOK
<1>4. PostOK(Post(b, n), n)
  BY <1>2, <1>3 DEF PostOK, Post, Posts, Number, Numbers, Filed
<1>5. DeletionOK(d)
  BY <1>2, <1>3, <1>4 DEF DeletionOK, Deleting, PostOK
<1> HIDE DEF d
<1> QED
  BY <1>1, <1>5, SameWritten, Frame DEF Inv, HistoryOK, net, fates, ways

LEMMA DeletesKeeps ==
    ASSUME Inv, NEW d \in deletions, Deletes(d)
    PROVE  Inv'
<1> DEFINE o == Out("Delete", d.note, Zero, d.board, d.by)
<1>1. /\ UNCHANGED <<forms, net, imports, resends, fetches, written, fates, ways>>
      /\ deletions' = deletions \ {d} /\ Remove(d.board, d.post)
  BY DEF Deletes
<1>2. /\ d \in Deleting /\ d.board \in Boards /\ d.note \in Notes /\ d.note \in DOMAIN written
      /\ d.local => d.board = Home[d.note]
  BY DEF Inv, DeletionsOK, DeletionOK, Deleting, PostOK, Filed
<1>3. DbOK'
  BY <1>1, <1>2, SameWritten, RemoveKeeps DEF Inv
<1>4. d.local => OutOK(o)
  <2>1. o \in Outs
    BY <1>2 DEF Out, Outs, Types, Numbers, Deleting
  <2> QED
    BY <1>2, <2>1 DEF OutOK, Out
<1>5. /\ \A x \in outs' : x \in outs \/ (d.local /\ x = o)
      /\ deleted' \subseteq deleted \cup {d.note}
  BY DEF Deletes
<1> HIDE DEF o
<1>6. \A x \in outs' : x \in outs \/ OutOK(x)'
  BY <1>1, <1>4, <1>5, SameWritten, OutKept
<1> QED
  BY <1>1, <1>2, <1>3, <1>5, <1>6, SameWritten, Frame DEF Inv, HistoryOK, net, fates, ways

LEMMA ResendKeeps ==
    ASSUME Inv, NEW b \in Boards, NEW n \in DOMAIN rows[b], Resend(b, n)
    PROVE  Inv'
<1> DEFINE o == Out("Create", n, rows[b][n].thread, b, resends + 1)
<1>1. /\ UNCHANGED <<db, forms, net, deletions, imports, fetches, written, deleted, fates, ways>>
      /\ outs' = outs \cup {o} /\ resends' = resends + 1 /\ resends < MaxResends
      /\ rows[b][n].local
  BY DEF Resend
<1>2. resends + 1 \in 0 .. MaxResends /\ resends + 1 \in Nat
  BY <1>1, FederationAssumption DEF Inv, HistoryOK
<1>3. /\ n \in Notes /\ Filed(n, rows[b][n].thread) /\ n \in DOMAIN written
      /\ rows[b][n].thread \in Numbers /\ b = Home[n]
  BY <1>1, RowsFacts DEF Inv, DbOK
<1>4. OutOK(o)
  <2>1. o \in Outs
    BY <1>2, <1>3 DEF Out, Outs, Types
  <2> QED
    BY <1>3, <2>1 DEF OutOK, Out
<1> HIDE DEF o
<1>5. \A x \in outs' : x \in outs \/ OutOK(x)
  BY <1>1, <1>4
<1>6. \A x \in outs' : x \in outs \/ OutOK(x)'
  BY <1>1, <1>5, SameWritten, OutKept
<1> QED
  BY <1>1, <1>2, <1>6, SameWritten, Frame DEF Inv, HistoryOK, net, fates, ways

LEMMA FetchKeeps ==
    ASSUME Inv, NEW b \in Boards, NEW c \in Boards, NEW t \in OPs(c), Fetch(b, c, t)
    PROVE  Inv'
<1> DEFINE found == RepliesIn(c, t)
           i == [to |-> b, thread |-> t, id |-> Zero, todo |-> found,
                 saving |-> None, run |-> fetches]
           S == {<<b, n>> : n \in found \cup {t}}
<1>1. /\ UNCHANGED <<db, forms, outs, net, deletions, resends, written, deleted, fates>>
      /\ imports' = imports \cup {i} /\ fetches' = fetches + 1 /\ fetches < MaxFetches
      /\ once' = once \cup S /\ again' = again \cup (S \cap once)
  BY DEF Fetch, Bring
<1>2. t \in Notes /\ Opens(t) /\ Number(c, t)[1] = t
  BY OpeningPosts DEF Inv
<1>3. \A n \in found : n \in Notes /\ n \in DOMAIN written /\ written[n].thread = t
  BY <1>2, RowsFacts DEF RepliesIn, Inv, DbOK, Filed
<1>4. fetches \in Nat /\ fetches + 1 \in 0 .. MaxFetches
  BY <1>1, FederationAssumption DEF Inv, HistoryOK
<1>5. ImportOK(i)
  <2>1. i \in Importing
    BY <1>2, <1>3, <1>4 DEF Importing, Numbers
  <2> QED
    BY <1>2, <1>3, <2>1, NoneFacts DEF ImportOK
<1>6. S \subseteq Boards \X DOMAIN written
  BY <1>2, <1>3 DEF Opens
<1> HIDE DEF i, S
<1> QED
  BY <1>1, <1>4, <1>5, <1>6, SameWritten, Frame DEF Inv, HistoryOK, net, fates

LEMMA GoesKeeps ==
    ASSUME Inv, NEW i \in imports, NEW j, Goes(i, j), ImportOK(j), DbOK',
           UNCHANGED <<forms, outs, net, deletions, resends, fetches, written, deleted, fates, ways>>
    PROVE  Inv'
<1>1. \A x \in imports' : x \in imports \/ ImportOK(x)
  BY DEF Goes
<1> QED
  BY <1>1, SameWritten, Frame DEF Inv, HistoryOK, net, fates, ways

LEMMA MergeFindsKeeps ==
    ASSUME Inv, NEW i \in imports, NEW n \in Notes, MergeFinds(i, n)
    PROVE  Inv'
<1>1. ImportOK(i) /\ i \in Importing /\ i.to \in Boards /\ i.thread \in Notes
  BY DEF Inv, ImportsOK, ImportOK, Importing
<1>2. /\ UNCHANGED <<db, forms, outs, net, deletions, resends, fetches, written, deleted, fates, ways>>
      /\ i.saving = None /\ n \in IF i.id = Zero THEN {i.thread} ELSE i.todo
  BY DEF MergeFinds
<1>3. DbOK'
  BY <1>2, SameWritten
<1>4. i.thread \notin i.todo
  BY <1>1, NoneFacts DEF ImportOK, Opens
<1>5. copies[i.to][n] \in Nat
  BY <1>1 DEF Inv, DbOK
<1>6. CASE n = i.thread /\ Goes(i, [i EXCEPT !.id = Number(i.to, n)])
  <2> DEFINE j == [i EXCEPT !.id = Number(i.to, n)]
  <2>1. ImportOK(j)
    BY <1>1, <1>2, <1>5, <1>6, NoneFacts DEF ImportOK, Importing, Number, Numbers
  <2> HIDE DEF j
  <2> QED
    BY <1>2, <1>3, <1>6, <2>1, GoesKeeps DEF j
<1>7. CASE Goes(i, [i EXCEPT !.todo = @ \ {n}])
  <2> DEFINE j == [i EXCEPT !.todo = @ \ {n}]
  <2>1. ImportOK(j)
    BY <1>1 DEF ImportOK, Importing
  <2> HIDE DEF j
  <2> QED
    BY <1>2, <1>3, <1>7, <2>1, GoesKeeps DEF j
<1>8. CASE Goes(i, [i EXCEPT !.saving = n, !.todo = @ \ {n}])
  <2> DEFINE j == [i EXCEPT !.saving = n, !.todo = @ \ {n}]
  <2>1. ImportOK(j)
    BY <1>1, <1>2, <1>4 DEF ImportOK, Importing
  <2> HIDE DEF j
  <2> QED
    BY <1>2, <1>3, <1>8, <2>1, GoesKeeps DEF j
<1>9. \/ n = i.thread /\ Goes(i, [i EXCEPT !.id = Number(i.to, n)])
      \/ Goes(i, [i EXCEPT !.todo = @ \ {n}])
      \/ Goes(i, [i EXCEPT !.saving = n, !.todo = @ \ {n}])
  BY DEF MergeFinds
<1> QED
  BY <1>6, <1>7, <1>8, <1>9

LEMMA MergeSavesKeeps ==
    ASSUME Inv, NEW i \in imports, MergeSaves(i)
    PROVE  Inv'
<1> DEFINE n == i.saving
           j == [i EXCEPT !.saving = None,
                   !.id = IF n = i.thread THEN <<n, copies[i.to][n] + 1>> ELSE @]
           t == IF n = i.thread THEN Zero ELSE i.id
<1>1. ImportOK(i) /\ i \in Importing /\ i.to \in Boards /\ n \in Notes /\ n # None
  BY DEF Inv, ImportsOK, ImportOK, Importing, MergeSaves
<1>2. /\ UNCHANGED <<forms, outs, net, deletions, resends, fetches, written, deleted, fates, ways>>
      /\ Goes(i, j) /\ Insert(i.to, n, t, FALSE)
  BY DEF MergeSaves
<1>3. copies[i.to][n] + 1 \in Nat
  BY <1>1 DEF Inv, DbOK
<1>4. ImportOK(j)
  BY <1>1, <1>3, NoneFacts DEF ImportOK, Importing, Numbers
<1>5. t \in Numbers /\ n \in DOMAIN written /\ written[n].thread = t[1]
  BY <1>1, NoneFacts DEF ImportOK, Importing, Numbers, Opens
<1> HIDE DEF j, t
<1>6. DbOK'
  BY <1>1, <1>2, <1>5, SameWritten, InsertKeeps DEF Inv
<1> QED
  BY <1>2, <1>4, <1>6, GoesKeeps

LEMMA MergeRefusedKeeps ==
    ASSUME Inv, NEW i \in imports, MergeRefused(i)
    PROVE  Inv'
<1>1. ImportOK(i)
  BY DEF Inv, ImportsOK
<1>2. UNCHANGED <<db, forms, outs, net, deletions, resends, fetches, written, deleted, fates, ways>>
  BY DEF MergeRefused
<1>3. DbOK'
  BY <1>2, SameWritten
<1>4. CASE imports' = imports \ {i}
  BY <1>2, <1>3, <1>4, SameWritten, Frame DEF Inv, HistoryOK, net, fates, ways
<1>5. CASE i.saving # i.thread /\ Goes(i, [i EXCEPT !.saving = None])
  <2> DEFINE j == [i EXCEPT !.saving = None]
  <2>1. ImportOK(j)
    BY <1>1, NoneFacts DEF ImportOK, Importing
  <2> HIDE DEF j
  <2> QED
    BY <1>2, <1>3, <1>5, <2>1, GoesKeeps DEF j
<1> QED
  BY <1>4, <1>5 DEF MergeRefused

LEMMA FailureKeeps ==
    ASSUME Inv, Failure
    PROVE  Inv'
<1>1. ASSUME NEW f \in forms, FormFails(f) PROVE Inv'
  <2>1. UNCHANGED <<db, outs, net, staff, written, deleted, fates, ways>> /\ forms' = forms \ {f}
    BY <1>1 DEF FormFails
  <2> QED
    BY <2>1, SameWritten, Frame DEF Inv, HistoryOK, net, staff, fates, ways
<1>2. ASSUME NEW d \in deletions, DeletionFails(d) PROVE Inv'
  <2>1. /\ UNCHANGED <<db, forms, outs, net, imports, resends, fetches, written, deleted, fates, ways>>
        /\ deletions' = deletions \ {d}
    BY <1>2 DEF DeletionFails
  <2> QED
    BY <2>1, SameWritten, Frame DEF Inv, HistoryOK, net, fates, ways
<1>3. ASSUME NEW o \in outs, SendFails(o) PROVE Inv'
  <2>1. /\ UNCHANGED <<db, forms, net, staff, written, deleted, acked, ways>>
        /\ outs' = outs \ {o} /\ lost' = lost \cup {<<o.type, o.note, b>> : b \in Boards}
    BY <1>3 DEF SendFails
  <2>2. lost' \subseteq Fates
    BY <2>1 DEF Inv, HistoryOK, OutsOK, OutOK, Outs, Fates
  <2> QED
    BY <2>1, <2>2, SameWritten, Frame DEF Inv, HistoryOK, net, staff, ways
<1>4. ASSUME NEW s \in sends, TimesOut(s) PROVE Inv'
  <2>1. /\ UNCHANGED <<db, forms, outs, requests, handlers, staff, written, deleted, once>>
        /\ Fails({s}) /\ again' \subseteq again \cup {<<Target(s.act, s.to), s.act.note>>}
    BY <1>4 DEF TimesOut
  <2>2. SendsOK' /\ acked' \subseteq Fates /\ lost' \subseteq Fates
    BY <2>1, SameWritten, FailsKeeps
  <2>3. <<Target(s.act, s.to), s.act.note>> \in Boards \X DOMAIN written
    BY TargetFacts DEF Inv, SendsOK, SendOK, Sending, ActOK
  <2> QED
    BY <2>1, <2>2, <2>3, SameWritten, Frame DEF Inv, HistoryOK, staff
<1>5. ASSUME NEW s \in sends, Dropped(s) PROVE Inv'
  <2>1. /\ UNCHANGED <<db, forms, outs, requests, handlers, staff, written, deleted, acked, ways>>
        /\ sends' = sends \ {s} /\ lost' = lost \cup {Fate(s)}
    BY <1>5 DEF Dropped
  <2>2. lost' \subseteq Fates
    BY <2>1, FateFacts DEF Inv, HistoryOK, SendsOK
  <2> QED
    BY <2>1, <2>2, SameWritten, Frame DEF Inv, HistoryOK, staff, ways
<1>6. ASSUME NEW r \in requests, RequestFails(r) PROVE Inv'
  BY <1>6, RefuseKeeps DEF RequestFails
<1>7. ASSUME NEW k \in handlers, DeleteFails(k) PROVE Inv'
  BY <1>7, HandleKeeps
<1>8. ASSUME NEW h, Crash(h) PROVE Inv'
  <2> DEFINE o == {x \in outs : Host[x.from] = h}
             k == {x \in handlers : Host[x.req.to] = h}
             s == {x \in sends : Host[x.act.from] = h}
             w == (UNION {Waiting(x.req) : x \in k}) \ s
  <2>1. /\ UNCHANGED <<db, requests, resends, fetches, written, deleted, acked, ways>>
        /\ outs' = outs \ o /\ handlers' = handlers \ k
        /\ forms' \subseteq forms /\ deletions' \subseteq deletions /\ imports' \subseteq imports
        /\ sends' = (sends \ (s \cup w)) \cup UNION {Retry(x) : x \in w}
        /\ lost' = lost \cup {Fate(x) : x \in s \cup {y \in w : Retry(y) = {}}}
                        \cup {<<x.type, x.note, b>> : x \in o, b \in Boards}
    BY <1>8 DEF Crash
  <2>2. s \subseteq sends /\ w \subseteq sends /\ o \subseteq outs
    BY WaitingFacts
  <2> HIDE DEF o, k, s, w
  <2>3. \A x \in sends' : x \in sends \/ SendOK(x)
    BY <2>1, <2>2, RetryFacts DEF Inv, SendsOK
  <2>4. lost' \subseteq Fates
    <3>1. \A x \in s \cup w : Fate(x) \in Fates
      BY <2>2, FateFacts DEF Inv, SendsOK
    <3>2. \A x \in o : x.type \in Types /\ x.note \in Notes
      BY <2>2 DEF Inv, OutsOK, OutOK, Outs
    <3> QED
      BY <2>1, <3>1, <3>2 DEF Inv, HistoryOK, Fates
  <2> QED
    BY <2>1, <2>3, <2>4, SameWritten, Frame DEF Inv, HistoryOK, ways
<1> QED
  BY <1>1, <1>2, <1>3, <1>4, <1>5, <1>6, <1>7, <1>8 DEF Failure

LEMMA InvNext == ASSUME Inv, [Next]_vars PROVE Inv'
<1>1. CASE UNCHANGED vars \/ Rest
  <2>1. UNCHANGED vars
    BY <1>1 DEF Rest
  <2> QED
    BY <2>1, SameWritten, Frame DEF Inv, HistoryOK, vars, net, staff, fates, ways
<1>2. CASE Arrival
  <2>1. ASSUME NEW n \in Notes, PostArrives(n) PROVE Inv'
    BY <2>1, PostArrivesKeeps
  <2>2. ASSUME NEW j \in Joins, FollowArrives(j[1], j[2]) PROVE Inv'
    BY <2>2, FollowKeeps, FederationAssumption
  <2>3. ASSUME NEW b \in Boards, NEW n \in DOMAIN rows[b], NEW m \in Moderators[b],
               DeleteArrives(b, n, m)
        PROVE  Inv'
    BY <2>3, DeleteArrivesKeeps
  <2>4. ASSUME NEW b \in Boards, NEW n \in DOMAIN rows[b], Resend(b, n) PROVE Inv'
    BY <2>4, ResendKeeps
  <2>5. ASSUME NEW b \in Boards, NEW c \in Boards, NEW n \in OPs(b), Fetch(c, b, n) PROVE Inv'
    BY <2>5, FetchKeeps
  <2> QED
    BY <1>2, <2>1, <2>2, <2>3, <2>4, <2>5 DEF Arrival
<1>3. CASE Progress
  <2>1. ASSUME NEW f \in forms, PostSaved(f) PROVE Inv'
    BY <2>1, PostSavedKeeps
  <2>2. ASSUME NEW o \in outs, SendActivity(o) PROVE Inv'
    BY <2>2, SendActivityKeeps
  <2>3. ASSUME NEW s \in sends, Attempt(s) PROVE Inv'
    BY <2>3, AttemptKeeps
  <2>4. ASSUME NEW r \in requests,
               CreateFound(r) \/ CreateRefused(r) \/ DeleteFound(r) \/ DeleteRefused(r)
        PROVE  Inv'
    BY <2>4, InboxKeeps
  <2>5. ASSUME NEW k \in handlers, CreateSaved(k) \/ SaveRefused(k) \/ DeleteDone(k) PROVE Inv'
    BY <2>5, HandleKeeps
  <2>6. ASSUME NEW d \in deletions, Deletes(d) PROVE Inv'
    BY <2>6, DeletesKeeps
  <2>7. ASSUME NEW i \in imports,
               MergeSaves(i) \/ MergeRefused(i) \/ \E n \in Notes : MergeFinds(i, n)
        PROVE  Inv'
    BY <2>7, MergeSavesKeeps, MergeRefusedKeeps, MergeFindsKeeps
  <2> QED
    BY <1>3, <2>1, <2>2, <2>3, <2>4, <2>5, <2>6, <2>7 DEF Progress
<1>4. CASE Failure
  BY <1>4, FailureKeeps
<1> QED
  BY <1>1, <1>2, <1>3, <1>4 DEF Next

-----------------------------------------------------------------------------
(* Who changes what *)

(* Nothing is saved, deleted or looked up, and nobody begins to send.      *)
Still ==
    /\ UNCHANGED <<rows, copies, written, deleted>>
    /\ forms' \subseteq forms /\ outs' \subseteq outs
    /\ handlers' \subseteq handlers /\ imports' \subseteq imports

LEMMA StillSteps ==
    ASSUME [Next]_vars
    PROVE  \/ Still
           \/ \E n \in Notes : PostArrives(n)
           \/ \E f \in forms : PostSaved(f)
           \/ \E b \in Boards : \E n \in DOMAIN rows[b] : Resend(b, n)
           \/ \E b \in Boards, c \in Boards : \E t \in OPs(c) : Fetch(b, c, t)
           \/ \E r \in requests : CreateFound(r) \/ DeleteFound(r)
           \/ \E k \in handlers : CreateSaved(k) \/ DeleteDone(k)
           \/ \E d \in deletions : Deletes(d)
           \/ \E i \in imports : MergeSaves(i)
           \/ \E i \in imports : MergeRefused(i)
           \/ \E i \in imports, n \in Notes : MergeFinds(i, n)
<1>1. UNCHANGED vars \/ Rest => Still
  BY DEF Rest, Still, vars, db, net, staff
<1>2. \A b, f : FollowArrives(b, f) => Still
  BY DEF FollowArrives, Still, net, staff
<1>3. \A b, n, m : DeleteArrives(b, n, m) => Still
  BY DEF DeleteArrives, Still, net, db
<1>4. \A o : SendActivity(o) \/ SendFails(o) => Still
  BY DEF SendActivity, SendFails, Still, net, db, staff
<1>5. \A s : Attempt(s) \/ TimesOut(s) \/ Dropped(s) => Still
  BY DEF Attempt, TimesOut, Dropped, Still, db, staff
<1>6. \A r : Refuse(r) => Still
  BY DEF Refuse, Still, db, staff
<1>7. \A r : CreateRefused(r) \/ DeleteRefused(r) \/ RequestFails(r) => Still
  BY <1>6 DEF CreateRefused, DeleteRefused, RequestFails
<1>8. \A k : SaveRefused(k) \/ DeleteFails(k) => Still
  BY DEF SaveRefused, DeleteFails, Still, db, staff
<1>9. \A f : FormFails(f) => Still
  BY DEF FormFails, Still, net, db, staff
<1>10. \A d : DeletionFails(d) => Still
  BY DEF DeletionFails, Still, net, db
<1>11. \A h : Crash(h) => Still
  BY DEF Crash, Still, db
<1>12. CASE Arrival
  BY <1>2, <1>3, <1>12 DEF Arrival
<1>13. CASE Progress
  BY <1>4, <1>5, <1>7, <1>8, <1>13 DEF Progress
<1>14. CASE Failure
  BY <1>4, <1>5, <1>7, <1>8, <1>9, <1>10, <1>11, <1>14 DEF Failure
<1> QED
  BY <1>1, <1>12, <1>13, <1>14 DEF Next

-----------------------------------------------------------------------------
(* Numbers of posts: what is known of one at a board stays known, and one  *)
(* that does not stand will not stand again.                               *)

Known(b, id) == id # Zero => id[2] \in 1 .. copies[b][id[1]]

RowsKnown == \A b \in Boards : \A n \in DOMAIN rows[b] :
                 copies[b][n] > 0 /\ Known(b, rows[b][n].thread)
FormsKnown == \A f \in forms : Known(Home[f.note], f.thread)
OutsKnown == \A o \in outs : o.type = "Create" =>
                 LET b == Home[o.note] IN
                     (Has(b, o.note) /\ rows[b][o.note].local) => rows[b][o.note].thread = o.thread
HandlerKnown(k) == IF k.req.act.type = "Create"
                   THEN Known(Target(k.req.act, k.req.to), k.post.thread)
                   ELSE Known(k.req.to, k.post.id)
HandlersKnown == \A k \in handlers : HandlerKnown(k)
ImportsKnown == \A i \in imports : Known(i.to, i.id)

NumbersOK == RowsKnown /\ FormsKnown /\ OutsKnown /\ HandlersKnown /\ ImportsKnown

(* What a step may do to the rows.                                         *)
Added ==
    \E b \in Boards, n \in Notes, t \in Numbers, l \in BOOLEAN :
        Insert(b, n, t, l) /\ (l => n \notin DOMAIN written) /\ (NumbersOK => Known(b, t))
Removed == \E b \in Boards, n \in Notes, p \in Posts : Remove(b, p) /\ PostOK(p, n)

LEMMA RowsSteps ==
    ASSUME Inv, [Next]_vars
    PROVE  UNCHANGED <<rows, copies>> \/ Added \/ Removed
<1>1. ASSUME NEW f \in forms, PostSaved(f) PROVE Added
  <2>1. f.note \in Notes /\ f.thread \in Numbers /\ f.note \notin DOMAIN written /\ Home[f.note] \in Boards
    BY FederationAssumption DEF Inv, FormsOK, FormOK
  <2>2. Insert(Home[f.note], f.note, f.thread, TRUE)
    BY <1>1 DEF PostSaved
  <2> QED
    BY <2>1, <2>2 DEF Added, NumbersOK, FormsKnown
<1>2. ASSUME NEW k \in handlers, CreateSaved(k) PROVE Added
  <2>1. Insert(Target(k.req.act, k.req.to), k.req.act.note, k.post.thread, FALSE)
    BY <1>2 DEF CreateSaved
  <2>2. k.post.thread \in Numbers
    BY HandlerFacts DEF Posts
  <2>3. NumbersOK => Known(Target(k.req.act, k.req.to), k.post.thread)
    BY <1>2 DEF CreateSaved, NumbersOK, HandlersKnown, HandlerKnown
  <2> QED
    BY <2>1, <2>2, <2>3, HandlerFacts DEF Added
<1>3. ASSUME NEW k \in handlers, DeleteDone(k) PROVE Removed
  <2>1. Remove(k.req.to, k.post) /\ k.req.act.type = "Delete"
    BY <1>3 DEF DeleteDone
  <2>2. PostOK(k.post, k.req.act.note)
    BY <2>1, HandlerFacts DEF HandlerOK
  <2> QED
    BY <2>1, <2>2, HandlerFacts DEF Removed
<1>4. ASSUME NEW d \in deletions, Deletes(d) PROVE Removed
  <2>1. DeletionOK(d) /\ d.board \in Boards /\ d.note \in Notes /\ d.post \in Posts
    BY DEF Inv, DeletionsOK, DeletionOK, Deleting
  <2>2. Remove(d.board, d.post)
    BY <1>4 DEF Deletes
  <2> QED
    BY <2>1, <2>2 DEF DeletionOK, Removed
<1>5. ASSUME NEW i \in imports, MergeSaves(i) PROVE Added
  <2>1. ImportOK(i) /\ i.to \in Boards /\ i.saving \in Notes /\ i.id \in Numbers /\ Zero \in Numbers
    BY <1>5 DEF Inv, ImportsOK, ImportOK, Importing, MergeSaves, Numbers
  <2>2. Insert(i.to, i.saving, IF i.saving = i.thread THEN Zero ELSE i.id, FALSE)
    BY <1>5 DEF MergeSaves
  <2>3. NumbersOK => Known(i.to, IF i.saving = i.thread THEN Zero ELSE i.id)
    BY DEF NumbersOK, ImportsKnown, Known
  <2> QED
    BY <2>1, <2>2, <2>3 DEF Added
<1>6. ASSUME \/ \E n \in Notes : PostArrives(n)
             \/ \E b \in Boards : \E n \in DOMAIN rows[b] : Resend(b, n)
             \/ \E b \in Boards, c \in Boards : \E t \in OPs(c) : Fetch(b, c, t)
             \/ \E r \in requests : CreateFound(r) \/ DeleteFound(r)
             \/ \E i \in imports : MergeRefused(i)
             \/ \E i \in imports, n \in Notes : MergeFinds(i, n)
      PROVE  UNCHANGED <<rows, copies>>
  BY <1>6 DEF PostArrives, Resend, Fetch, CreateFound, DeleteFound, Find, MergeRefused, MergeFinds, db
<1> QED
  BY <1>1, <1>2, <1>3, <1>4, <1>5, <1>6, StillSteps DEF Still

(* A new row, and what it leaves as it was.                                *)
LEMMA InsertFacts ==
    ASSUME DbOK, NEW b \in Boards, NEW n \in Notes, NEW t, NEW l, Insert(b, n, t, l)
    PROVE  /\ ~Has(b, n) /\ DOMAIN rows'[b] = DOMAIN rows[b] \cup {n}
           /\ rows'[b][n] = [thread |-> t, local |-> l]
           /\ \A m \in DOMAIN rows[b] : rows'[b][m] = rows[b][m]
           /\ \A c \in Boards : c # b => rows'[c] = rows[c]
           /\ copies'[b][n] = copies[b][n] + 1
           /\ \A c \in Boards, m \in Notes :
                 c # b \/ m # n => copies'[c][m] = copies[c][m]
BY DEF DbOK, RowsOK, Insert, Put, Has

LEMMA RemoveFacts ==
    ASSUME DbOK, NEW b \in Boards, NEW p, Remove(b, p)
    PROVE  /\ DOMAIN rows'[b] = DOMAIN rows[b] \ Under(b, p)
           /\ \A m \in DOMAIN rows'[b] : rows'[b][m] = rows[b][m]
           /\ \A c \in Boards : c # b => rows'[c] = rows[c]
           /\ UNCHANGED copies
BY DEF DbOK, RowsOK, Remove, Drop

-----------------------------------------------------------------------------
(* The invariant, and the threads of replies                               *)

THEOREM InvHolds == Spec => []Inv
<1> QED
  BY InvInit, InvNext, PTL DEF Spec

(* Every variable keeps its type: no delivery is attempted more often than *)
(* MaxRetries, and no thread number is looked up that is not one (TypeOK). *)
THEOREM TypeCorrect == Spec => []TypeOK
<1>1. ASSUME Inv PROVE TypeOK
  <2>1. \A b \in Boards : \E S \in SUBSET Notes : rows[b] \in [S -> Rows]
    BY <1>1 DEF Inv, DbOK, RowsOK
  <2>2. \E S \in SUBSET Notes : written \in [S -> Writings]
    BY <1>1 DEF Inv, WrittenOK
  <2>3. deleted \subseteq Notes /\ once \cup again \subseteq Boards \X Notes
    BY <1>1, WrittenFacts DEF Inv, HistoryOK
  <2>4. forms \subseteq [note : Notes, thread : Numbers] /\ outs \subseteq Outs
    BY <1>1 DEF Inv, FormsOK, FormOK, OutsOK, OutOK
  <2>5. /\ \A s \in sends : s \in Sending
        /\ \A r \in requests : r \in Reqs
        /\ \A k \in handlers : k \in Handling
    BY <1>1 DEF Inv, SendsOK, SendOK, RequestsOK, RequestOK, HandlersOK, HandlerOK
  <2>6. deletions \subseteq Deleting /\ imports \subseteq Importing
    BY <1>1 DEF Inv, DeletionsOK, DeletionOK, ImportsOK, ImportOK
  <2>7. /\ followers \in [Boards -> SUBSET Boards] /\ rows = [b \in Boards |-> rows[b]]
        /\ copies \in [Boards -> [Notes -> Nat]]
        /\ resends \in 0 .. MaxResends /\ fetches \in 0 .. MaxFetches
        /\ acked \cup lost \subseteq Fates
    BY <1>1 DEF Inv, DbOK, RowsOK, HistoryOK
  <2> QED
    BY <2>1, <2>2, <2>3, <2>4, <2>5, <2>6, <2>7
       DEF TypeOK, Outs, Sending, Handling, Deleting, Importing, Writings, Fates
<1> QED
  BY <1>1, InvHolds, PTL

(* A note stands, wherever it has come to, in the thread it was written in *)
(* (SameThread): the thread it names was looked up by its apid, and what   *)
(* was read from an outbox was written that way.                           *)
THEOREM SameThreadHolds == Spec => []SameThread
<1>1. ASSUME Inv PROVE SameThread
  <2>1. ASSUME NEW b \in Boards, NEW n \in DOMAIN rows[b]
        PROVE  n \in DOMAIN written /\ rows[b][n].thread[1] = written[n].thread
    <3>1. Filed(n, rows[b][n].thread)
      BY <1>1 DEF Inv, DbOK, RowsOK
    <3> QED
      BY <3>1 DEF Filed
  <2> QED
    BY <2>1 DEF SameThread
<1> QED
  BY <1>1, InvHolds, PTL

LEMMA InsertStrandsNone ==
    ASSUME DbOK, NEW c \in Boards, NEW k \in Notes, NEW t, NEW l, Insert(c, k, t, l),
           NEW b \in Boards, NEW n \in DOMAIN rows[b], ~Orphan(b, n)
    PROVE  ~Orphan(b, n)'
<1>0. /\ ~Has(c, k) /\ DOMAIN rows'[c] = DOMAIN rows[c] \cup {k}
      /\ \A m \in DOMAIN rows[c] : rows'[c][m] = rows[c][m]
      /\ \A d \in Boards : d # c => rows'[d] = rows[d]
      /\ \A d \in Boards, m \in Notes : d # c \/ m # k => copies'[d][m] = copies[d][m]
  BY InsertFacts
<1>1. rows'[b][n] = rows[b][n] /\ DOMAIN rows[b] \subseteq DOMAIN rows'[b]
  BY <1>0
<1>2. CASE rows[b][n].thread = Zero
  BY <1>1, <1>2 DEF Orphan
<1>3. CASE Stands(b, rows[b][n].thread)
  <2>1. PICK m \in DOMAIN rows[b] : Number(b, m) = rows[b][n].thread
    BY <1>3 DEF Stands
  <2>2. m \in Notes /\ (c = b => m # k)
    BY <1>0, RowsFacts DEF DbOK, Has
  <2>3. copies'[b][m] = copies[b][m]
    BY <1>0, <2>2
  <2> QED
    BY <1>1, <2>1, <2>3 DEF Orphan, Stands, Number
<1> QED
  BY <1>2, <1>3 DEF Orphan

(* The opening post of a standing reply goes only together with the reply. *)
LEMMA RemoveStrandsNone ==
    ASSUME WrittenOK, DbOK, NEW c \in Boards, NEW k \in Notes, NEW p \in Posts,
           Remove(c, p), PostOK(p, k),
           NEW b \in Boards, NEW n \in DOMAIN rows'[b], ~Orphan(b, n)
    PROVE  ~Orphan(b, n)'
<1>1. /\ n \in DOMAIN rows[b] /\ rows'[b][n] = rows[b][n] /\ UNCHANGED copies
      /\ c = b => n \notin Under(b, p)
  BY RemoveFacts
<1>2. CASE rows[b][n].thread = Zero
  BY <1>1, <1>2 DEF Orphan
<1>3. CASE rows[b][n].thread # Zero /\ Stands(b, rows[b][n].thread)
  <2>1. PICK m \in DOMAIN rows[b] : Number(b, m) = rows[b][n].thread
    BY <1>3 DEF Stands
  <2>2. Filed(n, Number(b, m)) /\ m \in Notes /\ Filed(m, rows[b][m].thread)
    BY <1>1, <2>1, RowsFacts DEF DbOK
  <2>3. Opens(m)
    BY <2>2, NoneFacts DEF WrittenOK, Filed, Number
  <2>4. c = b => m \notin Under(b, p)
    <3>1. ASSUME c = b, Number(b, m) = p.id PROVE FALSE
      <4>1. k = m
        BY <3>1 DEF PostOK, Number
      <4>2. p.thread = Zero
        BY <2>3, <4>1, NoneFacts DEF PostOK, Filed, Opens, Numbers
      <4> QED
        BY <1>1, <2>1, <3>1, <4>2 DEF Under
    <3>2. ASSUME c = b, rows[b][m].thread = p.id PROVE FALSE
      <4>1. written[m].thread \in Notes
        BY <2>2, <3>2 DEF PostOK, Filed
      <4> QED
        BY <2>3, <4>1, NoneFacts DEF Opens
    <3> QED
      BY <3>1, <3>2 DEF Under
  <2>5. m \in DOMAIN rows'[b]
    BY <2>4, RemoveFacts
  <2> QED
    BY <1>1, <2>1, <2>5 DEF Orphan, Stands, Number
<1> QED
  BY <1>2, <1>3 DEF Orphan

(* No deletion leaves a reply without its thread (NoneStranded): a post    *)
(* found to be an opening post is one on every board and at any time, so   *)
(* whoever removes it by its number takes the replies that stand by then.  *)
THEOREM NoneStrandedHolds == Spec => NoneStranded
<1>1. ASSUME Inv, [Next]_vars, NEW b \in Boards, NEW n \in DOMAIN rows[b],
             n \in DOMAIN rows'[b], ~Orphan(b, n)
      PROVE  ~Orphan(b, n)'
  <2>1. CASE UNCHANGED <<rows, copies>>
    BY <1>1, <2>1 DEF Orphan, Stands, Number
  <2>2. CASE Added
    BY <1>1, <2>2, InsertStrandsNone DEF Inv, Added
  <2>3. CASE Removed
    BY <1>1, <2>3, RemoveStrandsNone DEF Inv, Removed
  <2> QED
    BY <1>1, <2>1, <2>2, <2>3, RowsSteps
<1>2. Inv /\ [Next]_vars =>
        [\A b \in Boards : \A n \in DOMAIN rows[b] :
            (n \in DOMAIN rows'[b] /\ ~Orphan(b, n)) => ~Orphan(b, n)']_vars
  BY <1>1
<1> QED
  BY <1>2, InvHolds, PTL DEF Spec, NoneStranded

-----------------------------------------------------------------------------
(* What is known of numbers                                                *)

LEMMA CopiesGrow ==
    ASSUME Inv, [Next]_vars, NEW b \in Boards, NEW n \in Notes
    PROVE  /\ copies[b][n] \in Nat /\ copies'[b][n] \in Nat
           /\ copies[b][n] <= copies'[b][n]
<1>1. copies[b][n] \in Nat
  BY DEF Inv, DbOK
<1>2. CASE UNCHANGED <<rows, copies>>
  BY <1>1, <1>2
<1>3. CASE Added
  <2>1. PICK c \in Boards, m \in Notes, t \in Numbers, l \in BOOLEAN : Insert(c, m, t, l)
    BY <1>3 DEF Added
  <2>2. /\ copies'[c][m] = copies[c][m] + 1
        /\ \A d \in Boards, k \in Notes : d # c \/ k # m => copies'[d][k] = copies[d][k]
    BY <2>1, InsertFacts DEF Inv
  <2> QED
    BY <1>1, <2>2
<1>4. CASE Removed
  BY <1>1, <1>4 DEF Removed, Remove
<1> QED
  BY <1>2, <1>3, <1>4, RowsSteps

LEMMA KnownKept ==
    ASSUME Inv, [Next]_vars, NEW b \in Boards, NEW id \in Numbers, Known(b, id)
    PROVE  id # Zero => id[2] \in 1 .. copies'[b][id[1]]
<1>1. id # Zero => id[1] \in Notes /\ id[2] \in Nat
  BY DEF Numbers
<1> QED
  BY <1>1, CopiesGrow DEF Known

LEMMA RowsKnownNext ==
    ASSUME Inv, NumbersOK, [Next]_vars
    PROVE  RowsKnown'
<1> SUFFICES ASSUME NEW b \in Boards, NEW n \in DOMAIN rows'[b]
             PROVE  /\ copies'[b][n] > 0
                    /\ LET id == rows'[b][n].thread IN
                           id # Zero => id[2] \in 1 .. copies'[b][id[1]]
  BY DEF RowsKnown, Known
<1>1. ASSUME n \in DOMAIN rows[b], rows'[b][n] = rows[b][n]
      PROVE  /\ copies'[b][n] > 0
             /\ LET id == rows'[b][n].thread IN
                    id # Zero => id[2] \in 1 .. copies'[b][id[1]]
  <2>1. n \in Notes /\ rows[b][n].thread \in Numbers
    BY <1>1, RowsFacts DEF Inv, DbOK
  <2>2. copies[b][n] > 0 /\ Known(b, rows[b][n].thread)
    BY <1>1 DEF NumbersOK, RowsKnown
  <2> QED
    BY <1>1, <2>1, <2>2, KnownKept, CopiesGrow
<1>2. CASE Added
  <2>1. PICK c \in Boards, m \in Notes, t \in Numbers, l \in BOOLEAN :
            Insert(c, m, t, l) /\ Known(c, t)
    BY <1>2 DEF Added
  <2>2. /\ DOMAIN rows'[c] = DOMAIN rows[c] \cup {m}
        /\ rows'[c][m] = [thread |-> t, local |-> l]
        /\ \A k \in DOMAIN rows[c] : rows'[c][k] = rows[c][k]
        /\ \A d \in Boards : d # c => rows'[d] = rows[d]
        /\ copies'[c][m] = copies[c][m] + 1
    BY <2>1, InsertFacts DEF Inv
  <2>3. CASE b = c /\ n = m
    <3>1. copies[c][m] \in Nat
      BY CopiesGrow
    <3>2. t # Zero => t[2] \in 1 .. copies'[c][t[1]]
      BY <2>1, KnownKept
    <3> QED
      BY <2>2, <2>3, <3>1, <3>2
  <2>4. CASE ~(b = c /\ n = m)
    BY <1>1, <2>2, <2>4
  <2> QED
    BY <2>3, <2>4
<1>3. CASE Removed
  <2>1. n \in DOMAIN rows[b] /\ rows'[b][n] = rows[b][n]
    BY <1>3, RemoveFacts DEF Removed, Inv
  <2> QED
    BY <1>1, <2>1
<1>4. CASE UNCHANGED <<rows, copies>>
  BY <1>1, <1>4
<1> QED
  BY <1>2, <1>3, <1>4, RowsSteps

(* The number of a row is known.                                           *)
LEMMA NumberKnown ==
    ASSUME Inv, NumbersOK, NEW b \in Boards, NEW n \in DOMAIN rows[b]
    PROVE  Known(b, Number(b, n)) /\ Number(b, n) \in Notes \X Nat
<1>1. n \in Notes /\ copies[b][n] > 0 /\ copies[b][n] \in Nat
  BY RowsFacts DEF Inv, DbOK, NumbersOK, RowsKnown
<1> QED
  BY <1>1 DEF Known, Number

LEMMA FormsKnownNext ==
    ASSUME Inv, NumbersOK, [Next]_vars
    PROVE  FormsKnown'
<1>1. ASSUME NEW f \in forms'
      PROVE  f.thread # Zero => f.thread[2] \in 1 .. copies'[Home[f.note]][f.thread[1]]
  <2>1. CASE f \in forms
    <3>1. Known(Home[f.note], f.thread) /\ f.thread \in Numbers /\ Home[f.note] \in Boards
      BY <2>1, FederationAssumption DEF NumbersOK, FormsKnown, Inv, FormsOK, FormOK
    <3> QED
      BY <3>1, KnownKept
  <2>2. CASE \E n \in Notes : PostArrives(n)
    <3>1. PICK n \in Notes : PostArrives(n)
      BY <2>2
    <3>2. PICK t \in IF n \in Threads THEN {Zero} ELSE {Number(Home[n], m) : m \in OPs(Home[n])} :
              forms' = forms \cup {[note |-> n, thread |-> t]}
      BY <3>1 DEF PostArrives
    <3>3. t = Zero \/ (Known(Home[n], t) /\ t \in Notes \X Nat)
      BY <3>2, NumberKnown, FederationAssumption DEF OPs
    <3>4. CASE f = [note |-> n, thread |-> t]
      BY <3>3, <3>4, KnownKept, FederationAssumption DEF Numbers
    <3> QED
      BY <2>1, <3>2, <3>4
  <2>3. forms' \subseteq forms \/ \E n \in Notes : PostArrives(n)
    BY StillSteps
       DEF Still, PostSaved, Resend, Fetch, CreateFound, DeleteFound, Find, CreateSaved, DeleteDone,
           Deletes, MergeSaves, MergeRefused, MergeFinds
  <2> QED
    BY <1>1, <2>1, <2>2, <2>3
<1> QED
  BY <1>1 DEF FormsKnown, Known

LEMMA OutsKnownNext ==
    ASSUME Inv, NumbersOK, [Next]_vars
    PROVE  OutsKnown'
<1> SUFFICES ASSUME NEW o \in outs', o.type = "Create",
                    o.note \in DOMAIN rows'[Home[o.note]], rows'[Home[o.note]][o.note].local
             PROVE  rows'[Home[o.note]][o.note].thread = o.thread
  BY DEF OutsKnown, Has
<1> DEFINE n == o.note
           b == Home[n]
<1>1. CASE o \in outs
  <2>1. n \in DOMAIN written /\ n \in Notes /\ b \in Boards
    BY <1>1, FederationAssumption DEF Inv, OutsOK, OutOK, Outs
  <2>2. n \in DOMAIN rows[b] /\ rows'[b][n] = rows[b][n]
    <3>1. CASE Added
      <4>1. PICK c \in Boards, m \in Notes, t \in Numbers, l \in BOOLEAN :
                Insert(c, m, t, l) /\ (l => m \notin DOMAIN written)
        BY <3>1 DEF Added
      <4>2. /\ DOMAIN rows'[c] = DOMAIN rows[c] \cup {m}
            /\ rows'[c][m] = [thread |-> t, local |-> l]
            /\ \A k \in DOMAIN rows[c] : rows'[c][k] = rows[c][k]
            /\ \A d \in Boards : d # c => rows'[d] = rows[d]
        BY <4>1, InsertFacts DEF Inv
      <4>3. ~(b = c /\ n = m)
        BY <2>1, <4>1, <4>2
      <4> QED
        BY <2>1, <4>2, <4>3
    <3>2. CASE Removed
      BY <2>1, <3>2, RemoveFacts DEF Removed, Inv
    <3>3. CASE UNCHANGED <<rows, copies>>
      BY <3>3
    <3> QED
      BY <3>1, <3>2, <3>3, RowsSteps
  <2> QED
    BY <1>1, <2>2 DEF NumbersOK, OutsKnown, Has
<1>2. CASE \E f \in forms : PostSaved(f) /\ o = Out("Create", f.note, f.thread, Home[f.note], 0)
  <2>1. PICK f \in forms : PostSaved(f) /\ o = Out("Create", f.note, f.thread, Home[f.note], 0)
    BY <1>2
  <2>2. n = f.note /\ o.thread = f.thread /\ f.note \in Notes /\ b \in Boards
    BY <2>1, FederationAssumption DEF Out, Inv, FormsOK, FormOK
  <2>3. Insert(b, n, f.thread, TRUE)
    BY <2>1, <2>2 DEF PostSaved
  <2>4. rows'[b][n] = [thread |-> f.thread, local |-> TRUE]
    BY <2>2, <2>3 DEF Inv, DbOK, RowsOK, Insert, Put
  <2> QED
    BY <2>2, <2>4
<1>3. CASE \E c \in Boards : \E m \in DOMAIN rows[c] :
              Resend(c, m) /\ o = Out("Create", m, rows[c][m].thread, c, resends + 1)
  <2>1. PICK c \in Boards : \E m \in DOMAIN rows[c] :
            Resend(c, m) /\ o = Out("Create", m, rows[c][m].thread, c, resends + 1)
    BY <1>3
  <2>2. PICK m \in DOMAIN rows[c] :
            Resend(c, m) /\ o = Out("Create", m, rows[c][m].thread, c, resends + 1)
    BY <2>1
  <2>3. c = Home[m] /\ n = m /\ o.thread = rows[c][m].thread /\ UNCHANGED rows
    BY <2>2, RowsFacts DEF Resend, Out, Inv, DbOK, db
  <2> QED
    BY <2>3
<1>4. \/ o \in outs
      \/ \E f \in forms : PostSaved(f) /\ o = Out("Create", f.note, f.thread, Home[f.note], 0)
      \/ \E c \in Boards : \E m \in DOMAIN rows[c] :
             Resend(c, m) /\ o = Out("Create", m, rows[c][m].thread, c, resends + 1)
  <2>1. \A f \in forms : PostSaved(f) =>
            outs' = outs \cup {Out("Create", f.note, f.thread, Home[f.note], 0)}
    BY DEF PostSaved
  <2>2. \A c \in Boards : \A m \in DOMAIN rows[c] : Resend(c, m) =>
            outs' = outs \cup {Out("Create", m, rows[c][m].thread, c, resends + 1)}
    BY DEF Resend
  <2>3. ASSUME NEW d \in deletions, Deletes(d) PROVE o \in outs
    BY <2>3 DEF Deletes, Out
  <2>4. ASSUME \/ Still
               \/ \E m \in Notes : PostArrives(m)
               \/ \E c \in Boards, d \in Boards : \E t \in OPs(d) : Fetch(c, d, t)
               \/ \E r \in requests : CreateFound(r) \/ DeleteFound(r)
               \/ \E k \in handlers : CreateSaved(k) \/ DeleteDone(k)
               \/ \E i \in imports : MergeSaves(i)
               \/ \E i \in imports : MergeRefused(i)
               \/ \E i \in imports, m \in Notes : MergeFinds(i, m)
        PROVE  o \in outs
    BY <2>4 DEF Still, PostArrives, Fetch, CreateFound, DeleteFound, Find, CreateSaved, DeleteDone,
                MergeSaves, MergeRefused, MergeFinds
  <2> QED
    BY <2>1, <2>2, <2>3, <2>4, StillSteps
<1> QED
  BY <1>1, <1>2, <1>3, <1>4

LEMMA HandlersKnownNext ==
    ASSUME Inv, NumbersOK, [Next]_vars
    PROVE  HandlersKnown'
<1> SUFFICES ASSUME NEW k \in handlers'
             PROVE  LET b == IF k.req.act.type = "Create"
                             THEN Target(k.req.act, k.req.to) ELSE k.req.to
                        id == IF k.req.act.type = "Create" THEN k.post.thread ELSE k.post.id
                    IN  id # Zero => id[2] \in 1 .. copies'[b][id[1]]
  BY DEF HandlersKnown, HandlerKnown, Known
<1>1. CASE k \in handlers
  <2>1. HandlerKnown(k)
    BY <1>1 DEF NumbersOK, HandlersKnown
  <2>2. k.post.id \in Numbers /\ k.post.thread \in Numbers
    BY <1>1, HandlerFacts DEF Posts
  <2> QED
    BY <1>1, <2>1, <2>2, HandlerFacts, KnownKept DEF HandlerKnown
<1>2. CASE \E r \in requests : CreateFound(r) /\ k \notin handlers
  <2>1. PICK r \in requests : CreateFound(r) /\ k \notin handlers
    BY <1>2
  <2> DEFINE b == Target(r.act, r.to)
             t == r.act.thread
  <2>2. /\ t \in {None} \cup OPs(b) /\ r.act.type = "Create"
        /\ k.req = r /\ k.post.thread = IF t = None THEN Zero ELSE Number(b, t)
    BY <2>1 DEF CreateFound, Find
  <2>3. b \in Boards
    BY TargetFacts DEF Inv, RequestsOK, RequestOK, Reqs
  <2>4. t # None => Known(b, Number(b, t)) /\ Number(b, t) \in Numbers
    BY <2>2, <2>3, NumberKnown DEF OPs, Numbers
  <2> QED
    BY <2>2, <2>3, <2>4, KnownKept
<1>3. CASE \E r \in requests : DeleteFound(r) /\ k \notin handlers
  <2>1. PICK r \in requests : DeleteFound(r) /\ k \notin handlers
    BY <1>3
  <2> DEFINE n == r.act.note
  <2>2. /\ n \in DOMAIN rows[r.to] /\ r.act.type = "Delete"
        /\ k.req = r /\ k.post.id = Number(r.to, n)
    BY <2>1 DEF DeleteFound, Find, Has, Post
  <2>3. r.to \in Boards
    BY DEF Inv, RequestsOK, RequestOK, Reqs
  <2>4. Known(r.to, Number(r.to, n)) /\ Number(r.to, n) \in Numbers
    BY <2>2, <2>3, NumberKnown DEF Numbers
  <2> QED
    BY <2>2, <2>3, <2>4, KnownKept
<1>4. handlers' \subseteq handlers \/ \E r \in requests : CreateFound(r) \/ DeleteFound(r)
  BY StillSteps
     DEF Still, PostArrives, PostSaved, Resend, Fetch, CreateSaved, DeleteDone,
         Deletes, MergeSaves, MergeRefused, MergeFinds, net
<1> QED
  BY <1>1, <1>2, <1>3, <1>4

LEMMA ImportsKnownNext ==
    ASSUME Inv, NumbersOK, [Next]_vars
    PROVE  ImportsKnown'
<1> SUFFICES ASSUME NEW x \in imports'
             PROVE  x.id # Zero => x.id[2] \in 1 .. copies'[x.to][x.id[1]]
  BY DEF ImportsKnown, Known
<1>1. ASSUME NEW i \in imports, x.to = i.to, x.id = i.id
      PROVE  x.id # Zero => x.id[2] \in 1 .. copies'[x.to][x.id[1]]
  <2>1. i.to \in Boards /\ i.id \in Numbers /\ Known(i.to, i.id)
    BY DEF Inv, ImportsOK, ImportOK, Importing, NumbersOK, ImportsKnown
  <2> QED
    BY <1>1, <2>1, KnownKept
<1>2. CASE \E b \in Boards, c \in Boards : \E t \in OPs(c) : Fetch(b, c, t)
  BY <1>1, <1>2 DEF Fetch
<1>3. CASE \E i \in imports : MergeRefused(i)
  <2>1. PICK i \in imports : MergeRefused(i)
    BY <1>3
  <2>2. x \in imports \/ (x.to = i.to /\ x.id = i.id)
    BY <2>1 DEF MergeRefused, Goes, Inv, ImportsOK, ImportOK, Importing
  <2> QED
    BY <1>1, <2>2
<1>4. CASE \E i \in imports, n \in Notes : MergeFinds(i, n)
  <2>1. PICK i \in imports, n \in Notes : MergeFinds(i, n)
    BY <1>4
  <2>2. /\ i \in Importing /\ i.to \in Boards
        /\ \/ x \in imports
           \/ x.to = i.to /\ x.id = i.id
           \/ x.to = i.to /\ x.id = Number(i.to, n) /\ Has(i.to, n)
    <3>1. i \in Importing /\ i.to \in Boards
      BY DEF Inv, ImportsOK, ImportOK, Importing
    <3>2. CASE x \notin imports
      <4>1. \/ Has(i.to, n) /\ x = [i EXCEPT !.id = Number(i.to, n)]
            \/ x = [i EXCEPT !.todo = @ \ {n}]
            \/ x = [i EXCEPT !.saving = n, !.todo = @ \ {n}]
        BY <2>1, <3>2 DEF MergeFinds, Goes
      <4> QED
        BY <3>1, <4>1 DEF Importing
    <3> QED
      BY <3>1, <3>2
  <2>3. CASE x.to = i.to /\ x.id = Number(i.to, n) /\ Has(i.to, n)
    <3>1. Known(i.to, Number(i.to, n)) /\ Number(i.to, n) \in Numbers
      BY <2>2, <2>3, NumberKnown DEF Has, Numbers
    <3> QED
      BY <2>2, <2>3, <3>1, KnownKept
  <2> QED
    BY <1>1, <2>2, <2>3
<1>5. CASE \E i \in imports : MergeSaves(i)
  <2>1. PICK i \in imports : MergeSaves(i)
    BY <1>5
  <2>2. /\ i \in Importing /\ i.to \in Boards /\ i.saving \in Notes
    BY <2>1 DEF MergeSaves, Inv, ImportsOK, ImportOK, Importing
  <2>3. \/ x \in imports
        \/ x.to = i.to /\ x.id = i.id
        \/ x.to = i.to /\ x.id = <<i.saving, copies[i.to][i.saving] + 1>>
    BY <2>1, <2>2 DEF MergeSaves, Goes, Importing
  <2>4. copies[i.to][i.saving] \in Nat /\ copies'[i.to][i.saving] = copies[i.to][i.saving] + 1
    <3>1. Insert(i.to, i.saving, IF i.saving = i.thread THEN Zero ELSE i.id, FALSE)
      BY <2>1 DEF MergeSaves
    <3> QED
      BY <2>2, <3>1, InsertFacts DEF Inv, DbOK
  <2>5. CASE x.to = i.to /\ x.id = <<i.saving, copies[i.to][i.saving] + 1>>
    BY <2>4, <2>5
  <2> QED
    BY <1>1, <2>3, <2>5
<1>6. CASE imports' \subseteq imports
  BY <1>1, <1>6
<1>7. \/ imports' \subseteq imports
      \/ \E b \in Boards, c \in Boards : \E t \in OPs(c) : Fetch(b, c, t)
      \/ \E i \in imports : MergeSaves(i)
      \/ \E i \in imports : MergeRefused(i)
      \/ \E i \in imports, n \in Notes : MergeFinds(i, n)
  BY StillSteps
     DEF Still, PostArrives, PostSaved, Resend, CreateFound, DeleteFound, Find, CreateSaved,
         DeleteDone, Deletes, staff
<1> QED
  BY <1>2, <1>3, <1>4, <1>5, <1>6, <1>7

LEMMA NumbersNext == ASSUME Inv, NumbersOK, [Next]_vars PROVE NumbersOK'
BY RowsKnownNext, FormsKnownNext, OutsKnownNext, HandlersKnownNext, ImportsKnownNext DEF NumbersOK

LEMMA NumbersInit == ASSUME Init PROVE NumbersOK
BY DEF Init, NumbersOK, RowsKnown, FormsKnown, OutsKnown, HandlersKnown, ImportsKnown

THEOREM NumbersHold == Spec => [](Inv /\ NumbersOK)
<1>1. Init => Inv /\ NumbersOK
  BY InvInit, NumbersInit
<1>2. Inv /\ NumbersOK /\ [Next]_vars => (Inv /\ NumbersOK)'
  BY InvNext, NumbersNext
<1> QED
  BY <1>1, <1>2, PTL DEF Spec

-----------------------------------------------------------------------------
(* Who is told                                                             *)

DueOK == \A n \in DOMAIN written : written[n].due \subseteq followers[Home[n]]

(* An activity about note n is about to be sent, or on its way to f, or    *)
(* was sent there in vain.                                                 *)
Afoot(type, n, f) ==
    \/ \E o \in outs : o.type = type /\ o.note = n
    \/ \E s \in sends : s.act.type = type /\ s.act.note = n /\ s.to = f
    \/ <<type, n, f>> \in lost

Came(n, f) == \E b \in Boards : Host[b] = Host[f] /\ copies[b][n] > 0
Went(n, f) == copies[f][n] > 0 /\ (Has(f, n) => copies[f][n] > 1)

CreatesTold ==
    \A n \in DOMAIN written : \A f \in written[n].due :
        Shown(n) => Afoot("Create", n, f) \/ Came(n, f)
DeletesTold ==
    \A n \in deleted : \A f \in written[n].due : Afoot("Delete", n, f) \/ Went(n, f)

Inv2 == DueOK /\ CreatesTold /\ DeletesTold

(* A number that is known and stands after a step stood before it.         *)
LEMMA StoodBefore ==
    ASSUME Inv, [Next]_vars, NEW b \in Boards, NEW id \in Notes \X Nat, Known(b, id),
           NEW m \in DOMAIN rows'[b], <<m, copies'[b][m]>> = id
    PROVE  Stands(b, id)
<1>1. m = id[1] /\ m \in Notes /\ id = <<m, id[2]>> /\ copies'[b][m] = id[2]
  OBVIOUS
<1>2. copies[b][m] \in Nat /\ copies'[b][m] \in Nat /\ copies[b][m] <= copies'[b][m]
  BY <1>1, CopiesGrow
<1>3. copies'[b][m] <= copies[b][m]
  BY <1>1, NoneFacts DEF Known
<1>4. copies'[b][m] = copies[b][m]
  BY <1>2, <1>3
<1>5. m \in DOMAIN rows[b]
  <2>1. CASE UNCHANGED <<rows, copies>>
    BY <2>1
  <2>2. CASE Added
    <3>1. PICK c \in Boards, k \in Notes, t \in Numbers, l \in BOOLEAN : Insert(c, k, t, l)
      BY <2>2 DEF Added
    <3>2. /\ DOMAIN rows'[c] = DOMAIN rows[c] \cup {k}
          /\ \A d \in Boards : d # c => rows'[d] = rows[d]
          /\ copies'[c][k] = copies[c][k] + 1
      BY <3>1, InsertFacts DEF Inv
    <3>3. ~(b = c /\ m = k)
      BY <1>2, <1>4, <3>2
    <3> QED
      BY <3>2, <3>3
  <2>3. CASE Removed
    BY <2>3, RemoveFacts DEF Removed, Inv
  <2> QED
    BY <2>1, <2>2, <2>3, RowsSteps
<1> QED
  BY <1>1, <1>4, <1>5 DEF Stands, Number

(* A local row of a note that is written already is not a new one.         *)
LEMMA LocalBefore ==
    ASSUME Inv, [Next]_vars, NEW n \in DOMAIN written,
           n \in DOMAIN rows'[Home[n]], rows'[Home[n]][n].local
    PROVE  n \in DOMAIN rows[Home[n]] /\ rows'[Home[n]][n] = rows[Home[n]][n]
<1> DEFINE b == Home[n]
<1>1. n \in Notes /\ b \in Boards
  BY WrittenFacts, FederationAssumption DEF Inv
<1>2. CASE Added
  <2>1. PICK c \in Boards, m \in Notes, t \in Numbers, l \in BOOLEAN :
            Insert(c, m, t, l) /\ (l => m \notin DOMAIN written)
    BY <1>2 DEF Added
  <2>2. /\ DOMAIN rows'[c] = DOMAIN rows[c] \cup {m}
        /\ rows'[c][m] = [thread |-> t, local |-> l]
        /\ \A k \in DOMAIN rows[c] : rows'[c][k] = rows[c][k]
        /\ \A d \in Boards : d # c => rows'[d] = rows[d]
    BY <2>1, InsertFacts DEF Inv
  <2>3. ~(b = c /\ n = m)
    BY <2>1, <2>2
  <2> QED
    BY <1>1, <2>2, <2>3
<1>3. CASE Removed
  BY <1>1, <1>3, RemoveFacts DEF Removed, Inv
<1>4. CASE UNCHANGED <<rows, copies>>
  BY <1>4
<1> QED
  BY <1>2, <1>3, <1>4, RowsSteps

LEMMA ShownBefore ==
    ASSUME Inv, NumbersOK, [Next]_vars, NEW n \in DOMAIN written, Shown(n)'
    PROVE  Shown(n)
<1> DEFINE b == Home[n]
           id == rows[b][n].thread
<1>1. n \in Notes /\ b \in Boards
  BY WrittenFacts, FederationAssumption DEF Inv
<1>2. n \in DOMAIN rows[b] /\ rows'[b][n] = rows[b][n] /\ rows[b][n].local
  BY LocalBefore DEF Shown, Has
<1>3. id \in Numbers /\ Known(b, id)
  BY <1>1, <1>2, RowsFacts DEF Inv, DbOK, NumbersOK, RowsKnown
<1>4. id = Zero \/ \E m \in DOMAIN rows'[b] : <<m, copies'[b][m]>> = id
  BY <1>2 DEF Shown, Orphan, Stands, Number
<1> HIDE DEF id
<1>5. id = Zero \/ Stands(b, id)
  BY <1>1, <1>3, <1>4, StoodBefore DEF Numbers
<1> QED
  BY <1>2, <1>5 DEF Shown, Has, Orphan, id

LEMMA CameKept ==
    ASSUME Inv, [Next]_vars, NEW n \in Notes, NEW f, Came(n, f)
    PROVE  Came(n, f)'
<1>1. PICK b \in Boards : Host[b] = Host[f] /\ copies[b][n] > 0
  BY DEF Came
<1>2. copies'[b][n] > 0
  BY <1>1, CopiesGrow
<1> QED
  BY <1>1, <1>2 DEF Came

LEMMA WentKept ==
    ASSUME Inv, [Next]_vars, NEW n \in Notes, NEW f \in Boards, Went(n, f)
    PROVE  Went(n, f)'
<1>1. /\ copies[f][n] \in Nat /\ copies'[f][n] \in Nat
      /\ copies[f][n] <= copies'[f][n] /\ copies[f][n] > 0
  BY CopiesGrow DEF Went
<1>2. ASSUME n \in DOMAIN rows'[f], n \notin DOMAIN rows[f]
      PROVE  copies'[f][n] > 1
  <2>1. CASE Added
    <3>1. PICK c \in Boards, k \in Notes, t \in Numbers, l \in BOOLEAN : Insert(c, k, t, l)
      BY <2>1 DEF Added
    <3>2. /\ DOMAIN rows'[c] = DOMAIN rows[c] \cup {k}
          /\ \A d \in Boards : d # c => rows'[d] = rows[d]
          /\ copies'[c][k] = copies[c][k] + 1
      BY <3>1, InsertFacts DEF Inv
    <3> QED
      BY <1>1, <1>2, <3>2
  <2>2. CASE Removed
    BY <1>2, <2>2, RemoveFacts DEF Removed, Inv
  <2>3. CASE UNCHANGED <<rows, copies>>
    BY <1>2, <2>3
  <2> QED
    BY <2>1, <2>2, <2>3, RowsSteps
<1> QED
  BY <1>1, <1>2 DEF Went, Has

-----------------------------------------------------------------------------
(* Who sends what                                                          *)

LEMMA FailsFacts ==
    ASSUME Inv, NEW S, Fails(S)
    PROVE  /\ lost \subseteq lost'
           /\ \A s \in sends :
                 \/ \E x \in sends' : x.act = s.act /\ x.to = s.to
                 \/ Fate(s) \in lost'
<1> SUFFICES ASSUME NEW s \in sends
             PROVE  \/ \E x \in sends' : x.act = s.act /\ x.to = s.to
                    \/ Fate(s) \in lost'
  BY DEF Fails
<1>1. CASE s \notin S
  BY <1>1 DEF Fails
<1>2. CASE s \in S /\ Retry(s) = {}
  BY <1>2 DEF Fails
<1>3. CASE s \in S /\ Retry(s) # {}
  <2>1. [s EXCEPT !.flying = FALSE] \in sends'
    BY <1>3 DEF Fails, Retry
  <2> QED
    BY <2>1 DEF Inv, SendsOK, SendOK, Sending
<1> QED
  BY <1>1, <1>2, <1>3

(* Nobody stops sending.                                                   *)
OnAndOn == outs \subseteq outs' /\ sends \subseteq sends' /\ lost \subseteq lost'

LEMMA SendingSteps ==
    ASSUME [Next]_vars
    PROVE  \/ OnAndOn
           \/ \E o \in outs : SendActivity(o) \/ SendFails(o)
           \/ \E s \in sends : Attempt(s) \/ TimesOut(s) \/ Dropped(s)
           \/ \E r \in requests : Refuse(r)
           \/ \E k \in handlers : CreateSaved(k) \/ SaveRefused(k) \/ DeleteDone(k) \/ DeleteFails(k)
           \/ \E b \in Boards : Crash(Host[b])
<1>1. UNCHANGED vars \/ Rest => OnAndOn
  BY DEF Rest, OnAndOn, vars, net, fates
<1>2. \A b, f : FollowArrives(b, f) => OnAndOn
  BY DEF FollowArrives, OnAndOn, net, fates
<1>3. \A n : PostArrives(n) => OnAndOn
  BY DEF PostArrives, OnAndOn, net, fates
<1>4. \A f : PostSaved(f) \/ FormFails(f) => OnAndOn
  BY DEF PostSaved, FormFails, OnAndOn, net, fates
<1>5. \A r, p : Find(r, p) => OnAndOn
  BY DEF Find, OnAndOn, fates
<1>6. \A r : CreateFound(r) \/ DeleteFound(r) => OnAndOn
  BY <1>5 DEF CreateFound, DeleteFound
<1>7. \A b, n, m : DeleteArrives(b, n, m) => OnAndOn
  BY DEF DeleteArrives, OnAndOn, net, fates
<1>8. \A d : Deletes(d) \/ DeletionFails(d) => OnAndOn
  BY DEF Deletes, DeletionFails, OnAndOn, net, fates
<1>9. \A b, n : Resend(b, n) => OnAndOn
  BY DEF Resend, OnAndOn, net, fates
<1>10. \A b, c, t : Fetch(b, c, t) => OnAndOn
  BY DEF Fetch, OnAndOn, net, fates
<1>11. \A i, n : MergeFinds(i, n) \/ MergeSaves(i) \/ MergeRefused(i) => OnAndOn
  BY DEF MergeFinds, MergeSaves, MergeRefused, OnAndOn, net, fates
<1>12. \A r : CreateRefused(r) \/ DeleteRefused(r) \/ RequestFails(r) => Refuse(r)
  BY DEF CreateRefused, DeleteRefused, RequestFails
<1>13. CASE Arrival
  BY <1>2, <1>3, <1>7, <1>9, <1>10, <1>13 DEF Arrival
<1>14. CASE Progress
  BY <1>4, <1>6, <1>8, <1>11, <1>12, <1>14 DEF Progress
<1>15. CASE Failure
  BY <1>4, <1>8, <1>12, <1>15 DEF Failure
<1> QED
  BY <1>1, <1>13, <1>14, <1>15 DEF Next

(* What becomes of a goroutine that is to send.                            *)
LEMMA OutsEnd ==
    ASSUME [Next]_vars, NEW o \in outs
    PROVE  o \in outs' \/ SendActivity(o) \/ \A b \in Boards : <<o.type, o.note, b>> \in lost'
<1>1. ASSUME NEW x \in outs, SendActivity(x) PROVE o \in outs' \/ SendActivity(o)
  BY <1>1 DEF SendActivity
<1>2. ASSUME NEW x \in outs, SendFails(x)
      PROVE  o \in outs' \/ \A b \in Boards : <<o.type, o.note, b>> \in lost'
  BY <1>2 DEF SendFails
<1>3. ASSUME NEW h, Crash(h)
      PROVE  o \in outs' \/ \A b \in Boards : <<o.type, o.note, b>> \in lost'
  BY <1>3 DEF Crash
<1>4. ASSUME \/ \E s \in sends : Attempt(s) \/ TimesOut(s) \/ Dropped(s)
             \/ \E r \in requests : Refuse(r)
             \/ \E k \in handlers : CreateSaved(k) \/ SaveRefused(k) \/ DeleteDone(k) \/ DeleteFails(k)
      PROVE  o \in outs'
  BY <1>4 DEF Attempt, TimesOut, Dropped, Refuse, CreateSaved, SaveRefused, DeleteDone, DeleteFails
<1> QED
  BY <1>1, <1>2, <1>3, <1>4, SendingSteps DEF OnAndOn

LEMMA LostGrows == ASSUME [Next]_vars PROVE lost \subseteq lost'
<1>1. \A o : SendActivity(o) \/ SendFails(o) => lost \subseteq lost'
  BY DEF SendActivity, SendFails, fates
<1>2. \A s : Attempt(s) \/ TimesOut(s) \/ Dropped(s) => lost \subseteq lost'
  BY DEF Attempt, TimesOut, Dropped, Fails, fates
<1>3. \A r : Refuse(r) => lost \subseteq lost'
  BY DEF Refuse, Fails
<1>4. \A k : CreateSaved(k) \/ SaveRefused(k) \/ DeleteDone(k) \/ DeleteFails(k) => lost \subseteq lost'
  BY DEF CreateSaved, SaveRefused, DeleteDone, DeleteFails, Succeeds, Fails
<1>5. \A h : Crash(h) => lost \subseteq lost'
  BY DEF Crash
<1> QED
  BY <1>1, <1>2, <1>3, <1>4, <1>5, SendingSteps DEF OnAndOn

(* ... and of one that sends.                                              *)
LEMMA SendsEnd ==
    ASSUME Inv, [Next]_vars, NEW s \in sends
    PROVE  \/ \E x \in sends' : x.act = s.act /\ x.to = s.to
           \/ Fate(s) \in lost'
           \/ \E k \in handlers : /\ CreateSaved(k) \/ DeleteDone(k)
                                  /\ k.req.act = s.act /\ k.req.to = s.to
<1> DEFINE Goal == \/ \E x \in sends' : x.act = s.act /\ x.to = s.to
                   \/ Fate(s) \in lost'
<1>1. ASSUME NEW x, Attempt(x) PROVE Goal
  <2>1. CASE s # x
    BY <1>1, <2>1 DEF Attempt
  <2>2. CASE s = x
    <3> DEFINE next == [s EXCEPT !.try = @ + 1, !.flying = TRUE]
    <3>1. next \in sends'
      BY <1>1, <2>2 DEF Attempt
    <3>2. next.act = s.act /\ next.to = s.to
      BY DEF Inv, SendsOK, SendOK, Sending
    <3> QED
      BY <3>1, <3>2
  <2> QED
    BY <2>1, <2>2
<1>2. ASSUME NEW x, TimesOut(x) PROVE Goal
  BY <1>2, FailsFacts DEF TimesOut
<1>3. ASSUME NEW x, Dropped(x) PROVE Goal
  BY <1>3 DEF Dropped
<1>4. ASSUME NEW r, Refuse(r) PROVE Goal
  BY <1>4, FailsFacts DEF Refuse
<1>5. ASSUME NEW k \in handlers, CreateSaved(k) \/ DeleteDone(k)
      PROVE  Goal \/ (k.req.act = s.act /\ k.req.to = s.to)
  <2>1. CASE Fails(Waiting(k.req))
    BY <2>1, FailsFacts
  <2>2. CASE Succeeds(Waiting(k.req))
    BY <2>2 DEF Succeeds, Waiting
  <2> QED
    BY <1>5, <2>1, <2>2 DEF CreateSaved, DeleteDone
<1>6. ASSUME NEW k, SaveRefused(k) \/ DeleteFails(k) PROVE Goal
  BY <1>6, FailsFacts DEF SaveRefused, DeleteFails
<1>7. ASSUME NEW h, Crash(h) PROVE Goal
  <2> DEFINE k == {x \in handlers : Host[x.req.to] = h}
             d == {x \in sends : Host[x.act.from] = h}
             w == (UNION {Waiting(x.req) : x \in k}) \ d
  <2>1. /\ sends' = (sends \ (d \cup w)) \cup UNION {Retry(x) : x \in w}
        /\ \A x \in d \cup {y \in w : Retry(y) = {}} : Fate(x) \in lost'
    BY <1>7 DEF Crash
  <2> HIDE DEF k, d, w
  <2>2. CASE s \in w /\ Retry(s) # {}
    <3>1. [s EXCEPT !.flying = FALSE] \in sends'
      BY <2>1, <2>2 DEF Retry
    <3>2. [s EXCEPT !.flying = FALSE].act = s.act /\ [s EXCEPT !.flying = FALSE].to = s.to
      BY DEF Inv, SendsOK, SendOK, Sending
    <3> QED
      BY <3>1, <3>2
  <2> QED
    BY <2>1, <2>2
<1>8. \A o : SendActivity(o) \/ SendFails(o) => s \in sends'
  BY DEF SendActivity, SendFails, net
<1>9. OnAndOn => s \in sends'
  BY DEF OnAndOn
<1> QED
  BY <1>1, <1>2, <1>3, <1>4, <1>5, <1>6, <1>7, <1>8, <1>9, SendingSteps

LEMMA WrittenSteps ==
    ASSUME [Next]_vars
    PROVE  UNCHANGED written \/ \E f \in forms : PostSaved(f)
BY StillSteps
   DEF Still, PostArrives, Resend, Fetch, CreateFound, DeleteFound, Find, CreateSaved,
       DeleteDone, Deletes, MergeSaves, MergeRefused, MergeFinds

LEMMA WrittenGrows == ASSUME Inv, [Next]_vars PROVE Grows
<1>1. ASSUME NEW f \in forms, PostSaved(f) PROVE Grows
  BY <1>1 DEF PostSaved, Inv, FormsOK, FormOK, Put, Grows
<1> QED
  BY <1>1, WrittenSteps DEF Grows

LEMMA ActivityGoes ==
    ASSUME Inv, NumbersOK, DueOK, NEW o \in outs, SendActivity(o),
           NEW f \in written[o.note].due, o.type = "Create" => Shown(o.note)
    PROVE  \E s \in sends' : s.act.type = o.type /\ s.act.note = o.note /\ s.to = f
<1>1. /\ OutOK(o) /\ o.note \in DOMAIN written /\ o.from = Home[o.note]
      /\ o.type \in Types
  BY DEF Inv, OutsOK, OutOK, Outs
<1>2. o.thread = Zero \/ Stands(o.from, o.thread)
  <2>1. CASE o.type = "Create"
    <3>1. rows[o.from][o.note].thread = o.thread
      BY <1>1, <2>1 DEF Shown, NumbersOK, OutsKnown
    <3> QED
      BY <1>1, <2>1, <3>1 DEF Shown, Orphan
  <2>2. CASE o.type = "Delete"
    BY <1>1, <2>2 DEF OutOK
  <2> QED
    BY <1>1, <2>1, <2>2 DEF Types
<1> DEFINE a == Activity(o)
<1>3. a.all = followers[o.from] /\ a.type = o.type /\ a.note = o.note
  BY <1>2, ActivityFacts
<1>4. f \in Audience(a)
  BY <1>1, <1>3 DEF DueOK, Audience
<1>5. [act |-> a, to |-> f, try |-> 0, flying |-> FALSE] \in sends'
  BY <1>2, <1>4 DEF SendActivity
<1> HIDE DEF a
<1> QED
  BY <1>3, <1>5

(* An activity that is afoot stays so until it has come.                   *)
LEMMA AfootStep ==
    ASSUME Inv, NumbersOK, DueOK, [Next]_vars, NEW type \in Types,
           NEW n \in DOMAIN written, NEW f \in written[n].due,
           Afoot(type, n, f), type = "Create" => Shown(n)
    PROVE  \/ \E o \in outs' : o.type = type /\ o.note = n
           \/ \E s \in sends' : s.act.type = type /\ s.act.note = n /\ s.to = f
           \/ <<type, n, f>> \in lost'
           \/ type = "Create" /\ Came(n, f)'
           \/ type = "Delete" /\ Went(n, f)'
<1>1. f \in Boards /\ n \in Notes
  BY WrittenFacts DEF Inv
<1>2. CASE <<type, n, f>> \in lost
  BY <1>2, LostGrows
<1>3. CASE \E o \in outs : o.type = type /\ o.note = n
  <2>1. PICK o \in outs : o.type = type /\ o.note = n
    BY <1>3
  <2>2. CASE o \in outs'
    BY <2>1, <2>2
  <2>3. CASE SendActivity(o)
    BY <2>1, <2>3, ActivityGoes
  <2>4. CASE \A b \in Boards : <<o.type, o.note, b>> \in lost'
    BY <1>1, <2>1, <2>4
  <2> QED
    BY <2>2, <2>3, <2>4, OutsEnd
<1>4. CASE \E s \in sends : s.act.type = type /\ s.act.note = n /\ s.to = f
  <2>1. PICK s \in sends : s.act.type = type /\ s.act.note = n /\ s.to = f
    BY <1>4
  <2>2. CASE \E x \in sends' : x.act = s.act /\ x.to = s.to
    BY <2>1, <2>2
  <2>3. CASE Fate(s) \in lost'
    BY <2>1, <2>3 DEF Fate
  <2>4. ASSUME NEW k \in handlers, CreateSaved(k), k.req.act = s.act, k.req.to = s.to
        PROVE  type = "Create" /\ Came(n, f)'
    <3> DEFINE b == Target(k.req.act, k.req.to)
    <3>1. /\ Insert(b, n, k.post.thread, FALSE) /\ type = "Create" /\ b \in Boards
          /\ Host[b] = Host[f]
      BY <2>1, <2>4, HandlerFacts, TargetFacts DEF CreateSaved, ActOK
    <3>2. copies[b][n] \in Nat /\ copies'[b][n] = copies[b][n] + 1
      <4> HIDE DEF b
      <4> QED
        BY <1>1, <3>1 DEF Insert, Inv, DbOK
    <3> QED
      BY <3>1, <3>2 DEF Came
  <2>5. ASSUME NEW k \in handlers, DeleteDone(k), k.req.act = s.act, k.req.to = s.to
        PROVE  type = "Delete" /\ Went(n, f)'
    <3>1. Remove(f, k.post) /\ type = "Delete" /\ k.req.act.type = "Delete"
      BY <2>1, <2>5 DEF DeleteDone
    <3>2. /\ k.post.id \in Notes \X Nat /\ k.post.id[1] = n /\ Known(f, k.post.id)
          /\ k.post.id = <<n, k.post.id[2]>>
      BY <2>1, <2>5, <3>1, HandlerFacts
         DEF HandlerOK, PostOK, NumbersOK, HandlersKnown, HandlerKnown
    <3>3. k.post.id[2] \in 1 .. copies[f][n] /\ copies[f][n] \in Nat
      BY <1>1, <3>2, NoneFacts DEF Known, Inv, DbOK
    <3>4. UNCHANGED copies /\ DOMAIN rows'[f] = DOMAIN rows[f] \ Under(f, k.post)
      BY <1>1, <3>1, RemoveFacts DEF Inv
    <3>5. n \in DOMAIN rows'[f] => copies[f][n] > k.post.id[2]
      <4>1. n \in DOMAIN rows'[f] => Number(f, n) # k.post.id
        BY <3>4 DEF Under
      <4> QED
        BY <3>2, <3>3, <4>1 DEF Number
    <3> QED
      BY <3>1, <3>3, <3>4, <3>5 DEF Went, Has
  <2> QED
    BY <2>2, <2>3, <2>4, <2>5, SendsEnd
<1> QED
  BY <1>2, <1>3, <1>4 DEF Afoot

LEMMA DueNext ==
    ASSUME Inv, DueOK, [Next]_vars
    PROVE  DueOK'
<1> SUFFICES ASSUME NEW n \in DOMAIN written' PROVE written'[n].due \subseteq followers'[Home[n]]
  BY DEF DueOK
<1>1. \A b \in Boards : followers[b] \subseteq followers'[b]
  <2>1. ASSUME NEW b, NEW f, FollowArrives(b, f) PROVE \A c \in Boards : followers[c] \subseteq followers'[c]
    BY <2>1 DEF FollowArrives, Inv, DbOK
  <2>2. (\E j \in Joins : FollowArrives(j[1], j[2])) \/ UNCHANGED followers
    <3>1. Added \/ Removed => UNCHANGED followers
      BY DEF Added, Removed, Insert, Remove
    <3>2. CASE UNCHANGED vars \/ Rest \/ Arrival
      BY <3>2 DEF Rest, vars, db, Arrival, PostArrives, DeleteArrives, Resend, Fetch
    <3>3. CASE Failure
      <4>1. \A h : Crash(h) => UNCHANGED followers
        BY DEF Crash, db
      <4> QED
        BY <3>3, <4>1 DEF Failure, db, FormFails, DeletionFails, SendFails, RequestFails, Refuse,
                          DeleteFails, TimesOut, Dropped
    <3>4. CASE Progress
      BY <3>4 DEF Progress, db, Insert, Remove, PostSaved, SendActivity, Attempt, Find, Refuse,
                  CreateFound, CreateRefused, DeleteFound, DeleteRefused, CreateSaved, SaveRefused,
                  DeleteDone, Deletes, MergeFinds, MergeSaves, MergeRefused
    <3> QED
      BY <3>2, <3>3, <3>4 DEF Next
  <2> QED
    BY <2>1, <2>2
<1>2. CASE UNCHANGED written
  <2>1. n \in Notes /\ Home[n] \in Boards
    BY <1>2, WrittenFacts, FederationAssumption DEF Inv
  <2> QED
    BY <1>1, <1>2, <2>1 DEF DueOK
<1>3. CASE \E f \in forms : PostSaved(f)
  <2>1. PICK f \in forms : PostSaved(f)
    BY <1>3
  <2>2. /\ written' = Put(written, f.note, [thread |-> f.thread[1], due |-> followers[Home[f.note]]])
        /\ f.note \in Notes /\ f.note \notin DOMAIN written /\ Home[f.note] \in Boards
    BY <2>1, FederationAssumption DEF PostSaved, Inv, FormsOK, FormOK
  <2>3. CASE n = f.note
    BY <1>1, <2>2, <2>3 DEF Put
  <2>4. CASE n \in DOMAIN written
    <3>1. Home[n] \in Boards /\ written'[n] = written[n]
      BY <2>2, <2>4, WrittenFacts, FederationAssumption DEF Put, Inv
    <3> QED
      BY <1>1, <2>4, <3>1 DEF DueOK
  <2> QED
    BY <2>2, <2>3, <2>4 DEF Put
<1>4. UNCHANGED written \/ \E f \in forms : PostSaved(f)
  BY WrittenSteps
<1> QED
  BY <1>2, <1>3, <1>4

LEMMA CreatesNext ==
    ASSUME Inv, NumbersOK, DueOK, CreatesTold, [Next]_vars
    PROVE  CreatesTold'
<1> SUFFICES ASSUME NEW n \in DOMAIN written', NEW f \in written'[n].due, Shown(n)'
             PROVE  \/ \E o \in outs' : o.type = "Create" /\ o.note = n
                    \/ \E s \in sends' : s.act.type = "Create" /\ s.act.note = n /\ s.to = f
                    \/ <<"Create", n, f>> \in lost'
                    \/ Came(n, f)'
  BY DEF CreatesTold, Afoot
<1>1. CASE n \in DOMAIN written /\ written'[n] = written[n]
  <2>1. Shown(n) /\ n \in Notes
    BY <1>1, ShownBefore, WrittenFacts DEF Inv
  <2>2. CASE Came(n, f)
    BY <2>1, <2>2, CameKept
  <2>3. CASE Afoot("Create", n, f)
    BY <1>1, <2>1, <2>3, AfootStep DEF Types
  <2> QED
    BY <1>1, <2>1, <2>2, <2>3 DEF CreatesTold
<1>2. CASE \E g \in forms : PostSaved(g)
  <2>1. PICK g \in forms : PostSaved(g)
    BY <1>2
  <2>2. /\ outs' = outs \cup {Out("Create", g.note, g.thread, Home[g.note], 0)}
        /\ written' = Put(written, g.note, [thread |-> g.thread[1], due |-> followers[Home[g.note]]])
        /\ g.note \notin DOMAIN written
    BY <2>1 DEF PostSaved, Inv, FormsOK, FormOK
  <2>3. CASE n = g.note
    <3> DEFINE o == Out("Create", g.note, g.thread, Home[g.note], 0)
    <3>1. o \in outs' /\ o.type = "Create" /\ o.note = n
      BY <2>2, <2>3 DEF Out
    <3> QED
      BY <3>1
  <2>4. CASE n # g.note
    BY <1>1, <2>2, <2>4 DEF Put
  <2> QED
    BY <2>3, <2>4
<1>3. UNCHANGED written \/ \E g \in forms : PostSaved(g)
  BY WrittenSteps
<1> QED
  BY <1>1, <1>2, <1>3

LEMMA DeletesNext ==
    ASSUME Inv, NumbersOK, DueOK, DeletesTold, [Next]_vars
    PROVE  DeletesTold'
<1>0. Grows
  BY WrittenGrows
<1> SUFFICES ASSUME NEW n \in deleted', NEW f \in written'[n].due
             PROVE  \/ \E o \in outs' : o.type = "Delete" /\ o.note = n
                    \/ \E s \in sends' : s.act.type = "Delete" /\ s.act.note = n /\ s.to = f
                    \/ <<"Delete", n, f>> \in lost'
                    \/ Went(n, f)'
  BY DEF DeletesTold, Afoot
<1>1. CASE n \in deleted
  <2>1. /\ n \in DOMAIN written /\ written'[n] = written[n] /\ n \in Notes /\ f \in Boards
    BY <1>0, <1>1, WrittenFacts DEF Inv, HistoryOK, Grows
  <2>2. CASE Went(n, f)
    BY <2>1, <2>2, WentKept
  <2>3. CASE Afoot("Delete", n, f)
    BY <2>1, <2>3, AfootStep DEF Types
  <2> QED
    BY <1>1, <2>1, <2>2, <2>3 DEF DeletesTold
<1>2. CASE n \notin deleted
  <2>1. PICK d \in deletions : Deletes(d)
    BY <1>2, StillSteps
       DEF Still, PostArrives, PostSaved, Resend, Fetch, CreateFound, DeleteFound, Find, CreateSaved,
           DeleteDone, MergeSaves, MergeRefused, MergeFinds
  <2>2. n = d.note /\ Out("Delete", d.note, Zero, d.board, d.by) \in outs'
    BY <1>2, <2>1 DEF Deletes
  <2> QED
    BY <2>2 DEF Out
<1> QED
  BY <1>1, <1>2

LEMMA Inv2Init == ASSUME Init PROVE Inv2
BY DEF Init, Inv2, DueOK, CreatesTold, DeletesTold

LEMMA Inv2Next == ASSUME Inv, NumbersOK, Inv2, [Next]_vars PROVE Inv2'
BY DueNext, CreatesNext, DeletesNext DEF Inv2

THEOREM Inv2Holds == Spec => [](Inv /\ NumbersOK /\ Inv2)
<1>1. Init => Inv /\ NumbersOK /\ Inv2
  BY InvInit, NumbersInit, Inv2Init
<1>2. Inv /\ NumbersOK /\ Inv2 /\ [Next]_vars => (Inv /\ NumbersOK /\ Inv2)'
  BY InvNext, NumbersNext, Inv2Next
<1> QED
  BY <1>1, <1>2, PTL DEF Spec

(* When nothing is under way, a post its board shows has come to the       *)
(* instance of every board that followed when it was saved, unless sending *)
(* it there failed (Propagated): until then somebody is about to send it,  *)
(* or sends it, and stops only after an answer that is a 200 or a failure. *)
THEOREM PropagatedHolds == Spec => []Propagated
<1>1. ASSUME Inv2, Quiet, NEW n \in DOMAIN written, NEW f \in written[n].due, Shown(n)
      PROVE  \/ \E b \in Boards : Host[b] = Host[f] /\ copies[b][n] > 0
             \/ <<"Create", n, f>> \in lost
  BY <1>1 DEF Inv2, CreatesTold, Afoot, Came, Quiet
<1>2. Inv2 => Propagated
  BY <1>1 DEF Propagated
<1> QED
  BY <1>2, Inv2Holds, PTL

(* When nothing is under way, a board that was to get a post does not have *)
(* it after its home deleted it, unless telling it failed or the post has  *)
(* come to it more than once (ToldEveryone): a Delete is acknowledged only *)
(* by a board that had the post and removed that row.                      *)
THEOREM ToldEveryoneHolds == Spec => []ToldEveryone
<1>1. ASSUME Inv, Inv2, Quiet, NEW n \in deleted, NEW f \in written[n].due
      PROVE  ~Has(f, n) \/ <<"Delete", n, f>> \in lost \/ copies[f][n] > 1
  BY <1>1 DEF Inv2, DeletesTold, Afoot, Went, Quiet
<1>2. Inv /\ Inv2 => ToldEveryone
  BY <1>1 DEF ToldEveryone
<1> QED
  BY <1>2, Inv2Holds, PTL

-----------------------------------------------------------------------------
(* The ways for a note to come to a board.                                 *)

(* x, a send or a request, brings note n to board b.                       *)
For(x, b, n) == x.act.type = "Create" /\ x.act.note = n /\ Target(x.act, x.to) = b

Merges(i, b, n) ==
    i.to = b /\ (n \in i.todo \/ i.saving = n \/ (i.id = Zero /\ i.thread = n))

Nothing(b, n) ==
    /\ \A s \in sends : ~For(s, b, n)
    /\ \A r \in requests : ~For(r, b, n)
    /\ \A k \in handlers : ~For(k.req, b, n)
    /\ \A i \in imports : ~Merges(i, b, n)

(* At most one thing is about to bring n to b: a send with the request it  *)
(* waits for, a request nobody waits for, or an import.                    *)
AtMostOne(b, n) ==
    /\ \A s \in sends, x \in sends : For(s, b, n) /\ For(x, b, n) => s = x
    /\ \A r \in requests, x \in requests : For(r, b, n) /\ For(x, b, n) => r = x
    /\ \A k \in handlers, x \in handlers : For(k.req, b, n) /\ For(x.req, b, n) => k = x
    /\ \A i \in imports, x \in imports : Merges(i, b, n) /\ Merges(x, b, n) => i = x
    /\ \A r \in requests, k \in handlers : ~(For(r, b, n) /\ For(k.req, b, n))
    /\ \A s \in sends, r \in requests : For(s, b, n) /\ For(r, b, n) => s \in Waiting(r)
    /\ \A s \in sends, k \in handlers : For(s, b, n) /\ For(k.req, b, n) => s \in Waiting(k.req)
    /\ \A i \in imports : Merges(i, b, n) =>
          /\ \A s \in sends : ~For(s, b, n)
          /\ \A r \in requests : ~For(r, b, n)
          /\ \A k \in handlers : ~For(k.req, b, n)

WayOK(b, n) ==
    /\ copies[b][n] <= 1
    /\ copies[b][n] = 1 => Nothing(b, n)
    /\ <<b, n>> \notin once => copies[b][n] = 0 /\ Nothing(b, n)
    /\ AtMostOne(b, n)

WaysOK == \A b \in Boards, n \in Notes : <<b, n>> \notin again => WayOK(b, n)
LEMMA ForSame ==
    ASSUME NEW x, NEW y, x.act = y.act, x.to = y.to, NEW b, NEW n
    PROVE  For(x, b, n) <=> For(y, b, n)
BY DEF For

(* Something is about to bring n to b: it is not there, and never was.     *)
LEMMA Busy ==
    ASSUME Inv, NEW b \in Boards, NEW n \in Notes, WayOK(b, n), ~Nothing(b, n)
    PROVE  copies[b][n] = 0 /\ <<b, n>> \in once
<1>1. copies[b][n] \in Nat
  BY DEF Inv, DbOK
<1> QED
  BY <1>1 DEF WayOK

(* Nothing new is about to bring n to b.                                   *)
LEMMA WayFrame ==
    ASSUME NEW b, NEW n, WayOK(b, n), copies'[b][n] = copies[b][n], once \subseteq once',
           \A s \in sends' : For(s, b, n) => s \in sends,
           \A r \in requests' : For(r, b, n) => r \in requests,
           \A k \in handlers' : For(k.req, b, n) => k \in handlers,
           \A i \in imports' : Merges(i, b, n) => i \in imports
    PROVE  WayOK(b, n)'
<1>1. Nothing(b, n) => Nothing(b, n)'
  BY DEF Nothing
<1>2. AtMostOne(b, n)'
  BY DEF WayOK, AtMostOne, Waiting
<1> QED
  BY <1>1, <1>2 DEF WayOK

(* Only sends are about to bring n to b, and not more than one.            *)
LEMMA WayAlone ==
    ASSUME NEW b, NEW n, copies'[b][n] = 0, <<b, n>> \in once',
           \A s \in sends', x \in sends' : For(s, b, n) /\ For(x, b, n) => s = x,
           \A r \in requests' : ~For(r, b, n),
           \A k \in handlers' : ~For(k.req, b, n),
           \A i \in imports' : ~Merges(i, b, n)
    PROVE  WayOK(b, n)'
<1>1. AtMostOne(b, n)'
  BY DEF AtMostOne
<1> QED
  BY <1>1 DEF WayOK

(* n came to b, and nothing is about to bring it again.                    *)
LEMMA WayDone ==
    ASSUME NEW b, NEW n, copies'[b][n] = 1, <<b, n>> \in once', Nothing(b, n)'
    PROVE  WayOK(b, n)'
<1>1. AtMostOne(b, n)'
  BY DEF Nothing, AtMostOne
<1> QED
  BY <1>1 DEF WayOK

(* The sends that waited for q and failed.                                 *)
LEMMA FailsWay ==
    ASSUME Inv, NEW q, Fails(Waiting(q)), NEW b, NEW n, AtMostOne(b, n)
    PROVE  /\ ~For(q, b, n) => \A s \in sends' : For(s, b, n) => s \in sends
           /\ (\A s \in sends : For(s, b, n) => s \in Waiting(q)) =>
                  \A s \in sends', x \in sends' : For(s, b, n) /\ For(x, b, n) => s = x
<1>1. \A s \in Waiting(q) : s \in sends /\ s.act = q.act /\ s.to = q.to /\ SendOK(s)
  BY DEF Waiting, Inv, SendsOK
<1>2. ASSUME NEW s \in sends', s \notin sends
      PROVE  \E x \in Waiting(q) : s \in Retry(x) /\ s.act = x.act /\ s.to = x.to
  BY <1>1, <1>2, RetryFacts DEF Fails
<1>3. ASSUME ~For(q, b, n), NEW s \in sends', For(s, b, n)
      PROVE  s \in sends
  BY <1>1, <1>2, <1>3, ForSame
<1>4. ASSUME \A s \in sends : For(s, b, n) => s \in Waiting(q),
             NEW s \in sends', NEW x \in sends', For(s, b, n), For(x, b, n)
      PROVE  s = x
  <2>1. \A y \in sends' : For(y, b, n) => \E z \in Waiting(q) : y \in Retry(z) /\ For(z, b, n)
    <3>1. ASSUME NEW y \in sends', For(y, b, n), y \in sends PROVE \E z \in Waiting(q) : y \in Retry(z)
      BY <1>4, <3>1 DEF Fails
    <3>2. ASSUME NEW y \in sends', For(y, b, n), NEW z \in Waiting(q), y \in Retry(z) PROVE For(z, b, n)
      BY <1>1, <3>2, RetryFacts, ForSame
    <3> QED
      BY <1>2, <3>1, <3>2
  <2>2. PICK y \in Waiting(q), z \in Waiting(q) :
            s \in Retry(y) /\ For(y, b, n) /\ x \in Retry(z) /\ For(z, b, n)
    BY <1>4, <2>1
  <2>3. y = z
    BY <1>1, <2>2 DEF AtMostOne
  <2> QED
    BY <2>2, <2>3 DEF Retry
<1> QED
  BY <1>3, <1>4

LEMMA PostSavedWay ==
    ASSUME Inv, WaysOK, NEW f \in forms, PostSaved(f),
           NEW b \in Boards, NEW n \in Notes, <<b, n>> \notin again'
    PROVE  WayOK(b, n)'
<1>1. /\ Insert(Home[f.note], f.note, f.thread, TRUE) /\ UNCHANGED <<net, staff>>
      /\ once' = once \cup {<<Home[f.note], f.note>>}
      /\ again' = again \cup ({<<Home[f.note], f.note>>} \cap once)
      /\ f.note \in Notes /\ Home[f.note] \in Boards
  BY FederationAssumption DEF PostSaved, Bring, Inv, FormsOK, FormOK
<1>2. WayOK(b, n)
  BY <1>1 DEF WaysOK
<1>3. CASE b = Home[f.note] /\ n = f.note
  <2>1. copies[b][n] = 0 /\ Nothing(b, n)
    BY <1>1, <1>2, <1>3 DEF WayOK
  <2>2. copies'[b][n] = 1
    BY <1>1, <1>3, <2>1 DEF Insert, Inv, DbOK
  <2>3. Nothing(b, n)'
    BY <1>1, <2>1 DEF Nothing, net, staff
  <2> QED
    BY <1>1, <1>3, <2>2, <2>3, WayDone
<1>4. CASE ~(b = Home[f.note] /\ n = f.note)
  <2>1. copies'[b][n] = copies[b][n]
    BY <1>1, <1>4 DEF Insert, Inv, DbOK
  <2> QED
    BY <1>1, <1>2, <2>1, WayFrame DEF net, staff
<1> QED
  BY <1>3, <1>4

LEMMA SendActivityWay ==
    ASSUME Inv, WaysOK, NEW o \in outs, SendActivity(o),
           NEW b \in Boards, NEW n \in Notes, <<b, n>> \notin again'
    PROVE  WayOK(b, n)'
<1> DEFINE a == Activity(o)
           New == {[act |-> a, to |-> f, try |-> 0, flying |-> FALSE] : f \in Audience(a)}
<1>1. UNCHANGED <<db, requests, handlers, staff>>
  BY DEF SendActivity
<1>2. CASE UNCHANGED <<sends, ways>>
  BY <1>1, <1>2, WayFrame DEF WaysOK, db, staff, ways
<1>3. CASE sends' = sends \cup New /\ a.type # "Create" /\ UNCHANGED ways
  <2>1. \A s \in New : ~For(s, b, n)
    BY <1>3 DEF For
  <2> QED
    BY <1>1, <1>3, <2>1, WayFrame DEF WaysOK, db, staff, ways
<1>4. CASE /\ sends' = sends \cup New /\ a.type = "Create"
           /\ once' = once \cup Brought(a)
           /\ again' = again \cup (Brought(a) \cap once) \cup Twice(a)
  <2>1. WayOK(b, n)
    BY <1>4 DEF WaysOK
  <2>2. CASE <<b, n>> \in Brought(a)
    <3>1. copies[b][n] = 0 /\ Nothing(b, n) /\ <<b, n>> \notin Twice(a)
      BY <1>4, <2>1, <2>2 DEF WayOK
    <3>2. ASSUME NEW s \in New, NEW x \in New, For(s, b, n), For(x, b, n) PROVE s = x
      <4>1. PICK f \in Audience(a) : s = [act |-> a, to |-> f, try |-> 0, flying |-> FALSE]
        BY <3>2
      <4>2. PICK g \in Audience(a) : x = [act |-> a, to |-> g, try |-> 0, flying |-> FALSE]
        BY <3>2
      <4>3. Target(a, f) = b /\ Target(a, g) = b /\ a.note = n
        BY <3>2, <4>1, <4>2 DEF For
      <4>4. f = g
        BY <3>1, <4>3 DEF Twice
      <4> QED
        BY <4>1, <4>2, <4>4
    <3> HIDE DEF New
    <3>3. \A s \in sends', x \in sends' : For(s, b, n) /\ For(x, b, n) => s = x
      BY <1>4, <3>1, <3>2 DEF Nothing
    <3> QED
      BY <1>1, <1>4, <2>2, <3>1, <3>3, WayAlone DEF db, staff, Nothing
  <2>3. CASE <<b, n>> \notin Brought(a)
    <3>1. \A s \in New : ~For(s, b, n)
      BY <2>3 DEF For, Brought
    <3> HIDE DEF New
    <3> QED
      BY <1>1, <1>4, <2>1, <3>1, WayFrame DEF db, staff
  <2> QED
    BY <2>2, <2>3
<1> QED
  BY <1>2, <1>3, <1>4 DEF SendActivity

LEMMA AttemptWay ==
    ASSUME Inv, WaysOK, NEW s \in sends, Attempt(s),
           NEW b \in Boards, NEW n \in Notes, <<b, n>> \notin again'
    PROVE  WayOK(b, n)'
<1> DEFINE next == [s EXCEPT !.try = @ + 1, !.flying = TRUE]
<1>1. /\ UNCHANGED <<db, handlers, staff, ways>> /\ ~s.flying
      /\ sends' = (sends \ {s}) \cup {next}
      /\ requests' = requests \cup {Request(next)}
  BY DEF Attempt
<1>2. /\ next.act = s.act /\ next.to = s.to /\ next.flying
      /\ Request(next).act = s.act /\ Request(next).to = s.to /\ Request(next).try = next.try
  BY DEF Inv, SendsOK, SendOK, Sending, Request
<1> HIDE DEF next
<1>3. WayOK(b, n)
  BY <1>1 DEF WaysOK, ways
<1>4. CASE ~For(s, b, n)
  <2>1. ~For(next, b, n) /\ ~For(Request(next), b, n)
    BY <1>2, <1>4, ForSame
  <2> QED
    BY <1>1, <1>3, <2>1, WayFrame DEF db, staff, ways
<1>5. CASE For(s, b, n)
  <2>1. \A q : s \notin Waiting(q)
    BY <1>1 DEF Waiting
  <2>2. /\ \A r \in requests : ~For(r, b, n)
        /\ \A k \in handlers : ~For(k.req, b, n)
        /\ \A i \in imports : ~Merges(i, b, n)
        /\ \A x \in sends : For(x, b, n) => x = s
    BY <1>3, <1>5, <2>1 DEF WayOK, AtMostOne
  <2>3. next \in Waiting(Request(next))'
    BY <1>1, <1>2 DEF Waiting
  <2>4. AtMostOne(b, n)'
    BY <1>1, <2>2, <2>3 DEF AtMostOne, staff
  <2>5. copies[b][n] = 0 /\ <<b, n>> \in once
    BY <1>3, <1>5, Busy DEF Nothing
  <2> QED
    BY <1>1, <2>4, <2>5 DEF WayOK, db, ways
<1> QED
  BY <1>4, <1>5

LEMMA FindWay ==
    ASSUME Inv, WaysOK, NEW r \in requests, NEW p, Find(r, p),
           NEW b \in Boards, NEW n \in Notes, <<b, n>> \notin again'
    PROVE  WayOK(b, n)'
<1> DEFINE k == [req |-> r, post |-> p]
<1>1. /\ UNCHANGED <<db, sends, staff, ways>>
      /\ requests' = requests \ {r} /\ handlers' = handlers \cup {k} /\ k.req = r
  BY DEF Find
<1> HIDE DEF k
<1>2. WayOK(b, n)
  BY <1>1 DEF WaysOK, ways
<1>3. CASE ~For(r, b, n)
  BY <1>1, <1>2, <1>3, WayFrame DEF db, staff, ways
<1>4. CASE For(r, b, n)
  <2>1. /\ \A x \in requests' : ~For(x, b, n)
        /\ \A x \in handlers : ~For(x.req, b, n)
        /\ \A i \in imports : ~Merges(i, b, n)
        /\ \A s \in sends : For(s, b, n) => s \in Waiting(r)
        /\ \A s \in sends, x \in sends : For(s, b, n) /\ For(x, b, n) => s = x
    BY <1>1, <1>2, <1>4 DEF WayOK, AtMostOne
  <2>2. Waiting(r)' = Waiting(r)
    BY <1>1 DEF Waiting
  <2>3. AtMostOne(b, n)'
    BY <1>1, <2>1, <2>2 DEF AtMostOne, staff, Waiting
  <2>4. copies[b][n] = 0 /\ <<b, n>> \in once
    BY <1>2, <1>4, Busy DEF Nothing
  <2> QED
    BY <1>1, <2>3, <2>4 DEF WayOK, db, ways
<1> QED
  BY <1>3, <1>4

LEMMA RefuseWay ==
    ASSUME Inv, WaysOK, NEW r \in requests, Refuse(r),
           NEW b \in Boards, NEW n \in Notes, <<b, n>> \notin again'
    PROVE  WayOK(b, n)'
<1>1. /\ UNCHANGED <<db, handlers, staff, ways>>
      /\ requests' = requests \ {r} /\ Fails(Waiting(r))
  BY DEF Refuse
<1>2. WayOK(b, n) /\ AtMostOne(b, n)
  BY <1>1 DEF WaysOK, ways, WayOK
<1>3. CASE ~For(r, b, n)
  <2>1. \A s \in sends' : For(s, b, n) => s \in sends
    BY <1>1, <1>2, <1>3, FailsWay
  <2> QED
    BY <1>1, <1>2, <2>1, WayFrame DEF db, staff, ways
<1>4. CASE For(r, b, n)
  <2>1. /\ \A x \in requests' : ~For(x, b, n)
        /\ \A x \in handlers : ~For(x.req, b, n)
        /\ \A i \in imports : ~Merges(i, b, n)
        /\ \A s \in sends : For(s, b, n) => s \in Waiting(r)
    BY <1>1, <1>2, <1>4 DEF AtMostOne
  <2>2. \A s \in sends', x \in sends' : For(s, b, n) /\ For(x, b, n) => s = x
    BY <1>1, <1>2, <2>1, FailsWay
  <2>3. copies[b][n] = 0 /\ <<b, n>> \in once
    BY <1>2, <1>4, Busy DEF Nothing
  <2> QED
    BY <1>1, <2>1, <2>2, <2>3, WayAlone DEF db, staff, ways
<1> QED
  BY <1>3, <1>4

(* A handler ends without saving a note.                                   *)
LEMMA EndWay ==
    ASSUME Inv, WaysOK, NEW k \in handlers, handlers' = handlers \ {k},
           Fails(Waiting(k.req)) \/ (k.req.act.type = "Delete" /\ Succeeds(Waiting(k.req))),
           UNCHANGED <<copies, requests, staff, ways>>,
           NEW b \in Boards, NEW n \in Notes, <<b, n>> \notin again'
    PROVE  WayOK(b, n)'
<1>1. WayOK(b, n) /\ AtMostOne(b, n)
  BY DEF WaysOK, ways, WayOK
<1>2. CASE ~For(k.req, b, n)
  <2>1. \A s \in sends' : For(s, b, n) => s \in sends
    BY <1>1, <1>2, FailsWay DEF Succeeds
  <2> QED
    BY <1>1, <2>1, WayFrame DEF staff, ways
<1>3. CASE For(k.req, b, n)
  <2>1. Fails(Waiting(k.req))
    BY <1>3 DEF For
  <2>2. /\ \A r \in requests : ~For(r, b, n)
        /\ \A x \in handlers' : ~For(x.req, b, n)
        /\ \A i \in imports : ~Merges(i, b, n)
        /\ \A s \in sends : For(s, b, n) => s \in Waiting(k.req)
    BY <1>1, <1>3 DEF AtMostOne
  <2>3. \A s \in sends', x \in sends' : For(s, b, n) /\ For(x, b, n) => s = x
    BY <1>1, <2>1, <2>2, FailsWay
  <2>4. copies[b][n] = 0 /\ <<b, n>> \in once
    BY <1>1, <1>3, Busy DEF Nothing
  <2> QED
    BY <2>2, <2>3, <2>4, WayAlone DEF staff, ways
<1> QED
  BY <1>2, <1>3

LEMMA CreateSavedWay ==
    ASSUME Inv, WaysOK, NEW k \in handlers, CreateSaved(k),
           NEW b \in Boards, NEW n \in Notes, <<b, n>> \notin again'
    PROVE  WayOK(b, n)'
<1> DEFINE r == k.req
           c == Target(r.act, r.to)
<1>1. /\ Insert(c, r.act.note, k.post.thread, FALSE) /\ handlers' = handlers \ {k}
      /\ sends' = sends \ Waiting(r) /\ UNCHANGED <<requests, staff, ways>>
      /\ r.act.type = "Create" /\ c \in Boards /\ r.act.note \in Notes
  BY HandlerFacts DEF CreateSaved, Succeeds
<1>2. WayOK(b, n) /\ AtMostOne(b, n)
  BY <1>1 DEF WaysOK, ways, WayOK
<1> HIDE DEF c, r
<1>3. CASE b = c /\ n = r.act.note
  <2>1. For(k.req, b, n)
    BY <1>1, <1>3 DEF For, c, r
  <2>2. copies[b][n] = 0 /\ <<b, n>> \in once
    BY <1>2, <2>1, Busy DEF Nothing
  <2>3. copies'[b][n] = 1
    BY <1>1, <1>3, <2>2 DEF Insert, Inv, DbOK
  <2>4. Nothing(b, n)'
    BY <1>1, <1>2, <2>1 DEF Nothing, AtMostOne, staff, r
  <2> QED
    BY <1>1, <2>2, <2>3, <2>4, WayDone DEF ways
<1>4. CASE ~(b = c /\ n = r.act.note)
  <2>1. copies'[b][n] = copies[b][n]
    BY <1>1, <1>4 DEF Insert, Inv, DbOK
  <2> QED
    BY <1>1, <1>2, <2>1, WayFrame DEF staff, ways
<1> QED
  BY <1>3, <1>4

LEMMA FetchWay ==
    ASSUME Inv, WaysOK, NEW d \in Boards, NEW c \in Boards, NEW t \in OPs(c), Fetch(d, c, t),
           NEW b \in Boards, NEW n \in Notes, <<b, n>> \notin again'
    PROVE  WayOK(b, n)'
<1> DEFINE i == [to |-> d, thread |-> t, id |-> Zero, todo |-> RepliesIn(c, t),
                 saving |-> None, run |-> fetches]
           S == {<<d, m>> : m \in RepliesIn(c, t) \cup {t}}
<1>1. /\ UNCHANGED <<db, net>> /\ imports' = imports \cup {i}
      /\ once' = once \cup S /\ again' = again \cup (S \cap once)
  BY DEF Fetch, Bring
<1>2. Merges(i, b, n) => <<b, n>> \in S
  BY NoneFacts DEF Merges
<1> HIDE DEF i, S
<1>3. WayOK(b, n)
  BY <1>1 DEF WaysOK
<1>4. CASE ~Merges(i, b, n)
  BY <1>1, <1>3, <1>4, WayFrame DEF db, net
<1>5. CASE Merges(i, b, n)
  <2>1. copies[b][n] = 0 /\ Nothing(b, n) /\ <<b, n>> \in once'
    BY <1>1, <1>2, <1>3, <1>5 DEF WayOK
  <2>2. AtMostOne(b, n)'
    BY <1>1, <2>1 DEF AtMostOne, Nothing, net
  <2> QED
    BY <1>1, <2>1, <2>2 DEF WayOK, db
<1> QED
  BY <1>4, <1>5

(* An import goes on, and may bring less.                                  *)
LEMMA GoesWay ==
    ASSUME Inv, NEW i \in imports, NEW j, Goes(i, j), NEW b, NEW n, WayOK(b, n),
           UNCHANGED <<net, once>>, copies'[b][n] = copies[b][n],
           Merges(j, b, n) => Merges(i, b, n)
    PROVE  WayOK(b, n)'
<1>1. \A x \in imports' : x = j \/ (x \in imports /\ x # i)
  BY DEF Goes
<1>2. CASE ~Merges(j, b, n)
  BY <1>1, <1>2, WayFrame DEF net
<1>3. CASE Merges(j, b, n)
  <2>1. \A x \in imports' : Merges(x, b, n) => x = j
    BY <1>1, <1>3 DEF WayOK, AtMostOne
  <2>2. AtMostOne(b, n)'
    BY <1>3, <2>1 DEF WayOK, AtMostOne, net
  <2>3. ~Nothing(b, n)
    BY <1>3 DEF Nothing
  <2> QED
    BY <2>2, <2>3 DEF WayOK
<1> QED
  BY <1>2, <1>3

LEMMA MergeFindsWay ==
    ASSUME Inv, WaysOK, NEW i \in imports, NEW m \in Notes, MergeFinds(i, m),
           NEW b \in Boards, NEW n \in Notes, <<b, n>> \notin again'
    PROVE  WayOK(b, n)'
<1>1. /\ UNCHANGED <<db, net, ways>> /\ i \in Importing /\ ImportOK(i)
      /\ m \in IF i.id = Zero THEN {i.thread} ELSE i.todo
  BY DEF MergeFinds, Inv, ImportsOK, ImportOK
<1>2. WayOK(b, n)
  BY <1>1 DEF WaysOK, ways
<1>3. PICK j : Goes(i, j) /\ \/ m = i.thread /\ j = [i EXCEPT !.id = Number(i.to, m)]
                             \/ j = [i EXCEPT !.todo = @ \ {m}]
                             \/ j = [i EXCEPT !.saving = m, !.todo = @ \ {m}]
  BY DEF MergeFinds
<1>4. Merges(j, b, n) => Merges(i, b, n)
  BY <1>1, <1>3, NoneFacts DEF Merges, Importing, Number, Zero
<1> QED
  BY <1>1, <1>2, <1>3, <1>4, GoesWay DEF db, ways

LEMMA MergeRefusedWay ==
    ASSUME Inv, WaysOK, NEW i \in imports, MergeRefused(i),
           NEW b \in Boards, NEW n \in Notes, <<b, n>> \notin again'
    PROVE  WayOK(b, n)'
<1>1. UNCHANGED <<db, net, ways>> /\ i \in Importing
  BY DEF MergeRefused, Inv, ImportsOK, ImportOK
<1>2. WayOK(b, n)
  BY <1>1 DEF WaysOK, ways
<1>3. CASE imports' = imports \ {i}
  BY <1>1, <1>2, <1>3, WayFrame DEF db, net, ways
<1>4. CASE Goes(i, [i EXCEPT !.saving = None])
  <2> DEFINE j == [i EXCEPT !.saving = None]
  <2>1. Merges(j, b, n) => Merges(i, b, n)
    BY <1>1, NoneFacts DEF Merges, Importing
  <2> HIDE DEF j
  <2> QED
    BY <1>1, <1>2, <1>4, <2>1, GoesWay DEF db, ways, j
<1> QED
  BY <1>3, <1>4 DEF MergeRefused

LEMMA MergeSavesWay ==
    ASSUME Inv, WaysOK, NEW i \in imports, MergeSaves(i),
           NEW b \in Boards, NEW n \in Notes, <<b, n>> \notin again'
    PROVE  WayOK(b, n)'
<1> DEFINE m == i.saving
           j == [i EXCEPT !.saving = None,
                   !.id = IF m = i.thread THEN <<m, copies[i.to][m] + 1>> ELSE @]
           t == IF m = i.thread THEN Zero ELSE i.id
<1>1. /\ UNCHANGED <<net, ways>> /\ i \in Importing /\ ImportOK(i)
      /\ m \in Notes /\ m # None /\ i.to \in Boards /\ Goes(i, j)
      /\ Insert(i.to, m, t, FALSE)
  BY DEF MergeSaves, Inv, ImportsOK, ImportOK, Importing
<1>2. WayOK(b, n) /\ AtMostOne(b, n)
  BY <1>1 DEF WaysOK, ways, WayOK
<1>3. j.to = i.to /\ j.todo = i.todo /\ j.saving = None /\ j.thread = i.thread
      /\ j.id = IF m = i.thread THEN <<m, copies[i.to][m] + 1>> ELSE i.id
  BY <1>1 DEF Importing
<1> HIDE DEF j, t
<1>4. CASE b = i.to /\ n = m
  <2>1. Merges(i, b, n)
    BY <1>4 DEF Merges
  <2>2. copies[b][n] = 0 /\ <<b, n>> \in once
    BY <1>2, <2>1, Busy DEF Nothing
  <2>3. copies'[b][n] = 1
    BY <1>1, <1>4, <2>2 DEF Insert, Inv, DbOK
  <2>4. ~Merges(j, b, n)
    BY <1>1, <1>3, <1>4, NoneFacts DEF Merges, ImportOK, Zero
  <2>5. Nothing(b, n)'
    BY <1>1, <1>2, <2>1, <2>4 DEF Nothing, AtMostOne, net, Goes
  <2> QED
    BY <1>1, <2>2, <2>3, <2>5, WayDone DEF ways
<1>5. CASE ~(b = i.to /\ n = m)
  <2>1. copies'[b][n] = copies[b][n]
    BY <1>1, <1>5 DEF Insert, Inv, DbOK
  <2>2. Merges(j, b, n) => Merges(i, b, n)
    BY <1>1, <1>3, NoneFacts DEF Merges, Zero
  <2> QED
    BY <1>1, <1>2, <2>1, <2>2, GoesWay DEF ways
<1> QED
  BY <1>4, <1>5

LEMMA TimesOutWay ==
    ASSUME Inv, WaysOK, NEW s \in sends, TimesOut(s),
           NEW b \in Boards, NEW n \in Notes, <<b, n>> \notin again'
    PROVE  WayOK(b, n)'
<1>1. /\ UNCHANGED <<db, requests, handlers, staff, once>>
      /\ sends' = (sends \ {s}) \cup Retry(s)
      /\ again \subseteq again'
      /\ s.act.type = "Create" /\ Retry(s) # {} => <<Target(s.act, s.to), s.act.note>> \in again'
  BY DEF TimesOut, Fails
<1>2. SendOK(s)
  BY DEF Inv, SendsOK
<1>3. \A x \in Retry(s) : ~For(x, b, n)
  BY <1>1, <1>2, RetryFacts DEF For
<1> QED
  BY <1>1, <1>3, WayFrame DEF WaysOK, db, staff

LEMMA CrashWay ==
    ASSUME Inv, WaysOK, NEW h, Crash(h),
           NEW b \in Boards, NEW n \in Notes, <<b, n>> \notin again'
    PROVE  WayOK(b, n)'
<1> DEFINE k == {x \in handlers : Host[x.req.to] = h}
           s == {x \in sends : Host[x.act.from] = h}
           w == (UNION {Waiting(x.req) : x \in k}) \ s
<1>1. /\ UNCHANGED <<db, requests, ways>> /\ handlers' = handlers \ k
      /\ imports' \subseteq imports
      /\ sends' = (sends \ (s \cup w)) \cup UNION {Retry(x) : x \in w}
  BY DEF Crash
<1>2. WayOK(b, n) /\ AtMostOne(b, n)
  BY <1>1 DEF WaysOK, ways, WayOK
<1>3. \A x \in w : x \in sends /\ SendOK(x) /\ \E y \in k : x \in Waiting(y.req)
  BY DEF Waiting, Inv, SendsOK
<1>4. k \subseteq handlers
  OBVIOUS
<1> HIDE DEF k, s, w
<1>5. ASSUME NEW x \in sends'
      PROVE  \/ x \in sends /\ x \notin w
             \/ \E y \in w : x \in Retry(y) /\ x.act = y.act /\ x.to = y.to
  BY <1>1, <1>3, RetryFacts
<1>6. CASE \E x \in w : For(x, b, n)
  <2>1. PICK x \in w : For(x, b, n)
    BY <1>6
  <2>2. PICK y \in k : x \in Waiting(y.req)
    BY <1>3
  <2>3. For(y.req, b, n)
    BY <2>1, <2>2, ForSame DEF Waiting
  <2>4. /\ \A r \in requests : ~For(r, b, n)
        /\ \A z \in handlers : For(z.req, b, n) => z = y
        /\ \A i \in imports : ~Merges(i, b, n)
        /\ \A z \in sends : For(z, b, n) => z = x
    BY <1>2, <1>3, <1>4, <2>1, <2>3 DEF AtMostOne
  <2>5. \A z \in sends' : For(z, b, n) => z \in Retry(x)
    <3>1. ASSUME NEW z \in sends', For(z, b, n) PROVE z \in Retry(x)
      <4>1. CASE z \in sends /\ z \notin w
        BY <2>1, <2>4, <3>1, <4>1
      <4>2. CASE \E v \in w : z \in Retry(v) /\ z.act = v.act /\ z.to = v.to
        <5>1. PICK v \in w : z \in Retry(v) /\ z.act = v.act /\ z.to = v.to
          BY <4>2
        <5>2. For(v, b, n) /\ v \in sends
          BY <1>3, <3>1, <5>1, ForSame
        <5> QED
          BY <2>4, <5>1, <5>2
      <4> QED
        BY <1>5, <4>1, <4>2
    <3> QED
      BY <3>1
  <2>6. \A z \in Retry(x), v \in Retry(x) : z = v
    BY DEF Retry
  <2>7. copies[b][n] = 0 /\ <<b, n>> \in once
    BY <1>2, <1>3, <2>1, Busy DEF Nothing
  <2> QED
    BY <1>1, <2>2, <2>4, <2>5, <2>6, <2>7, WayAlone DEF db, ways
<1>7. CASE \A x \in w : ~For(x, b, n)
  <2>1. \A x \in sends' : For(x, b, n) => x \in sends
    BY <1>5, <1>7, ForSame
  <2> QED
    BY <1>1, <1>2, <2>1, WayFrame DEF db, ways
<1> QED
  BY <1>6, <1>7

LEMMA WaysNext == ASSUME Inv, WaysOK, [Next]_vars PROVE WaysOK'
<1> SUFFICES ASSUME NEW b \in Boards, NEW n \in Notes, <<b, n>> \notin again'
             PROVE  WayOK(b, n)'
  BY DEF WaysOK
<1> DEFINE Plain == UNCHANGED <<copies, ways, sends, requests, handlers>> /\ imports' \subseteq imports
<1>1. ASSUME Plain PROVE WayOK(b, n)'
  BY <1>1, WayFrame DEF WaysOK, ways
<1>2. CASE UNCHANGED vars \/ Rest
  BY <1>1, <1>2 DEF Rest, vars, db, net, staff
<1>3. CASE Arrival
  <2>1. ASSUME NEW m, PostArrives(m) PROVE Plain
    BY <2>1 DEF PostArrives, db, net, staff
  <2>2. ASSUME NEW c, NEW f, FollowArrives(c, f) PROVE Plain
    BY <2>2 DEF FollowArrives, net, staff
  <2>3. ASSUME NEW c, NEW m, NEW x, DeleteArrives(c, m, x) PROVE Plain
    BY <2>3 DEF DeleteArrives, db, net
  <2>4. ASSUME NEW c, NEW m, Resend(c, m) PROVE Plain
    BY <2>4 DEF Resend, db, net
  <2>5. ASSUME NEW c \in Boards, NEW d \in Boards, NEW t \in OPs(c), Fetch(d, c, t)
        PROVE  WayOK(b, n)'
    BY <2>5, FetchWay
  <2> HIDE DEF Plain
  <2> QED
    BY <1>1, <1>3, <2>1, <2>2, <2>3, <2>4, <2>5 DEF Arrival
<1>4. CASE Progress
  <2>1. ASSUME NEW f \in forms, PostSaved(f) PROVE WayOK(b, n)'
    BY <2>1, PostSavedWay
  <2>2. ASSUME NEW o \in outs, SendActivity(o) PROVE WayOK(b, n)'
    BY <2>2, SendActivityWay
  <2>3. ASSUME NEW s \in sends, Attempt(s) PROVE WayOK(b, n)'
    BY <2>3, AttemptWay
  <2>4. ASSUME NEW r \in requests,
               CreateFound(r) \/ CreateRefused(r) \/ DeleteFound(r) \/ DeleteRefused(r)
        PROVE  WayOK(b, n)'
    BY <2>4, FindWay, RefuseWay DEF CreateFound, CreateRefused, DeleteFound, DeleteRefused
  <2>5. ASSUME NEW k \in handlers, CreateSaved(k) PROVE WayOK(b, n)'
    BY <2>5, CreateSavedWay
  <2>6. ASSUME NEW k \in handlers, SaveRefused(k) PROVE WayOK(b, n)'
    BY <2>6, EndWay DEF SaveRefused, db
  <2>7. ASSUME NEW k \in handlers, DeleteDone(k) PROVE WayOK(b, n)'
    BY <2>7, EndWay DEF DeleteDone, Remove
  <2>8. ASSUME NEW d, Deletes(d) PROVE Plain
    BY <2>8 DEF Deletes, Remove, net
  <2>9. ASSUME NEW i \in imports,
               MergeSaves(i) \/ MergeRefused(i) \/ \E m \in Notes : MergeFinds(i, m)
        PROVE  WayOK(b, n)'
    BY <2>9, MergeSavesWay, MergeRefusedWay, MergeFindsWay
  <2> HIDE DEF Plain
  <2> QED
    BY <1>1, <1>4, <2>1, <2>2, <2>3, <2>4, <2>5, <2>6, <2>7, <2>8, <2>9 DEF Progress
<1>5. CASE Failure
  <2>1. ASSUME NEW f, FormFails(f) PROVE Plain
    BY <2>1 DEF FormFails, db, net, staff
  <2>2. ASSUME NEW o, SendFails(o) PROVE Plain
    BY <2>2 DEF SendFails, db, net, staff
  <2>3. ASSUME NEW s \in sends, TimesOut(s) PROVE WayOK(b, n)'
    BY <2>3, TimesOutWay
  <2>4. ASSUME NEW s \in sends, Dropped(s) PROVE WayOK(b, n)'
    BY <2>4, WayFrame DEF Dropped, WaysOK, db, staff, ways
  <2>5. ASSUME NEW r \in requests, RequestFails(r) PROVE WayOK(b, n)'
    BY <2>5, RefuseWay DEF RequestFails
  <2>6. ASSUME NEW k \in handlers, DeleteFails(k) PROVE WayOK(b, n)'
    BY <2>6, EndWay DEF DeleteFails, db
  <2>7. ASSUME NEW d, DeletionFails(d) PROVE Plain
    BY <2>7 DEF DeletionFails, db, net
  <2>8. ASSUME NEW h, Crash(h) PROVE WayOK(b, n)'
    BY <2>8, CrashWay
  <2> HIDE DEF Plain
  <2> QED
    BY <1>1, <1>5, <2>1, <2>2, <2>3, <2>4, <2>5, <2>6, <2>7, <2>8 DEF Failure
<1> QED
  BY <1>2, <1>3, <1>4, <1>5 DEF Next

LEMMA WaysInit == ASSUME Init PROVE WaysOK
<1>1. \A b \in Boards, n \in Notes : copies[b][n] = 0
  BY DEF Init
<1>2. sends = {} /\ requests = {} /\ handlers = {} /\ imports = {}
  BY DEF Init
<1> QED
  BY <1>1, <1>2 DEF WaysOK, WayOK, Nothing, AtMostOne

(* A board gets a note a second time only if there was a second way for it *)
(* to come (NeverReturns): a send is over when it is acknowledged and has  *)
(* one request out at a time, so that unless it is repeated, resent,       *)
(* imported or sent to two followers of one instance, nothing is left that *)
(* could bring a note once it has come.                                    *)
THEOREM NeverReturnsHolds == Spec => []NeverReturns
<1>1. Init => Inv /\ WaysOK
  BY InvInit, WaysInit
<1>2. Inv /\ WaysOK /\ [Next]_vars => (Inv /\ WaysOK)'
  BY InvNext, WaysNext
<1>3. Inv /\ WaysOK => NeverReturns
  <2>1. ASSUME Inv, WaysOK, NEW b \in Boards, NEW n \in Notes, copies[b][n] > 1, <<b, n>> \notin again
        PROVE  FALSE
    <3>1. copies[b][n] <= 1 /\ copies[b][n] \in Nat
      BY <2>1 DEF WaysOK, WayOK, Inv, DbOK
    <3> QED
      BY <2>1, <3>1
  <2> QED
    BY <2>1 DEF NeverReturns
<1> QED
  BY <1>1, <1>2, <1>3, PTL DEF Spec

=============================================================================
