---------------------------- MODULE BoardProofs ----------------------------
(***************************************************************************)
(* Proofs about Board for any number of requests and apids, whatever fails *)
(* and whenever the process dies.                                          *)
(***************************************************************************)
EXTENDS Board, TLAPS

Merging == {"mergeOp", "mergeSaveOp", "mergeNext", "mergeSave"}

(* What an insert does to the rows; everything else about SavePostTx is    *)
(* derived from it.                                                        *)
LEMMA InsertFacts ==
    ASSUME TypeOK, NEW t \in {0} \cup Posts, NEW name \in Names,
           InsertPost(t, name)
    PROVE  /\ seq' = seq + 1
           /\ seq' \in Nat
           /\ Posts' = Posts \cup {seq + 1}
           /\ seq + 1 \notin Posts
           /\ live' = live \cup {seq + 1}
           /\ post' \in [Posts' -> [thread : Nat, name : Names]]
           /\ \A id \in Posts : post'[id] = post[id]
           /\ post'[seq + 1] = [thread |-> t, name |-> name]
           /\ Holding(name) = {}
<1>1. /\ seq' = seq + 1
      /\ live' = live \cup {seq + 1}
      /\ Holding(name) = {}
  BY DEF InsertPost, NextId
<1>2. seq \in Nat /\ seq' \in Nat
  BY <1>1 DEF TypeOK
<1>3. Posts' = Posts \cup {seq + 1} /\ seq + 1 \notin Posts
  BY <1>1, <1>2 DEF Posts
<1>4. DOMAIN post = Posts
  BY DEF TypeOK
<1>5. post' = [id \in Posts \cup {seq + 1} |->
                  IF id = seq + 1 THEN [thread |-> t, name |-> name]
                                  ELSE post[id]]
  BY <1>4 DEF InsertPost, NextId
<1>6. [thread |-> t, name |-> name] \in [thread : Nat, name : Names]
  BY <1>2 DEF Posts
<1>7. \A id \in Posts : post[id] \in [thread : Nat, name : Names]
  BY DEF TypeOK
<1>8. post' \in [Posts' -> [thread : Nat, name : Names]]
  BY <1>3, <1>5, <1>6, <1>7
<1>9. /\ \A id \in Posts : post'[id] = post[id]
      /\ post'[seq + 1] = [thread |-> t, name |-> name]
  BY <1>3, <1>5
<1> QED
  BY <1>1, <1>2, <1>3, <1>8, <1>9

LEMMA SaveFacts ==
    ASSUME TypeOK, NEW t \in {0} \cup Posts, NEW name \in Names,
           SavePostTx(t, name)
    PROVE  /\ InsertPost(t, name)
           /\ links \subseteq links'
           /\ \A l \in links' \ links :
                \E id \in live : /\ l = <<seq + 1, id>>
                                 /\ t # 0
                                 /\ \/ Row(id).thread = t
                                    \/ id = t /\ Row(id).thread = 0
           /\ reports' = reports
           /\ audit' = audit
BY DEF SavePostTx, RepliedTo, NextId

(* The locals a request may have over the rows "rows" ...                  *)
LocalsOver(rows) ==
    [pc : PCs, id : {0} \cup rows, name : Names \cup {NoName}, todo : SUBSET Names]

(* ... and past its lookup it has found a row or a name.                   *)
LocalsIn(r, rows) ==
    /\ r \in LocalsOver(rows)
    /\ r.pc \in Deletion \cup {"report", "mergeNext", "mergeSave"} => r.id \in rows
    /\ r.pc \in {"create", "mergeOp", "mergeSaveOp", "mergeSave"} => r.name \in Names

LocalsOK ==
    /\ req \in [Requests -> LocalsOver(Posts)]
    /\ \A p \in Requests : LocalsIn(req[p], Posts)

Inv1 == TypeOK /\ LocalsOK

(* A step that moves one request and forgets no row.                       *)
LEMMA LocalsStep ==
    ASSUME LocalsOK, NEW p \in Requests, NEW r, Goto(p, r),
           Posts \subseteq Posts', LocalsIn(r, Posts')
    PROVE  LocalsOK'
<1>1. req' = [req EXCEPT ![p] = r]
  BY DEF Goto
<1>2. req \in [Requests -> LocalsOver(Posts')]
  <2>1. LocalsOver(Posts) \subseteq LocalsOver(Posts')
    BY DEF LocalsOver
  <2> QED
    BY <2>1 DEF LocalsOK
<1>3. r \in LocalsOver(Posts')
  BY DEF LocalsIn
<1>4. req' \in [Requests -> LocalsOver(Posts')]
  BY <1>1, <1>2, <1>3
<1>5. ASSUME NEW q \in Requests PROVE LocalsIn(req'[q], Posts')
  <2>1. CASE q = p
    BY <1>1, <1>2, <2>1
  <2>2. CASE q # p
    <3>1. req'[q] = req[q] /\ LocalsIn(req[q], Posts)
      BY <1>1, <1>2, <2>2 DEF LocalsOK
    <3>2. req[q] \in LocalsOver(Posts')
      BY <1>2
    <3> QED
      BY <3>1, <3>2 DEF LocalsIn
  <2> QED
    BY <2>1, <2>2
<1> QED
  BY <1>4, <1>5 DEF LocalsOK, LocalsOver, LocalsIn

LEMMA Inv1Init == ASSUME Init PROVE Inv1
<1>1. Posts = {} /\ post \in [Posts -> [thread : Nat, name : Names]]
  BY DEF Init, Posts
<1>2. Fresh \in LocalsOver(Posts) /\ LocalsIn(Fresh, Posts)
  BY DEF Fresh, Locals, LocalsOver, LocalsIn, PCs, Deletion
<1>3. LocalsOK
  BY <1>2 DEF Init, LocalsOK
<1>4. TypeOK
  BY <1>1, <1>3 DEF Init, TypeOK, LocalsOK, LocalsOver
<1> QED
  BY <1>3, <1>4 DEF Inv1

(* The shape of each kind of step: who moves, and what happens to the rows. *)
LEMMA SaveKeepsInv1 ==
    ASSUME Inv1, NEW p \in Requests, NEW r, Goto(p, r), UNCHANGED <<dead, late>>,
           NEW t \in {0} \cup Posts, NEW name \in Names, SavePostTx(t, name),
           LocalsIn(r, Posts')
    PROVE  Inv1'
<1>1. InsertPost(t, name) /\ TypeOK /\ LocalsOK
  BY SaveFacts DEF Inv1
<1>2. LocalsOK'
  BY <1>1, InsertFacts, LocalsStep
<1>3. links' \subseteq Posts' \X Posts'
  <2>1. links \subseteq Posts' \X Posts'
    BY <1>1, InsertFacts DEF TypeOK
  <2>2. live \subseteq Posts' /\ seq + 1 \in Posts'
    BY <1>1, InsertFacts DEF TypeOK
  <2>3. \A l \in links' \ links : \E id \in live : l = <<seq + 1, id>>
    BY <1>1, SaveFacts
  <2>4. \A l \in links' \ links : l \in Posts' \X Posts'
    BY <2>2, <2>3
  <2> QED
    BY <2>1, <2>4
<1>4. /\ live' \subseteq Posts' /\ reports' \subseteq Posts' /\ audit' \subseteq Posts'
      /\ late' \subseteq reports'
  BY <1>1, InsertFacts, SaveFacts DEF TypeOK
<1>5. TypeOK'
  BY <1>1, <1>2, <1>3, <1>4, InsertFacts DEF TypeOK, LocalsOK, LocalsOver
<1> QED
  BY <1>2, <1>5 DEF Inv1

LEMMA MoveKeepsInv1 ==
    ASSUME Inv1, NEW p \in Requests, NEW r, Goto(p, r), UNCHANGED <<seq, post, links, dead>>,
           live' \subseteq live, reports' \subseteq Posts, audit' \subseteq Posts,
           late' \subseteq reports', LocalsIn(r, Posts)
    PROVE  Inv1'
<1>1. Posts' = Posts
  BY DEF Posts
<1>2. LocalsOK'
  BY <1>1, LocalsStep DEF Inv1
<1>3. TypeOK'
  BY <1>1, <1>2 DEF Inv1, TypeOK, LocalsOK, LocalsOver
<1> QED
  BY <1>2, <1>3 DEF Inv1

LEMMA ArriveKeepsInv1 ==
    ASSUME Inv1, NEW p \in Requests, Arrive(p)
    PROVE  Inv1'
<1> USE DEF Locals, LocalsIn, LocalsOver, PCs, Deletion
<1>1. /\ live \subseteq Posts /\ OPs \subseteq live
      /\ reports \subseteq Posts /\ audit \subseteq Posts /\ late \subseteq reports
  BY DEF Inv1, TypeOK, OPs
<1>2. ASSUME NEW r, Goto(p, r), UNCHANGED <<store, dead, late>>, LocalsIn(r, Posts)
      PROVE  Inv1'
  BY <1>1, <1>2, MoveKeepsInv1 DEF store
<1>3. ASSUME NEW id \in Posts, StartDelete(p, id), UNCHANGED <<store, dead, late>>
      PROVE  Inv1'
  BY <1>2, <1>3 DEF StartDelete
<1>4. CASE TurnedAway(p)
  BY <1>2, <1>4 DEF TurnedAway, Done
<1>5. CASE PostArrives(p)
  BY <1>1, <1>2, <1>5 DEF PostArrives
<1>6. CASE CreateArrives(p)
  BY <1>1, <1>2, <1>6 DEF CreateArrives, ThreadOfNote, Names, RemoteNames, ThreadNames, ReplyNames
<1>7. CASE ReportArrives(p)
  BY <1>1, <1>2, <1>7 DEF ReportArrives
<1>8. CASE DeleteArrives(p)
  BY <1>1, <1>3, <1>8 DEF DeleteArrives
<1>9. CASE RemoteDeleteArrives(p)
  BY <1>1, <1>3, <1>9 DEF RemoteDeleteArrives, Holding
<1>10. CASE MergeArrives(p)
  BY <1>1, <1>2, <1>10 DEF MergeArrives, OutboxItems, ThreadOfNote, Names, ThreadNames, ReplyNames
<1> QED
  BY <1>4, <1>5, <1>6, <1>7, <1>8, <1>9, <1>10 DEF Arrive

LEMMA ContinueKeepsInv1 ==
    ASSUME Inv1, NEW p \in Requests, Continue(p)
    PROVE  Inv1'
<1> USE DEF Locals, LocalsIn, LocalsOver, PCs, Deletion
<1> DEFINE here == req[p]
<1>1. /\ live \subseteq Posts /\ reports \subseteq Posts /\ audit \subseteq Posts
      /\ late \subseteq reports
      /\ LocalsIn(here, Posts)
      /\ LocalThreads \cup LocalReplies \subseteq Names
  BY DEF Inv1, TypeOK, LocalsOK, Names, ThreadNames, ReplyNames
<1> HIDE DEF here
<1>2. ASSUME NEW r, Goto(p, r), UNCHANGED <<store, dead, late>>, LocalsIn(r, Posts)
      PROVE  Inv1'
  BY <1>1, <1>2, MoveKeepsInv1 DEF store
<1>3. ASSUME NEW rows, NEW id \in rows, NEW todo \in SUBSET Names
      PROVE  LocalsIn(IF todo = {} THEN Done ELSE Locals("mergeNext", id, NoName, todo), rows)
  BY DEF Done
<1>a. ASSUME NEW id \in Posts, NEW todo \in SUBSET Names,
             Import(p, id, todo), UNCHANGED <<store, dead, late>>
      PROVE  Inv1'
  <2> DEFINE r == IF todo = {} THEN Done ELSE Locals("mergeNext", id, NoName, todo)
  <2>1. Goto(p, r) /\ LocalsIn(r, Posts)
    BY <1>3, <1>a DEF Import
  <2> HIDE DEF r
  <2> QED
    BY <1>2, <1>a, <2>1
<1>b. ASSUME NEW t \in {0} \cup Posts, NEW name \in Names, SavePostTx(t, name),
             NEW id \in Posts', NEW todo \in SUBSET Names,
             Import(p, id, todo), UNCHANGED <<dead, late>>
      PROVE  Inv1'
  <2> DEFINE r == IF todo = {} THEN Done ELSE Locals("mergeNext", id, NoName, todo)
  <2>1. Goto(p, r) /\ LocalsIn(r, Posts')
    BY <1>3, <1>b DEF Import
  <2> HIDE DEF r
  <2> QED
    BY <1>b, <2>1, SaveKeepsInv1
<1>4. ASSUME NEW rows PROVE LocalsIn(Done, rows)
  BY DEF Done
<1>5. ASSUME NEW pc \in Deletion, here.pc \in Deletion
      PROVE  LocalsIn([here EXCEPT !.pc = pc], Posts)
  BY <1>1, <1>5
<1>6. CASE PostSaved(p)
  BY <1>1, <1>4, <1>6, SaveKeepsInv1 DEF PostSaved, here
<1>7. CASE CreateSaved(p)
  BY <1>1, <1>4, <1>7, SaveKeepsInv1 DEF CreateSaved, At, here
<1>8. CASE Refused(p)
  BY <1>2, <1>4, <1>8 DEF Refused
<1>9. CASE ReportFiled(p)
  <2>1. reports' \subseteq Posts /\ late' \subseteq reports'
    BY <1>1, <1>9 DEF ReportFiled, At, here
  <2> QED
    BY <1>1, <1>4, <1>9, <2>1, MoveKeepsInv1 DEF ReportFiled
<1>10. CASE ThreadReportsDeleted(p)
  BY <1>1, <1>5, <1>10, MoveKeepsInv1 DEF ThreadReportsDeleted, DropReports, At, here
<1>11. CASE ThreadPostsDeleted(p)
  BY <1>1, <1>5, <1>11, MoveKeepsInv1 DEF ThreadPostsDeleted, At, here
<1>12. CASE PostReportsDeleted(p)
  BY <1>1, <1>5, <1>12, MoveKeepsInv1 DEF PostReportsDeleted, DropReports, At, here
<1>13. CASE PostDeleted(p)
  BY <1>1, <1>5, <1>13, MoveKeepsInv1 DEF PostDeleted, At, here
<1>14. CASE Audited(p)
  <2>1. audit' \subseteq Posts
    BY <1>1, <1>14 DEF Audited, At, here
  <2> QED
    BY <1>1, <1>4, <1>14, <2>1, MoveKeepsInv1 DEF Audited
<1>15. CASE MergeFindsOp(p)
  <2>1. CASE \E id \in Holding(here.name) : Import(p, id, here.todo)
    BY <1>1, <1>a, <1>15, <2>1 DEF MergeFindsOp, Holding
  <2>2. CASE Goto(p, [here EXCEPT !.pc = "mergeSaveOp"])
    <3>1. LocalsIn([here EXCEPT !.pc = "mergeSaveOp"], Posts)
      BY <1>1, <1>15 DEF MergeFindsOp, At, here
    <3> QED
      BY <1>2, <1>15, <2>2, <3>1 DEF MergeFindsOp
  <2> QED
    BY <1>15, <2>1, <2>2 DEF MergeFindsOp, here
<1>16. CASE MergeSavesOp(p)
  <2>1. here.id \in {0} \cup Posts /\ here.name \in Names /\ here.todo \in SUBSET Names
    BY <1>1, <1>16 DEF MergeSavesOp, At, here
  <2>2. CASE SavePostTx(here.id, here.name) /\ Import(p, NextId, here.todo)
    <3>1. NextId \in Posts'
      BY <2>1, <2>2, SaveFacts, InsertFacts DEF NextId, Inv1
    <3> QED
      BY <1>b, <1>16, <2>1, <2>2, <3>1 DEF MergeSavesOp
  <2>3. CASE Goto(p, Done) /\ UNCHANGED store
    BY <1>2, <1>4, <1>16, <2>3 DEF MergeSavesOp
  <2> QED
    BY <1>16, <2>2, <2>3 DEF MergeSavesOp, here
<1>17. CASE MergeFindsReply(p)
  <2>1. PICK name \in here.todo :
          \/ Import(p, here.id, here.todo \ {name})
          \/ Goto(p, Locals("mergeSave", here.id, name, here.todo \ {name}))
    BY <1>17 DEF MergeFindsReply, here
  <2>2. here.id \in Posts /\ here.todo \in SUBSET Names /\ name \in Names
    BY <1>1, <1>17, <2>1 DEF MergeFindsReply, At, here
  <2>3. LocalsIn(Locals("mergeSave", here.id, name, here.todo \ {name}), Posts)
    BY <2>2
  <2> QED
    BY <1>2, <1>a, <1>17, <2>1, <2>2, <2>3 DEF MergeFindsReply
<1>18. CASE MergeSavesReply(p)
  <2>1. here.id \in Posts /\ here.name \in Names /\ here.todo \in SUBSET Names
    BY <1>1, <1>18 DEF MergeSavesReply, At, here
  <2>2. CASE SavePostTx(here.id, here.name)
    <3>1. here.id \in Posts'
      BY <2>1, <2>2, SaveFacts, InsertFacts DEF Inv1
    <3> QED
      BY <1>b, <1>18, <2>1, <2>2, <3>1 DEF MergeSavesReply, here
  <2>3. CASE UNCHANGED store
    BY <1>a, <1>18, <2>1, <2>3 DEF MergeSavesReply, here
  <2> QED
    BY <1>18, <2>2, <2>3 DEF MergeSavesReply, here
<1> QED
  BY <1>6, <1>7, <1>8, <1>9, <1>10, <1>11, <1>12, <1>13, <1>14, <1>15, <1>16,
     <1>17, <1>18 DEF Continue

LEMMA Inv1Step == ASSUME Inv1, [Next]_vars PROVE Inv1'
<1>1. CASE UNCHANGED <<store, req, late>> /\ dead' \subseteq Requests
  BY <1>1 DEF Inv1, TypeOK, LocalsOK, LocalsIn, LocalsOver, Posts, store
<1>2. CASE \E p \in Requests : DeletionFails(p)
  BY <1>1, <1>2 DEF DeletionFails, Inv1, TypeOK
<1>3. CASE Crash
  BY <1>1, <1>3 DEF Crash, Inv1, TypeOK
<1>4. CASE UNCHANGED vars
  BY <1>1, <1>4 DEF vars, store, Inv1, TypeOK
<1> QED
  BY <1>2, <1>3, <1>4, ArriveKeepsInv1, ContinueKeepsInv1 DEF Next, Rest

(* The tables, the locals of every request and what they point at keep     *)
(* their types: a row a request holds on to is one that was inserted.      *)
THEOREM Inv1Holds == Spec => []Inv1
<1>1. Init => Inv1
  BY Inv1Init
<1>2. Inv1 /\ [Next]_vars => Inv1'
  BY Inv1Step
<1> QED
  BY <1>1, <1>2, PTL DEF Spec

(* Type correctness of every table and request (TypeOK of Board).          *)
THEOREM TypeCorrect == Spec => []TypeOK
<1>1. Inv1 => TypeOK
  BY DEF Inv1
<1> QED
  BY <1>1, Inv1Holds, PTL

-----------------------------------------------------------------------------
(* What a step may do to the rows, and to a request. *)

(* The apid of the row a save of request p stores.                         *)
Stores(p, name) ==
    /\ name \in Names
    /\ \/ name \in IF req[p].id = 0 THEN LocalThreads ELSE LocalReplies
       \/ req[p].pc # "save" /\ name = req[p].name

LEMMA SaveKind ==
    ASSUME Inv1, NEW p \in Requests,
           PostSaved(p) \/ CreateSaved(p) \/ MergeSavesOp(p) \/ MergeSavesReply(p)
    PROVE  \/ UNCHANGED store
           \/ \E name :
                  /\ Stores(p, name)
                  /\ req[p].id \in {0} \cup Posts
                  /\ SavePostTx(req[p].id, name)
<1>1. LocalsIn(req[p], Posts)
  BY DEF Inv1, LocalsOK
<1>2. req[p].id \in {0} \cup Posts
  BY <1>1 DEF LocalsIn, LocalsOver
<1>3. CASE PostSaved(p)
  BY <1>2, <1>3 DEF PostSaved, Names, ThreadNames, ReplyNames, Stores
<1>4. ASSUME At(p, "create") \/ At(p, "mergeSaveOp") \/ At(p, "mergeSave")
      PROVE  Stores(p, req[p].name)
  BY <1>1, <1>4 DEF At, LocalsIn, Stores
<1>5. CASE CreateSaved(p)
  BY <1>2, <1>4, <1>5 DEF CreateSaved
<1>6. CASE MergeSavesOp(p)
  BY <1>2, <1>4, <1>6 DEF MergeSavesOp
<1>7. CASE MergeSavesReply(p)
  BY <1>2, <1>4, <1>7 DEF MergeSavesReply
<1> QED
  BY <1>3, <1>5, <1>6, <1>7

LEMMA StepKinds ==
    ASSUME Inv1, [Next]_vars
    PROVE  \/ UNCHANGED <<seq, live, post, links>>
           \/ \E p \in Requests : ThreadPostsDeleted(p) \/ PostDeleted(p)
           \/ \E p \in Requests : \E name :
                  /\ PostSaved(p) \/ CreateSaved(p) \/ MergeSavesOp(p) \/ MergeSavesReply(p)
                  /\ Stores(p, name)
                  /\ req[p].id \in {0} \cup Posts
                  /\ SavePostTx(req[p].id, name)
<1>1. ASSUME NEW p \in Requests, Arrive(p)
      PROVE  UNCHANGED <<seq, live, post, links>>
  BY <1>1 DEF Arrive, TurnedAway, PostArrives, CreateArrives, ReportArrives,
     DeleteArrives, RemoteDeleteArrives, MergeArrives, store
<1>2. ASSUME NEW p \in Requests, Continue(p), ~ThreadPostsDeleted(p), ~PostDeleted(p),
             ~PostSaved(p), ~CreateSaved(p), ~MergeSavesOp(p), ~MergeSavesReply(p)
      PROVE  UNCHANGED <<seq, live, post, links>>
  BY <1>2 DEF Continue, Refused, ReportFiled, ThreadReportsDeleted,
     PostReportsDeleted, Audited, MergeFindsOp, MergeFindsReply, store
<1>3. UNCHANGED store => UNCHANGED <<seq, live, post, links>>
  BY DEF store
<1>4. ASSUME (\E p \in Requests : DeletionFails(p)) \/ Crash \/ UNCHANGED vars
      PROVE  UNCHANGED <<seq, live, post, links>>
  BY <1>4 DEF DeletionFails, Crash, vars, store
<1> QED
  BY <1>1, <1>2, <1>3, <1>4, SaveKind DEF Next, Rest

LEMMA Moves ==
    ASSUME Inv1, [Next]_vars, NEW q \in Requests
    PROVE  req'[q] = req[q] \/ Arrive(q) \/ Continue(q)
<1>1. ASSUME NEW p \in Requests, Arrive(p) \/ Continue(p)
      PROVE  \E r : Goto(p, r)
  BY <1>1 DEF Arrive, TurnedAway, PostArrives, CreateArrives, ReportArrives,
     DeleteArrives, RemoteDeleteArrives, MergeArrives, StartDelete, Continue,
     PostSaved, CreateSaved, Refused, ReportFiled, ThreadReportsDeleted,
     ThreadPostsDeleted, PostReportsDeleted, PostDeleted, Audited,
     MergeFindsOp, MergeSavesOp, MergeFindsReply, MergeSavesReply, Import
<1>2. ASSUME NEW p \in Requests, NEW r, Goto(p, r), p # q
      PROVE  req'[q] = req[q]
  BY <1>2 DEF Goto, Inv1, TypeOK
<1>3. ASSUME (\E p \in Requests : DeletionFails(p)) \/ Crash \/ UNCHANGED vars
      PROVE  req' = req
  BY <1>3 DEF DeletionFails, Crash, vars
<1> QED
  BY <1>1, <1>2, <1>3 DEF Next, Rest

(* Rows are only added, under numbers never used before. *)
LEMMA RowsKept ==
    ASSUME Inv1, [Next]_vars
    PROVE  /\ Posts \subseteq Posts'
           /\ \A id \in Posts : post'[id] = post[id]
           /\ Posts \ live \subseteq Posts' \ live'
<1>1. CASE UNCHANGED <<seq, live, post, links>>
  BY <1>1 DEF Posts
<1>2. CASE \E p \in Requests : ThreadPostsDeleted(p) \/ PostDeleted(p)
  BY <1>2 DEF ThreadPostsDeleted, PostDeleted, Posts
<1>3. ASSUME NEW t \in {0} \cup Posts, NEW name \in Names, SavePostTx(t, name)
      PROVE  /\ Posts \subseteq Posts'
             /\ \A id \in Posts : post'[id] = post[id]
             /\ Posts \ live \subseteq Posts' \ live'
  BY <1>3, SaveFacts, InsertFacts DEF Inv1
<1> QED
  BY <1>1, <1>2, <1>3, StepKinds DEF Stores

(* A removed post never returns and a row never changes (NeverBack).       *)
THEOREM NeverBackHolds == Spec => NeverBack
<1>1. Inv1 /\ [Next]_vars =>
        [/\ Posts \ live \subseteq Posts' \ live'
         /\ \A id \in Posts : post'[id] = post[id]]_vars
  BY RowsKept
<1> QED
  BY <1>1, Inv1Holds, PTL DEF Spec, NeverBack

(* A backlink never leads out of its thread or forward (LinksInThread).    *)
THEOREM LinksInThreadHolds == Spec => []LinksInThread
<1>1. Init => LinksInThread
  BY DEF Init, LinksInThread
<1>2. ASSUME Inv1, LinksInThread, [Next]_vars PROVE LinksInThread'
  <2>1. /\ links \subseteq Posts \X Posts /\ live \subseteq Posts
        /\ \A id \in Posts : Row(id)' = Row(id)
    BY <1>2, RowsKept DEF Inv1, TypeOK, Row
  <2>2. CASE links' = links
    BY <1>2, <2>1, <2>2 DEF LinksInThread
  <2>3. ASSUME NEW t \in {0} \cup Posts, NEW name \in Names, SavePostTx(t, name),
               NEW l \in links' \ links
        PROVE  /\ l[2] < l[1]
               /\ Row(l[1])'.thread # 0
               /\ Row(l[1])'.thread \in {l[2], Row(l[2])'.thread}
    <3>1. PICK id \in live : /\ l = <<seq + 1, id>>
                             /\ t # 0
                             /\ Row(id).thread = t \/ id = t
      BY <1>2, <2>3, SaveFacts DEF Inv1
    <3>2. post'[seq + 1].thread = t
      <4>1. post'[seq + 1] = [thread |-> t, name |-> name]
        BY <1>2, <2>3, SaveFacts, InsertFacts DEF Inv1
      <4> QED
        BY <4>1
    <3>3. id < seq + 1
      BY <1>2, <2>1 DEF Inv1, TypeOK, Posts
    <3>4. id \in Posts
      BY <2>1
    <3> QED
      BY <2>1, <3>1, <3>2, <3>3, <3>4 DEF Row
  <2>4. ASSUME NEW t \in {0} \cup Posts, NEW name \in Names, SavePostTx(t, name)
        PROVE  LinksInThread'
    BY <1>2, <2>1, <2>3, <2>4 DEF LinksInThread
  <2> QED
    BY <2>2, <2>4, <1>2, StepKinds DEF ThreadPostsDeleted, PostDeleted, Stores
<1> QED
  BY <1>1, <1>2, Inv1Holds, PTL DEF Spec

-----------------------------------------------------------------------------
(* Deletions. *)

(* What a deletion under way knows of its target.                          *)
DeletionOK ==
    \A p \in Requests : LET r == req[p] IN
        /\ r.pc \in {"threadReports", "threadPosts"} => Row(r.id).thread = 0
        /\ r.pc \in {"postReports", "postRow"} => Row(r.id).thread # 0
        /\ r.pc = "audit" => r.id \notin live

LEMMA DeletionOKStep ==
    ASSUME Inv1, DeletionOK, [Next]_vars
    PROVE  DeletionOK'
<1> SUFFICES ASSUME NEW q \in Requests
             PROVE  LET r == req'[q] IN
                    /\ r.pc \in {"threadReports", "threadPosts"} => post'[r.id].thread = 0
                    /\ r.pc \in {"postReports", "postRow"} => post'[r.id].thread # 0
                    /\ r.pc = "audit" => r.id \notin live'
  BY DEF DeletionOK, Row
<1>1. /\ \A id \in Posts : post'[id] = post[id]
      /\ Posts \ live \subseteq Posts' \ live'
      /\ live \subseteq Posts
      /\ req \in [Requests -> LocalsOver(Posts)]
      /\ req[q].pc \in Deletion => req[q].id \in Posts
  BY RowsKept DEF Inv1, TypeOK, LocalsOK, LocalsIn
<1>2. CASE req'[q] = req[q]
  BY <1>1, <1>2 DEF DeletionOK, Row, Deletion
<1>3. ASSUME NEW r, Goto(q, r) PROVE req'[q] = r
  BY <1>1, <1>3 DEF Goto
<1>4. ASSUME NEW r, Goto(q, r), r.pc \notin Deletion
      PROVE  req'[q].pc \notin Deletion
  BY <1>3, <1>4
<1>5. ASSUME NEW id \in live, StartDelete(q, id)
      PROVE  \/ req'[q].pc = "threadReports" /\ req'[q].id = id /\ post[id].thread = 0
             \/ req'[q].pc = "postReports" /\ req'[q].id = id /\ post[id].thread # 0
  BY <1>3, <1>5 DEF StartDelete, Locals, Row
<1>6. CASE Arrive(q)
  <2>1. CASE DeleteArrives(q) \/ RemoteDeleteArrives(q)
    <3>1. PICK id \in live : StartDelete(q, id)
      BY <2>1 DEF DeleteArrives, RemoteDeleteArrives, Holding
    <3> QED
      BY <1>1, <1>5, <3>1
  <2>2. ASSUME NEW pc \in {"save", "create", "report", "mergeOp"}, NEW id, NEW name,
               NEW todo, Goto(q, Locals(pc, id, name, todo))
        PROVE  req'[q].pc \notin Deletion
    BY <1>3, <2>2 DEF Locals, Deletion
  <2>3. CASE TurnedAway(q) \/ PostArrives(q) \/ CreateArrives(q)
             \/ ReportArrives(q) \/ MergeArrives(q)
    <3>1. ASSUME Goto(q, Done) PROVE req'[q].pc \notin Deletion
      BY <1>3, <3>1 DEF Done, Locals, Deletion
    <3>2. req'[q].pc \notin Deletion
      BY <2>2, <2>3, <3>1 DEF TurnedAway, PostArrives, CreateArrives, ReportArrives, MergeArrives
    <3> QED
      BY <3>2 DEF Deletion
  <2> QED
    BY <1>6, <2>1, <2>3 DEF Arrive
<1>7. CASE ThreadReportsDeleted(q) \/ PostReportsDeleted(q)
  <2>1. /\ req'[q].id = req[q].id
        /\ \/ req[q].pc = "threadReports" /\ req'[q].pc = "threadPosts"
           \/ req[q].pc = "postReports" /\ req'[q].pc = "postRow"
    BY <1>1, <1>3, <1>7 DEF ThreadReportsDeleted, PostReportsDeleted, At, LocalsOver
  <2> QED
    BY <1>1, <2>1 DEF DeletionOK, Row, Deletion
<1>8. CASE ThreadPostsDeleted(q) \/ PostDeleted(q)
  <2>1. req'[q].id = req[q].id /\ req'[q].pc = "audit" /\ req[q].id \in Posts
    BY <1>1, <1>3, <1>8 DEF ThreadPostsDeleted, PostDeleted, At, LocalsOver, Deletion
  <2>2. req[q].id \notin live'
    BY <1>1, <1>8, <2>1 DEF ThreadPostsDeleted, PostDeleted, InThread
  <2> QED
    BY <2>1, <2>2
<1>9. CASE PostSaved(q) \/ CreateSaved(q) \/ Refused(q) \/ ReportFiled(q) \/ Audited(q)
  <2>1. Goto(q, Done) /\ Done.pc \notin Deletion
    BY <1>9 DEF PostSaved, CreateSaved, Refused, ReportFiled, Audited, Done, Locals, Deletion
  <2> QED
    BY <1>4, <2>1 DEF Deletion
<1>10. CASE MergeFindsOp(q) \/ MergeSavesOp(q) \/ MergeFindsReply(q) \/ MergeSavesReply(q)
  <2>1. ASSUME NEW id, NEW todo, Import(q, id, todo)
        PROVE  req'[q].pc \notin Deletion
    <3> DEFINE r == IF todo = {} THEN Done ELSE Locals("mergeNext", id, NoName, todo)
    <3>1. Goto(q, r) /\ r.pc \notin Deletion
      BY <2>1 DEF Import, Done, Locals, Deletion
    <3> HIDE DEF r
    <3> QED
      BY <1>4, <3>1
  <2>2. ASSUME Goto(q, [req[q] EXCEPT !.pc = "mergeSaveOp"]) \/ Goto(q, Done)
        PROVE  req'[q].pc \notin Deletion
    <3>1. [req[q] EXCEPT !.pc = "mergeSaveOp"].pc \notin Deletion /\ Done.pc \notin Deletion
      BY <1>1 DEF LocalsOver, Deletion, Done, Locals
    <3> QED
      BY <1>4, <2>2, <3>1
  <2>3. ASSUME NEW id, NEW name, NEW todo, Goto(q, Locals("mergeSave", id, name, todo))
        PROVE  req'[q].pc \notin Deletion
    BY <1>3, <2>3 DEF Locals, Deletion
  <2>4. req'[q].pc \notin Deletion
    BY <1>10, <2>1, <2>2, <2>3 DEF MergeFindsOp, MergeSavesOp, MergeFindsReply, MergeSavesReply
  <2> QED
    BY <2>4 DEF Deletion
<1> QED
  BY <1>2, <1>6, <1>7, <1>8, <1>9, <1>10, Moves DEF Continue

Inv2 == Inv1 /\ DeletionOK

(* A deletion under way still means the kind of post it looked up, and     *)
(* reaches its record only after its target is gone.                       *)
THEOREM Inv2Holds == Spec => []Inv2
<1>1. ASSUME Init PROVE DeletionOK
  <2>1. \A p \in Requests : req[p].pc = "new"
    BY <1>1 DEF Init, Fresh, Locals
  <2> QED
    BY <2>1 DEF DeletionOK
<1>2. Inv1 /\ DeletionOK /\ [Next]_vars => DeletionOK'
  BY DeletionOKStep
<1> QED
  BY <1>1, <1>2, Inv1Holds, PTL DEF Spec, Inv2

LEMMA RecordKind ==
    ASSUME [Next]_vars
    PROVE  audit' = audit \/ \E p \in Requests : Audited(p)
<1>1. ASSUME NEW p \in Requests, Arrive(p) PROVE audit' = audit
  BY <1>1 DEF Arrive, TurnedAway, PostArrives, CreateArrives, ReportArrives,
     DeleteArrives, RemoteDeleteArrives, MergeArrives, store
<1>2. ASSUME NEW p \in Requests, Continue(p), ~Audited(p) PROVE audit' = audit
  <2>1. ASSUME NEW t, NEW name, SavePostTx(t, name) PROVE audit' = audit
    BY <2>1 DEF SavePostTx
  <2> QED
    BY <1>2, <2>1 DEF Continue, PostSaved, CreateSaved, Refused, ReportFiled,
       ThreadReportsDeleted, ThreadPostsDeleted, PostReportsDeleted, PostDeleted,
       MergeFindsOp, MergeSavesOp, MergeFindsReply, MergeSavesReply, store
<1>3. ASSUME (\E p \in Requests : DeletionFails(p)) \/ Crash \/ UNCHANGED vars
      PROVE  audit' = audit
  BY <1>3 DEF DeletionFails, Crash, vars, store
<1> QED
  BY <1>1, <1>2, <1>3 DEF Next, Rest

(* A post with a deletion on record is not there (AuditedIsGone).          *)
THEOREM AuditedIsGoneHolds == Spec => []AuditedIsGone
<1>1. Init => AuditedIsGone
  BY DEF Init, AuditedIsGone
<1>2. ASSUME Inv2, AuditedIsGone, [Next]_vars PROVE AuditedIsGone'
  <2>1. audit \subseteq Posts \ live /\ Posts \ live \subseteq Posts' \ live'
    BY <1>2, RowsKept DEF Inv2, Inv1, TypeOK, AuditedIsGone
  <2>2. CASE audit' = audit
    BY <2>1, <2>2 DEF AuditedIsGone
  <2>3. ASSUME NEW p \in Requests, Audited(p) PROVE AuditedIsGone'
    <3>1. audit' = audit \cup {req[p].id} /\ live' = live /\ req[p].id \notin live
      BY <1>2, <2>3 DEF Audited, At, Inv2, DeletionOK
    <3> QED
      BY <2>1, <3>1 DEF AuditedIsGone
  <2> QED
    BY <1>2, <2>2, <2>3, RecordKind
<1> QED
  BY <1>1, <1>2, Inv2Holds, PTL DEF Spec

(* Every post that is gone has its own deletion or its thread's on record, *)
(* or the request that took it is right before it (RemovalAccounted).      *)
THEOREM RemovalAccountedHolds == Spec => []RemovalAccounted
<1>1. Init => RemovalAccounted
  BY DEF Init, RemovalAccounted, Posts
<1>2. ASSUME Inv1, RemovalAccounted, [Next]_vars PROVE RemovalAccounted'
  <2> DEFINE Accounted(c) == \/ c \in audit'
                            \/ \E p \in Requests : req'[p].pc = "audit" /\ req'[p].id = c
  <2>1. SUFFICES ASSUME NEW id \in Posts' \ live'
                 PROVE  \E c \in {id, post'[id].thread} : Accounted(c)
    BY DEF RemovalAccounted, Row
  <2>2. ASSUME NEW c, c \in audit \/ \E p \in Requests : req[p].pc = "audit" /\ req[p].id = c
        PROVE  Accounted(c)
    <3>1. audit \subseteq audit'
      BY <1>2, RecordKind DEF Audited
    <3>2. ASSUME NEW p \in Requests, req[p].pc = "audit", req[p].id = c
          PROVE  Accounted(c)
      <4>1. CASE req'[p] = req[p]
        BY <3>2, <4>1
      <4>2. ~Arrive(p)
        BY <3>2 DEF Arrive, At, TurnedAway, PostArrives, CreateArrives, ReportArrives,
           DeleteArrives, RemoteDeleteArrives, MergeArrives
      <4>3. CASE Continue(p)
        <5>1. Audited(p)
          BY <3>2, <4>3 DEF Continue, At, PostSaved, CreateSaved, Refused, ReportFiled,
             ThreadReportsDeleted, ThreadPostsDeleted, PostReportsDeleted, PostDeleted,
             MergeFindsOp, MergeSavesOp, MergeFindsReply, MergeSavesReply
        <5> QED
          BY <3>2, <5>1 DEF Audited
      <4> QED
        BY <1>2, <4>1, <4>2, <4>3, Moves
    <3> QED
      BY <2>2, <3>1, <3>2
  <2> HIDE DEF Accounted
  <2>3. CASE id \in Posts \ live
    <3>1. post'[id] = post[id]
      BY <1>2, <2>3, RowsKept
    <3> QED
      BY <1>2, <2>2, <2>3, <3>1 DEF RemovalAccounted, Row
  <2>4. CASE id \in live /\ \E p \in Requests : ThreadPostsDeleted(p) \/ PostDeleted(p)
    <3>1. PICK p \in Requests : ThreadPostsDeleted(p) \/ PostDeleted(p)
      BY <2>4
    <3>2. req[p].id \in {id, post[id].thread} /\ post' = post
      BY <2>1, <2>4, <3>1 DEF ThreadPostsDeleted, PostDeleted, InThread, Row
    <3>3. req'[p].pc = "audit" /\ req'[p].id = req[p].id
      BY <1>2, <3>1 DEF ThreadPostsDeleted, PostDeleted, Goto, Inv1, LocalsOK, LocalsOver
    <3> QED
      BY <3>2, <3>3 DEF Accounted
  <2>5. ASSUME NEW t \in {0} \cup Posts, NEW name \in Names, SavePostTx(t, name)
        PROVE  id \in Posts \ live
    BY <1>2, <2>1, <2>5, SaveFacts, InsertFacts DEF Inv1
  <2>6. CASE UNCHANGED <<seq, live, post, links>>
    BY <2>1, <2>3, <2>6 DEF Posts
  <2>7. CASE \E p \in Requests : ThreadPostsDeleted(p) \/ PostDeleted(p)
    <3>1. Posts' = Posts
      BY <2>7 DEF ThreadPostsDeleted, PostDeleted, Posts
    <3> QED
      BY <2>1, <2>3, <2>4, <2>7, <3>1
  <2> QED
    BY <1>2, <2>3, <2>5, <2>6, <2>7, StepKinds DEF Stores
<1> QED
  BY <1>1, <1>2, Inv1Holds, PTL DEF Spec

(* Reports of posts that are gone. *)

(* What a deletion is about to remove has no report, but for late ones.    *)
DoomedLate == \A id \in reports : Doomed(id) => id \in late

LEMMA ReportKinds ==
    ASSUME [Next]_vars
    PROVE  \/ UNCHANGED <<reports, late>>
           \/ \E p \in Requests : ReportFiled(p)
           \/ \E p \in Requests : ThreadReportsDeleted(p) \/ PostReportsDeleted(p)
<1>1. ASSUME NEW p \in Requests, Arrive(p) PROVE UNCHANGED <<reports, late>>
  BY <1>1 DEF Arrive, TurnedAway, PostArrives, CreateArrives, ReportArrives,
     DeleteArrives, RemoteDeleteArrives, MergeArrives, store
<1>2. ASSUME NEW p \in Requests, Continue(p), ~ReportFiled(p),
             ~ThreadReportsDeleted(p), ~PostReportsDeleted(p)
      PROVE  UNCHANGED <<reports, late>>
  <2>1. ASSUME NEW t, NEW name, SavePostTx(t, name) PROVE reports' = reports
    BY <2>1 DEF SavePostTx
  <2> QED
    BY <1>2, <2>1 DEF Continue, PostSaved, CreateSaved, Refused,
       ThreadPostsDeleted, PostDeleted, Audited,
       MergeFindsOp, MergeSavesOp, MergeFindsReply, MergeSavesReply, store
<1>3. ASSUME (\E p \in Requests : DeletionFails(p)) \/ Crash \/ UNCHANGED vars
      PROVE  UNCHANGED <<reports, late>>
  BY <1>3 DEF DeletionFails, Crash, vars, store
<1> QED
  BY <1>1, <1>2, <1>3 DEF Next, Rest

LEMMA DeadStay == ASSUME [Next]_vars PROVE dead \subseteq dead'
<1>1. ASSUME NEW p \in Requests, Arrive(p) \/ Continue(p) PROVE dead' = dead
  BY <1>1 DEF Arrive, TurnedAway, PostArrives, CreateArrives, ReportArrives,
     DeleteArrives, RemoteDeleteArrives, MergeArrives, Continue,
     PostSaved, CreateSaved, Refused, ReportFiled, ThreadReportsDeleted,
     ThreadPostsDeleted, PostReportsDeleted, PostDeleted, Audited,
     MergeFindsOp, MergeSavesOp, MergeFindsReply, MergeSavesReply
<1> QED
  BY <1>1 DEF Next, DeletionFails, Crash, Rest, vars

(* A deletion stands between its two statements because it just dropped    *)
(* the reports, or stood there before.                                     *)
LEMMA DoomedStep ==
    ASSUME Inv1, [Next]_vars, NEW q \in Requests, q \notin dead',
           req'[q].pc \in {"threadPosts", "postRow"}
    PROVE  \/ req'[q] = req[q] /\ q \notin dead
           \/ ThreadReportsDeleted(q)
           \/ PostReportsDeleted(q)
<1>1. req \in [Requests -> LocalsOver(Posts)]
  BY DEF Inv1, LocalsOK
<1>2. ASSUME NEW r, Goto(q, r) PROVE req'[q] = r
  BY <1>1, <1>2 DEF Goto
<1>3. ASSUME NEW pc, NEW id, NEW name, NEW todo, Goto(q, Locals(pc, id, name, todo))
      PROVE  req'[q].pc = pc
  BY <1>2, <1>3 DEF Locals
<1>4. ASSUME NEW id, NEW todo, Import(q, id, todo) PROVE FALSE
  BY <1>3, <1>4 DEF Import, Done
<1>5. ~Goto(q, Done)
  BY <1>3 DEF Done
<1>6. ~Arrive(q)
  <2>1. ASSUME NEW id, StartDelete(q, id) PROVE FALSE
    BY <1>3, <2>1 DEF StartDelete
  <2> QED
    BY <1>3, <1>5, <2>1 DEF Arrive, TurnedAway, PostArrives, CreateArrives,
       ReportArrives, DeleteArrives, RemoteDeleteArrives, MergeArrives
<1>7. ASSUME NEW pc \in PCs \ {"threadPosts", "postRow"}, Goto(q, [req[q] EXCEPT !.pc = pc]) PROVE FALSE
  BY <1>1, <1>2, <1>7 DEF LocalsOver
<1>8. CASE Continue(q)
  <2>1. ~ThreadPostsDeleted(q) /\ ~PostDeleted(q)
    BY <1>7 DEF ThreadPostsDeleted, PostDeleted, PCs, Deletion
  <2>2. ~MergeFindsOp(q) /\ ~MergeFindsReply(q)
    BY <1>3, <1>4, <1>7 DEF MergeFindsOp, MergeFindsReply, PCs, Deletion
  <2>3. ~MergeSavesOp(q) /\ ~MergeSavesReply(q)
    BY <1>4, <1>5 DEF MergeSavesOp, MergeSavesReply
  <2> QED
    BY <1>5, <1>8, <2>1, <2>2, <2>3 DEF Continue, PostSaved, CreateSaved, Refused,
       ReportFiled, Audited
<1> QED
  BY <1>6, <1>8, Moves, DeadStay

(* A report of a post that is gone was filed after a deletion of the post  *)
(* had dropped its reports (StrayReportsLate).                             *)
THEOREM StrayReportsLateHolds == Spec => []StrayReportsLate
<1>1. Init => StrayReportsLate /\ DoomedLate
  BY DEF Init, StrayReportsLate, DoomedLate
<1>2. ASSUME Inv1, StrayReportsLate, DoomedLate, [Next]_vars
      PROVE  StrayReportsLate' /\ DoomedLate'
  <2>1. /\ live \subseteq Posts /\ reports \subseteq Posts /\ late \subseteq reports
        /\ \A id \in Posts : Row(id)' = Row(id)
        /\ Posts \ live \subseteq Posts' \ live'
    BY <1>2, RowsKept DEF Inv1, TypeOK, Row
  <2>2. late \cap reports' \subseteq late'
    BY <1>2, ReportKinds DEF ReportFiled, ThreadReportsDeleted, PostReportsDeleted, DropReports
  <2>3. ASSUME NEW id \in reports' \ reports, id \notin live' \/ Doomed(id)'
        PROVE  id \in late'
    <3>1. PICK p \in Requests : ReportFiled(p)
      BY <1>2, <2>3, ReportKinds DEF ThreadReportsDeleted, PostReportsDeleted, DropReports
    <3>2. id = req[p].id /\ UNCHANGED <<live, post, dead>>
      BY <2>3, <3>1 DEF ReportFiled
    <3>3. ASSUME NEW q \in Requests, req'[q].pc \in {"threadPosts", "postRow"}
          PROVE  req'[q] = req[q]
      BY <1>2, <3>1, <3>3 DEF ReportFiled, Goto, Done, Locals, Inv1, LocalsOK
    <3>4. Doomed(id)' => Doomed(id)
      BY <3>2, <3>3 DEF Doomed, At, Row
    <3> QED
      BY <2>3, <3>1, <3>2, <3>4 DEF ReportFiled
  <2>4. ASSUME NEW id \in reports, id \notin live'
        PROVE  id \in late
    <3>1. CASE id \notin live
      BY <1>2, <3>1 DEF StrayReportsLate
    <3>2. ASSUME id \in live, NEW p \in Requests, ThreadPostsDeleted(p) \/ PostDeleted(p)
          PROVE  Doomed(id)
      BY <2>4, <3>2 DEF ThreadPostsDeleted, PostDeleted, InThread, Doomed
    <3>3. ASSUME NEW t \in {0} \cup Posts, NEW name \in Names, SavePostTx(t, name)
          PROVE  id \notin live
      BY <1>2, <2>4, <3>3, SaveFacts, InsertFacts DEF Inv1
    <3> QED
      BY <1>2, <2>4, <3>1, <3>2, <3>3, StepKinds DEF DoomedLate, Stores
  <2>5. ASSUME NEW id \in reports \cap reports', Doomed(id)'
        PROVE  id \in late
    <3>1. PICK q \in Requests :
            /\ q \notin dead'
            /\ \/ req'[q].pc = "threadPosts" /\ req'[q].id \in {id, Row(id).thread}
               \/ req'[q].pc = "postRow" /\ req'[q].id = id
      BY <2>1, <2>5 DEF Doomed, At
    <3>2. CASE req'[q] = req[q] /\ q \notin dead
      BY <1>2, <3>1, <3>2 DEF DoomedLate, Doomed, At
    <3>3. CASE ThreadReportsDeleted(q)
      <4>1. req'[q].pc = "threadPosts" /\ req'[q].id = req[q].id
        BY <1>2, <3>3 DEF ThreadReportsDeleted, Goto, Inv1, LocalsOK, LocalsOver
      <4>2. id \notin live
        BY <2>5, <3>1, <3>3, <4>1 DEF ThreadReportsDeleted, DropReports, InThread
      <4> QED
        BY <1>2, <4>2 DEF StrayReportsLate
    <3>4. CASE PostReportsDeleted(q)
      <4>1. req'[q].pc = "postRow" /\ req'[q].id = req[q].id
        BY <1>2, <3>4 DEF PostReportsDeleted, Goto, Inv1, LocalsOK, LocalsOver
      <4> QED
        BY <2>5, <3>1, <3>4, <4>1 DEF PostReportsDeleted, DropReports
    <3> QED
      BY <1>2, <3>1, <3>2, <3>3, <3>4, DoomedStep
  <2>6. StrayReportsLate'
    BY <2>2, <2>3, <2>4 DEF StrayReportsLate
  <2>7. ASSUME NEW id \in reports', Doomed(id)' PROVE id \in late'
    BY <2>2, <2>3, <2>5, <2>7
  <2> QED
    BY <2>6, <2>7 DEF DoomedLate
<1> QED
  BY <1>1, <1>2, Inv1Holds, PTL DEF Spec

-----------------------------------------------------------------------------
(* Threads stay one level deep, if remote outboxes list threads only. *)

Saving == {"save", "create", "mergeOp", "mergeSaveOp", "mergeNext", "mergeSave"}

(* A note that is no reply is stored as a thread wherever it comes from.   *)
TopRows == \A id \in Posts : Row(id).name \in ThreadNames => Row(id).thread = 0

(* What a request is about to store goes under a row that opened a thread, *)
(* be it long gone.                                                        *)
AimsAt(r) ==
    /\ r.pc \in Saving /\ r.id # 0 => Row(r.id).thread = 0
    /\ r.pc = "create" /\ r.name \in ThreadNames => r.id = 0
    /\ r.pc = "mergeSave" => r.name \notin ThreadNames
    /\ r.pc \in {"mergeOp", "mergeSaveOp"} => r.name \in ThreadNames /\ r.id = 0
    /\ r.todo \cap ThreadNames = {}

Inv3 == Inv1 /\ ThreadsFlat /\ TopRows /\ \A p \in Requests : AimsAt(req[p])

LEMMA FlatStep ==
    ASSUME Inv3, [Next]_vars
    PROVE  ThreadsFlat' /\ TopRows'
<1>1. /\ \A id \in Posts : post'[id] = post[id]
      /\ Posts \subseteq Posts'
      /\ seq \in Nat
      /\ \A id \in Posts : post[id].thread \in Nat
  BY RowsKept DEF Inv3, Inv1, TypeOK
<1>2. \A id \in Posts : post[id].thread # 0 => post[id].thread \in Posts
  BY <1>1 DEF Inv3, ThreadsFlat, Row, Posts
<1>3. CASE Posts' = Posts
  BY <1>1, <1>2, <1>3 DEF Inv3, ThreadsFlat, TopRows, Row
<1>4. ASSUME NEW p \in Requests, NEW name, Stores(p, name),
             PostSaved(p) \/ CreateSaved(p) \/ MergeSavesOp(p) \/ MergeSavesReply(p),
             req[p].id \in {0} \cup Posts, SavePostTx(req[p].id, name)
      PROVE  ThreadsFlat' /\ TopRows'
  <2> DEFINE t == req[p].id
  <2>1. /\ Posts' = Posts \cup {seq + 1}
        /\ post'[seq + 1] = [thread |-> t, name |-> name]
    BY <1>4, SaveFacts, InsertFacts DEF Inv3, Inv1, Stores
  <2>2. req[p].pc \in {"save", "create", "mergeSaveOp", "mergeSave"}
    BY <1>4 DEF PostSaved, CreateSaved, MergeSavesOp, MergeSavesReply, At
  <2>3. t # 0 => post[t].thread = 0
    BY <2>2 DEF Inv3, AimsAt, Saving, Row
  <2>4. name \in ThreadNames => t = 0
    <3>1. CASE t # 0 /\ name \in LocalReplies
      BY <3>1, BoardAssumption DEF ThreadNames, ReplyNames
    <3>2. CASE req[p].pc # "save" /\ name = req[p].name
      BY <2>2, <3>2 DEF Inv3, AimsAt
    <3> QED
      BY <1>4, <3>1, <3>2 DEF Stores
  <2>5. t \in Posts => t < seq + 1
    BY <1>1 DEF Posts
  <2> HIDE DEF t
  <2>6. ThreadsFlat'
    BY <1>1, <1>2, <1>4, <2>1, <2>3, <2>5 DEF Inv3, ThreadsFlat, Row, t
  <2>7. TopRows'
    BY <1>1, <2>1, <2>4 DEF Inv3, TopRows, Row
  <2> QED
    BY <2>6, <2>7
<1> QED
  BY <1>3, <1>4, StepKinds DEF ThreadPostsDeleted, PostDeleted, Posts, Inv3

LEMMA AimsStep ==
    ASSUME ~RepliesInOutbox, Inv3, [Next]_vars, NEW q \in Requests
    PROVE  AimsAt(req[q])'
<1> USE DEF Saving
<1>1. /\ \A id \in Posts : Row(id)' = Row(id)
      /\ live \subseteq Posts
      /\ req \in [Requests -> LocalsOver(Posts)]
      /\ LocalsIn(req[q], Posts)
      /\ AimsAt(req[q])
      /\ \A id \in live : Row(id).name \in ThreadNames => Row(id).thread = 0
  BY RowsKept DEF Inv3, Inv1, TypeOK, LocalsOK, TopRows, Row
<1>2. req[q].id \in Posts \cup {0}
  BY <1>1 DEF LocalsIn, LocalsOver
<1>3. CASE req'[q] = req[q]
  BY <1>1, <1>2, <1>3 DEF AimsAt, Row
<1>4. ASSUME NEW r, Goto(q, r) PROVE req'[q] = r
  BY <1>1, <1>4 DEF Goto
<1>5. ASSUME NEW pc, NEW id, NEW name, NEW todo, Goto(q, Locals(pc, id, name, todo))
      PROVE  req'[q].pc = pc /\ req'[q].id = id /\ req'[q].name = name /\ req'[q].todo = todo
  BY <1>4, <1>5 DEF Locals
<1>6. ASSUME req'[q].pc \notin Saving, req'[q].todo = {}
      PROVE  AimsAt(req[q])'
  BY <1>6 DEF AimsAt
<1>7. ASSUME Goto(q, Done) PROVE AimsAt(req[q])'
  BY <1>5, <1>6, <1>7 DEF Done
<1>8. OPs \subseteq Posts /\ \A id \in OPs : Row(id).thread = 0
  BY <1>1 DEF OPs
<1>9. CASE Arrive(q)
  <2>1. ASSUME NEW id, StartDelete(q, id) PROVE AimsAt(req[q])'
    BY <1>5, <1>6, <2>1 DEF StartDelete
  <2>2. CASE PostArrives(q) \/ CreateArrives(q)
    <3>1. ASSUME NEW pc \in {"save", "create"}, NEW t \in {0} \cup OPs, NEW name,
                 pc = "create" /\ name \in ThreadNames => t = 0,
                 Goto(q, Locals(pc, t, name, {}))
          PROVE  AimsAt(req[q])'
      BY <1>1, <1>5, <1>8, <3>1 DEF AimsAt, Row
    <3>2. CASE PostArrives(q)
      BY <3>1, <3>2 DEF PostArrives
    <3>3. CASE CreateArrives(q)
      BY <3>1, <3>3 DEF CreateArrives, ThreadOfNote
    <3> QED
      BY <2>2, <3>2, <3>3
  <2>3. CASE ReportArrives(q)
    BY <1>5, <1>6, <2>3 DEF ReportArrives
  <2>4. CASE MergeArrives(q)
    <3>1. PICK name \in ThreadNames :
             \E todo \in SUBSET (ReplyNames \ {name}) :
                Goto(q, Locals("mergeOp", 0, name, todo))
      BY <2>4 DEF MergeArrives, OutboxItems, ThreadOfNote
    <3>2. /\ req'[q].pc = "mergeOp" /\ req'[q].id = 0 /\ req'[q].name \in ThreadNames
          /\ req'[q].todo \subseteq ReplyNames
      BY <1>5, <3>1
    <3> QED
      BY <3>2, BoardAssumption DEF AimsAt
  <2> QED
    BY <1>7, <1>9, <2>1, <2>2, <2>3, <2>4 DEF Arrive, TurnedAway, DeleteArrives,
       RemoteDeleteArrives
<1>10. CASE PostSaved(q) \/ CreateSaved(q) \/ Refused(q) \/ ReportFiled(q) \/ Audited(q)
  BY <1>7, <1>10 DEF PostSaved, CreateSaved, Refused, ReportFiled, Audited
<1>11. CASE ThreadReportsDeleted(q) \/ ThreadPostsDeleted(q)
            \/ PostReportsDeleted(q) \/ PostDeleted(q)
  <2>1. /\ req'[q].pc \in {"threadPosts", "audit", "postRow"}
        /\ req'[q].todo = req[q].todo
    BY <1>1, <1>4, <1>11 DEF ThreadReportsDeleted, ThreadPostsDeleted,
       PostReportsDeleted, PostDeleted, LocalsOver
  <2> QED
    BY <1>1, <2>1 DEF AimsAt
<1>12. ASSUME NEW id, NEW todo, Import(q, id, todo), post'[id].thread = 0,
              todo \cap ThreadNames = {}
       PROVE  AimsAt(req[q])'
  <2>1. CASE todo = {}
    BY <1>7, <1>12, <2>1 DEF Import
  <2>2. CASE todo # {}
    <3>1. req'[q].pc = "mergeNext" /\ req'[q].id = id /\ req'[q].todo = todo
      BY <1>5, <1>12, <2>2 DEF Import
    <3> QED
      BY <1>12, <3>1 DEF AimsAt, Row
  <2> QED
    BY <2>1, <2>2
<1>13. CASE MergeFindsOp(q)
  <2>1. req[q].name \in ThreadNames /\ req[q].id = 0 /\ req[q].todo \cap ThreadNames = {}
    BY <1>1, <1>13 DEF AimsAt, MergeFindsOp, At
  <2>2. ASSUME NEW id \in Holding(req[q].name), Import(q, id, req[q].todo)
        PROVE  AimsAt(req[q])'
    <3>1. post'[id].thread = 0
      BY <1>1, <2>1, <2>2 DEF Holding, Row
    <3> QED
      BY <1>12, <2>1, <2>2, <3>1
  <2>3. CASE Goto(q, [req[q] EXCEPT !.pc = "mergeSaveOp"])
    <3>1. /\ req'[q].pc = "mergeSaveOp" /\ req'[q].id = 0
          /\ req'[q].name = req[q].name /\ req'[q].todo = req[q].todo
      BY <1>1, <1>4, <2>1, <2>3 DEF LocalsOver
    <3> QED
      BY <2>1, <3>1 DEF AimsAt
  <2> QED
    BY <1>13, <2>2, <2>3 DEF MergeFindsOp
<1>14. CASE MergeSavesOp(q)
  <2>1. /\ req[q].id = 0 /\ req[q].todo \cap ThreadNames = {}
        /\ req[q].name \in Names
    BY <1>1, <1>14 DEF AimsAt, MergeSavesOp, At, LocalsIn
  <2>2. CASE SavePostTx(0, req[q].name) /\ Import(q, NextId, req[q].todo)
    <3>1. post'[seq + 1].thread = 0
      <4>1. post'[seq + 1] = [thread |-> 0, name |-> req[q].name]
        BY <2>1, <2>2, SaveFacts, InsertFacts DEF Inv3, Inv1
      <4> QED
        BY <4>1
    <3>2. CASE req[q].todo = {}
      BY <1>7, <2>2, <3>2 DEF Import
    <3>3. CASE req[q].todo # {}
      <4>1. req'[q].pc = "mergeNext" /\ req'[q].id = seq + 1 /\ req'[q].todo = req[q].todo
        BY <1>5, <2>2, <3>3 DEF Import, NextId
      <4> QED
        BY <2>1, <3>1, <4>1 DEF AimsAt, Row
    <3> QED
      BY <3>2, <3>3
  <2> QED
    BY <1>7, <1>14, <2>1, <2>2 DEF MergeSavesOp
<1>15. CASE MergeFindsReply(q) \/ MergeSavesReply(q)
  <2> DEFINE id == req[q].id
             todo == req[q].todo
  <2>1. /\ id \in Posts
        /\ todo \cap ThreadNames = {}
        /\ post[id].thread = 0
    <3>1. req[q].pc \in {"mergeNext", "mergeSave"}
      BY <1>15 DEF MergeFindsReply, MergeSavesReply, At
    <3>2. id \in Posts /\ id # 0
      BY <1>1, <3>1 DEF LocalsIn, Posts
    <3> QED
      BY <1>1, <3>1, <3>2 DEF AimsAt, Row
  <2>2. post'[id].thread = 0
    BY <1>1, <2>1 DEF Row
  <2> HIDE DEF id, todo
  <2>3. CASE MergeSavesReply(q)
    BY <1>12, <2>1, <2>2, <2>3 DEF MergeSavesReply, id, todo
  <2>4. CASE MergeFindsReply(q)
    <3>1. PICK name \in todo : \/ Import(q, id, todo \ {name})
                               \/ Goto(q, Locals("mergeSave", id, name, todo \ {name}))
      BY <2>4 DEF MergeFindsReply, id, todo
    <3>2. CASE Import(q, id, todo \ {name})
      BY <1>12, <2>1, <2>2, <3>2
    <3>3. CASE Goto(q, Locals("mergeSave", id, name, todo \ {name}))
      <4>1. /\ req'[q].pc = "mergeSave" /\ req'[q].id = id
            /\ req'[q].name = name /\ req'[q].todo = todo \ {name}
        BY <1>5, <3>3
      <4> QED
        BY <2>1, <2>2, <3>1, <4>1 DEF AimsAt, Row
    <3> QED
      BY <3>1, <3>2, <3>3
  <2> QED
    BY <1>15, <2>3, <2>4
<1> QED
  BY <1>3, <1>9, <1>10, <1>11, <1>13, <1>14, <1>15, Moves DEF Continue, Inv3

THEOREM Inv3Holds ==
    ASSUME ~RepliesInOutbox
    PROVE  Spec => []Inv3
<1>1. ASSUME Init PROVE Inv3
  <2>1. Posts = {} /\ \A p \in Requests : req[p].pc = "new" /\ req[p].todo = {}
    BY <1>1 DEF Init, Posts, Fresh, Locals
  <2> QED
    BY <1>1, <2>1, Inv1Init DEF Inv3, ThreadsFlat, TopRows, AimsAt, Saving
<1>2. ASSUME Inv3, [Next]_vars PROVE Inv3'
  <2>1. Inv1'
    BY <1>2, Inv1Step DEF Inv3
  <2>2. \A q \in Requests : AimsAt(req[q])'
    BY <1>2, AimsStep
  <2> QED
    BY <1>2, <2>1, <2>2, FlatStep DEF Inv3
<1> QED
  BY <1>1, <1>2, PTL DEF Spec

(* Every reply ever stored stands under an earlier post that opened a      *)
(* thread (ThreadsFlat), as long as remote outboxes list threads only.     *)
THEOREM ThreadsFlatHolds ==
    ASSUME ~RepliesInOutbox
    PROVE  Spec => []ThreadsFlat
<1>1. Inv3 => ThreadsFlat
  BY DEF Inv3
<1> QED
  BY <1>1, Inv3Holds, PTL

(* No deletion leaves replies of a removed thread behind (NoneLeftBehind). *)
THEOREM NoneLeftBehindHolds ==
    ASSUME ~RepliesInOutbox
    PROVE  Spec => NoneLeftBehind
<1>1. ASSUME Inv2, Inv3, [Next]_vars PROVE Stranded' \cap live \subseteq Stranded
  <2>1. /\ live \subseteq Posts
        /\ \A id \in live : post'[id] = post[id]
    BY <1>1, RowsKept DEF Inv2, Inv1, TypeOK
  <2>2. CASE live \subseteq live'
    BY <2>1, <2>2 DEF Stranded, Row
  <2>3. ASSUME NEW p \in Requests, ThreadPostsDeleted(p) \/ PostDeleted(p),
               NEW id \in Stranded' \cap live
        PROVE  id \in Stranded
    <3> DEFINE t == post[id].thread
               k == req[p].id
    <3>1. /\ id \in live' /\ id \in live /\ t # 0 /\ t \notin live'
      BY <2>1, <2>3 DEF Stranded, Row
    <3>2. id \in Posts /\ post[t].thread = 0
      BY <1>1, <2>1, <3>1 DEF Inv3, ThreadsFlat, Row
    <3>3. CASE t \notin live
      BY <3>1, <3>3 DEF Stranded, Row
    <3>4. CASE t \in live
      <4>1. CASE ThreadPostsDeleted(p)
        <5>1. live' = live \ {i \in live : i = k \/ post[i].thread = k}
          BY <4>1 DEF ThreadPostsDeleted, InThread, Row
        <5>2. k \in Posts
          BY <1>1, <4>1 DEF ThreadPostsDeleted, At, Inv2, Inv1, LocalsOK, LocalsIn, Deletion
        <5>3. t = k
          BY <3>1, <3>2, <3>4, <5>1, <5>2 DEF Posts
        <5> QED
          BY <3>1, <5>1, <5>3
      <4>2. CASE PostDeleted(p)
        <5>1. t = k
          BY <3>1, <3>4, <4>2 DEF PostDeleted
        <5>2. post[k].thread # 0
          BY <1>1, <4>2 DEF PostDeleted, At, Inv2, DeletionOK, Row
        <5> QED
          BY <3>2, <5>1, <5>2
      <4> QED
        BY <2>3, <4>1, <4>2
    <3> QED
      BY <3>3, <3>4
  <2>4. ASSUME NEW t \in {0} \cup Posts, NEW name \in Names, SavePostTx(t, name)
        PROVE  live \subseteq live'
    BY <1>1, <2>4, SaveFacts, InsertFacts DEF Inv2, Inv1
  <2> QED
    BY <1>1, <2>2, <2>3, <2>4, StepKinds DEF Inv2, Stores
<1>2. Inv2 /\ Inv3 /\ [Next]_vars => [Stranded' \cap live \subseteq Stranded]_vars
  BY <1>1
<1> QED
  BY <1>2, Inv2Holds, Inv3Holds, PTL DEF Spec, NoneLeftBehind

-----------------------------------------------------------------------------
(* What readers see refines Forum. *)

(* No row hangs under a number that was not handed out yet.                *)
ThreadsKnown == \A id \in Posts : Row(id).thread \in {0} \cup Posts

Inv4 == Inv2 /\ ThreadsKnown

LEMMA Inv4Holds == Spec => []Inv4
<1>1. Init => ThreadsKnown
  BY DEF Init, ThreadsKnown, Posts
<1>2. ASSUME Inv1, ThreadsKnown, [Next]_vars PROVE ThreadsKnown'
  <2>1. Posts \subseteq Posts' /\ \A id \in Posts : post'[id] = post[id]
    BY <1>2, RowsKept
  <2>2. CASE Posts' = Posts
    BY <1>2, <2>1, <2>2 DEF ThreadsKnown, Row
  <2>3. ASSUME NEW t \in {0} \cup Posts, NEW name \in Names, SavePostTx(t, name)
        PROVE  ThreadsKnown'
    <3>1. /\ Posts' = Posts \cup {seq + 1}
          /\ post'[seq + 1] = [thread |-> t, name |-> name]
      BY <1>2, <2>3, SaveFacts, InsertFacts DEF Inv1
    <3> QED
      BY <1>2, <2>1, <2>3, <3>1 DEF ThreadsKnown, Row
  <2> QED
    BY <1>2, <2>2, <2>3, StepKinds DEF ThreadPostsDeleted, PostDeleted, Posts, Stores
<1> QED
  BY <1>1, <1>2, Inv2Holds, PTL DEF Spec, Inv2, Inv4

LEMMA SaveRefines ==
    ASSUME Inv4, NEW t \in {0} \cup Posts, NEW name \in Names, SavePostTx(t, name)
    PROVE  F!Next
<1> DEFINE n == seq + 1
<1>1. /\ seq' = n /\ n \notin Posts /\ n # 0
      /\ live' = live \cup {n}
      /\ post'[n] = [thread |-> t, name |-> name]
      /\ \A id \in Posts : post'[id] = post[id]
      /\ live \subseteq Posts
  BY SaveFacts, InsertFacts DEF Inv4, Inv2, Inv1, TypeOK
<1>2. post'[n].thread = t
  BY <1>1
<1>3. /\ OPs = {id \in live : post[id].thread = 0}
      /\ OPs' = {id \in live' : post'[id].thread = 0}
      /\ Replies = {<<post[id].thread, id>> : id \in {i \in live : post[i].thread \in OPs}}
      /\ Replies' = {<<post'[id].thread, id>> : id \in {i \in live' : post'[i].thread \in OPs'}}
  BY DEF OPs, Replies, Shown, Row
<1>4. \A id \in live : post[id].thread \in {0} \cup Posts
  BY <1>1 DEF Inv4, ThreadsKnown, Row
<1>5. 0 \notin Posts /\ OPs \subseteq Posts
  <2>1. seq \in Nat
    BY DEF Inv4, Inv2, Inv1, TypeOK
  <2>2. 0 \notin Posts
    BY <2>1 DEF Posts
  <2> QED
    BY <1>1, <1>3, <2>2
<1> HIDE DEF n
<1>6. OPs' = IF t = 0 THEN OPs \cup {n} ELSE OPs
  BY <1>1, <1>2, <1>3
<1>7. \A id \in live : post[id].thread \in OPs' <=> post[id].thread \in OPs
  BY <1>1, <1>4, <1>6
<1>8. Replies' = IF t \in OPs THEN Replies \cup {<<t, n>>} ELSE Replies
  <2>1. t \in OPs' <=> t \in OPs
    BY <1>1, <1>5, <1>6
  <2>2. {i \in live' : post'[i].thread \in OPs'} =
           {i \in live : post[i].thread \in OPs} \cup (IF t \in OPs THEN {n} ELSE {})
    BY <1>1, <1>2, <1>7, <2>1
  <2> QED
    BY <1>1, <1>2, <1>3, <2>2
<1>9. CASE t = 0
  BY <1>1, <1>5, <1>6, <1>8, <1>9 DEF F!Next, F!NewThread, n
<1>10. CASE t \in OPs
  BY <1>1, <1>5, <1>6, <1>8, <1>10 DEF F!Next, F!Reply, n
<1>11. CASE t # 0 /\ t \notin OPs
  BY <1>1, <1>6, <1>8, <1>11 DEF F!Next, F!SpendNumber, n
<1> QED
  BY <1>9, <1>10, <1>11

LEMMA ThreadRemovalRefines ==
    ASSUME Inv4, NEW p \in Requests, ThreadPostsDeleted(p)
    PROVE  F!Next \/ UNCHANGED F!vars
<1> DEFINE k == req[p].id
<1>1. k \in Posts /\ post[k].thread = 0 /\ live \subseteq Posts /\ 0 \notin Posts
  <2>1. k \in Posts /\ post[k].thread = 0 /\ live \subseteq Posts /\ seq \in Nat
    BY DEF ThreadPostsDeleted, At, Inv4, Inv2, Inv1, TypeOK, LocalsOK, LocalsIn,
       Deletion, DeletionOK, Row
  <2> QED
    BY <2>1 DEF Posts
<1>2. /\ live' = live \ {id \in live : id = k \/ post[id].thread = k}
      /\ seq' = seq /\ post' = post
  BY DEF ThreadPostsDeleted, InThread, Row
<1>3. /\ OPs = {id \in live : post[id].thread = 0}
      /\ OPs' = {id \in live' : post'[id].thread = 0}
      /\ Replies = {<<post[id].thread, id>> : id \in {i \in live : post[i].thread \in OPs}}
      /\ Replies' = {<<post'[id].thread, id>> : id \in {i \in live' : post'[i].thread \in OPs'}}
  BY DEF OPs, Replies, Shown, Row
<1> HIDE DEF k
<1>4. OPs' = OPs \ {k}
  BY <1>1, <1>2, <1>3
<1>5. Replies' = Replies \ {r \in Replies : r[1] = k}
  <2>1. {i \in live' : post'[i].thread \in OPs'} =
           {i \in live : post[i].thread \in OPs} \ {i \in live : post[i].thread = k}
    <3>1. 0 \notin OPs
      BY <1>1, <1>3
    <3>2. \A i \in live : post[i].thread \in OPs /\ post[i].thread # k => i \in live'
      BY <1>1, <1>2, <3>1
    <3> QED
      BY <1>2, <1>4, <3>2
  <2> QED
    BY <1>2, <1>3, <2>1
<1>6. CASE k \in OPs
  BY <1>2, <1>4, <1>5, <1>6 DEF F!Next, F!RemoveThread, F!RepliesOf
<1>7. CASE k \notin OPs
  <2>1. \A r \in Replies : r[1] # k
    BY <1>3, <1>7
  <2>2. OPs' = OPs /\ Replies' = Replies /\ seq' = seq
    BY <1>2, <1>4, <1>5, <1>7, <2>1
  <2> QED
    BY <2>2 DEF F!vars
<1> QED
  BY <1>6, <1>7

LEMMA PostRemovalRefines ==
    ASSUME Inv4, NEW p \in Requests, PostDeleted(p)
    PROVE  F!Next \/ UNCHANGED F!vars
<1> DEFINE k == req[p].id
<1>1. post[k].thread # 0
  BY DEF PostDeleted, At, Inv4, Inv2, DeletionOK, Row
<1>2. live' = live \ {k} /\ seq' = seq /\ post' = post
  BY DEF PostDeleted
<1>3. /\ OPs = {id \in live : post[id].thread = 0}
      /\ OPs' = {id \in live' : post'[id].thread = 0}
      /\ Replies = {<<post[id].thread, id>> : id \in {i \in live : post[i].thread \in OPs}}
      /\ Replies' = {<<post'[id].thread, id>> : id \in {i \in live' : post'[i].thread \in OPs'}}
  BY DEF OPs, Replies, Shown, Row
<1> HIDE DEF k
<1>4. OPs' = OPs
  BY <1>1, <1>2, <1>3
<1>5. Replies' = Replies \ {<<post[k].thread, k>>}
  <2>1. {i \in live' : post'[i].thread \in OPs'} =
           {i \in live : post[i].thread \in OPs} \ {k}
    BY <1>2, <1>4
  <2> QED
    BY <1>2, <1>3, <2>1
<1>6. CASE <<post[k].thread, k>> \in Replies
  BY <1>2, <1>4, <1>5, <1>6 DEF F!Next, F!RemoveReply
<1>7. CASE <<post[k].thread, k>> \notin Replies
  BY <1>2, <1>4, <1>5, <1>7 DEF F!vars
<1> QED
  BY <1>6, <1>7

(* What readers see of a board follows Forum: a thread and its replies     *)
(* come and go as one (ReadersSeeForum).                                   *)
THEOREM Refinement == Spec => ReadersSeeForum
<1>1. ASSUME Init PROVE F!Init
  <2>1. live = {} /\ seq = 0
    BY <1>1 DEF Init
  <2> QED
    BY <2>1 DEF F!Init, OPs, Replies, Shown
<1>2. ASSUME Inv4, [Next]_vars PROVE [F!Next]_(F!vars)
  <2>1. CASE UNCHANGED <<seq, live, post, links>>
    BY <2>1 DEF F!vars, OPs, Replies, Shown, Row
  <2>2. CASE \E p \in Requests : ThreadPostsDeleted(p) \/ PostDeleted(p)
    BY <1>2, <2>2, ThreadRemovalRefines, PostRemovalRefines
  <2>3. ASSUME NEW t \in {0} \cup Posts, NEW name \in Names, SavePostTx(t, name)
        PROVE  F!Next
    BY <1>2, <2>3, SaveRefines
  <2> QED
    BY <1>2, <2>1, <2>2, <2>3, StepKinds DEF Inv4, Inv2, Stores
<1> QED
  BY <1>1, <1>2, Inv4Holds, PTL DEF Spec, ReadersSeeForum, F!Spec
=============================================================================
