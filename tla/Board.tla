------------------------------- MODULE Board -------------------------------
(***************************************************************************)
(* One board: its tables posts_<board> and replies_<board>, the board's    *)
(* rows of the tables reports and auditlog, and the requests that read and *)
(* write them concurrently.                                                *)
(*                                                                         *)
(* database/sqlite3.go opens ONE connection (SetMaxOpenConns(1)), so every *)
(* statement outside a transaction and every transaction is one atomic     *)
(* step here, and the requests interleave between those steps.  A handler  *)
(* is the sequence of its steps: what it read in an earlier step it keeps  *)
(* in its own locals, which may be stale by the time it uses them.         *)
(*                                                                         *)
(* The row of a post never changes its thread or its apid, and a removed   *)
(* row keeps its value in "post" as history; no action reads it there.     *)
(***************************************************************************)
EXTENDS Integers

CONSTANTS
    Requests,         \* the HTTP requests and import goroutines ever run
    LocalThreads,     \* apids SavePostTx may draw for threads opened here
    LocalReplies,     \* apids SavePostTx may draw for replies made here
    RemoteThreads,    \* apids of notes on other instances that are no replies
    RemoteReplies,    \* apids of notes on other instances in reply to others
    NoName,           \* the empty apid
    RepliesInOutbox,  \* do remote outboxes list replies as top level notes?
    MayFail           \* may statements return errors and the process die?

RemoteNames == RemoteThreads \cup RemoteReplies
ThreadNames == LocalThreads \cup RemoteThreads
ReplyNames == LocalReplies \cup RemoteReplies
Names == ThreadNames \cup ReplyNames

ASSUME BoardAssumption ==
    /\ NoName \notin Names
    /\ ThreadNames \cap ReplyNames = {}
    /\ RepliesInOutbox \in BOOLEAN
    /\ MayFail \in BOOLEAN

VARIABLES
    seq,      \* sqlite_sequence of posts_<board>: the last id handed out
    live,     \* ids of the rows posts_<board> holds now
    post,     \* [thread, name] of every row ever inserted
    links,    \* replies_<board>: pairs <<source, target>>
    reports,  \* posts with a row in reports
    audit,    \* posts with a deletion in auditlog
    req,      \* where each request stands, and its locals
    dead,     \* requests cut off by a failed statement or a crash
    late      \* history: posts reported too late for their deletion

store == <<seq, live, post, links, reports, audit>>
vars == <<seq, live, post, links, reports, audit, req, dead, late>>

-----------------------------------------------------------------------------
(* Requests *)

Deletion == {"threadReports", "threadPosts", "postReports", "postRow", "audit"}
PCs == Deletion \cup {"new", "save", "create", "report", "mergeOp",
                      "mergeSaveOp", "mergeNext", "mergeSave", "done"}

Locals(pc, id, name, todo) ==
    [pc |-> pc, id |-> id, name |-> name, todo |-> todo]

Fresh == Locals("new", 0, NoName, {})
Done == Locals("done", 0, NoName, {})

At(p, pc) == req[p].pc = pc /\ p \notin dead
Active(p) == req[p].pc \notin {"new", "done"} /\ p \notin dead
Goto(p, locals) == req' = [req EXCEPT ![p] = locals]

-----------------------------------------------------------------------------
(* Rows *)

Row(id) == post[id]
OPs == {id \in live : Row(id).thread = 0}
InThread(t) == {id \in live : id = t \/ Row(id).thread = t}
Holding(name) == {id \in live : Row(id).name = name}

(* Slip: rowids without AUTOINCREMENT, as reports and auditlog have. *)
SlipIdReused == CHOOSE id \in 1 .. seq + 1 :
                    /\ live \subseteq 1 .. id - 1
                    /\ id = 1 \/ id - 1 \in live
(* AUTOINCREMENT: the ids of removed rows are not handed out again. *)
NextId == seq + 1

(* INSERT INTO posts_<board>, under UNIQUE(apid). *)
InsertPost(t, name) ==
    /\ Holding(name) = {}
    /\ seq' = NextId
    /\ live' = live \cup {NextId}
    /\ post' = [id \in (DOMAIN post) \cup {NextId} |->
                    IF id = NextId THEN [thread |-> t, name |-> name]
                                   ELSE post[id]]

(* Slip: cross-thread cites recorded as well. *)
SlipRepliedToAny(t, cited) == cited

(* The posts of "cited" that formatPost counts as being replied to by a    *)
(* new post in thread t.                                                   *)
RepliedTo(t, cited) ==
    {id \in cited : \/ Row(id).thread = t
                    \/ Row(id).thread = 0 /\ id = t}

(* The transaction of SavePost for a new post: "cited" are the posts its   *)
(* cites resolve to.  A new thread records no replies.                     *)
SavePostTx(t, name) ==
    \E cited \in SUBSET live :
        /\ InsertPost(t, name)
        /\ links' = IF t = 0 THEN links
                    ELSE links \cup {<<NextId, id>> : id \in RepliedTo(t, cited)}
        /\ UNCHANGED <<reports, audit>>

-----------------------------------------------------------------------------
Init ==
    /\ seq = 0
    /\ live = {}
    /\ post = <<>>
    /\ links = {}
    /\ reports = {}
    /\ audit = {}
    /\ req = [p \in Requests |-> Fresh]
    /\ dead = {}
    /\ late = {}

(* Turned away before anything is kept: a ban, the captcha, a board, post  *)
(* or thread that is not there, a sender on another domain.                *)
TurnedAway(p) ==
    /\ At(p, "new")
    /\ Goto(p, Done)
    /\ UNCHANGED <<store, dead, late>>

(* Slip: no check that the post replied to opens a thread. *)
SlipPostToReply(p) ==
    /\ At(p, "new")
    /\ \E t \in {0} \cup live : Goto(p, Locals("save", t, NoName, {}))
    /\ UNCHANGED <<store, dead, late>>

(* api.Post: a form without inReplyTo opens a thread; with it, the post    *)
(* resolvePost finds must be an opening post.                              *)
PostArrives(p) ==
    /\ At(p, "new")
    /\ \E t \in {0} \cup OPs : Goto(p, Locals("save", t, NoName, {}))
    /\ UNCHANGED <<store, dead, late>>

(* ... and SavePost draws an apid for it, which may be one that a removed  *)
(* post of its kind had.                                                   *)
PostSaved(p) ==
    /\ At(p, "save")
    /\ \E name \in IF req[p].id = 0 THEN LocalThreads ELSE LocalReplies :
            SavePostTx(req[p].id, name)
    /\ Goto(p, Done)
    /\ UNCHANGED <<dead, late>>

(* AsPost: a note that is no reply is a thread; a reply goes to the first  *)
(* inReplyTo known here as an opening post, and is a thread when an empty  *)
(* one comes first.                                                        *)
ThreadOfNote(name) == IF name \in ThreadNames THEN {0} ELSE {0} \cup OPs

(* PostBoardInbox, Create. *)
CreateArrives(p) ==
    /\ At(p, "new")
    /\ \E name \in RemoteNames : \E t \in ThreadOfNote(name) :
            Goto(p, Locals("create", t, name, {}))
    /\ UNCHANGED <<store, dead, late>>

CreateSaved(p) ==
    /\ At(p, "create")
    /\ SavePostTx(req[p].id, req[p].name)
    /\ Goto(p, Done)
    /\ UNCHANGED <<dead, late>>

(* SavePost returns an error: the filter, empty contents, UNIQUE; or       *)
(* FileReport does.                                                        *)
Refused(p) ==
    /\ \E pc \in {"save", "create", "report"} : At(p, pc)
    /\ Goto(p, Done)
    /\ UNCHANGED <<store, dead, late>>

(* PostBoardReport: the post must exist ... *)
ReportArrives(p) ==
    /\ At(p, "new")
    /\ \E id \in live : Goto(p, Locals("report", id, NoName, {}))
    /\ UNCHANGED <<store, dead, late>>

(* A deletion has dropped the reports of this post, and is to remove it.   *)
Doomed(id) ==
    \E q \in Requests :
        \/ At(q, "threadPosts") /\ req[q].id \in {id, Row(id).thread}
        \/ At(q, "postRow") /\ req[q].id = id

(* ... and FileReport stores the report. *)
ReportFiled(p) ==
    /\ At(p, "report")
    /\ reports' = reports \cup {req[p].id}
    /\ late' = late \cup {id \in {req[p].id} : id \notin live \/ Doomed(id)}
    /\ Goto(p, Done)
    /\ UNCHANGED <<seq, live, post, links, audit, dead>>

(* What a deletion does first, by the row its handler just read. *)
StartDelete(p, id) ==
    Goto(p, Locals(IF Row(id).thread = 0 THEN "threadReports" ELSE "postReports",
                   id, NoName, {}))

(* GetDelete, confirmed by a moderator: any post. *)
DeleteArrives(p) ==
    /\ At(p, "new")
    /\ \E id \in live : StartDelete(p, id)
    /\ UNCHANGED <<store, dead, late>>

(* PostBoardInbox, Delete: a post whose apid is on the sender's domain. *)
RemoteDeleteArrives(p) ==
    /\ At(p, "new")
    /\ \E name \in RemoteNames : \E id \in Holding(name) : StartDelete(p, id)
    /\ UNCHANGED <<store, dead, late>>

(* The first statement of a deletion drops the reports of the posts "ids". *)
DropReports(ids) == reports' = reports \ ids /\ late' = late \ ids

(* Slip: the reports of the opening post only. *)
SlipOpReportsDeleted(p) ==
    /\ At(p, "threadReports")
    /\ DropReports({req[p].id})
    /\ Goto(p, [req[p] EXCEPT !.pc = "threadPosts"])
    /\ UNCHANGED <<seq, live, post, links, audit, dead>>

(* DeleteThread: three statements, no transaction. *)
ThreadReportsDeleted(p) ==
    /\ At(p, "threadReports")
    /\ DropReports(InThread(req[p].id))
    /\ Goto(p, [req[p] EXCEPT !.pc = "threadPosts"])
    /\ UNCHANGED <<seq, live, post, links, audit, dead>>

(* Slips: only one half of WHERE id = ? OR thread = ?. *)
SlipOnlyOpDeleted(p) ==
    /\ At(p, "threadPosts")
    /\ live' = live \ {req[p].id}
    /\ Goto(p, [req[p] EXCEPT !.pc = "audit"])
    /\ UNCHANGED <<seq, post, links, reports, audit, dead, late>>

SlipOpKept(p) ==
    /\ At(p, "threadPosts")
    /\ live' = live \ (InThread(req[p].id) \ {req[p].id})
    /\ Goto(p, [req[p] EXCEPT !.pc = "audit"])
    /\ UNCHANGED <<seq, post, links, reports, audit, dead, late>>

ThreadPostsDeleted(p) ==
    /\ At(p, "threadPosts")
    /\ live' = live \ InThread(req[p].id)
    /\ Goto(p, [req[p] EXCEPT !.pc = "audit"])
    /\ UNCHANGED <<seq, post, links, reports, audit, dead, late>>

(* Slip: DeletePost returns before the audit. *)
SlipNotAudited(p) ==
    /\ At(p, "postRow")
    /\ live' = live \ {req[p].id}
    /\ Goto(p, Done)
    /\ UNCHANGED <<seq, post, links, reports, audit, dead, late>>

(* DeletePost: likewise. *)
PostReportsDeleted(p) ==
    /\ At(p, "postReports")
    /\ DropReports({req[p].id})
    /\ Goto(p, [req[p] EXCEPT !.pc = "postRow"])
    /\ UNCHANGED <<seq, live, post, links, audit, dead>>

PostDeleted(p) ==
    /\ At(p, "postRow")
    /\ live' = live \ {req[p].id}
    /\ Goto(p, [req[p] EXCEPT !.pc = "audit"])
    /\ UNCHANGED <<seq, post, links, reports, audit, dead, late>>

Audited(p) ==
    /\ At(p, "audit")
    /\ audit' = audit \cup {req[p].id}
    /\ Goto(p, Done)
    /\ UNCHANGED <<seq, live, post, links, reports, dead, late>>

(* MergeOutbox, one item of a remote outbox: AsThread turns it into an     *)
(* opening post and the replies "todo".  Both may have been made here, and *)
(* removed here since; MergeOutbox does not look at where a note was made. *)
OutboxItems == ThreadNames \cup (IF RepliesInOutbox THEN ReplyNames ELSE {})

MergeArrives(p) ==
    /\ At(p, "new")
    /\ \E name \in OutboxItems : \E t \in ThreadOfNote(name) :
       \E todo \in SUBSET (ReplyNames \ {name}) :
            Goto(p, Locals("mergeOp", t, name, todo))
    /\ UNCHANGED <<store, dead, late>>

(* The import goes on with the replies of the row "id", if any are left. *)
Import(p, id, todo) ==
    Goto(p, IF todo = {} THEN Done ELSE Locals("mergeNext", id, NoName, todo))

(* FindAPID of the opening post: any error counts as "not here yet". *)
MergeFindsOp(p) ==
    /\ At(p, "mergeOp")
    /\ \/ \E id \in Holding(req[p].name) : Import(p, id, req[p].todo)
       \/ /\ Holding(req[p].name) = {} \/ MayFail
          /\ Goto(p, [req[p] EXCEPT !.pc = "mergeSaveOp"])
    /\ UNCHANGED <<store, dead, late>>

(* Saved, its new id is the thread of the replies; refused, the import     *)
(* gives up on the whole thread.                                           *)
MergeSavesOp(p) ==
    /\ At(p, "mergeSaveOp")
    /\ \/ /\ SavePostTx(req[p].id, req[p].name)
          /\ Import(p, NextId, req[p].todo)
       \/ /\ Goto(p, Done)
          /\ UNCHANGED store
    /\ UNCHANGED <<dead, late>>

MergeFindsReply(p) ==
    /\ At(p, "mergeNext")
    /\ \E name \in req[p].todo :
        \/ /\ Holding(name) # {}
           /\ Import(p, req[p].id, req[p].todo \ {name})
        \/ /\ Holding(name) = {} \/ MayFail
           /\ Goto(p, Locals("mergeSave", req[p].id, name, req[p].todo \ {name}))
    /\ UNCHANGED <<store, dead, late>>

MergeSavesReply(p) ==
    /\ At(p, "mergeSave")
    /\ \/ SavePostTx(req[p].id, req[p].name)
       \/ UNCHANGED store
    /\ Import(p, req[p].id, req[p].todo)
    /\ UNCHANGED <<dead, late>>

(* A statement of a deletion fails and its handler returns.               *)
DeletionFails(p) ==
    /\ MayFail
    /\ \E pc \in Deletion : At(p, pc)
    /\ dead' = dead \cup {p}
    /\ UNCHANGED <<store, req, late>>

(* The process dies with every request in it; the database stays. *)
Crash ==
    /\ MayFail
    /\ \E p \in Requests : Active(p)
    /\ dead' = dead \cup {p \in Requests : Active(p)}
    /\ UNCHANGED <<store, req, late>>

(* Every request has ended and no other comes: the only state to rest in. *)
Settled == \A p \in Requests : req[p].pc = "done" \/ p \in dead
Rest == Settled /\ UNCHANGED vars

Arrive(p) ==
    \/ TurnedAway(p) \/ PostArrives(p) \/ CreateArrives(p)
    \/ ReportArrives(p) \/ DeleteArrives(p) \/ RemoteDeleteArrives(p) \/ MergeArrives(p)

Continue(p) ==
    \/ PostSaved(p) \/ CreateSaved(p) \/ Refused(p) \/ ReportFiled(p)
    \/ ThreadReportsDeleted(p) \/ ThreadPostsDeleted(p)
    \/ PostReportsDeleted(p) \/ PostDeleted(p) \/ Audited(p)
    \/ MergeFindsOp(p) \/ MergeSavesOp(p)
    \/ MergeFindsReply(p) \/ MergeSavesReply(p)

Next ==
    \/ \E p \in Requests : Arrive(p) \/ Continue(p) \/ DeletionFails(p)
    \/ Crash
    \/ Rest

Spec == Init /\ [][Next]_vars

-----------------------------------------------------------------------------
(* Correctness *)

Posts == 1 .. seq

TypeOK ==
    /\ seq \in Nat
    /\ live \subseteq Posts
    /\ post \in [Posts -> [thread : Nat, name : Names]]
    /\ links \subseteq Posts \X Posts
    /\ reports \subseteq Posts
    /\ audit \subseteq Posts
    /\ req \in [Requests -> [pc : PCs, id : {0} \cup Posts,
                            name : Names \cup {NoName}, todo : SUBSET Names]]
    /\ dead \subseteq Requests
    /\ late \subseteq reports

(* Threads are one level deep: the thread of every post ever stored is an  *)
(* earlier post that opened a thread, although the save that stored it     *)
(* went by a lookup made before any number of deletions and inserts.       *)
(* (resolvePost, AsPost and MergeOutbox against SavePostTx.)               *)
ThreadsFlat ==
    \A id \in Posts : LET t == Row(id).thread IN
        t # 0 => t < id /\ Row(t).thread = 0

(* A backlink never leads out of its thread or forward, whatever was       *)
(* removed since: replies_<board> keeps its rows when posts go, so a link  *)
(* would change meaning if an id could be handed out twice.                *)
LinksInThread ==
    \A l \in links :
        /\ l[2] < l[1]
        /\ Row(l[1]).thread # 0
        /\ Row(l[1]).thread \in {l[2], Row(l[2]).thread}

(* The log is the truth: a post with a deletion on record is not there.    *)
(* (The order of the statements in DeleteThread and DeletePost.)           *)
AuditedIsGone == audit \cap live = {}

(* Every post that is gone has its own deletion or its thread's on record, *)
(* or the request that took it stands (or died) right before the record.   *)
RemovalAccounted ==
    \A id \in Posts \ live :
        \E cause \in {id, Row(id).thread} :
            \/ cause \in audit
            \/ \E p \in Requests : req[p].pc = "audit" /\ req[p].id = cause

(* A removed post never returns under its number, and what a number stood  *)
(* for never changes: links to it from other pages and instances stay true. *)
NeverBack ==
    [][/\ Posts \ live \subseteq Posts' \ live'
       /\ \A id \in Posts : post'[id] = post[id]]_vars

Stranded == {id \in live : Row(id).thread # 0 /\ Row(id).thread \notin live}

(* No deletion leaves replies of a removed thread behind: the only posts   *)
(* without their thread are stored that way.  (ThreadPostsDeleted.)        *)
NoneLeftBehind == [][Stranded' \cap live \subseteq Stranded]_vars

(* A deletion takes the reports of everything it removes, the replies that *)
(* came in between included, or it would leave reports that no moderator   *)
(* can look up: a report of a post that is gone was filed after a deletion *)
(* of that post had dropped its reports.  (DeleteThread and DeletePost     *)
(* drop reports and rows by two statements; PostBoardReport checks for the *)
(* post by one and FileReport stores by another.)                          *)
StrayReportsLate == reports \ live \subseteq late

(* What readers see refines Forum: a thread and its replies come and go as *)
(* one, however the requests interleave, fail or die.                      *)
Shown == {id \in live : Row(id).thread \in OPs}
Replies == {<<Row(id).thread, id>> : id \in Shown}
F == INSTANCE Forum WITH top <- seq, threads <- OPs, replies <- Replies
ReadersSeeForum == F!Spec

-----------------------------------------------------------------------------
(* What a comment says and the code does not do: a reply or a report that  *)
(* is saved in between stays (sqlite3.go, above DeleteThread).             *)

(* "DeleteThread deletes a thread from the database ... It will also       *)
(* delete all posts and reports": once the deletion of a thread is on      *)
(* record and no request is under way, nothing of it is left.              *)
Deleted == {id \in audit : Row(id).thread = 0}
DeletedThreadIsEmpty ==
    Settled =>
        /\ \A id \in live : Row(id).thread \notin Deleted
        /\ \A id \in reports : {id, Row(id).thread} \cap Deleted = {}
=============================================================================
