------------------------------- MODULE Forum -------------------------------
(***************************************************************************)
(* What a board promises its readers, with no requests and no storage in   *)
(* it: a set of threads, each showing some replies.  GetBoardThread shows  *)
(* a thread only while its opening post exists (routes/board.go), so a     *)
(* thread and everything under it appear and disappear together.           *)
(*                                                                         *)
(* Board.tla is shown to implement this module.                            *)
(***************************************************************************)
EXTENDS Integers

VARIABLES
    top,      \* the largest post number handed out so far
    threads,  \* numbers of the opening posts that can be read
    replies   \* pairs <<thread, number>> of the replies that can be read

vars == <<top, threads, replies>>

RepliesOf(t) == {r \in replies : r[1] = t}

TypeOK ==
    /\ top \in Nat
    /\ threads \subseteq 1 .. top
    /\ replies \subseteq threads \X (1 .. top)

Init ==
    /\ top = 0
    /\ threads = {}
    /\ replies = {}

(* A new thread appears under the next number. *)
NewThread ==
    /\ top' = top + 1
    /\ threads' = threads \cup {top + 1}
    /\ UNCHANGED replies

(* A reply appears in a readable thread under the next number. *)
Reply(t) ==
    /\ t \in threads
    /\ top' = top + 1
    /\ replies' = replies \cup {<<t, top + 1>>}
    /\ UNCHANGED threads

(* A number is spent on a post nobody can read: a reply stored after its   *)
(* thread was removed.                                                     *)
SpendNumber ==
    /\ top' = top + 1
    /\ UNCHANGED <<threads, replies>>

RemoveReply(r) ==
    /\ r \in replies
    /\ replies' = replies \ {r}
    /\ UNCHANGED <<top, threads>>

(* A thread goes with all of its replies in one step. *)
RemoveThread(t) ==
    /\ t \in threads
    /\ threads' = threads \ {t}
    /\ replies' = replies \ RepliesOf(t)
    /\ UNCHANGED top

Next ==
    \/ NewThread
    \/ SpendNumber
    \/ \E t \in threads : Reply(t) \/ RemoveThread(t)
    \/ \E r \in replies : RemoveReply(r)

Spec == Init /\ [][Next]_vars
=============================================================================
