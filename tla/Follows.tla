------------------------------ MODULE Follows -------------------------------
(***************************************************************************)
(* Following and unfollowing boards of other instances (routes/admin.go,   *)
(* routes/activitypub.go, fedi/generate.go, fedi/net.go): the two lists    *)
(* that must agree, on two instances, with a Follow that waits for the     *)
(* inbox to be done with sending its Accept.                               *)
(***************************************************************************)
EXTENDS Integers

CONSTANTS
    Requests,       \* requests of administrators, each made once
    Boards,         \* boards of all instances, as actors
    Host,           \* Boards -> instances
    MaxRetries,     \* config.MaxRetries
    None,           \* no board
    Undoing,        \* instances whose config.UnstableUnfollow is set
    MayFail         \* may requests, lookups, statements and instances fail?

ASSUME FollowsAssumption ==
    /\ MaxRetries \in Nat \ {0}
    /\ None \notin Boards /\ MayFail \in BOOLEAN

VARIABLES
    following,  \* the table following, as Boards -> boards
    followers,  \* the table followers, likewise
    req,        \* each request: its next step, what it asks, its attempt
    wire,       \* attempts under way to an inbox, as <<request, attempt>>
    accepts,    \* attempts whose inbox is sending the Accept, likewise
    want,       \* history: what was last asked for, if that is certain
    missed      \* history: pairs of a Follow that ended without a 200

tables == <<following, followers>>
history == <<want, missed>>
vars == <<tables, req, wire, accepts, history>>

-----------------------------------------------------------------------------
Pairs == Boards \X Boards
Instances == {Host[b] : b \in Boards}
New == [pc |-> "new", op |-> "none", from |-> None, to |-> None, try |-> 0]

UnderWay(r) == req[r].pc \notin {"new", "done"}
Pair(r) == <<req[r].from, req[r].to>>
Others(r, p) == \E q \in Requests \ {r} : UnderWay(q) /\ Pair(q) = p

(* The activity is a Follow also when it is to end one, unless configured. *)
Follows(r) == req[r].op = "follow" \/ Host[req[r].from] \notin Undoing

(* Slip: only a Follow that was answered is recorded. *)
SlipSent(r, ok) ==
    /\ req' = [req EXCEPT ![r].pc = IF req[r].op = "follow" /\ ok THEN "record" ELSE "done"]
    /\ missed' = IF ok \/ req[r].op # "follow" THEN missed ELSE missed \cup {Pair(r)}

(* SendActivity returns, without an error even if nothing arrived.         *)
Sent(r, ok) ==
    /\ req' = [req EXCEPT ![r].pc = IF req[r].op = "follow" THEN "record" ELSE "done"]
    /\ missed' = IF ok \/ req[r].op # "follow" THEN missed ELSE missed \cup {Pair(r)}

(* Slip: the loop does not count. *)
SlipFailedForEver(r) ==
    /\ req' = [req EXCEPT ![r].pc = "send"]
    /\ UNCHANGED missed

(* An attempt failed: the next one, or none.                               *)
Failed(r) ==
    IF req[r].try < MaxRetries
    THEN /\ req' = [req EXCEPT ![r].pc = "send", ![r].try = @ + 1]
         /\ UNCHANGED missed
    ELSE Sent(r, FALSE)

Waits(r, n) == req[r].pc = "flying" /\ req[r].try = n

(* The inbox answers attempt n of r, which may be waited for no more.      *)
Answer(r, n, ok) ==
    IF Waits(r, n)
    THEN IF ok THEN Sent(r, TRUE) ELSE Failed(r)
    ELSE UNCHANGED <<req, missed>>

-----------------------------------------------------------------------------
Init ==
    /\ following = [b \in Boards |-> {}]
    /\ followers = [b \in Boards |-> {}]
    /\ req = [r \in Requests |-> New]
    /\ wire = {} /\ accepts = {}
    /\ want = [p \in Pairs |-> "no"]
    /\ missed = {}

(* The request is asked, alone or while another on the same pair is not    *)
(* done: then nobody can say which of the two is the last.                 *)
Asks(r, op, b, t) ==
    /\ req[r] = New
    /\ req' = [req EXCEPT ![r] = [pc |-> "send", op |-> op, from |-> b, to |-> t, try |-> 1]]
    /\ want' = [want EXCEPT ![<<b, t>>] = IF Others(r, <<b, t>>) THEN "unknown"
                                         ELSE IF op = "follow" THEN "yes" ELSE "no"]
    /\ UNCHANGED <<followers, wire, accepts, missed>>

(* GetAdminFollow, up to SendActivity.                                     *)
Follow(r, b, t) == Asks(r, "follow", b, t) /\ UNCHANGED following

(* GetAdminUnfollow, likewise: DeleteFollowing comes first.                *)
Unfollow(r, b, t) ==
    /\ Asks(r, "unfollow", b, t)
    /\ following' = [following EXCEPT ![b] = @ \ {t}]

(* One round of the loop of SendActivity.                                  *)
Attempt(r) ==
    /\ req[r].pc = "send"
    /\ wire' = wire \cup {<<r, req[r].try>>}
    /\ req' = [req EXCEPT ![r].pc = "flying"]
    /\ UNCHANGED <<tables, accepts, history>>

(* makeActivityRequest fails, for good.                                    *)
Dropped(r) ==
    /\ MayFail
    /\ req[r].pc = "send"
    /\ Sent(r, FALSE)
    /\ UNCHANGED <<tables, wire, accepts, want>>

TimesOut(r) ==
    /\ MayFail
    /\ req[r].pc = "flying"
    /\ Failed(r)
    /\ UNCHANGED <<tables, wire, accepts, want>>

(* AddFollowing.                                                           *)
Record(r) ==
    /\ req[r].pc = "record"
    /\ following' = [following EXCEPT ![req[r].from] = @ \cup {req[r].to}]
    /\ req' = [req EXCEPT ![r].pc = "done"]
    /\ UNCHANGED <<followers, wire, accepts, history>>

(* The request ends in an error: there is no key to sign with, or the      *)
(* statement fails.                                                        *)
AskFails(r) ==
    /\ MayFail
    /\ req[r].pc \in {"send", "record"} /\ (req[r].pc = "send" => req[r].try = 1)
    /\ req' = [req EXCEPT ![r].pc = "done"]
    /\ want' = [want EXCEPT ![Pair(r)] = "unknown"]
    /\ UNCHANGED <<tables, wire, accepts, missed>>

-----------------------------------------------------------------------------
(* PostBoardInbox.                                                         *)

Taken(r, n) == <<r, n>> \in wire /\ wire' = wire \ {<<r, n>>}

AddFollow(r) == followers' = [followers EXCEPT ![req[r].to] = @ \cup {req[r].from}]

(* Slip: the follower is forgotten when the Accept is made. *)
SlipFollowArrives(r, n) ==
    /\ Taken(r, n) /\ Follows(r)
    /\ accepts' = accepts \cup {<<r, n>>}
    /\ UNCHANGED <<tables, req, history>>

(* A Follow: the follower is recorded, and the Accept is sent before the   *)
(* answer.                                                                 *)
FollowArrives(r, n) ==
    /\ Taken(r, n) /\ Follows(r)
    /\ AddFollow(r)
    /\ accepts' = accepts \cup {<<r, n>>}
    /\ UNCHANGED <<following, req, history>>

(* An error is answered, before or after AddFollow.                        *)
FollowRefused(r, n) ==
    /\ MayFail
    /\ Taken(r, n) /\ Follows(r)
    /\ AddFollow(r) \/ UNCHANGED followers
    /\ Answer(r, n, FALSE)
    /\ UNCHANGED <<following, accepts, want>>

(* An Undo, an activity of unknown type: nothing, and 200.                 *)
UndoArrives(r, n) ==
    /\ Taken(r, n) /\ ~Follows(r)
    /\ Answer(r, n, TRUE)
    /\ UNCHANGED <<tables, accepts, want>>

ConnectionLost(r, n) ==
    /\ MayFail
    /\ Taken(r, n)
    /\ Answer(r, n, FALSE)
    /\ UNCHANGED <<tables, accepts, want>>

(* The inbox is done with SendActivity for the Accept.  Whether that came  *)
(* to the follower, where it is an activity of unknown type, or was lost,  *)
(* the answer is 200.                                                      *)
AcceptEnds(r, n) ==
    /\ <<r, n>> \in accepts
    /\ accepts' = accepts \ {<<r, n>>}
    /\ Answer(r, n, TRUE)
    /\ UNCHANGED <<tables, wire, want>>

(* An instance dies, with its requests, and its inboxes.                   *)
Crash(i) ==
    LET died == {r \in Requests : UnderWay(r) /\ Host[req[r].from] = i}
    IN  /\ MayFail
        /\ req' = [r \in Requests |-> IF r \in died THEN [req[r] EXCEPT !.pc = "done"] ELSE req[r]]
        /\ want' = [p \in Pairs |-> IF \E r \in died : Pair(r) = p THEN "unknown" ELSE want[p]]
        /\ accepts' = {a \in accepts : Host[req[a[1]].to] # i}
        /\ UNCHANGED <<tables, wire, missed>>

(* Everything asked for is done.                                           *)
Rest ==
    /\ \A r \in Requests : req[r].pc = "done"
    /\ wire = {} /\ accepts = {}
    /\ UNCHANGED vars

Continue(r) ==
    \/ Attempt(r) \/ Dropped(r) \/ TimesOut(r) \/ Record(r)
    \/ \E n \in 1 .. MaxRetries :
        \/ FollowArrives(r, n) \/ FollowRefused(r, n) \/ UndoArrives(r, n)
        \/ AcceptEnds(r, n) \/ ConnectionLost(r, n)

Next ==
    \/ \E r \in Requests :
        \/ \E b, t \in Boards : Follow(r, b, t) \/ Unfollow(r, b, t)
        \/ Continue(r) \/ AskFails(r)
    \/ \E i \in Instances : Crash(i)
    \/ Rest

Spec == Init /\ [][Next]_vars /\ \A r \in Requests : WF_vars(Continue(r))

-----------------------------------------------------------------------------
TypeOK ==
    /\ following \in [Boards -> SUBSET Boards]
    /\ followers \in [Boards -> SUBSET Boards]
    /\ req \in [Requests -> [pc : {"new", "send", "flying", "record", "done"},
                             op : {"none", "follow", "unfollow"},
                             from : Boards \cup {None}, to : Boards \cup {None},
                             try : 0 .. MaxRetries]]
    /\ wire \subseteq Requests \X (1 .. MaxRetries)
    /\ accepts \subseteq Requests \X (1 .. MaxRetries)
    /\ want \in [Pairs -> {"yes", "no", "unknown"}]
    /\ missed \subseteq Pairs

Settled(p) == \A r \in Requests : UnderWay(r) => Pair(r) # p

(* What the admin page lists is what was last asked for, unless requests   *)
(* on one pair overlapped or one was cut short: whatever the other side    *)
(* does, and however long the loop of SendActivity takes.                  *)
AsAsked ==
    \A p \in Pairs : Settled(p) /\ want[p] # "unknown" =>
        (p[2] \in following[p[1]] <=> want[p] = "yes")

(* A board that is listed as followed has this one among its followers,    *)
(* unless the Follow was never answered with 200.  ("TODO: Only do this    *)
(* when we receive an Accept", GetAdminFollow.)                            *)
FollowersKnow ==
    \A p \in Pairs : p[2] \in following[p[1]] =>
        p[1] \in followers[p[2]] \/ p \in missed

(* Every request ends, although the inbox keeps it waiting until its own   *)
(* loop has ended.                                                         *)
RequestsEnd == \A r \in Requests : UnderWay(r) ~> req[r].pc = "done"
=============================================================================
