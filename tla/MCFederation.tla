--------------------------- MODULE MCFederation ---------------------------
(* Federation on a few boards, for TLC: who is where and who follows whom. *)
EXTENDS Federation

(* The table followers lists a before b before c.                          *)
InOrder == [S \in (SUBSET Boards) \ {{}} |->
                IF "a" \in S THEN "a" ELSE IF "b" \in S THEN "b" ELSE "c"]

(* Replies named rb are written on b, everything else on a.                *)
PairHome == [n \in Notes |-> IF n = "rb" THEN "b" ELSE "a"]

(* Boards a and b of two instances; b follows a.                           *)
PairHost == [x \in {"a", "b"} |-> x]
OneWay == [a |-> {"b"}, b |-> {}]

(* b and c are boards of one instance; b follows a, and c may come to.     *)
SharedHost == [a |-> "A", b |-> "B", c |-> "B"]
SharedFollowers == [a |-> {"b"}, b |-> {}, c |-> {}]
SharedJoins == {<<"a", "c">>}

(* Who may delete: a moderator on each board, or on a only.                *)
OneEach == [x \in Boards |-> {1}]
AtHome == [x \in Boards |-> IF x = "a" THEN {1} ELSE {}]
=============================================================================
