----------------------------- MODULE MCFollows ------------------------------
(***************************************************************************)
(* Small instances of Follows for TLC.                                     *)
(***************************************************************************)
EXTENDS Follows

PairHost == [b \in {"a", "b"} |-> b]
=============================================================================
