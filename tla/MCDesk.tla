------------------------------- MODULE MCDesk -------------------------------
(* Papers on two boards, of which those of one are interchangeable.         *)
EXTENDS Desk, TLC

CONSTANTS p1, p2, p3

TheBoards == p1 :> 1 @@ p2 :> 1 @@ p3 :> 2
Symmetric == Permutations({p1, p2}) \cup Permutations(Tabs)
=============================================================================
