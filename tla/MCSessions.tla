----------------------------- MODULE MCSessions -----------------------------
(* Requests, names and passwords are interchangeable.                       *)
EXTENDS Sessions, TLC

Symmetric == Permutations(Requests) \cup Permutations(Users) \cup Permutations(Passwords)
=============================================================================
