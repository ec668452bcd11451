------------------------------ MODULE MCBoard ------------------------------
(* Board on a few requests and apids, for TLC. *)
EXTENDS Board, TLC

(* Requests, and names of one origin, are interchangeable; used for safety *)
(* properties only.                                                        *)
Interchangeable ==
    Permutations(Requests) \cup Permutations(LocalThreads) \cup Permutations(LocalReplies)
        \cup Permutations(RemoteThreads) \cup Permutations(RemoteReplies)
=============================================================================
