------------------------------ MODULE MCSetup -------------------------------
(***************************************************************************)
(* Small instances of Setup for TLC.                                       *)
(***************************************************************************)
EXTENDS Setup

(* Ids that differ in case only have one table. *)
CaseTable == [b \in {"a", "b", "B"} |-> IF b = "B" THEN "b" ELSE b]
PlainTable == [b \in {"a"} |-> b]
=============================================================================
