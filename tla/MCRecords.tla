------------------------------ MODULE MCRecords -----------------------------
(***************************************************************************)
(* Instances of Records for TLC.                                           *)
(***************************************************************************)
EXTENDS Records, TLC

CONSTANTS e1, d1

Owner == [d \in Documents |-> e1]

Symmetry == Permutations(Requests) \cup Permutations(Fields)
=============================================================================
