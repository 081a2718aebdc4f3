------------------------------ MODULE MCImports -----------------------------
(***************************************************************************)
(* Instances of Imports for TLC.                                           *)
(***************************************************************************)
EXTENDS Imports, TLC

CONSTANTS c1, Long, Short, Huge

\* A file with a code twice and a malformed row, one with a single row, one above the limit.
Contents == [f \in Files |->
    CASE f = Long -> <<c1, Malformed, c1>>
      [] f = Short -> <<c1>>
      [] f = Huge -> <<c1, c1, c1, c1>>]

=============================================================================
