---------------------------- MODULE FileImports -----------------------------
(***************************************************************************)
(* What the bulk import promises of each file, whatever the number of      *)
(* uploads of it: it is begun once, its rows are applied in order and each *)
(* at most once, nothing is applied when it is complete, and the worker    *)
(* takes note of it once and only then.  That a file which was begun is    *)
(* completed is not promised.                                              *)
(***************************************************************************)
EXTENDS Integers

CONSTANTS
    Files,     \* the contents uploaded
    Size     \* the number of rows of each

VARIABLES
    phase,     \* how far the import of a file is
    applied,   \* the rows of a file that were written to the employees
    noted      \* the files whose completion the worker has taken note of

vars == <<phase, applied, noted>>

Init ==
    /\ phase = [f \in Files |-> "new"]
    /\ applied = [f \in Files |-> {}]
    /\ noted = {}

Begin(f) ==
    /\ phase[f] = "new"
    /\ phase' = [phase EXCEPT ![f] = "processing"]
    /\ UNCHANGED <<applied, noted>>

Apply(f, i) ==
    /\ phase[f] = "processing"
    /\ \A k \in applied[f] : k < i
    /\ applied' = [applied EXCEPT ![f] = @ \cup {i}]
    /\ UNCHANGED <<phase, noted>>

Complete(f) ==
    /\ phase[f] = "processing"
    /\ phase' = [phase EXCEPT ![f] = "completed"]
    /\ UNCHANGED <<applied, noted>>

Note(f) ==
    /\ phase[f] = "completed"
    /\ f \notin noted
    /\ noted' = noted \cup {f}
    /\ UNCHANGED <<phase, applied>>

Next ==
    \E f \in Files :
        Begin(f) \/ Complete(f) \/ Note(f) \/ \E i \in 1..Size[f] : Apply(f, i)

Spec == Init /\ [][Next]_vars
=============================================================================
