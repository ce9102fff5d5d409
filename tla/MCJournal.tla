------------------------------ MODULE MCJournal ------------------------------
(***************************************************************************)
(* TLC instances of Journal.                                               *)
(***************************************************************************)
EXTENDS Journal, TLC

\* Appends are interchangeable.  The run that checks liveness does not use
\* this.
Symmetry == Permutations(Entry)
=============================================================================
