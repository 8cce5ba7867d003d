---------------------------- MODULE MCJobControl ----------------------------
(* Finite instances of JobControl. *)
EXTENDS JobControl, TLC

(* Process identifiers are interchangeable; safety runs only. *)
Symmetry == Permutations(Pids)
=============================================================================
