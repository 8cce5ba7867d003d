-------------------------- MODULE MCEpisodicMemory --------------------------
(* Finite instances of EpisodicMemory. *)
EXTENDS EpisodicMemory, TLC

(* Shells are interchangeable; safety runs only. *)
Symmetry == Permutations(Sessions)
=============================================================================
