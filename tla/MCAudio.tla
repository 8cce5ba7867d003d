------------------------------ MODULE MCAudio ------------------------------
(* Finite instances of Audio.  Its run checks liveness: no symmetry. *)
EXTENDS Audio
=============================================================================
