-------------------------- MODULE MCFrequencyTable ---------------------------
(* A finite instance of FrequencyTable: one default, a long word, a word   *)
(* with a blank, and one word more than the table holds.                   *)
EXTENDS FrequencyTable

ExitFirst == <<"exit">>
Symmetry == Permutations(Shells) \cup Permutations(Children)
=============================================================================
