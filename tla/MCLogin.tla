------------------------------ MODULE MCLogin -------------------------------
(* Model values and symmetry for the runs of Login.                        *)
EXTENDS Login, TLC

LoginSymmetry == Permutations(Tokens) \cup Permutations(Slots)
=============================================================================
