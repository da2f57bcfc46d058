--------------------------- MODULE MCEventCache ---------------------------
(* Small instances of EventCache for TLC: tabs are interchangeable.        *)
EXTENDS EventCache, TLC

CONSTANTS t1, t2

TabSymmetry == Permutations(Tabs)
=============================================================================
