--------------------------- MODULE MCSyncPush ---------------------------
(* Small instances of SyncPush for TLC: tabs are interchangeable, and so   *)
(* are the requests in flight.                                             *)
EXTENDS SyncPush, TLC

CONSTANTS t1, t2, s1, s2

\* Every command on a row of its own, or all on one row.
OwnRow  == [c \in Cmds |-> c]
SameRow == [c \in Cmds |-> "c1"]

Symmetry == Permutations(Tabs) \cup Permutations(Slots)
=============================================================================
