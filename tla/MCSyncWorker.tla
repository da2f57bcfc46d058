-------------------------- MODULE MCSyncWorker --------------------------
(* Small instances of SyncWorker for TLC: tabs are interchangeable.        *)
EXTENDS SyncWorker, TLC

CONSTANTS t1, t2, t3

SomeTabs == {t1, t2, t3} \cap Tabs
TabSymmetry == Permutations(SomeTabs)
=============================================================================
