----------------------------- MODULE MCAccounts -----------------------------
(* Small instances of Accounts for TLC: ids, slots, addresses and subjects  *)
(* are interchangeable.                                                     *)
EXTENDS Accounts, TLC

CONSTANTS r1, r2

AccountSymmetry == Permutations(Ids) \cup Permutations(Emails) \cup Permutations(Slots)
=============================================================================
