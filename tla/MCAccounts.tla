------------------------------- MODULE MCAccounts -------------------------------
(* A small instance of Accounts: a unit is two e8s, the smallest deposit   *)
(* is two e8s, a deposit of nine would overflow.                           *)
EXTENDS Accounts, TLC

CONSTANTS d1, d2, p1, p2, c1, c2

MCAmounts == {1, 5, 9}
MCFees    == {1, 2}

CallSymmetry == Permutations(Calls) \cup Permutations(Dbs) \cup Permutations(People)
================================================================================
