--------------------------- MODULE MCRemoteLifecycle ---------------------------
(* Small instance of RemoteLifecycle.                                      *)
EXTENDS RemoteLifecycle, TLC

CONSTANTS c1, c2, c3, alice, token

CallSymmetry == Permutations(Calls)
================================================================================
