---------------------------- MODULE MCShardPlacement ----------------------------
(* Instances of ShardPlacement.                                            *)
EXTENDS ShardPlacement, TLC

CONSTANTS c1, c2, c3, books, named

Session(called, most, migrations, owner, sameMs, loses, registered) ==
  [calls |-> called, most |-> most, migrations |-> migrations, owner |-> owner, sameMs |-> sameMs,
   loses |-> loses, shards |-> registered]

Creations == {"create", "create_remote"}

MCSessions ==
  { Session(Creations, 2, 0, {"write", "delete", "restore"}, FALSE, TRUE, 1),
    Session({"create"}, 3, 0, {"delete"}, FALSE, FALSE, 0),
    Session(Creations, 2, 0, {"delete"}, TRUE, FALSE, 0),
    Session({"create", "create_remote", "migrate"}, 2, 2, {"delete"}, TRUE, FALSE, 1),
    Session({"create", "migrate"}, 3, 1, {"write", "cancel"}, FALSE, FALSE, 1),
    Session({"create", "migrate"}, 2, 1, {"write", "cancel"}, FALSE, TRUE, 1),
    Session({"migrate"}, 2, 2, {"write", "delete", "archive"}, FALSE, TRUE, 2),
    Session({"create_remote", "migrate"}, 2, 2, {"write", "cancel", "archive"}, FALSE, FALSE, 2) }

CallSymmetry == Permutations(Calls)
==============================================================================
