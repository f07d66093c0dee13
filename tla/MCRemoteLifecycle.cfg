CONSTANTS
  c1 = c1  c2 = c2  c3 = c3
  alice = alice  token = token
  Blank = Blank
  Calls = {c1, c2}
  Principals = {alice}
  Tokens = {}
  MaxVersion = 1
  MaxMounts = 3
  Nobody = Nobody
  MaxQueue = 2
  Orders = {TRUE, FALSE}
SPECIFICATION Spec
SYMMETRY CallSymmetry
INVARIANTS TypeOK SnapshotsAgree JournaledInOrder
PROPERTIES OpensHotShard
