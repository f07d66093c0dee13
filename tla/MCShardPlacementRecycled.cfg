CONSTANTS
  c1 = c1  c2 = c2  c3 = c3
  books = books  named = named
  Calls = {c1, c2, c3}
  Locals = {books}
  Named = {named}
  MaxShards = 2
  Capacity = 1
  Mounts = 3
  MaxAttempt = 1
  MaxVersion = 1
  Sessions <- MCSessions
SPECIFICATION Spec
SYMMETRY CallSymmetry
INVARIANTS MemoriesAreNotRecycled
CHECK_DEADLOCK FALSE
