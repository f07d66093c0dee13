CONSTANTS
  p = p  q = q
  Clients = {p, q}
  MaxDb = 3
  Chunks = 2
  MaxVersion = 2
  Sessions <- MCSessions
SPECIFICATION FairSpec
INVARIANTS TypeOK SingleFlight FileNamesReady NothingIsLeft CreatesOnce ScriptIsPrefix MigrationsInOrder
PROPERTIES CallsEnd
CHECK_DEADLOCK FALSE
