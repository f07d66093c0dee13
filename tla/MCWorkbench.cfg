CONSTANTS
  Dbs = {"a", "b"}
  NoDb = NoDb
  MaxTable = 2
  MaxKey = 3
  Limits = {1, 2}
  InitialStores <- MCStores
  ArchiveFiles <- MCArchiveFiles
  DumpFiles <- MCDumpFiles
  Sessions <- MCSessions
SPECIFICATION FairSpec
INVARIANTS TypeOK SettledShowsSelection SettledShowsStore HastyShowsNamesake SnapshotIsArchive
PROPERTIES ComesToRest
CHECK_DEADLOCK FALSE
