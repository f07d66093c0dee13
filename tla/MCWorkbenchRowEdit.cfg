CONSTANTS
  Dbs = {"a", "b"}
  NoDb = NoDb
  MaxTable = 2
  MaxKey = 3
  Limits = {1, 2}
  InitialStores <- MCStores
  ArchiveFiles <- MCArchiveFiles
  DumpFiles <- MCDumpFiles
  Sessions <- Patient
SPECIFICATION Spec
INVARIANT EditsTheSelectedRow
CHECK_DEADLOCK FALSE
