----------------------------- MODULE MCWorkbench -----------------------------
(* Instances of Workbench: two databases, two table names, two rows.       *)
EXTENDS Workbench

Holding(tables) == [status |-> "hot", tables |-> tables,
                    rows |-> [n \in Names |-> IF n \in tables THEN <<1, 2>> ELSE <<>>]]
Free == [status |-> "none", tables |-> {}, rows |-> [n \in Names |-> <<>>]]

MCStores == { [d \in Dbs |-> IF d = "a" THEN Holding(x) ELSE y] :
                x \in {{1}, {1, 2}}, y \in {Free, Holding({2})} }
MCArchiveFiles == { [tables |-> {2}, rows |-> [n \in Names |-> <<2>>]] }
Batch(kind, n) == [kind |-> kind, table |-> n, key |-> 0]
MCDumpFiles == { <<Batch("insert", 1)>>, <<Batch("create", 2), Batch("insert", 2)>>,
                 <<Batch("create", 2), Batch("create", 1)>> }

Session(patient, failing, loses, ops, may) ==
  [patient |-> patient, failing |-> failing, loses |-> loses, ops |-> ops, may |-> may]
Files == {"loadDump", "loadArchive"}
Exploring == Session(TRUE, FALSE, {}, 3, Controls \ Files)
Filing == Session(TRUE, FALSE, {}, 3, Files \union {"refresh", "openSql", "archive", "restore"})
Archiving == Session(TRUE, FALSE, {}, 4, {"archive", "restore", "createTable"})
Failing == Session(TRUE, TRUE, {}, 2, Controls)
Losing == Session(TRUE, FALSE, Updates \ {"finalizeArchive"}, 3,
                  {"create", "refresh", "archive", "delete", "restore", "edit", "loadDump"})
Cancelling == Session(TRUE, TRUE, {"beginArchive", "cancelArchive"}, 3,
                      {"archive", "refresh", "cancelArchive"})
Hasty == Session(FALSE, FALSE, {}, 2, {"refresh", "select", "selectTable", "page", "edit"})
HastySql == Session(FALSE, FALSE, {}, 2, {"select", "openSql", "loadDump"})
MCSessions == { Exploring, Filing, Archiving, Failing, Losing, Cancelling, Hasty, HastySql }
Patient == { Session(TRUE, FALSE, {}, 3, Controls \ {"openSql"}) }
==============================================================================
