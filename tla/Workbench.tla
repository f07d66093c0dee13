------------------------------- MODULE Workbench -------------------------------
(***************************************************************************)
(* The console: React state written by asynchronous handlers.  A handler   *)
(* captures the state of the render it started in (its closure), awaits    *)
(* requests to the canister and writes the state after each answer.  A     *)
(* step from one await to the next is one action: the state it writes is   *)
(* rendered at its end, and the render starts the refresh effect of the    *)
(* controller when a dependency of the effect changed.  Nothing cancels a  *)
(* request in flight.                                                      *)
(*                                                                         *)
(* A row is its primary key, a table its place in the listing order; the   *)
(* contents of cells, usage, billing and messages are left out.            *)
(***************************************************************************)
EXTENDS Integers, Sequences, SequencesExt, FiniteSetsExt, BagsExt

CONSTANTS Dbs,            \* databases the caller may own
          NoDb,           \* no database
          MaxTable,       \* bound: table names are 1..MaxTable, in listing order
          MaxKey,         \* bound: primary keys are 1..MaxKey
          Limits,         \* page sizes offered
          InitialStores,  \* what the canister may hold when the console opens
          ArchiveFiles,   \* archive files at hand: the tables and rows of SQLite images
          DumpFiles,      \* SQL dump files at hand: sequences of batches
          Sessions        \* kinds of session: which operations the user performs and how
                          \* many (a bound), whether he waits for the console to settle
                          \* before each, whether requests may fail without effect for
                          \* reasons of their own, and which updates may lose their answer

Names == 1..MaxTable
Keys == 1..MaxKey
NoTable == 0

Controls == {"refresh", "select", "create", "delete", "archive", "cancelArchive", "restore",
             "selectTable", "openSql", "page", "limit", "edit", "createTable", "sql",
             "loadDump", "loadArchive"}
Updates == {"create", "delete", "beginArchive", "finalizeArchive", "cancelArchive",
            "beginRestore", "finalizeRestore", "statement"}

Statuses == {"none", "hot", "archiving", "archived", "restoring", "deleted"}
Rows == UNION {[1..n -> Keys] : n \in 0..MaxKey}
Increasing(rows) == \A i, j \in DOMAIN rows : i < j => rows[i] < rows[j]
Stores == [Dbs -> [status : Statuses, tables : SUBSET Names, rows : [Names -> Rows]]]
Batches == [kind : {"create", "insert"}, table : Names, key : {0}]

ASSUME Bounds ==
  /\ MaxTable \in Nat \ {0} /\ MaxKey \in Nat /\ NoDb \notin Dbs
  /\ Limits \subseteq Nat \ {0} /\ Limits # {}
  /\ \A s \in Sessions : /\ s.may \subseteq Controls /\ s.ops \in Nat
                         /\ {s.patient, s.failing} \subseteq BOOLEAN /\ s.loses \subseteq Updates
  /\ InitialStores \subseteq Stores
  /\ \A s \in InitialStores, d \in Dbs, n \in Names : Increasing(s[d].rows[n])
  /\ ArchiveFiles \subseteq [tables : SUBSET Names, rows : [Names -> Rows]]
  /\ \A f \in ArchiveFiles, n \in Names : Increasing(f.rows[n])
  /\ DumpFiles \subseteq Seq(Batches) \ {<<>>}

VARIABLES store,    \* the canister: status, tables and rows of each database
          ui,       \* the React state
          tasks,    \* bag of handlers and effects waiting for an answer
          edit,     \* last row edit sent: where it goes, and what the editor held
          session,  \* the kind of session
          budget    \* operations the user has left

vars == <<store, ui, tasks, edit, session, budget>>

NoPreview == [db |-> NoDb, table |-> NoTable, offset |-> 0, rows |-> <<>>]
NoDescription == [db |-> NoDb, table |-> NoTable]
NoRow == [db |-> NoDb, table |-> NoTable, key |-> 0]
NoImage == [db |-> NoDb, tables |-> {}, rows |-> [n \in Names |-> <<>>]]
NoStatement == [kind |-> "none", table |-> NoTable, key |-> 0]
NoReply == [is |-> "awaited", listed |-> [d \in Dbs |-> "none"], tables |-> {}, rows |-> <<>>]

-----------------------------------------------------------------------------
(* Derived state: the selected resources and the permission gates.         *)

selectedDatabase == IF ui.databaseId = NoDb THEN "none" ELSE ui.databases[ui.databaseId]
canRun == ui.principal /\ ui.databaseId # NoDb /\ ui.loadState # "loading"
canWriteDatabase == canRun /\ selectedDatabase = "hot"
canEditRows == canWriteDatabase /\ ui.tableName \in ui.tables /\ ui.description # NoDescription
selectedRow == IF ui.selected \in DOMAIN ui.preview.rows THEN ui.preview.rows[ui.selected] ELSE 0
canMutateSelectedRow == canEditRows /\ selectedRow # 0
canRestore == /\ canRun
              /\ ui.snapshot.db = ui.databaseId
              /\ selectedDatabase \in {"archived", "deleted"}

selectPreferredTableName(tables, preferred) ==
  IF preferred \in tables THEN preferred
  ELSE IF tables = {} THEN NoTable ELSE Min(tables)

resetRowEditor(u) == [u EXCEPT !.selected = 0, !.draft = NoRow]
clearTable(u) ==
  [u EXCEPT !.tableName = NoTable, !.description = NoDescription, !.preview = NoPreview]
clearTableState(u) == resetRowEditor([clearTable(u) EXCEPT !.tables = {}])

-----------------------------------------------------------------------------
(* Tasks.  `table' and `limit' are the closure's, `target' the table being *)
(* loaded, `rest' the batches yet to send, `await' the request in flight.  *)

Task(u, op, await) ==
  [op |-> op, await |-> await, db |-> u.databaseId, table |-> u.tableName, limit |-> u.limit,
   target |-> u.tableName, offset |-> 0, statement |-> NoStatement, rest |-> <<>>,
   image |-> NoImage, reply |-> NoReply]

(* Mutants of the effect: with the values of the render before, without    *)
(* the table name among the dependencies, with one that always changes.    *)
staleEffect(before, after, relisted) ==
  IF (relisted \/ <<before.principal, before.databaseId, before.tableName, before.limit>>
                  # <<after.principal, after.databaseId, after.tableName, after.limit>>)
     /\ after.principal /\ before.databaseId # NoDb
  THEN SetToBag({Task(before, "effect", IF before.databases[before.databaseId] = "hot"
                                        THEN "resources" ELSE "account")}) ELSE EmptyBag
effectWithoutTable(before, after, relisted) ==
  IF (relisted \/ <<before.principal, before.databaseId, before.limit>>
                  # <<after.principal, after.databaseId, after.limit>>)
     /\ after.principal /\ after.databaseId # NoDb
  THEN SetToBag({Task(after, "effect", IF after.databases[after.databaseId] = "hot"
                                       THEN "resources" ELSE "account")}) ELSE EmptyBag
unstableEffect(before, after, relisted) ==
  IF after.principal /\ after.databaseId # NoDb
  THEN SetToBag({Task(after, "effect", IF after.databases[after.databaseId] = "hot"
                                       THEN "resources" ELSE "account")}) ELSE EmptyBag

(* The refresh effect: it runs when the selection, the list of databases,  *)
(* the table name or the page size changed, with the values of that render.*)
refreshEffect(before, after, relisted) ==
  LET changed == \/ relisted
                 \/ <<before.principal, before.databaseId, before.tableName, before.limit>>
                    # <<after.principal, after.databaseId, after.tableName, after.limit>>
      kind == IF after.databases[after.databaseId] = "hot" THEN "resources" ELSE "account"
  IN IF changed /\ after.principal /\ after.databaseId # NoDb
     THEN SetToBag({Task(after, "effect", kind)}) ELSE EmptyBag

Render(u, relisted, others) ==
  /\ ui' = u
  /\ tasks' = others (+) refreshEffect(ui, u, relisted)

-----------------------------------------------------------------------------
(* The canister answers a request.  Statements of the console are SQL: a   *)
(* row edit names its row by primary key.  The answer to an update may be  *)
(* lost after it took effect: its handler then hears of a failure.         *)

Refused == [NoReply EXCEPT !.is = "failed"]
Done == [NoReply EXCEPT !.is = "ok"]
Others(t) == BagRemove(tasks, t)
Heard(t, reply) == {reply} \union (IF t.await \in session.loses THEN {Refused} ELSE {})
AnswerWith(t, changed, reply) ==
  \E heard \in Heard(t, reply) : tasks' = BagAdd(Others(t), [changed EXCEPT !.reply = heard])
Answer(t, reply) == AnswerWith(t, t, reply)
Waiting(t, await) == t.await = await /\ t.reply = NoReply

Page(d, n, offset, limit) ==
  LET rows == store[d].rows[n]
  IN SubSeq(rows, offset + 1, IF offset + limit < Len(rows) THEN offset + limit ELSE Len(rows))

Accepts(d, s) ==
  /\ store[d].status = "hot"
  /\ s.kind \in {"insert", "update", "delete"} => s.table \in store[d].tables
  /\ s.kind = "create" => s.table \notin store[d].tables

(* Mutant: a key that was deleted comes back.                              *)
reusedKey(rows) == Len(rows) + 1
NextKey(rows) == IF rows = <<>> THEN 1 ELSE Last(rows) + 1

Execute(d, s) ==
  CASE s.kind = "create" -> [store EXCEPT ![d].tables = @ \union {s.table}]
    [] s.kind = "insert" -> [store EXCEPT ![d].rows[s.table] =
                               IF NextKey(@) \in Keys THEN Append(@, NextKey(@)) ELSE @]
    [] s.kind = "delete" -> [store EXCEPT ![d].rows[s.table] = RemoveFirst(@, s.key)]
    [] OTHER -> store

Read(t) ==
  /\ \/ /\ Waiting(t, "list")
        /\ Answer(t, [Done EXCEPT !.listed = [d \in Dbs |-> store[d].status]])
     \/ /\ Waiting(t, "account")
        /\ Answer(t, Done)
     \/ /\ Waiting(t, "resources")
        /\ Answer(t, IF store[t.db].status = "hot"
                     THEN [Done EXCEPT !.tables = store[t.db].tables] ELSE Refused)
     \/ /\ t.await \in {"table", "preview"} /\ t.reply = NoReply
        /\ Answer(t, IF store[t.db].status = "hot" /\ t.target \in store[t.db].tables
                     THEN [Done EXCEPT !.rows = Page(t.db, t.target, t.offset, t.limit)]
                     ELSE Refused)
  /\ UNCHANGED store

WriteStatement(t) ==
  /\ Waiting(t, "statement")
  /\ IF Accepts(t.db, t.statement)
     THEN store' = Execute(t.db, t.statement) /\ Answer(t, Done)
     ELSE UNCHANGED store /\ Answer(t, Refused)

Moves == [delete |-> <<{"hot", "archived"}, "deleted">>,
          beginArchive |-> <<{"hot"}, "archiving">>,
          finalizeArchive |-> <<{"archiving"}, "archived">>,
          cancelArchive |-> <<{"archiving"}, "hot">>,
          beginRestore |-> <<{"archived", "deleted"}, "restoring">>]

ImageOf(d) == [db |-> d, tables |-> store[d].tables, rows |-> store[d].rows]

ChangeStatus(t) ==
  /\ t.await \in DOMAIN Moves /\ t.reply = NoReply
  /\ IF store[t.db].status \in Moves[t.await][1]
     THEN /\ store' = [store EXCEPT ![t.db].status = Moves[t.await][2]]
          /\ LET x == IF t.await = "beginArchive" THEN [t EXCEPT !.image = ImageOf(t.db)] ELSE t
             IN AnswerWith(t, x, Done)
     ELSE UNCHANGED store /\ Answer(t, Refused)

FinishRestore(t) ==
  /\ Waiting(t, "finalizeRestore")
  /\ store' = [store EXCEPT ![t.db] =
                 [status |-> "hot", tables |-> t.image.tables, rows |-> t.image.rows]]
  /\ Answer(t, Done)

Create(t) ==
  /\ Waiting(t, "create")
  /\ \/ \E d \in Dbs : /\ store[d].status = "none"
                      /\ store' = [store EXCEPT ![d].status = "hot"]
                      /\ AnswerWith(t, [t EXCEPT !.db = d], Done)
     \/ /\ \A d \in Dbs : store[d].status # "none"
        /\ UNCHANGED store /\ Answer(t, Refused)

(* A file that was chosen is read, or is empty or unreadable.              *)
ReadFile(t) == /\ Waiting(t, "file")
               /\ Answer(t, Done) \/ Answer(t, Refused)
               /\ UNCHANGED store

(* A request that fails without effect for a reason of its own.            *)
Fail(t) == /\ session.failing
           /\ t.reply = NoReply
           /\ Answer(t, Refused)
           /\ UNCHANGED store

ServeOf(op) ==
         /\ \E t \in {x \in BagToSet(tasks) : x.op = op} :
                                    \/ Read(t) \/ WriteStatement(t) \/ ChangeStatus(t)
                                    \/ FinishRestore(t) \/ Create(t) \/ ReadFile(t) \/ Fail(t)
         /\ UNCHANGED <<ui, edit, session, budget>>

-----------------------------------------------------------------------------
(* The continuations: what each await is followed by.                      *)

Await(t, await) == [t EXCEPT !.await = await, !.reply = NoReply]
Load(t, preferred) == [Await(t, "resources") EXCEPT !.target = preferred]
Goes(t, u, next) == Render(u, FALSE, BagAdd(Others(t), next))
Loading(u) == [u EXCEPT !.loadState = "loading"]
Ready(u) == [u EXCEPT !.loadState = "ready"]

(* The end of a handler after its refresh.                                 *)
Finish(t, u) ==
  CASE t.op = "effect" -> u
    [] t.op \in {"row", "page"} -> Ready(resetRowEditor(u))
    [] OTHER -> Ready(u)

(* The catch of every handler; a failed effect only reports its error.     *)
Catch(t) ==
  /\ t.reply.is = "failed" /\ t.await # "list"
  /\ Render(IF t.op = "effect" THEN ui ELSE [ui EXCEPT !.loadState = "error"], FALSE, Others(t))

refreshDatabases(t) ==
  LET ok == t.reply.is = "ok"
      listed == {d \in Dbs : t.reply.listed[d] # "none"}
      first == IF listed = {} THEN NoDb ELSE CHOOSE d \in listed : TRUE
      u == IF ok THEN [ui EXCEPT !.databases = [d \in Dbs \union {NoDb} |->
                                                    IF d = NoDb THEN "none" ELSE t.reply.listed[d]],
                                 !.principal = TRUE,
                                 !.databaseId = IF @ = NoDb THEN first ELSE @,
                                 !.loadState = "ready"]
           ELSE [ui EXCEPT !.loadState = "error"]
  IN /\ t.await = "list" /\ t.reply # NoReply
     /\ CASE t.op = "refresh" -> Render(u, ok, Others(t))
          [] t.op = "create" -> Render(clearTableState([u EXCEPT !.databaseId = t.db]), ok,
                                       BagAdd(Others(t), Load(t, NoTable)))
          [] t.op = "delete" -> Render(Ready([u EXCEPT !.databaseId = NoDb]), ok, Others(t))
          [] t.op = "restore" -> Render(u, ok, BagAdd(Others(t), Load(t, t.table)))
          [] OTHER -> Render(u, ok, BagAdd(Others(t), Await(t, "account")))

refreshDatabaseAccount(t) ==
  /\ t.await = "account" /\ t.reply.is = "ok"
  /\ Render(Finish(t, clearTableState(ui)), FALSE, Others(t))

refreshDatabaseDetails(t) ==
  LET u == [ui EXCEPT !.tables = t.reply.tables]
      name == selectPreferredTableName(t.reply.tables, t.target)
  IN /\ t.await = "resources" /\ t.reply.is = "ok"
     /\ IF name = NoTable
        THEN Render(Finish(t, clearTable(u)), FALSE, Others(t))
        ELSE Goes(t, u, [Await(t, "table") EXCEPT !.target = name])

loadTable(t) ==
  LET u == [ui EXCEPT !.tableName = t.target,
                      !.description = [db |-> t.db, table |-> t.target],
                      !.preview = [db |-> t.db, table |-> t.target, offset |-> t.offset,
                                   rows |-> t.reply.rows]]
  IN /\ t.await = "table" /\ t.reply.is = "ok"
     /\ Render(Finish(t, IF t.target # t.table THEN resetRowEditor(u) ELSE u), FALSE, Others(t))

showLimitedPreview(t) ==
  /\ t.await = "preview" /\ t.reply.is = "ok"
  /\ Render(Ready(resetRowEditor([ui EXCEPT !.preview = [db |-> t.db, table |-> t.target,
                                                         offset |-> 0, rows |-> t.reply.rows]])),
            FALSE, Others(t))

(* Mutant: no refresh after a statement.                                   *)
statementWithoutRefresh(t) ==
  /\ t.await = "statement" /\ t.reply.is = "ok"
  /\ Render(Finish(t, ui), FALSE, Others(t))

(* The next batch of a file is sent when the one before it is answered.    *)
afterStatement(t) ==
  /\ t.await = "statement" /\ t.reply.is = "ok"
  /\ Goes(t, ui, IF t.rest # <<>>
                  THEN [Await(t, "statement") EXCEPT !.statement = Head(t.rest),
                                                     !.rest = Tail(t.rest)]
                  ELSE Load(t, IF t.op = "createTable" THEN t.statement.table ELSE t.table))

afterFile(t) ==
  /\ t.await = "file" /\ t.reply.is = "ok"
  /\ Render(Ready([ui EXCEPT !.snapshot = t.image]), FALSE, Others(t))

(* Mutant: the first snapshot of a database is kept.                       *)
firstSnapshotKept(t) ==
  /\ t.reply.is = "ok"
  /\ \/ /\ t.await \in {"create", "cancelArchive", "finalizeRestore"}
        /\ Goes(t, Loading(ui), Await(t, "list"))
     \/ /\ t.await = "delete"
        /\ Goes(t, Loading(clearTableState(ui)), Await(t, "list"))
     \/ /\ t.await = "beginArchive"
        /\ Goes(t, ui, Await(t, "finalizeArchive"))
     \/ /\ t.await = "finalizeArchive"
        /\ Goes(t, Loading(clearTableState(
                     IF ui.snapshot.db = t.db THEN ui ELSE [ui EXCEPT !.snapshot = t.image])),
                Await(t, "list"))
     \/ /\ t.await = "beginRestore"
        /\ Goes(t, ui, Await(t, "finalizeRestore"))

afterLifecycleCall(t) ==
  /\ t.reply.is = "ok"
  /\ \/ /\ t.await \in {"create", "cancelArchive", "finalizeRestore"}
        /\ Goes(t, Loading(ui), Await(t, "list"))
     \/ /\ t.await = "delete"
        /\ Goes(t, Loading(clearTableState(ui)), Await(t, "list"))
     \/ /\ t.await = "beginArchive"
        /\ Goes(t, ui, Await(t, "finalizeArchive"))
     \/ /\ t.await = "finalizeArchive"
        /\ Goes(t, Loading(clearTableState([ui EXCEPT !.snapshot = t.image])), Await(t, "list"))
     \/ /\ t.await = "beginRestore"
        /\ Goes(t, ui, Await(t, "finalizeRestore"))

ResumeOf(op) ==
          /\ \E t \in {x \in BagToSet(tasks) : x.op = op} :
               \/ Catch(t) \/ refreshDatabases(t) \/ refreshDatabaseAccount(t)
               \/ refreshDatabaseDetails(t) \/ loadTable(t) \/ showLimitedPreview(t)
               \/ afterStatement(t) \/ afterFile(t) \/ afterLifecycleCall(t)
          /\ UNCHANGED <<store, edit, session, budget>>
-----------------------------------------------------------------------------
(* What the user does: the controls of the console and the handlers they   *)
(* start.  The lists of databases and tables accept a click at any time.   *)

May(name) == /\ budget > 0
             /\ name \in session.may
             /\ session.patient => tasks = EmptyBag

Acts(name) == /\ May(name)
              /\ budget' = budget - 1
              /\ UNCHANGED <<store, session>>

Start(t) == Render(Loading(ui), FALSE, BagAdd(tasks, t))
Idle == ui.loadState # "loading"

Sync == /\ Acts("refresh") /\ Idle
        /\ Start(Task(ui, "refresh", "list"))
        /\ UNCHANGED edit

selectDatabase(d) ==
  /\ Acts("select") /\ ui.principal /\ ui.databases[d] # "none"
  /\ Idle \/ d # ui.databaseId
  /\ Render(clearTableState([ui EXCEPT !.databaseId = d]), FALSE, tasks)
  /\ UNCHANGED edit

createDatabase == /\ Acts("create") /\ Idle /\ ui.principal
                  /\ Start(Task(ui, "create", "create"))
                  /\ UNCHANGED edit

deleteSelectedDatabase == /\ Acts("delete") /\ canRun /\ selectedDatabase \in {"hot", "archived"}
                          /\ Start(Task(ui, "delete", "delete"))
                          /\ UNCHANGED edit

archiveDatabase == /\ Acts("archive") /\ canRun /\ selectedDatabase = "hot"
                   /\ Start(Task(ui, "archive", "beginArchive"))
                   /\ UNCHANGED edit

cancelArchive == /\ Acts("cancelArchive") /\ canRun /\ selectedDatabase = "archiving"
                 /\ Start(Task(ui, "cancelArchive", "cancelArchive"))
                 /\ UNCHANGED edit

restoreArchive == /\ Acts("restore") /\ canRestore
                  /\ Start([Task(ui, "restore", "beginRestore") EXCEPT !.image = ui.snapshot])
                  /\ UNCHANGED edit

selectTable(n) == /\ Acts("selectTable") /\ ui.databaseId # NoDb /\ n \in ui.tables
                  /\ Start([Task(ui, "selectTable", "table") EXCEPT !.target = n])
                  /\ UNCHANGED edit

(* The buttons that open a statement on a table name it; they load nothing *)
(* themselves, but the name is a dependency of the effect.                 *)
openTableSql(n) == /\ Acts("openSql") /\ n \in (ui.tables \union {ui.description.table}) \ {NoTable}
                   /\ Render([ui EXCEPT !.tableName = n], FALSE, tasks)
                   /\ UNCHANGED edit

(* The row refresh and the two page buttons of the table.                  *)
loadTablePage(offset) ==
  /\ Acts("page") /\ Idle /\ ui.preview # NoPreview /\ ui.tableName # NoTable /\ ui.databaseId # NoDb
  /\ \/ offset = ui.preview.offset
     \/ offset = ui.preview.offset + ui.limit /\ Len(ui.preview.rows) = ui.limit
     \/ ui.preview.offset > 0 /\ offset = Max({0, ui.preview.offset - ui.limit})
  /\ Start([Task(ui, "page", "table") EXCEPT !.offset = offset])
  /\ UNCHANGED edit

changeTableLimit(limit) ==
  LET u == [ui EXCEPT !.limit = limit]
  IN /\ Acts("limit") /\ Idle /\ ui.preview # NoPreview /\ limit # ui.limit
     /\ IF ui.databaseId = NoDb \/ ui.tableName = NoTable
        THEN Render(u, FALSE, tasks)
        ELSE Render(Loading(u), FALSE, BagAdd(tasks, Task(u, "limit", "preview")))
     /\ UNCHANGED edit

(* A click on a row copies it to the row editor.                           *)
selectPreviewRow(i) ==
  /\ May("edit")
  /\ i \in DOMAIN ui.preview.rows
  /\ Render([ui EXCEPT !.selected = i,
                       !.draft = [db |-> ui.preview.db, table |-> ui.preview.table,
                                  key |-> ui.preview.rows[i]]], FALSE, tasks)
  /\ UNCHANGED <<store, edit, session, budget>>

startNewRow ==
  /\ May("edit")
  /\ canEditRows
  /\ Render([ui EXCEPT !.selected = 0, !.draft = NoRow], FALSE, tasks)
  /\ UNCHANGED <<store, edit, session, budget>>

(* The statement takes its database from the selection, its table from the *)
(* description and its row from the preview: three separate states.        *)
mutateRow(mutation) ==
  LET key == IF mutation = "insert" THEN 0 ELSE selectedRow
      statement == [kind |-> mutation, table |-> ui.description.table, key |-> key]
  IN /\ Acts("edit") /\ canEditRows /\ ui.preview # NoPreview
     /\ mutation # "insert" => canMutateSelectedRow
     /\ Start([Task(ui, "row", "statement") EXCEPT !.statement = statement])
     /\ edit' = [kind |-> mutation, draft |-> ui.draft,
                 row |-> [db |-> ui.databaseId, table |-> ui.description.table, key |-> key]]

createTable(n) ==
  /\ Acts("createTable") /\ canWriteDatabase
  /\ Start([Task(ui, "createTable", "statement") EXCEPT
               !.statement = [kind |-> "create", table |-> n, key |-> 0]])
  /\ UNCHANGED edit

(* A query, or a script that creates a table, from the editor.             *)
runSql(kind, n) ==
  /\ Acts("sql") /\ canRun
  /\ kind = "query" => n = 1
  /\ Start([Task(ui, "sql", "statement") EXCEPT
               !.statement = [kind |-> kind, table |-> n, key |-> 0]])
  /\ UNCHANGED edit

(* A file is sent in batches, one request each, with an await between.     *)
loadSqlDumpFile(batches) ==
  /\ Acts("loadDump") /\ canWriteDatabase
  /\ Start([Task(ui, "loadDump", "statement") EXCEPT !.statement = Head(batches),
                                                      !.rest = Tail(batches)])
  /\ UNCHANGED edit

(* Any image becomes a snapshot of the selected database.                  *)
loadArchiveFile(file) ==
  /\ Acts("loadArchive") /\ canRun
  /\ Start([Task(ui, "loadArchive", "file") EXCEPT
               !.image = [db |-> ui.databaseId, tables |-> file.tables, rows |-> file.rows]])
  /\ UNCHANGED edit

User == \/ Sync \/ createDatabase \/ deleteSelectedDatabase \/ archiveDatabase \/ cancelArchive
        \/ restoreArchive \/ startNewRow
        \/ \E d \in Dbs : selectDatabase(d)
        \/ \E n \in Names : selectTable(n) \/ openTableSql(n) \/ createTable(n)
        \/ \E n \in Names, kind \in {"query", "create"} : runSql(kind, n)
        \/ \E offset \in 0..MaxKey : loadTablePage(offset)
        \/ \E limit \in Limits : changeTableLimit(limit)
        \/ \E i \in 1..MaxKey : selectPreviewRow(i)
        \/ \E mutation \in {"insert", "update", "delete"} : mutateRow(mutation)
        \/ \E batches \in DumpFiles : loadSqlDumpFile(batches)
        \/ \E file \in ArchiveFiles : loadArchiveFile(file)

Handlers == {"effect", "refresh", "create", "delete", "archive", "cancelArchive", "restore",
             "selectTable", "page", "limit", "row", "createTable", "sql", "loadDump",
             "loadArchive"}

NoEdit == [kind |-> "none", draft |-> NoRow, row |-> NoRow]

(* The console opens on a signed-in user and lists the databases.          *)
Init ==
  /\ store \in InitialStores
  /\ ui = [principal |-> FALSE, databases |-> [d \in Dbs \union {NoDb} |-> "none"],
           databaseId |-> NoDb, tables |-> {}, tableName |-> NoTable, limit |-> Min(Limits),
           description |-> NoDescription, preview |-> NoPreview, selected |-> 0, draft |-> NoRow,
           snapshot |-> NoImage, loadState |-> "loading"]
  /\ tasks = SetToBag({Task(ui, "refresh", "list")})
  /\ edit = NoEdit
  /\ session \in Sessions
  /\ budget = session.ops

Next == User \/ \E op \in Handlers : ServeOf(op) \/ ResumeOf(op)

Spec == Init /\ [][Next]_vars

(* Every request in flight is answered and its handler resumed, in no      *)
(* particular order; the user owes nothing.                                *)
FairSpec == Spec /\ \A op \in Handlers : WF_vars(ServeOf(op)) /\ WF_vars(ResumeOf(op))
-----------------------------------------------------------------------------
Pages == [db : Dbs \union {NoDb}, table : 0..MaxTable, offset : 0..MaxKey, rows : Rows]

TypeOK ==
  /\ store \in Stores
  /\ \A d \in Dbs, n \in Names : Increasing(store[d].rows[n])
  /\ ui.databaseId \in Dbs \union {NoDb} /\ ui.loadState \in {"loading", "ready", "error"}
  /\ ui.tables \subseteq Names /\ ui.tableName \in 0..MaxTable /\ ui.limit \in Limits
  /\ ui.preview \in Pages /\ ui.selected \in 0..MaxKey
  /\ \A t \in BagToSet(tasks) : t.op \in Handlers /\ t.db \in Dbs \union {NoDb}
  /\ budget \in 0..session.ops

Quiet == tasks = EmptyBag
Settled == Quiet /\ session.patient
Reliable == ~session.failing /\ session.loses = {}

(* A user who waits for the console to settle before each operation then   *)
(* sees a page of the selected database, also when requests fail, before   *)
(* or after they take effect.  While a table is described, it is the one   *)
(* that is named and whose page is shown, unless the refresh for a name    *)
(* that a SQL button chose may fail.                                       *)
SettledShowsSelection ==
  Settled /\ ui.preview # NoPreview =>
    /\ ui.preview.db = ui.databaseId
    /\ ui.description # NoDescription =>
         /\ ui.description.db = ui.databaseId
         /\ Reliable \/ "openSql" \notin session.may =>
              ui.description.table = ui.tableName /\ ui.preview.table = ui.tableName

(* Unless a request failed he sees the tables the database has, and a page *)
(* of one of them as it is stored.  Not so after a dump file: when a later *)
(* batch of it is refused, nothing shows what the earlier ones did.        *)
SettledShowsStore ==
  Settled /\ Reliable /\ "loadDump" \notin session.may =>
    /\ selectedDatabase # "hot" => ui.tables = {} /\ ui.preview = NoPreview
    /\ selectedDatabase = "hot" =>
         /\ ui.tables = store[ui.databaseId].tables
         /\ ui.tables # {} => /\ ui.preview # NoPreview /\ ui.description # NoDescription
                              /\ ui.preview.rows = Page(ui.databaseId, ui.tableName,
                                                        ui.preview.offset, ui.limit)

(* A user who does not wait, but only looks and adds, may be left with the *)
(* page of a database he left: only under the name of a table that the     *)
(* selected one has too.                                                   *)
Browsing == Reliable /\ session.may \subseteq
              {"refresh", "select", "selectTable", "openSql", "page", "edit", "createTable",
               "sql", "loadDump"}

HastyShowsNamesake ==
  Quiet /\ Browsing /\ ui.preview # NoPreview =>
    /\ ui.preview.table = ui.tableName
    /\ ui.tableName \in store[ui.databaseId].tables

(* While no answer to the end of an archive is lost and no file is loaded, *)
(* the snapshot the console offers to restore an archived database from is *)
(* what the database was archived with, whatever else failed or was lost.  *)
SnapshotIsArchive ==
  LET d == ui.snapshot.db
  IN /\ Settled /\ d # NoDb /\ store[d].status = "archived"
     /\ "finalizeArchive" \notin session.loses /\ "loadArchive" \notin session.may
     => ui.snapshot = [db |-> d, tables |-> store[d].tables, rows |-> store[d].rows]

(* No handler leaves the console loading.                                  *)
LoadingEnds == ui.loadState = "loading" ~> ui.loadState # "loading"

(* The refreshes that one change of state sets off come to an end.         *)
PatientSettles == session.patient => <>[]Quiet

(* Loading ends and refreshes do, whatever is answered and in what order.  *)
ComesToRest == LoadingEnds /\ PatientSettles

(* An update or delete is sent for the row the editor was filled from.     *)
EditsTheSelectedRow ==
  edit.kind \in {"update", "delete"} => edit.row = edit.draft
=============================================================================
