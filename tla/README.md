# Formal models of ICPDB

TLA+ specifications, TLC configurations and TLAPS proofs for the concurrent
parts of ICPDB, hosted SQLite on the Internet Computer: the control canister and
the database shards (Rust, under `crates/`), the TypeScript SDK and the console
(under `icpdb-console/`). The models are written from the sources; `PROJECT.json` gives for each definition
the lines it stands for, and lists the hazards the properties are aimed at.

## 1. The system

| Component | State | Operations | Correct when |
| --- | --- | --- | --- |
| Control canister, routed writes (`icpdb_canister`, `icpdb_runtime`) | `routed_operations`, the unit account and size of each database, members, tokens | `sql_execute`, `sql_batch` and their HTTP twins, `reconcile_routed_operation`, `top_up_database_balance` | one application and one charge per idempotency key, no success reported without both, every row gets out of `pending` |
| Database shard (`icpdb_database_canister`) | SQLite images, `data_plane_operations`, its own `databases` rows | `sql_*_internal`, `database_usage_internal`, archive and restore internals, slots | a request that is known is not run again |
| Lifecycle of a database (`icpdb_runtime`) | status, snapshot hash, restore chunks, mount history | begin, read, finalize, cancel archive; begin, write, finalize restore; delete | an archived snapshot is the file; a restored file is the snapshot; no mount id is used twice |
| Remote lifecycle (control and shard) | catalog status and hash, `shard_operations` | the same calls, routed | catalog and shard agree, or the journal says that they may not |
| Creation and allocation | `database_shards`, placements, mount ids, `shard_operations` | `create_database`, `create_remote_database`, provisioning, slots, registration, compensation | capacity kept, a compensation or a discarded slot never takes away what the catalog routes to, no memory shared |
| Migration local to shard | archive status, placement | `migrate_database_to_shard` | the file switched to holds the acknowledged writes; a migration that fails reopens the database |
| Deposits | `PENDING_DEPOSITS`, `payments`, the account's balance, the fee last heard | `deposit_with_approval` | a block of the ledger is credited once, unless its answer is lost; no guard leaks |
| Access | `database_members`, `database_tokens` | grant, revoke, create, authenticate and revoke tokens | a database keeps an owner; who makes a token holds the database it is for |
| Maintenance | cycles, shard list, usage events | `maintain_database_shards`, purging | slots counted as they are |
| TypeScript SDK | cached database promise, service env file | lazy connection and creation, `close`, `delete`, scripts, `migrate`, `waitForRoutedOperation` | one connection at a time per client, the env file names a database that is set up, no database without an owner, batches and migrations once and in order |
| Console | React state: selection, tables, preview, row editor, snapshot, load state | handlers and refresh effects that overlap | at rest it shows what is stored; the snapshot it offers is what the database was archived with; an edit goes to the row that was selected |
| SQL, VFS facade, wire types, command line tools, scripts | none shared | | sequential |

**Interaction.** A user calls the control canister. It checks the caller
against its own index database and, for a remote database, calls the shard that
holds it. Shards accept calls from the control canister only. All calls between
canisters are *bounded-wait*: the caller gets an answer or, after a while, an
error that says nothing about what the callee did or will still do. A message
runs atomically up to its next `await`; between two awaits any other message
may run, so what was read before an await may have changed after it. Requests
from one canister to another arrive in the order they were sent, answers in no
particular order.

**What is hard.** Duplicate and retried writes; answers that are lost after the
shard acted; requests that run after their caller gave up; roles revoked and
units spent while a call is suspended; two actors moving one status; sagas over
two canisters whose second half is refused; bounded mount ids and capacity. On the client's side: a promise
shared by callers while another call drops it, two processes that rewrite one
file, answers that arrive after the user has gone on to something else. The
list with lines is `hazards` in `PROJECT.json`.

## 2. Modules

| Module | What it models |
| --- | --- |
| `WriteLedger` | the abstract promise of a routed write: apply at most once, charge at most once and afterwards, acknowledge only what is charged |
| `RoutedWrites` | the write protocol between control and shard, and reconciliation; implements `WriteLedger` |
| `MCRoutedWrites` | its small instance |
| `RoutedWrites_proofs` | the TLAPS theorems about it |
| `DatabaseLifecycle` | archive, restore and delete of one database as `icpdb_runtime` runs them in one canister |
| `RemoteLifecycle` | the same operations as sagas of the control canister over a shard, which is an `INSTANCE` of `DatabaseLifecycle` |
| `MCRemoteLifecycle` | its small instance |
| `RemoteLifecycle_proofs` | the TLAPS theorems about it |
| `ShardPlacement` | creation, provisioning and migration: sagas of the control canister over several shards with slots, a mount history and memories of their own |
| `MCShardPlacement` | its small instances |
| `ShardPlacement_proofs` | the TLAPS theorems about capacity, routing and memories |
| `ShardJournal_proofs` | and, on top of them, about the journal and about the writes of migrated databases |
| `ServiceSession` | clients of the SDK, each a process, that share a service env file |
| `MCServiceSession` | its small instances |
| `ServiceSession_proofs` | the TLAPS theorems about it |
| `Workbench` | the console: React state, asynchronous handlers and refresh effects, and the canister they talk to |
| `MCWorkbench` | its small instances |
| `Workbench_proofs` | the TLAPS theorems about it |
| `Accounts` | members, API tokens and deposits of the control canister, with the ICP ledger it calls |
| `MCAccounts` | its small instance |
| `Accounts_proofs` | the TLAPS theorems about it |
| `SequenceFacts` | lemmas about operators of the community modules that the proofs share: least elements, sequences, sums over finite sets |

The modules meet where the code does: `RemoteLifecycle` composes with
`DatabaseLifecycle`; `ShardPlacement` takes deleting and restoring a remote
database as one step, whose awaits `RemoteLifecycle` has; `ServiceSession` and
`Workbench` see the canisters as an atomic service, with answers that get lost,
which is what `RoutedWrites` shows of one idempotency key (`WriteLedger`);
`Accounts` decides who is an owner and raises the balance, which `RoutedWrites`
and `RemoteLifecycle` take as a role that comes and goes and as a top-up.

### RoutedWrites

One action per stretch of code between two awaits.

| Code | Actions |
| --- | --- |
| `begin_routed_write*` and the match on its status | `StartExhausted`, `StartReplay`, `StartWrite` (a refusal changes nothing and is no step) |
| `sql_execute_internal`, `sql_batch_internal` | `ShardExecute`, `ShardRefuse` |
| `database_usage_internal` | `ShardUsage` |
| the arms after the first await | `WriteAnswered`, `WriteFailed` |
| the arms after the second await | `UsageFailed`, `CompleteWrite`, `CompletionRefused` |
| `reconcile_routed_operation` | `ReconcileStart`, `ReconcileProof`, `ReconcileFailed`, `ReconcileFinish` |
| `top_up_database_balance`, member and token changes | `TopUp`, `Grant`, `Revoke` |

`status` and `body` are the journal, `balance`, `spent` and `billing` the
account, `dpBody` the shard's `data_plane_operations`, `shardSize` and
`controlSize` the image's version on either side. `phase`, `arg`, `target` and
`read` are the local variables of suspended handlers; `late` holds the requests
whose caller has given up and that may still run. `executed` and `charges` are
history variables. A call that fails while it waits may have been run, may
still run, or may never run.

Abstractions: one database, which stays remote and hot; SQL text and parameters
are a member of `Bodies`, told apart as the request hash does; sizes are
versions; usage events and timestamps are left out. A shard message either runs
or refuses: an I/O error of the shard's index file *after* the SQL has been
committed to the database's file is outside the model (it would leave a write
without proof; see the hazard at `sql_execute_internal`).

### DatabaseLifecycle and RemoteLifecycle

`DatabaseLifecycle` has one operator per runtime operation. The content of a
file is a version number that stands for its digest; the chunks of a restore
are abstracted to the file they amount to, or to `Blank` when they leave gaps
or mix several files. `mounts` counts the rows of `database_mount_history`, of
which none is ever given back.

`RemoteLifecycle` adds the control canister: the catalog (`catalog`,
`catalogSnapshot`), the owners, the calls that are suspended, the requests on
their way (`queue`, first in first out, `Nobody` where the caller has given
up), and `answers`, the calls the shard has run in that order. Where `ordered`
is true the answers arrive in that order, where it is not they may overtake
each other; `Orders` says which of the two an instance starts from. A
call is `Send`, then `ShardRuns` or `ShardRefuses`, then one of `Finished`,
`MarkRefused`, `Passed`, `CallRefused`, `CallFailed`, which follow
`finish_remote_lifecycle_operation_journal`: an error of the call is `failed`,
a catalog that may not follow is `unknown`, otherwise `applied`. The Candid
handlers and their HTTP twins have the same steps; a bearer token differs in
that its scope is not looked up again after the await (`Tokens`).

Each call has a journal row of its own, of which only the worst outcomes are
kept (`troubles`). In the code two equal calls in one millisecond share a row.
`read_database_archive_chunk` changes nothing: an owner may finalize with any
digest it may have computed from what it read. `reconcile_shard_operation`,
which relabels rows on an operator's word, is not modelled.

### ShardPlacement

| Code | Definitions |
| --- | --- |
| `select_database_shard_for_create`, `generated_remote_database_id` | operators of the same names |
| `create_database`, provisioning of a shard | `create_database`, `provision_database_shard` |
| `create_remote_database` by a controller | `create_remote_database` |
| the slot handlers of the shard | `create_database_slot`, `delete_database_slot`, `begin_database_restore`, `write_database_restore_chunk`, `finalize_database_restore`, `discard_database_slot`, run by `Serve` |
| registration and its refusal | `register_remote_database` |
| a failed creation, and its compensation | `CreateFails`, `CreateUndone` |
| `migrate_database_to_shard` | `migrate_database_to_shard`, `MigrationGoesOn`, `complete_local_database_migration`, `MigrationFails`, `cancel_local_database_migration` |
| what owners do meanwhile | `begin_database_archive`, `cancel_database_archive`, `sql_write`, `delete_database`, `restore_database` |

`catalog`, `shards` and `journal` are tables of the control canister, `slots`
and `history` tables of the shards, `memory` says whose writes a stable memory
holds; `written`, the writes a database has acknowledged, is a history
variable. `calls` are the local variables of suspended handlers. Each await is
two actions, the shard's (`Serve`, or `Refuse` for a request that is refused,
fails, or is lost) and the continuation's. With `loses`, an answer may be an
error although the request ran.

Ids are hashes of the caller, the millisecond, the shard and an attempt, so an
id *is* that tuple; two creations in one millisecond choose the same one, and
their journal rows have the same name (`Row`). Names that a controller chooses
are never such a hash (`NamesAreChosen`).

Abstractions: the archive of a migration is one chunk, whose content is the
number of writes it holds, told apart from the digest taken when the migration
began; requests of one canister to one other are delivered in order; a failed
provisioning leaves nothing behind that the catalog knows. A wasm build never
creates a database locally, so `Locals` are there from before the first shard.

### ServiceSession

| Code | Definitions |
| --- | --- |
| the cached promise `database()` and its catch | `database`, `Connect`, `Forget` |
| reading the env, creating, setting up | `LoadEnv`, `CreateDatabase`, `applyCreateSetup` |
| writing the id back: read, truncate, fill | `persistReads`, `persistTruncates`, `persistFills` |
| the cleanup of a failed creation | `deleteCreated` |
| scripts in batches | `executeStatementBatches` |
| `migrate` | `ensureMigrationTable`, `readVersions`, `migrate` |
| `delete`, `close`, `create-db` | `deleteDatabase`, `closeCachedDatabase`, `BeginCreateDb`, `createDatabaseFromCreateDbOptions` |

`file` is the env file, `remote` the databases at the canister, `cell` the
fields of each client, `attempts` the promises of connections, `calls` the calls
of its user. A client whose options name no file remembers its database in
memory (`source`). A request and its answer are one step, unless the answer is
lost: then the database may have changed although the call fails. A crash
empties a process and keeps the file. `budget` bounds what users do and
crashes.

### Workbench

`store` is the canister, `ui` the React state of the console, `tasks` the bag of
handlers and effects that wait for an answer, each with the closure of the
render it was started in, `edit` the last row edit sent. The user's operations
(`Sync`, `selectDatabase`, `createDatabase`, ... `mutateRow`, `runSql`) have the
guards of the controls; `Read`, `WriteStatement`, `ChangeStatus`,
`FinishRestore`, `Create`, `ReadFile` and `Fail` answer a request; `Catch`,
`refreshDatabases`, `refreshDatabaseAccount`, `refreshDatabaseDetails`,
`loadTable`, `showLimitedPreview`, `afterStatement`, `afterFile` and
`afterLifecycleCall` are what follows an await. Every step that writes the state
ends in a render (`Render`), which starts the refresh effect when one of its
dependencies changed, with the values of that render. Requests are answered, and
handlers resumed, in any order; nothing is cancelled.

A request can go wrong in three ways. The canister refuses it (`Refused`, where the
guards of the code do); it fails without effect for a reason of its own (`Fail`,
in sessions that are `failing`); or it is an update that took effect and whose
answer is lost (`Heard`, for the updates in the session's `loses`). The handler
hears the same in each case.

Three groups of controls are easy to overlook. The buttons that open a statement on a
table (`openTableSql`) set the table name and load nothing; the name is a
dependency of the effect. A dump file (`loadSqlDumpFile`) is a sequence of
batches, each a request with an await of its own: a later one that is refused
leaves the earlier ones applied and ends the handler without a refresh. An archive
file (`loadArchiveFile`) makes any image a snapshot of the selected database.

A row is its primary key and a table its place in the listing; the contents of
cells, billing, members, tokens and messages are left out. A batch is one statement
that creates a table or adds a row.

### Accounts

| Code | Definitions |
| --- | --- |
| `require_role`; `authenticate_database_token` with `require_owner_token_for_database` | `IsOwner`; `OwnerToken`; together `MayManage` |
| `grant_database_access*`, `revoke_database_access*`, `reject_last_owner_removal` | actions of the same names, `LastOwner` |
| `create_database_token` and its HTTP twin, before and after `raw_rand` | `create_database_token`; `TokenCreated` with `MayStillCreate`, `TokenRefused` |
| `revoke_database_token*` | `revoke_database_token` |
| `DepositGuard::new` and its `drop` | the test of `pendingDeposits` in `deposit_with_approval`; `Returns` |
| `deposit_quote`, `credited_units_for_deposit` | `IsOwner` and `Creditable` in `deposit_with_approval`; `CreditedUnits` |
| the arms of `deposit_with_approval` after the await | `record_approved_deposit`, `NotRecorded`; `update_icp_transfer_fee_from_bad_fee`; `deposit_result_for_existing_payment`; `TransferRefused`; `GiveUp` |
| the ICP ledger (external) | `icrc2_transfer_from`, `FeeChanges` |
| archive, restore, delete; a write that costs more than is left | `LifecycleMoves`, `ensure_database_has_units`, as far as they touch this state |

`members` and `tokens` are tables of the index database; `payments`, `balance`,
`billing` and `transferFee` its billing tables, of which `balance` holds only what
deposits add (spending is in `RoutedWrites`). `stage`, `arg` and `tokenCall` are
the local variables of suspended handlers, `outcome` what they returned. `asked`,
`reply` and `ledger` are the requests on their way to the ledger, its answers and
its blocks. Members and tokens are managed by a principal or with a token; a
token is named by the call that made it, and a call context serves one call.

The ledger is modelled from how the code uses it: it moves tokens once for
requests that are equal in payer, amount, fee and time, and tells a second one
the block of the first. The transfer carries no memo, so a deposit for another
database can be such a second one. It compares the fee first. It may refuse for
any other reason, and it may act on a request after the bounded-wait call has
given up (`GiveUp`).

Abstractions: the anonymous principal, which is never granted anything, is not
one of `People`; names of tokens, when one was last used, and usage events are
left out; an upgrade of the canister, which drops the guards with its heap, is
not a step. A call that is refused without changing anything takes none.

## 3. Runs

| Run | Instance | What it shows |
| --- | --- | --- |
| `routed_writes` | 2 calls, 1 reconciler, 2 keys, a cheap and a dear request, 1 principal, 1 token, balance 2, 1 top-up | types, units, application, charge, acknowledgement and reconciliation under all races of two calls of one key or two, refinement of `WriteLedger`, and liveness |
| `remote_lifecycle` | 2 calls at a time without limit on their number, 1 principal, no token, 1 SQL write, 3 mounts, 2 requests on their way, answers in order and not | snapshots agree; the catalog reopens a database only while the shard has it hot; with answers in order catalog and shard part only with a journal row that is not `applied` |
| `shard_placement` | 3 calls, 1 local database, 1 chosen name, 2 shards with room for one, 3 memories each, 1 write, 2 ids per millisecond and shard; 8 kinds of session | placements fit, what is routed is served, memories are not shared, no acknowledged write is left behind, what diverges is journaled, no failed migration leaves a database archiving |
| `service_session` | 2 processes, 3 databases, a script of 2 batches, 2 migrations; 7 kinds of session | one connection under way per client, the env file names a database that is ready, nothing is left behind, scripts and migrations apply once and in order, every call ends |
| `workbench` | 2 databases, 2 table names, up to 3 rows, pages of 1 and 2, 1 archive file, 3 dump files; 8 kinds of session of up to 4 operations, with failing requests and lost answers | at rest the console shows page and tables of the selected database as they are stored, the snapshot it offers is the archive, and it comes to rest |
| `accounts` | 2 calls, each a deposit or a new token; amounts 1, 5 and 9, 2 databases, 2 principals, 2 fees, 2 times, 2 changes | payments are the ledger's blocks less those whose answer was lost or whose payer was revoked, success means recorded, units add up and are paid for, guards are those of waiting deposits, databases keep an owner, who makes a token holds its database |
| `routed_writes_lost_answer` | 3 calls, 2 reconcilers, 1 key | **violated**: `FailedWasNotApplied` |
| `routed_writes_duplicate` | 3 calls, 2 reconcilers, 1 key | **violated**: `AcknowledgedStaysApplied` |
| `remote_lifecycle_lost_answer` | as `remote_lifecycle`, answers in order | **violated**: `RoutingFollowsShard` |
| `remote_lifecycle_stale_delete` | as `remote_lifecycle`, answers may overtake | **violated**: `DivergenceIsJournaled` |
| `shard_placement_recycled` | as `shard_placement` | **violated**: `MemoriesAreNotRecycled` |
| `workbench_row_edit` | as `workbench`, a user who waits and opens no SQL on a table | **violated**: `EditsTheSelectedRow` |

Five of the violations are places where the code does not do what a document
says, the last is a defect of the console; `findings` in `PROJECT.json` quotes
each one. In short:

* a write that ran and whose answer was lost is `failed` for good: it can
  neither be reconciled nor retried, and is never charged;
* a late duplicate turns the `applied` row of an acknowledged write into
  `failed`;
* a lost answer of `begin_database_archive_internal` leaves the catalog `hot`
  over a shard that archives, and no further call is accepted by both;
* the answer of a delete that arrives after the database was deleted, restored
  and reopened marks the catalog `deleted` and its own row `applied`. This needs
  answers that overtake each other; when they do not, `JournaledInOrder` holds;
* a migration that is refused at its end discards its slot with the rows of the
  mount history, and a later creation on that shard is given the memory that
  still holds the migrated image;
* a row selected on page 2 stays selected, by its index, when the same table is
  loaded anew: page 1 is shown, and an update or delete goes to a row of page 1.
  (The buttons that open a statement on a table are another way to the same: the
  effect that loads the table has its name in its closure, and so does not reset the
  editor. The run leaves them out.)

**Premises.** Some properties hold only under a premise, which is part of the
property. What happens without it:

* `NoTwins` (`RoutedIsServed`, `WritesSurvive`, `DivergenceIsJournaled`): two
  equal creations in one millisecond choose the same id, and the compensation of
  the one that fails deletes the slot of the one that succeeded;
* `MigratedOnce` (`RoutedIsServed`, `WritesSurvive`): when the owner cancels the
  archive of a migration and the database is migrated again, the first migration
  still discards the slot that the second one filled;
* `NotArchivedAnew` (`WritesSurvive`): when the owner cancels the archive, writes,
  and archives again before the migration completes, the shard is given the copy
  from before the write;
* `Alone` (`CreatesOnce`): two processes that find the env file without a
  database create one each, so does a client that is closed while it connects,
  and `create-db` with setup options creates one of its own;
* `~May("close")` (`MigrationsInOrder`): a client in memory mode that is closed
  while it connects, connects anew, and is closed again between two requests of a
  migration, goes on with the other database, whose versions it has not read;
  two migrations and two closings are enough for it to apply the second alone;
* `session.faults \subseteq {"setup", "write"}` (`NothingIsLeft`): a process that
  dies, or an answer of a creation that is lost, leaves a database nobody knows;
* `Settled` (`SettledShowsSelection`, `SettledShowsStore`): a user who does not
  wait may end with the rows of a database he left, and two refreshes can set
  each other off for ever;
* `Reliable \/ "openSql" \notin session.may` (name in `SettledShowsSelection`): a
  button that opens a statement names its table at once; when the refresh that
  this starts fails, the name stays over the page and description of the table
  shown before;
* `Reliable` (`SettledShowsStore`): a refresh that fails, or an update that took
  effect and whose answer is lost, leaves the console as it was before it;
* `"loadDump" \notin session.may` (`SettledShowsStore`): when the canister refuses a
  later batch of a dump file, nothing shows the tables of the earlier ones;
* `"finalizeArchive" \notin session.loses` (`SnapshotIsArchive`): when that answer is
  lost the database is archived, its image is dropped, and the snapshot of an
  earlier archive stays on offer;
* `"loadArchive" \notin session.may` (`SnapshotIsArchive`): any file becomes a snapshot
  of the selected database, and a restore takes any file;
* `Browsing` (`HastyShowsNamesake`, which bounds how wrong the console can then
  be): a user in haste who only looks and adds, and whose requests neither fail for
  reasons of their own nor lose their answers.
  One who deletes a database while the effect is loading its table is left with
  its rows and no database selected; a refresh that fails after a change of
  database leaves the page of a table that the selected one may lack;
* `ui.description # NoDescription` (second part of `SettledShowsSelection`): when
  requests fail, a page that was being shortened (`changeTableLimit`) can arrive
  after its table was taken away, and is shown without name or description;
* `~Breaks("write")` (`FileNamesReady`): a write that fails, or a process that
  dies, between truncating and filling the env file loses the identity in it.

Each is listed under `hazards` at its line.

**Bounds.** Two calls that both use one key give a holder of a success and a
retry that is refused or answered as a replay; one reconciler races with either;
two keys are needed for an overdraft, since one key is charged at most once.
That three calls or two reconcilers do no more harm is not left to the bound:
every invariant of this run is proved for any number. Balance 2
with costs 1 and 2 makes one write exhaust the units of the other, and one
top-up reactivates billing. The two runs that expect a violation have a third
call, a replay. For the lifecycle one write, which is one more
version of the file, separates a stale snapshot from the newest, three mounts
allow two restores and then exhaust, and two calls at a time, each taken again
after it returned, give every pairwise race, with requests of callers that gave
up in addition. A call with a
token moves shard and catalog as the call of an owner who has his role whenever a
step of it asks for it, and roles come and go at any time; so `remote_lifecycle`
does without tokens. Its two runs that expect a violation, and the proofs, have
them.

For placement, a shard with room for one is at its limit after one creation, so
that two calls race for the last place and the third needs a new shard; two ids
per millisecond let one be taken; three memories suffice for a creation, a
deletion and another creation. The sessions (`MCSessions`) divide what would be
too large as one instance: creations with lost answers and owners, creations
that provision, twins of one millisecond, migrations against creations, against
a cancelling owner, against an owner who archives, and two migrations of one
database. For the SDK, two processes are what a race for one file needs, the
third database is the one that must not exist, two batches and two migrations
have an order. For the console, two databases with a table name in common and
one that differs, and three rows in pages of one and two, give stale answers of
every kind. `Exploring` has every control but the files, `Filing` has those; sessions
with failing requests (`Failing`, `Cancelling`) or lost answers (`Losing`) are
shorter or have fewer controls, and `Archiving` is one operation longer because
archiving twice with a change between is what an old snapshot needs. `Hasty` and
`HastySql` do not wait. Of the three dump files one is a single batch, one has two
of which none is refused that the table is new to, and one may have its second
batch refused after its first took effect. For `Accounts`, two deposits that are equal but for their database
are what a duplicate needs, two times and two fees what tells them apart; with two
principals and two changes one loses the role while he waits and gets it back,
or is revoked by a token. The rates are scaled: a unit costs two e8s, which is also
the least deposit, and the largest number is 8, so that amount 1 is too little,
5 is rounded down and 9 overflows. `MaxVersion`, `MaxMounts`, `MaxQueue`, `MaxTopUps`, `MaxShards`,
`Mounts`, `MaxAttempt`, `MaxTime`, `MaxChanges`, `MaxDb`, `MaxTable`, `MaxKey` and the numbers in
`Sessions` are the bounds; `MaxMounts` and `MaxAttempt` are constants of the
code, the others cut off behaviour. Calls and reconcilers are interchangeable,
hence `SYMMETRY`, and so are the databases and principals of `Accounts`; the runs
with liveness use none.

**Mutants.** The operators under a comment that begins with `Mutant` are used by
no action: each is a definition with a plausible mistake in it (a dropped
guard, a forgotten reset, a stale closure, a retry under a new key).
`mutants` in `PROJECT.json` names the property that fails when the mistake is
put in the definition's place, for every property of the passing runs.

**Deadlock** is checked for `RoutedWrites` and `RemoteLifecycle`, where there is
always a call to start, a member to change, or an operation to retry. In the
other four the number of calls and operations is bounded, and the system rests
when they are used up; that it does rest with nothing hanging is `CallsEnd` and
`ComesToRest`. (`Accounts` states no fairness: what it awaits is a bounded-wait
call, which can always give up.)

**Fairness.** In `RoutedWrites` it is assumed only of the control canister's own
callbacks: the platform answers each bounded-wait call, if only with a timeout,
and then runs the callback. Nothing is assumed of shards, clients or
controllers. `WritesEnd` needs no more. In
`ServiceSession` the event loop of each process resumes what it awaits, and
requests and file operations end with an answer or an error. In `Workbench` the
requests of each kind of handler are answered and the handler is resumed; the
order among them is free. Users owe nothing anywhere.

## 4. Proofs

`RoutedWrites_proofs` proves, for any sets of calls, reconcilers, keys,
requests, principals and tokens, any positive costs and any balance
(`CostAssumption`, `ContextAssumption`, `BalanceAssumption` of `RoutedWrites`):

* `TypeCorrectness`, `AtMostOnceApplied`, `AtMostOnceCharged`,
  `AcknowledgedMeansApplied`, `UnknownCanBeReconciled`: the invariants of the
  runs, from one inductive invariant;
* `UnitsAreKept`: `NoUnitsLost`, by an argument of its own on top of it;
* `Refinement`: `Spec => ImplementsLedger`, each step is one step of
  `WriteLedger` or changes nothing the ledger sees;
* `WritesEndAccounted`: when no call of a key is on its way, its write was
  neither applied nor charged, or both, or its row is `unknown` and can be
  reconciled, or it is *lost*: applied, not charged, and called `failed`;
* `LostForGood`: a lost write stays lost, for every step;
* `AppliedLasts`: a row that is `applied` stays so from the moment no other call
  of its key waits for the shard, for every step.

**The inductive invariant** `IInv`. That a key is charged once does not follow
from what the properties say. The code has no lock: what prevents a second
charge is that the shard runs a key once, so at most one call ever *holds* a
success (`HoldersOK`), and that while a call holds it the row cannot be
`unknown`, so no reconciliation starts to charge. A row becomes `unknown` only
when the holder gives up its success without charging, and from then on no call
of the key can hold one (`JournalOK`). `RowsOK` ties each admitted call to a row
of its own request, `ShardOK` the proof on the shard to that row, `PhasesOK`
says that a request given up by its caller belongs to a call that failed. Each
action has one lemma that it preserves `IInv`, with one step per conjunct.

The last three say how far the two findings of this component reach. The runs
`routed_writes_lost_answer` and `routed_writes_duplicate` show a failed row of an
applied write and an acknowledged row that turns `failed`; the theorems say that
the first is never repaired (no reconciliation starts on a failed row, no retry
gets a success from the shard), that it is the only way in which image and
account come apart for good, and that the second needs a duplicate that was
already on its way when the first completed. `WritesEndAccounted` needs one more
invariant, `PendingHasCall`: a row is `pending` only while a call of it waits.

`ShardPlacement_proofs` proves, for any number of shards, capacity, memories and
writes, any finite set of calls and any kinds of session (`Bounds`,
`FiniteCalls`, `NamesAreChosen` of `ShardPlacement`):

* `TypeCorrectness`, `MemoriesStayDistinct`: `TypeOK` and `MemoriesAreDistinct`;
* `NoShardIsOverfilled`: `PlacementsFit`, for every step;
* `RoutingIsServed`: `RoutedIsServed`;
* `MigrationsReopen`: `NotLeftArchiving`.

**The inductive invariants** are two. `Base` is types, and that each memory in a
shard's history was given to one database and that a live slot's memory is in
the history of its own database (`MemoriesOK`): discarding a slot takes rows out
of the history, so that distinctness alone is not inductive. `SagaOK` is what
keeps a compensation from hitting a placed database, under `Apart`
(`NoTwins` and `MigratedOnce`): two suspended calls have different milliseconds,
so an id is generated for one of them (`ClockOK`, `CallsOK`); a migration that
has not ended is the only one of its database, which is local (`MigrationsOK`,
`LocalsOK`); the slot that a call with a good answer may still register is hot
(`SlotsOK`); and a placed database is hot at its shard (`RoutedOK`). `MigrationsReopen` rests on one more, `ArchivedByCall`: unless
owners archive, an archiving database is that of a migration that has not ended.

`ShardJournal_proofs` proves on top of it, from the same assumptions:

* `DivergenceShows`: `DivergenceIsJournaled`;
* `WritesMoveAlong`: `WritesSurvive`.

For the journal (first part, invariant `Accounts`), a database of a shard is *disturbed* when a call on
it is bound to end as `unknown`, or one has; that is never undone, because no
call writes another's row (`RowsOK`, from calls being a millisecond apart). As
long as it is not disturbed its slot is *accounted for*: one call holds it, or
the catalog places it there and agrees with the slot about its being hot
(`AccountsOK`). For the writes (second part, `Writings`), a migration whose
database is still archiving has hashed all that was written to it, and what it
has restored is in the memory of its slot (`CopiesOK`); then the memory of a
routed slot holds the writes (`RoutedWritesOK`), because a memory belongs to one
live slot (`MemoriesOK`).

`RemoteLifecycle_proofs` proves, for any calls, owners, tokens and length of the
queue, with answers in order or not (`Bounds` of `RemoteLifecycle`):

* `TypeCorrectness`: `TypeOK`;
* `SnapshotAgreement`: `SnapshotsAgree`;
* `JournaledDivergence`: `JournaledInOrder`;
* `OpeningIsSafe`: `OpensHotShard`, for every step;
* `CatalogFollows`: the catalog is where the shard is, or was before one more
  operation, or is `deleted`;
* `StrandedForGood`: where the catalog admits only what the shard refuses
  (*stranded*), neither status ever changes again, for every step;
* `DifferenceStrands`: when all calls have returned, a catalog that differs from
  its shard is stranded, unless one of them is `deleted` and the other `hot` or
  `archived`.

**The inductive invariant** `IInv` says how far catalog and shard can be apart.
A request is sent only in certain statuses of the catalog and runs only in
certain statuses of the shard, but it may run long after the caller gave up, when
both have gone on. What saves the protocol is that requests are delivered in
order: `QueueOK` lists, for each pair of statuses, which requests can still
wait and which of them wait behind which others, so that an old one is refused
before a newer one runs. From it follows `MoversOK`: at most one call has moved
the shard without having moved the catalog, and the catalog is where that call
found it, but for a late delete. Hence two marks never race, the digest
that the catalog records is the shard's (`SnapshotsOK`), and with answers in
order the last journaled answer brings the catalog to where the shard is
(`JournalOK`).

The last three theorems say what becomes of a difference, such as those that
`remote_lifecycle_lost_answer` and `remote_lifecycle_stale_delete` end with. A
lost answer to `begin_archive` leaves a hot catalog before a shard that archives:
the catalog sends only archives, deletes and writes, the shard takes only the end
of an archive, and no call of an owner brings the two together again. Only with a
deleted database on one side can a later call do so: a delete (again) or a
restore.

`ServiceSession_proofs` proves, for any set of clients, numbers of databases,
batches and migrations and any kinds of session (`Bounds` of `ServiceSession`):

* `TypeCorrectness`, `OneConnectionAtATime`: `TypeOK` and `SingleFlight`;
* `EnvFileIsReady`: `FileNamesReady`;
* `ScriptsApplyOnce`: `ScriptIsPrefix`;
* `MigrationsApplyInOrder`: `MigrationsInOrder`;
* `NothingIsOrphaned`: `NothingIsLeft`;
* `OneDatabaseLasts`: `CreatesOnce`.

`Base` is types, and that every promise, connection and call refers to an open
connection of its own client and to a database. With it `SingleFlight` is inductive as it stands.
`FileNamesReady` is not: a cleanup deletes the database of its own creation, and
only `CreationsOK`, that no two creations under way have the same database, that one
being set up or undone is not ready, and that one about to be written to the file
is, keeps it from the database in the file. `ScriptIsPrefix` needs `ScriptOK`: the next batch a call sends
is never more than one ahead of what its database holds, also when another
process sent it first or the answer was lost.

`migrate` asks for the database anew before every request, so that
`MigrationsInOrder` needs two invariants: `ShareOK`, an open call has the
connection that the next one will share, unless that was rejected, and
`VersionsOK`, a call about to apply a migration has seen all migrations before
it *in the database it is about to change*. `NothingIsLeft` is nearly inductive
(`OwnersOK` adds that a connection that has not created anything names no
database). For `CreatesOnce`, `OnceOK` says where a client that is alone keeps its
database: a connection creates only while the client has none, at most one
connection is not settled, and what exists is either what the client has or
what that connection is setting up, persisting or about to delete.

`Workbench_proofs` proves, for any databases, tables, rows and page sizes, any
kinds of session, however many operations they have, and requests answered in
any order (`Bounds` of `Workbench`):

* `TypeCorrectness`: `TypeOK`;
* `SnapshotOfArchive`: `SnapshotIsArchive`;
* `HastyNamesake`: `HastyShowsNamesake`;
* `SelectionShown`: `SettledShowsSelection`;
* `StoreShown`: `SettledShowsStore`.

**How they go.** A step of `Workbench` is the answer to a request (`Served`), what
follows an await (`Resumed`) or what the user does (`Acted`). The first half of
the module reduces the actions to these three, which say which tasks the bag loses
and gains (`Turn`) and what becomes of the React state (`Steps`); from there the
invariants never look at an action again.

**The inductive invariants.** The properties speak of a console at rest, so that all
that makes them true has to be said of the tasks on their way there. `Base` is
types, and which requests each handler may wait for. For a user who waits, `Lone`
says that a handler that changes the store, or has not yet listed the databases, is
alone, and `Sole` that there is at most one handler: the others are effects.
`Shown` says of every task that it is about the selected database, unless it is an
effect that can only end without showing anything, and of the state that page and
description are of it (`Consistent`). The hard case is the shorter page that
`changeTableLimit` asks for: it is shown whatever was selected meanwhile, and stays
right only because each effect under way leaves the same table (`Suits`). These
hold for any session, whatever fails and whatever answers are lost.

That the table named is the one described and shown (`Matched`) holds of the steps
only while no SQL button is at hand. With them `Described` says that it holds or that
nothing but effects is under way and one of them is about to load a table
(`Renamed`); when requests fail such an effect can end early, hence the premise of
`SettledShowsSelection`.

`Current`, for a user whose requests are only refused by the canister and whose
answers arrive (`Reliable`), says what is stale until a task under way has ended: the
list of databases while one that changes a status is (`Changing`), a database that is
being taken away (`Leaving`), the tables after a statement (`Written`), and otherwise
the tables and the page agree with the store or a task is about to load them
(`Agreeing`); that no table is listed, named or described that does not exist
(`Within`); and that every answer on its way is still true of the store (`Sound`).
Only `Agreeing` needs that no dump file is loaded.

Two more invariants stand beside these. `Kept`, for the snapshot: the image that an
archive holds is the archiving database's until it is refused, and the snapshot of
an archived database is its image unless the answer that says so is still to be
shown (`Final`); a lost answer is never shown, which is the premise. `Looked`, for a
user in haste: what any task will show is a table of the selected database, or an
effect for the selected database is still to come.

The attempt to prove `SettledShowsSelection` as it was first written, without
`ui.description # NoDescription`, failed for the reason given under *Premises*;
a longer session than the run has, in which the list of databases and the refresh
of one fail around a change of page size, then showed it to be false.

`Accounts_proofs` proves, for any databases, calls and amounts, any finite set of
principals (the code counts owners) and any positive rates (`NameAssumption`,
`AmountAssumption`, `RateAssumption`, `BoundAssumption`, `PeopleAssumption` of
`Accounts`):

* `TypeCorrectness`: `TypeOK`;
* `OwnersRemain`: `KeepsOwner`;
* `TokensByOwners`: `TokensComeFromOwners`, for every step;
* `PaymentsAgree`: `PaymentsMatchBlocks`;
* `SuccessCredits`: `SuccessMeansCredited`;
* `GuardsHeld`: `GuardsAreHeld`;
* `UnitsAccounted`: `UnitsAreBacked`.

**The inductive invariant** `IInv`. That a database keeps an owner is inductive as it
stands. `DescentOK` says of a call that waits for `raw_rand` that the token it was
authenticated by is an owner token of the same database, because that token is not
looked up again, and says it of the tokens made. For deposits, `LedgerOK` says that
an answer tells what the ledger holds, which a block never changes: `ok` is the
block of the deposit itself, `duplicate` one of an equal transfer. So a block is
recorded only by the deposit that made it (`PaymentsOK`), and once, and the
code's check for a block that is already recorded never strikes; and a duplicate
is reported as a success only if the first deposit was credited to the same
database (`OutcomesOK`).

**Sums.** `UnitsAreBacked` speaks of sums over the payments and over the blocks of
the ledger, each a fold of the community modules. What a fold computes is induction
over finite sets, and the library's induction rules take an operator as a parameter,
which the provers cannot instantiate. The second half of `SequenceFacts` goes
around them: a set of subsets of a finite set has a minimal one
(`SmallestSubset`, from the well-foundedness of the strict subset relation), and
so each fact is proved by refuting a minimal counterexample. In this way the
recursive function behind the fold exists (`SumExists`), is unique (`SumsAgree`)
and does not depend on the order in which elements are taken (`SumWithoutAny`).
Hence an element more adds its weight (`WeightWithOneMore`), and if the elements of
one set stand for different elements of another, each of which outweighs it, the
whole set is outweighed (`WeightIsOutweighed`). With `UnitsInv` (finitely many
payments, each of `CreditedUnits` of its amount) the sum of units is inductive, and
that no unit comes without ICP follows from `PaymentsOK`: the payments of a database
stand for different blocks that moved their amounts for it, and units are rounded
down.

**Only model-checked:** liveness (`WritesEnd`, `CallsEnd`, `ComesToRest`), because
the prover has no rules for fairness and `ENABLED`. Every invariant and every safety
property of a step that a passing run checks is proved. `RECURSIVE` operators,
also beyond the prover, are not used.

## 5. Plan

Done: `RoutedWrites` with `WriteLedger`, `DatabaseLifecycle` and
`RemoteLifecycle`, `ShardPlacement`, `ServiceSession`, `Workbench`, `Accounts`, and
the proofs of section 4. In this order, next:

1. `RestoreChunks`: coverage and digest of overlapping chunks against a
   reference definition, as recursive functions over bounded inputs.
2. `ShardMaintenance`, and `waitForRoutedOperation` of the SDK.

## 6. Not modelled

Query routing and table inspection (stateless), SQL parsing and guards,
`sqlite_facade` and the VFS, index schema migrations and upgrade hooks, wire
types and the HTTP layer: they are sequential or pure, or are exercised well by
their own tests. Quotas appear only as a refusal of the shard.
`reconcile_shard_operation` relabels a journal row on an operator's word.

Of the SDK: conversions of values and the wrappers around one request. Of the
console: `downloadSqlDump` and the members, tokens, billing and shard panels, whose
handlers set the load state and show the answer of their own request; the handlers'
token variants, token sessions and the adapter mode. Of the command line tools:
parsing of arguments and printing.

More than a third of the repository's lines are check, smoke-test and release
scripts, which start processes one after the other and compare texts, and most
of the TypeScript is formatting, conversion and layout. No model stands for
those lines; the concurrency of the program is in the remaining ones. The parts
of the plan that are open are listed as such in `PROJECT.json`.
