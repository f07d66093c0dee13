----------------------------- MODULE ShardPlacement -----------------------------
(***************************************************************************)
(* Where databases live.  The control canister places a new database on the*)
(* least assigned shard with room, provisioning one when there is none, and*)
(* migrates a local database to a shard; both are sagas of bounded-wait    *)
(* calls with a compensation.  A controller may also create a database of a*)
(* chosen name.  Each shard hands out its memories (mount ids) from a      *)
(* history of its own.                                                     *)
(*                                                                         *)
(* A call is suspended at every await: the shard serves its request, then  *)
(* the call goes on with the answer.  Requests of one canister to another  *)
(* are delivered in order, so that a request whose answer is lost has run  *)
(* before any later one, or never.  The archive of a migration is one      *)
(* chunk: what is copied is told apart from what was hashed.  Deleting and *)
(* restoring a remote database are one step here (RemoteLifecycle has      *)
(* their awaits).                                                          *)
(***************************************************************************)
EXTENDS Integers, FiniteSets, FiniteSetsExt

CONSTANTS Calls,       \* call contexts, each taken once
          Locals,      \* databases of the control canister, from before the first shard
          Named,       \* names a controller chooses
          MaxShards,   \* bound: shards are 1..MaxShards, in the order of their creation
          Capacity,    \* max_databases of each shard
          Mounts,      \* bound: memories of each shard are 1..Mounts
          MaxVersion,  \* bound: writes to a database
          MaxAttempt,  \* attempts at a new id (99 in the code)
          Sessions     \* what is called, how often (a bound), how many of it migrations, what
                       \* the owners do, whether all calls begin in one millisecond, whether
                       \* answers get lost, how many shards there are

OwnerActions == {"cancel", "archive", "write", "delete", "restore"}

ASSUME Bounds ==
  /\ {MaxShards, Capacity, Mounts} \subseteq Nat \ {0} /\ {MaxVersion, MaxAttempt} \subseteq Nat
  /\ \A s \in Sessions : /\ s.calls \subseteq {"create", "create_remote", "migrate"}
                         /\ s.owner \subseteq OwnerActions /\ {s.most, s.migrations} \subseteq Nat
                         /\ {s.sameMs, s.loses} \subseteq BOOLEAN /\ s.shards \in 0..MaxShards

VARIABLES catalog,  \* control: of each database its status and where it is
          shards,   \* control: registered shards
          journal,  \* control: rows of shard_operations
          slots,    \* at the shards: the rows of their databases
          history,  \* at the shards: <<database, memory>> handed out
          memory,   \* at the shards: whose writes each memory holds, up to which
          written,  \* the writes a database has acknowledged
          calls, session

placement == <<catalog, shards>>
shard == <<slots, history, memory>>
vars == <<placement, journal, shard, written, calls, session>>

Local == 0
Shards == 1..MaxShards
MaxMs == Cardinality(Calls)
Generated == [at : 1..MaxMs, shard : Shards, attempt : 0..MaxAttempt]
Ids == Locals \union Named \union Generated

(* Nobody chooses a name that is the hash of a creation.                   *)
ASSUME FiniteCalls == IsFiniteSet(Calls)
ASSUME NamesAreChosen == Generated \intersect (Locals \union Named) = {}

Absent == [status |-> "none", at |-> Local]
NoSlot == [status |-> "none", mount |-> 0, digest |-> 0, chunk |-> 0]
Blank == [of |-> {}, version |-> 0]
Unused == [op |-> "none"]

Loses == session.loses
May(op) == op \in session.calls
Owner(action) == action \in session.owner

-----------------------------------------------------------------------------
(* Capacity and ids.                                                       *)

(* The databases that count: everything placed there and not deleted.      *)
Assigned(s) ==
  Cardinality({d \in Ids : catalog[d].at = s /\ catalog[d].status \notin {"none", "deleted"}})

HasRoom(s) == Assigned(s) < Capacity

Selectable(n) == {s \in 1..n : HasRoom(s)}

(* The least assigned of the first n shards with room, the oldest of them. *)
select_database_shard_for_create(n) ==
  CHOOSE s \in Selectable(n) : \A t \in Selectable(n) : \/ Assigned(s) < Assigned(t)
                                                        \/ Assigned(s) = Assigned(t) /\ s <= t

(* Ids are hashes of the caller, the millisecond, the shard and an attempt:*)
(* the first that the catalog does not have.                               *)
Generate(at, s, n) == [at |-> at, shard |-> s, attempt |-> n]
Attempts(at, s) == {n \in 0..MaxAttempt : catalog[Generate(at, s, n)] = Absent}
generated_remote_database_id(at, s) == Generate(at, s, Min(Attempts(at, s)))

-----------------------------------------------------------------------------
LocalIs(d, status) == catalog[d] = [status |-> status, at |-> Local]

(* The shard's handlers.                                                   *)

Free(s) == {m \in 1..Mounts : \A d \in Ids : <<d, m>> \notin history[s]}

(* Mutant: the history is not written.                                     *)
takesUnrecorded(s, d, slot) ==
  /\ Free(s) # {}
  /\ slots' = [slots EXCEPT ![s][d] = [slot EXCEPT !.mount = Min(Free(s))]]
  /\ UNCHANGED history

Takes(s, d, slot) ==
  /\ Free(s) # {}
  /\ slots' = [slots EXCEPT ![s][d] = [slot EXCEPT !.mount = Min(Free(s))]]
  /\ history' = [history EXCEPT ![s] = @ \union {<<d, Min(Free(s))>>}]

create_database_slot(s, d) ==
  /\ slots[s][d].status = "none"
  /\ Takes(s, d, [NoSlot EXCEPT !.status = "hot"])
  /\ UNCHANGED memory

(* Deleting a deleted database succeeds too.                               *)
delete_database_slot(s, d) ==
  /\ slots[s][d].status \in {"hot", "deleted"}
  /\ slots' = [slots EXCEPT ![s][d] = [NoSlot EXCEPT !.status = "deleted"]]
  /\ UNCHANGED <<history, memory>>

begin_database_restore(s, d, digest) ==
  /\ slots[s][d].status = "deleted"
  /\ Takes(s, d, [NoSlot EXCEPT !.status = "restoring", !.digest = digest, !.chunk = -1])
  /\ UNCHANGED memory

write_database_restore_chunk(s, d, chunk) ==
  /\ slots[s][d].status = "restoring"
  /\ slots' = [slots EXCEPT ![s][d].chunk = chunk]
  /\ UNCHANGED <<history, memory>>

finalize_database_restore(s, d) ==
  LET slot == slots[s][d]
  IN /\ slot.status = "restoring" /\ slot.chunk = slot.digest
     /\ slots' = [slots EXCEPT ![s][d].status = "hot"]
     /\ memory' = [memory EXCEPT ![s][slot.mount] = [of |-> {d}, version |-> slot.digest]]
     /\ UNCHANGED history

(* Every row of the database goes, those of the mount history included; the*)
(* memory keeps what it holds.                                             *)
discard_database_slot(s, d) ==
  /\ slots' = [slots EXCEPT ![s][d] = NoSlot]
  /\ history' = [history EXCEPT ![s] = {h \in @ : h[1] # d}]
  /\ UNCHANGED memory

-----------------------------------------------------------------------------
(* A request and its answer.                                               *)

Awaits(c, stage) == /\ calls[c] # Unused /\ calls[c].stage = stage /\ calls[c].reply = "none"
Answered(c, stage, reply) == /\ calls[c] # Unused /\ calls[c].stage = stage
                             /\ calls[c].reply = reply

Runs(c) ==
  LET s == calls[c].at
      d == calls[c].db
  IN \/ Awaits(c, "create_slot") /\ create_database_slot(s, d)
     \/ Awaits(c, "delete_slot") /\ delete_database_slot(s, d)
     \/ Awaits(c, "begin_restore") /\ begin_database_restore(s, d, calls[c].digest)
     \/ Awaits(c, "write_chunk") /\ write_database_restore_chunk(s, d, calls[c].chunk)
     \/ Awaits(c, "finalize_restore") /\ finalize_database_restore(s, d)
     \/ Awaits(c, "undo") /\ IF calls[c].op = "migrate" THEN discard_database_slot(s, d)
                             ELSE delete_database_slot(s, d)

Replies(c, replies) ==
  /\ \E reply \in replies : calls' = [calls EXCEPT ![c].reply = reply]
  /\ UNCHANGED <<placement, journal, written, session>>

Serve(c) == Runs(c) /\ Replies(c, IF Loses THEN {"ok", "error"} ELSE {"ok"})

(* The request is refused, fails for want of storage, or is lost.          *)
Refuse(c) == /\ calls[c] # Unused /\ calls[c].reply = "none"
             /\ calls[c].stage \notin {"provision", "end"}
             /\ UNCHANGED shard
             /\ Replies(c, {"error"})

-----------------------------------------------------------------------------
(* The control canister: a call up to its first await.                     *)

(* A row of shard_operations is named by the kind, the target, the request *)
(* and the millisecond of the call.                                        *)
Row(call) == [op |-> call.op, db |-> call.db, at |-> call.at, ms |-> call.ms]
Status(row) == IF row \in DOMAIN journal THEN journal[row] ELSE "none"
Journal(row, status) ==
  journal' = [r \in DOMAIN journal \union {row} |-> IF r = row THEN status ELSE journal[r]]

Goes(c, call) == calls' = [calls EXCEPT ![c] = call]
Stage(call, stage) == [call EXCEPT !.stage = stage, !.reply = "none"]
GoesTo(c, stage) == Goes(c, Stage(calls[c], stage))
Ends(c, status) == GoesTo(c, "end") /\ Journal(Row(calls[c]), status)

(* The call's row is pending, or left from a call with the same name that  *)
(* has not ended yet.                                                      *)
Opens(c, call) ==
  IF Status(Row(call)) \in {"applied", "unknown"}
  THEN Goes(c, Stage(call, "end")) /\ UNCHANGED journal
  ELSE Goes(c, Stage(call, "create_slot")) /\ Journal(Row(call), "pending")

Begun == Cardinality({c \in Calls : calls[c] # Unused})
Now == IF session.sameMs THEN 1 ELSE Begun + 1
Begins(c, op) == /\ calls[c] = Unused /\ May(op) /\ Begun < session.most
                 /\ UNCHANGED <<shard, written, session>>
NewCall(op, d, s, ms) == [op |-> op, stage |-> "begin", db |-> d, at |-> s, ms |-> ms,
                          reply |-> "none", digest |-> 0, chunk |-> 0]

Allocate(c, ms, n) ==
  LET s == select_database_shard_for_create(n)
  IN /\ Attempts(ms, s) # {}
     /\ Opens(c, NewCall("create", generated_remote_database_id(ms, s), s, ms))

create_database(c) ==
  /\ Begins(c, "create")
  /\ \/ Selectable(shards) # {} /\ Allocate(c, Now, shards)
     \/ /\ Selectable(shards) = {}
        /\ Goes(c, [NewCall("create", 0, Local, Now) EXCEPT !.stage = "provision"])
        /\ UNCHANGED journal
  /\ UNCHANGED placement

(* Mutant: the new shard is used before it is registered.                  *)
provisionedUnregistered(c) ==
  /\ Awaits(c, "provision")
  /\ shards < MaxShards /\ UNCHANGED shards /\ Allocate(c, calls[c].ms, shards + 1)
  /\ UNCHANGED <<catalog, shard, written, session>>

(* The new canister is installed and registered, or deleted again or left  *)
(* behind.                                                                 *)
provision_database_shard(c) ==
  /\ Awaits(c, "provision")
  /\ \/ shards < MaxShards /\ shards' = shards + 1 /\ Allocate(c, calls[c].ms, shards + 1)
     \/ GoesTo(c, "end") /\ UNCHANGED <<shards, journal>>
  /\ UNCHANGED <<catalog, shard, written, session>>

create_remote_database(c, d, s) ==
  /\ Begins(c, "create_remote")
  /\ Opens(c, NewCall("create_remote", d, s, Now))
  /\ UNCHANGED placement

(* The local database is archived and hashed.  A call that is refused here *)
(* closes its row as unknown.                                              *)
migrate_database_to_shard(c, d, s) ==
  LET call == [NewCall("migrate", d, s, Now) EXCEPT !.digest = written[d]]
  IN /\ Begins(c, "migrate")
     /\ Cardinality({e \in Calls : calls[e].op = "migrate"}) < session.migrations
     /\ \/ /\ LocalIs(d, "hot") /\ HasRoom(s)
           /\ Opens(c, call)
           /\ catalog' = IF Status(Row(call)) \in {"applied", "unknown"} THEN catalog
                         ELSE [catalog EXCEPT ![d].status = "archiving"]
        \/ /\ ~LocalIs(d, "hot") \/ ~HasRoom(s)
           /\ Goes(c, Stage(call, "end"))
           /\ IF Status(Row(call)) \in {"applied", "unknown"} THEN UNCHANGED journal
              ELSE Journal(Row(call), "unknown")
           /\ UNCHANGED catalog
     /\ UNCHANGED shards

-----------------------------------------------------------------------------
(* A call after an await.                                                  *)

MovesOn(c) == calls[c] # Unused /\ UNCHANGED <<shards, shard, written, session>>
Places(c) == catalog' = [catalog EXCEPT ![calls[c].db] = [status |-> "hot", at |-> calls[c].at]]

Register(c, registrable) ==
  /\ MovesOn(c) /\ calls[c].op # "migrate"
  /\ Answered(c, "create_slot", "ok")
  /\ \/ registrable /\ Places(c) /\ Ends(c, "applied")
     \/ /\ ~registrable /\ UNCHANGED catalog
        /\ IF calls[c].op = "create" THEN GoesTo(c, "undo") /\ UNCHANGED journal
           ELSE Ends(c, "unknown")

(* Mutant: the room was checked when the call began.                       *)
registersPlanned(c) == Register(c, catalog[calls[c].db] = Absent)

register_remote_database(c) == Register(c, catalog[calls[c].db] = Absent /\ HasRoom(calls[c].at))

(* Mutant: a failed creation by a controller is compensated too.           *)
failsCompensated(c) ==
  /\ MovesOn(c) /\ calls[c].op # "migrate"
  /\ Answered(c, "create_slot", "error")
  /\ GoesTo(c, "undo") /\ UNCHANGED <<catalog, journal>>

(* A failed creation is compensated; one by a controller is not.           *)
CreateFails(c) ==
  /\ MovesOn(c) /\ calls[c].op # "migrate"
  /\ Answered(c, "create_slot", "error")
  /\ IF calls[c].op = "create" THEN GoesTo(c, "undo") /\ UNCHANGED journal
     ELSE Ends(c, "unknown")
  /\ UNCHANGED catalog

(* Mutant: a compensated creation is closed as if nothing had happened.    *)
undoneApplied(c) ==
  /\ MovesOn(c) /\ calls[c].op = "create"
  /\ \E reply \in {"ok", "error"} : Answered(c, "undo", reply)
  /\ Ends(c, "applied")
  /\ UNCHANGED catalog

CreateUndone(c) ==
  /\ MovesOn(c) /\ calls[c].op = "create"
  /\ \E reply \in {"ok", "error"} : Answered(c, "undo", reply)
  /\ Ends(c, "unknown")
  /\ UNCHANGED catalog

NextStage == [create_slot |-> "delete_slot", delete_slot |-> "begin_restore",
              begin_restore |-> "write_chunk", write_chunk |-> "finalize_restore"]

(* The slot is made, emptied, and restored from the archive, which is read *)
(* when its chunk is sent.                                                 *)
MigrationGoesOn(c) ==
  LET d == calls[c].db
      readable == LocalIs(d, "archiving")
  IN /\ MovesOn(c) /\ calls[c].op = "migrate"
     /\ \E stage \in DOMAIN NextStage :
          /\ Answered(c, stage, "ok")
          /\ Goes(c, IF stage # "begin_restore" THEN Stage(calls[c], NextStage[stage])
                     ELSE IF readable THEN [Stage(calls[c], NextStage[stage]) EXCEPT !.chunk = written[d]]
                     ELSE Stage(calls[c], "undo"))
     /\ UNCHANGED <<catalog, journal>>

Complete(c, completable) ==
  /\ MovesOn(c)
  /\ Answered(c, "finalize_restore", "ok")
  /\ \/ completable /\ HasRoom(calls[c].at) /\ Places(c) /\ Ends(c, "applied")
     \/ /\ ~completable \/ ~HasRoom(calls[c].at)
        /\ GoesTo(c, "undo") /\ UNCHANGED <<catalog, journal>>

(* Mutant: any local database will do.                                     *)
completesHot(c) == Complete(c, catalog[calls[c].db].at = Local)

complete_local_database_migration(c) == Complete(c, LocalIs(calls[c].db, "archiving"))

MigrationFails(c) ==
  /\ MovesOn(c) /\ calls[c].op = "migrate"
  /\ \E stage \in DOMAIN NextStage \union {"finalize_restore"} : Answered(c, stage, "error")
  /\ GoesTo(c, "undo")
  /\ UNCHANGED <<catalog, journal>>

CancelMigration(c, cancels) ==
  LET d == calls[c].db
  IN /\ MovesOn(c) /\ calls[c].op = "migrate"
     /\ \E reply \in {"ok", "error"} : Answered(c, "undo", reply)
     /\ catalog' = IF cancels /\ LocalIs(d, "archiving") THEN [catalog EXCEPT ![d].status = "hot"]
                   ELSE catalog
     /\ Ends(c, "unknown")

(* Mutant: nothing is cancelled while the slot is still there.             *)
cancelsAfterDiscard(c) == CancelMigration(c, calls[c].reply = "ok")

(* The slot has been discarded, or not: the archive is cancelled.          *)
cancel_local_database_migration(c) == CancelMigration(c, TRUE)

-----------------------------------------------------------------------------
(* The owner of a database.                                                *)

Acts(action) == Owner(action) /\ UNCHANGED <<shards, journal, calls, session>>
Becomes(d, status) == catalog' = [catalog EXCEPT ![d].status = status]

begin_database_archive(d) ==
  Acts("archive") /\ LocalIs(d, "hot") /\ Becomes(d, "archiving") /\ UNCHANGED <<shard, written>>

cancel_database_archive(d) ==
  Acts("cancel") /\ LocalIs(d, "archiving") /\ Becomes(d, "hot") /\ UNCHANGED <<shard, written>>

(* A write that succeeds.                                                  *)
sql_write(d) ==
  LET s == catalog[d].at
      m == slots[s][d].mount
  IN /\ Acts("write") /\ written[d] < MaxVersion
     /\ catalog[d].status = "hot"
     /\ \/ s = Local /\ UNCHANGED shard
        \/ /\ s # Local /\ slots[s][d].status = "hot"
           /\ memory' = [memory EXCEPT ![s][m] = [of |-> @.of \union {d}, version |-> written[d] + 1]]
           /\ UNCHANGED <<slots, history>>
     /\ written' = [written EXCEPT ![d] = @ + 1]
     /\ UNCHANGED catalog

delete_database(d) ==
  LET s == catalog[d].at
  IN /\ Acts("delete") /\ catalog[d].status = "hot"
     /\ IF s = Local THEN UNCHANGED shard ELSE delete_database_slot(s, d)
     /\ Becomes(d, "deleted")
     /\ UNCHANGED written

(* A deleted remote database is restored from its last snapshot, into a new*)
(* memory.  No shard has to have room for it.                              *)
restore_database(d) ==
  LET s == catalog[d].at
  IN /\ Acts("restore") /\ s # Local /\ catalog[d].status = "deleted"
     /\ slots[s][d].status = "deleted"
     /\ Takes(s, d, [NoSlot EXCEPT !.status = "hot"])
     /\ memory' = [memory EXCEPT ![s][Min(Free(s))] = [of |-> {d}, version |-> written[d]]]
     /\ Becomes(d, "hot")
     /\ UNCHANGED written

-----------------------------------------------------------------------------

Init ==
  /\ catalog = [d \in Ids |-> IF d \in Locals THEN [status |-> "hot", at |-> Local] ELSE Absent]
  /\ journal = <<>>
  /\ slots = [s \in Shards |-> [d \in Ids |-> NoSlot]]
  /\ history = [s \in Shards |-> {}]
  /\ memory = [s \in Shards |-> [m \in 1..Mounts |-> Blank]]
  /\ written = [d \in Ids |-> 0]
  /\ calls = [c \in Calls |-> Unused]
  /\ session \in Sessions
  /\ shards = session.shards

Begin(c) == \/ create_database(c)
            \/ \E s \in 1..shards : \/ \E d \in Locals \union Named : create_remote_database(c, d, s)
                                    \/ \E d \in Locals : migrate_database_to_shard(c, d, s)

Continue(c) == \/ provision_database_shard(c) \/ register_remote_database(c) \/ CreateFails(c)
               \/ CreateUndone(c) \/ MigrationGoesOn(c) \/ complete_local_database_migration(c)
               \/ MigrationFails(c) \/ cancel_local_database_migration(c)

Next == \/ \E c \in Calls : Begin(c) \/ Serve(c) \/ Refuse(c) \/ Continue(c)
        \/ \E d \in Ids : \/ begin_database_archive(d) \/ cancel_database_archive(d)
                          \/ sql_write(d) \/ delete_database(d) \/ restore_database(d)

Spec == Init /\ [][Next]_vars
-----------------------------------------------------------------------------
Statuses == {"none", "hot", "archiving", "restoring", "deleted"}

TypeOK ==
  /\ \A d \in Ids : /\ catalog[d].status \in Statuses /\ catalog[d].at \in {Local} \union 1..shards
                     /\ written[d] \in 0..MaxVersion
  /\ shards \in 0..MaxShards
  /\ \A row \in DOMAIN journal : journal[row] \in {"pending", "applied", "unknown"}
  /\ \A s \in Shards : /\ history[s] \subseteq Ids \X (1..Mounts)
                       /\ \A d \in Ids : slots[s][d].status \in Statuses

Live(s, d) == slots[s][d].status \in {"hot", "restoring"}
RoutedTo(d, s) == catalog[d] = [status |-> "hot", at |-> s]
Quiet == \A c \in Calls : calls[c] = Unused \/ calls[c].stage = "end"

(* What the environment may do, and some of the properties depend on.      *)
NoTwins == ~session.sameMs
MigratedOnce == session.migrations > 1 => ~Owner("cancel")
NotArchivedAnew == ~({"cancel", "archive"} \subseteq session.owner)

(* A database that the catalog routes to a shard is hot there: no          *)
(* compensation or discarded slot, of this call or another, takes it away. *)
(* Two calls of one caller in one millisecond, or a second migration begun *)
(* after the owner cancelled the archive of the first, could.              *)
RoutedIsServed ==
  NoTwins /\ MigratedOnce =>
    \A d \in Ids, s \in Shards : RoutedTo(d, s) => slots[s][d].status = "hot"

(* A creation or a migration never places a database on a full shard,      *)
(* however many were planned for its last place.  (A restore asks for no   *)
(* place: the deleted database gave up its own.)                           *)
PlacementsFit ==
  [][\A d \in Ids, s \in Shards : catalog[d].at # s /\ catalog'[d].at = s => HasRoom(s)]_placement

(* Two databases of a shard never share a memory.                          *)
MemoriesAreDistinct ==
  \A s \in Shards : \A d, e \in Ids :
    d # e /\ Live(s, d) /\ Live(s, e) => slots[s][d].mount # slots[s][e].mount

(* The acknowledged writes of a database move with it: a migration that    *)
(* the owner cancelled, and wrote after, places nothing.  (An owner who    *)
(* archives anew before it completes has the copy from before the write.)  *)
WritesSurvive ==
  NoTwins /\ MigratedOnce /\ NotArchivedAnew =>
    \A d \in Ids, s \in Shards : RoutedTo(d, s) /\ written[d] > 0 =>
      LET m == memory[s][slots[s][d].mount] IN d \in m.of /\ m.version = written[d]

(* When every call has returned, a slot the catalog does not know, or knows*)
(* and lost, is the target of a journal row with an unknown outcome.       *)
DivergenceIsJournaled ==
  NoTwins /\ Quiet => \A d \in Ids, s \in Shards :
    (slots[s][d].status = "hot") # RoutedTo(d, s) =>
      \E row \in DOMAIN journal : row.db = d /\ journal[row] = "unknown"

(* When every call has returned, only its owner keeps a database archiving.*)
NotLeftArchiving ==
  Quiet /\ ~Owner("archive") => \A d \in Ids : catalog[d].status # "archiving"

(* docs/DB_LIFECYCLE.md: no memory is given to another database: what a    *)
(* database holds was written to it.                                       *)
MemoriesAreNotRecycled ==
  \A s \in Shards : \A d \in Ids :
    slots[s][d].status = "hot" => memory[s][slots[s][d].mount].of \subseteq {d}
=============================================================================
