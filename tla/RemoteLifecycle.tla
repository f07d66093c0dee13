---------------------------- MODULE RemoteLifecycle ----------------------------
(***************************************************************************)
(* Archive, restore and delete of a database that lives on a shard         *)
(* canister.  The control canister keeps a status and snapshot hash of its *)
(* own (the catalog).  For each operation it checks the caller and the     *)
(* catalog, opens a row of shard_operations, awaits the shard, checks the  *)
(* caller and the catalog once more, then moves the catalog and closes the *)
(* row.  Several calls may be suspended at once.  The platform delivers    *)
(* the requests of one canister to another in order; a bounded-wait call   *)
(* may be given up while its request is still on its way.  Answers may be  *)
(* lost, and unless they come in order they may overtake each other.       *)
(*                                                                         *)
(* The shard is DatabaseLifecycle.  A SQL write is here only a change of   *)
(* the file; its own protocol is RoutedWrites.                             *)
(***************************************************************************)
EXTENDS Integers, FiniteSets, SequencesExt

CONSTANTS
  Calls,       \* call contexts, taken again once the call has returned
  Principals,  \* callers checked against database_members
  Tokens,      \* bearer tokens of owner scope
  Blank, MaxVersion, MaxMounts,  \* see DatabaseLifecycle
  Nobody,      \* no call waits for the request any more
  MaxQueue,    \* bound: requests on their way
  Orders       \* may the answers arrive in the order the shard gave them (TRUE), or in any?

ASSUME Bounds == /\ MaxVersion \in Nat /\ MaxMounts \in Nat \ {0} /\ MaxQueue \in Nat
                 /\ Nobody \notin Calls
                 /\ Orders \subseteq BOOLEAN

VARIABLES
  status, snapshot, image, chunks, mounts, newest,  \* the shard's database
  catalog,          \* control: databases.status
  catalogSnapshot,  \* control: databases.snapshot_hash
  owners,           \* control: principals with the owner role
  phase,            \* where each call stands
  request,          \* the request each call carries
  troubles,         \* control: statuses other than applied in shard_operations
  queue,            \* requests on their way to the shard, with the waiting call
  answers,          \* calls the shard has run, in that order, not yet returned
  ordered           \* do answers arrive in that order?

Shard == INSTANCE DatabaseLifecycle

shard   == <<status, snapshot, image, chunks, mounts, newest>>
control == <<catalog, catalogSnapshot>>
vars    == <<shard, control, owners, phase, request, troubles, queue, answers, ordered>>

Callers == Principals \cup Tokens

(* Operations and the files that come with them: the digest to archive or  *)
(* to restore, or the file a restore chunk is from.                        *)
Plain == {"sql_write", "begin_archive", "cancel_archive", "finalize_restore", "delete"}
OfFile == {"finalize_archive", "begin_restore", "write_chunk"}
Requests == [op : Plain, file : {Blank}, caller : Callers]
            \cup [op : OfFile, file : Shard!Versions, caller : Callers]
NoRequest == [op |-> "none"]

(* The catalog status an operation needs, before and after the await: the  *)
(* two that end in "hot" share one check after it.                         *)
Needs(op) ==
  CASE op \in {"sql_write", "begin_archive"}             -> {"hot"}
    [] op \in {"finalize_archive", "cancel_archive"}     -> {"archiving"}
    [] op = "begin_restore"                              -> {"archived", "deleted"}
    [] op \in {"write_chunk", "finalize_restore"}        -> {"restoring"}
    [] op = "delete"                                     -> {"hot", "archived"}

MarkNeeds(op) == IF op \in {"cancel_archive", "finalize_restore"}
                 THEN {"archiving", "restoring"}
                 ELSE Needs(op)

Becomes == [begin_archive    |-> "archiving",
            finalize_archive |-> "archived",
            cancel_archive   |-> "hot",
            begin_restore    |-> "restoring",
            finalize_restore |-> "hot",
            delete           |-> "deleted"]

(* These open a row of shard_operations, pending until the call returns.   *)
(* Chunks and SQL writes open none.                                        *)
Journaled(op) == op \in DOMAIN Becomes

Init ==
  /\ Shard!Init
  /\ catalog = "hot"
  /\ catalogSnapshot = Blank
  /\ owners = Principals
  /\ phase = [c \in Calls |-> "idle"]
  /\ request = [c \in Calls |-> NoRequest]
  /\ troubles = {}
  /\ queue = <<>>
  /\ answers = <<>>
  /\ ordered \in Orders

--------------------------------------------------------------------------------
(* Another owner's call that changes the members.                          *)

Revoke(p) == /\ p \in owners
             /\ owners' = owners \ {p}
             /\ UNCHANGED <<shard, control, phase, request, troubles, queue, answers>>

Grant(p) == /\ p \in Principals \ owners
            /\ owners' = owners \cup {p}
            /\ UNCHANGED <<shard, control, phase, request, troubles, queue, answers>>

IsOwner(caller) == caller \in Principals => caller \in owners

(* A call up to its await.                                                 *)
Send(c, r) ==
  /\ phase[c] = "idle"
  /\ IsOwner(r.caller)
  /\ catalog \in Needs(r.op)
  /\ phase' = [phase EXCEPT ![c] = "sent"]
  /\ request' = [request EXCEPT ![c] = r]
  /\ Len(queue) < MaxQueue
  /\ queue' = Append(queue, [call |-> c, request |-> r])
  /\ UNCHANGED <<shard, control, owners, troubles, answers>>

--------------------------------------------------------------------------------
(* The shard.                                                              *)

(* The shard's handler of a request that succeeds.  A delete of a deleted  *)
(* database succeeds too.                                                  *)
Runs(r) ==
  \/ r.op = "sql_write" /\ Shard!SqlWrite
  \/ r.op = "begin_archive" /\ Shard!begin_database_archive
  \/ r.op = "finalize_archive" /\ Shard!finalize_database_archive(r.file)
  \/ r.op = "cancel_archive" /\ Shard!cancel_database_archive
  \/ r.op = "begin_restore" /\ Shard!begin_database_restore(r.file)
  \/ r.op = "write_chunk" /\ Shard!write_database_restore_chunk(r.file)
  \/ r.op = "finalize_restore" /\ Shard!finalize_database_restore
  \/ r.op = "delete" /\ Shard!delete_database
  \/ r.op = "delete" /\ status = "deleted" /\ UNCHANGED shard

(* The shard's answer is an error, because of the status or the digest, or *)
(* of SQLite or the storage.  Only a restore whose file cannot be mounted  *)
(* leaves a trace.                                                         *)
Refuses(r) ==
  \/ r.op = "begin_restore" /\ Shard!rollback_database_restore_begin
  \/ UNCHANGED shard

Answers(c, p) ==
  /\ phase' = IF c = Nobody THEN phase ELSE [phase EXCEPT ![c] = p]
  /\ queue' = Tail(queue)
  /\ UNCHANGED <<control, owners, request, troubles>>

ShardRuns(c) ==
  /\ queue # <<>> /\ Head(queue).call = c
  /\ Runs(Head(queue).request)
  /\ Answers(c, "ran")
  /\ answers' = IF c = Nobody THEN answers ELSE Append(answers, c)

ShardRefuses(c) ==
  /\ queue # <<>> /\ Head(queue).call = c
  /\ Refuses(Head(queue).request)
  /\ Answers(c, "refused")
  /\ UNCHANGED answers

--------------------------------------------------------------------------------
(* A call after its await.                                                 *)

(* Mutant: every row is closed as applied.                                 *)
CloseAsApplied(c, s) == UNCHANGED troubles

(* The call's row of shard_operations goes from pending to s.              *)
Close(c, s) == troubles' = IF Journaled(request[c].op) THEN troubles \cup ({s} \ {"applied"})
                           ELSE troubles

Return(c) ==
  /\ phase' = [phase EXCEPT ![c] = "idle"]
  /\ request' = [request EXCEPT ![c] = NoRequest]
  /\ answers' = RemoveFirst(answers, c)
  /\ UNCHANGED <<shard, owners>>

(* The shard's answer to c is the next to arrive.                          *)
Arrives(c) == phase[c] = "ran" /\ (ordered => Head(answers) = c)

(* Mutant: the catalog follows whatever it has become.                     *)
AlwaysMarks(r) == TRUE

(* mark_remote_database_*: the caller must still own the database, unless  *)
(* it came with a token, and the catalog must still allow the operation.   *)
MayMark(r) == IsOwner(r.caller) /\ catalog \in MarkNeeds(r.op)

Finished(c) ==
  LET r == request[c] IN
  /\ Arrives(c)
  /\ Journaled(r.op)
  /\ MayMark(r)
  /\ catalog' = Becomes[r.op]
  /\ catalogSnapshot' = IF r.op \in OfFile THEN r.file ELSE catalogSnapshot
  /\ Close(c, "applied")
  /\ Return(c)
  /\ UNCHANGED queue

(* The shard did it, the catalog may not follow.                           *)
MarkRefused(c) ==
  /\ Arrives(c)
  /\ Journaled(request[c].op)
  /\ ~ MayMark(request[c])
  /\ Close(c, "unknown")
  /\ Return(c)
  /\ UNCHANGED <<control, queue>>

(* The answer of a chunk or a SQL write goes straight to the caller.       *)
Passed(c) ==
  /\ Arrives(c)
  /\ ~ Journaled(request[c].op)
  /\ Return(c)
  /\ UNCHANGED <<control, troubles, queue>>

(* An error from the shard.                                                *)
CallRefused(c) ==
  /\ phase[c] = "refused"
  /\ Close(c, "failed")
  /\ Return(c)
  /\ UNCHANGED <<control, queue>>

(* No answer in time.  The shard may have done it, the request may be lost *)
(* or still be on its way.  The code takes this for a refusal.             *)
CallFailed(c) ==
  /\ phase[c] \in {"sent", "ran"}
  /\ \/ queue' = RemoveFirstMatch(queue, LAMBDA m : m.call = c)
     \/ queue' = [i \in DOMAIN queue |-> IF queue[i].call = c
                                         THEN [queue[i] EXCEPT !.call = Nobody]
                                         ELSE queue[i]]
  /\ Close(c, "failed")
  /\ Return(c)
  /\ UNCHANGED control

--------------------------------------------------------------------------------

CallReturns(c) == Finished(c) \/ MarkRefused(c) \/ Passed(c) \/ CallRefused(c) \/ CallFailed(c)

Next == /\ \/ \E c \in Calls : \/ \E r \in Requests : Send(c, r)
                               \/ CallReturns(c)
           \/ \E c \in Calls \cup {Nobody} : ShardRuns(c) \/ ShardRefuses(c)
           \/ \E p \in Principals : Revoke(p) \/ Grant(p)
        /\ UNCHANGED ordered

Spec == Init /\ [][Next]_vars

--------------------------------------------------------------------------------
(* Properties.                                                             *)

(* Every variable holds values of its kind.                                *)
TypeOK ==
  /\ status \in Shard!DatabaseStatuses /\ catalog \in Shard!DatabaseStatuses
  /\ {snapshot, image, chunks, catalogSnapshot} \subseteq Shard!Versions \cup {Blank}
  /\ mounts \in 1..MaxMounts /\ newest \in Shard!Versions
  /\ owners \subseteq Principals
  /\ phase \in [Calls -> {"idle", "sent", "ran", "refused"}]
  /\ request \in [Calls -> Requests \cup {NoRequest}]
  /\ troubles \subseteq {"failed", "unknown"}
  /\ queue \in Seq([call : Calls \cup {Nobody}, request : Requests])
  /\ answers \in Seq(Calls) /\ ordered \in Orders

(* No call waits and no request is on its way.                             *)
Quiet == queue = <<>> /\ \A c \in Calls : phase[c] = "idle"

(* Once all calls have returned, catalog and shard agree on the status, or *)
(* some row of shard_operations tells the operator that they may not: an   *)
(* operation is never reported as applied while it left them apart.        *)
DivergenceIsJournaled == Quiet /\ catalog # status => troubles # {}

(* It holds when the answers arrive in the order the shard gave them.      *)
JournaledInOrder == ordered => DivergenceIsJournaled

(* Where catalog and shard agree that the database is archived or being    *)
(* restored, they agree on the snapshot, and an archived snapshot is the   *)
(* file as it was: every write the shard has run is in it, whatever writes *)
(* and cancelled archives came between the owner's reads.                  *)
SnapshotsAgree ==
  catalog = status =>
    /\ status \in {"archived", "restoring"} => catalogSnapshot = snapshot
    /\ status = "archived" => snapshot = image

(* A cancelled archive or a finished restore opens the database again only *)
(* while the shard has it hot: between the shard's answer and the catalog's *)
(* move, no call that is still on its way has taken the shard further.     *)
OpensHotShard == [][catalog' = "hot" /\ catalog # "hot" => status = "hot"]_control

(* docs/SHARDING.md: the catalog follows each successful transition of the *)
(* shard, so that routing rejects reads and writes of a database that is   *)
(* being archived or restored.                                             *)
RoutingFollowsShard ==
  Quiet /\ catalog = "hot" => status \notin {"archiving", "restoring"}
================================================================================
