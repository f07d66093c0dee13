----------------------------- MODULE ServiceSession -----------------------------
(***************************************************************************)
(* SQL clients of the SDK that share a service env file.  A client connects*)
(* lazily: its first call reads the env file and, when the file names no   *)
(* database, creates one, runs the setup and writes the id back; a failure *)
(* on the way deletes what was created.  Later calls share the cached      *)
(* promise, until close drops it.  Calls are scripts (batches one after the*)
(* other, each under a retry key), versioned migrations, and delete.       *)
(*                                                                         *)
(* Each client is a process of its own.  A step from one await to the next *)
(* is one action, a request and its answer are one action unless the answer*)
(* is lost.  A script is its number of batches, a migration its version.   *)
(***************************************************************************)
EXTENDS Integers, Sequences, SequencesExt, FiniteSetsExt

CONSTANTS Clients,      \* processes
          MaxDb,        \* bound: databases are 1..MaxDb, in the order of their creation
          Chunks,       \* batches of the script
          MaxVersion,   \* migrations are 1..MaxVersion, in the order listed
          Sessions      \* kinds of session: where a client finds its database, the clients
                        \* that run, what they do and how often (a bound), whether the user
                        \* closes a client only when it is connected, and what may fail

Ids == 1..MaxDb
NoDb == 0
Operations == {"script", "migrate", "delete", "createDb"}
Faults == {"setup", "write", "lost", "crash"}

ASSUME Bounds ==
  /\ {MaxDb, Chunks, MaxVersion} \subseteq Nat \ {0}
  /\ \A s \in Sessions : /\ s.source \in {"file", "memory"} /\ s.clients \subseteq Clients
                         /\ s.may \subseteq Operations \union {"close"} /\ s.ops \in Nat
                         /\ s.patient \in BOOLEAN /\ s.faults \subseteq Faults

VARIABLES file,      \* the env file: has it the identity, the database it names, setup SQL
          remote,    \* the databases at the canister
          cell,      \* of each client: the cached promise, deleted, the id it remembers
          attempts,  \* of each client: the connections it started
          calls,     \* of each client: the calls of its user
          session, budget

vars == <<file, remote, cell, attempts, calls, session, budget>>

Torn == [key |-> FALSE, db |-> NoDb, setup |-> FALSE]
Fresh == [status |-> "free", ready |-> FALSE, chunks |-> <<>>, table |-> FALSE, versions |-> <<>>]
Unconnected == [promise |-> 0, deleted |-> FALSE, known |-> NoDb]
Ended == {"ok", "failed"}
Settled == {"done", "failed"}
May(op) == op \in session.may
Breaks(fault) == fault \in session.faults

-----------------------------------------------------------------------------
(* The lazy connection.                                                    *)

NewAttempt(c) ==
  [stage |-> IF session.source = "file" THEN "load"
             ELSE IF cell[c].known = NoDb THEN "create" ELSE "done",
   env |-> Torn, id |-> cell[c].known, closed |-> FALSE, lazy |-> TRUE]

(* database(): the cached promise, or a new attempt that becomes it.       *)
database(c) ==
  LET cached == cell[c].promise # 0
  IN [at |-> IF cached THEN cell[c].promise ELSE Len(attempts[c]) + 1,
      attempts |-> IF cached THEN attempts[c] ELSE Append(attempts[c], NewAttempt(c))]

Connect(c) == /\ attempts' = [attempts EXCEPT ![c] = database(c).attempts]
              /\ cell' = [cell EXCEPT ![c].promise = database(c).at]

(* Mutant: whatever is cached is forgotten.                                *)
ForgetAny(c, i) == [cell EXCEPT ![c].promise = 0]

(* A rejected attempt is forgotten unless another has taken its place.     *)
Forget(c, i) == IF cell[c].promise = i THEN [cell EXCEPT ![c].promise = 0] ELSE cell

Becomes(c, i, a) ==
  /\ attempts' = [attempts EXCEPT ![c][i] = a]
  /\ cell' = IF a.stage = "failed" /\ a.lazy THEN Forget(c, i) ELSE cell
Goes(c, i, stage) == Becomes(c, i, [attempts[c][i] EXCEPT !.stage = stage])

At(c, i, stage) == i \in DOMAIN attempts[c] /\ attempts[c][i].stage = stage

(* Mutant: whatever the file names is connected to.                        *)
connectsAnyway(c, i) ==
  /\ At(c, i, "load")
  /\ Becomes(c, i, [attempts[c][i] EXCEPT !.env = file, !.stage = "done", !.id = file.db])
  /\ UNCHANGED <<file, remote>>

(* The env file is read: it names a database, or one has to be created.    *)
LoadEnv(c, i) ==
  LET a == [attempts[c][i] EXCEPT !.env = file]
  IN /\ At(c, i, "load")
     /\ Becomes(c, i,
          IF ~file.key \/ (file.db # NoDb /\ (file.setup \/ ~a.lazy)) \/ (~a.lazy /\ file.setup)
          THEN [a EXCEPT !.stage = "failed"]
          ELSE IF file.db # NoDb THEN [a EXCEPT !.stage = "done", !.id = file.db]
          ELSE [a EXCEPT !.stage = "create"])
     /\ UNCHANGED <<file, remote>>

(* Mutant: the setup is left for later.                                    *)
createsUnready(c, i) ==
  LET free == {d \in Ids : remote[d].status = "free"}
  IN /\ At(c, i, "create") /\ free # {}
     /\ remote' = [remote EXCEPT ![Min(free)].status = "hot"]
     /\ Becomes(c, i, [attempts[c][i] EXCEPT !.stage = "persist", !.id = Min(free)])
     /\ UNCHANGED file

(* A creation is refused when there is no room.                            *)
CreateDatabase(c, i) ==
  LET free == {d \in Ids : remote[d].status = "free"}
      a == attempts[c][i]
      created == [remote EXCEPT ![Min(free)].status = "hot"]
  IN /\ At(c, i, "create")
     /\ \/ /\ free # {} /\ remote' = created
           /\ Becomes(c, i, [a EXCEPT !.stage = "setup", !.id = Min(free)])
        \/ free = {} /\ UNCHANGED remote /\ Goes(c, i, "failed")
        \/ free # {} /\ Breaks("lost") /\ remote' \in {remote, created} /\ Goes(c, i, "failed")
     /\ UNCHANGED file

(* The setup, when the env or the command line asks for one (a client that *)
(* remembers its database is given a setup by its options).                *)
Setup(c, i, afterFailure, remembered) ==
  LET a == attempts[c][i]
      wanted == a.env.setup \/ ~a.lazy \/ session.source = "memory"
      toFile == session.source = "file"
  IN /\ At(c, i, "setup")
     /\ \/ /\ remote' = [remote EXCEPT ![a.id].ready = TRUE]
           /\ attempts' = [attempts EXCEPT ![c][i].stage = IF toFile THEN "persist" ELSE "done"]
           /\ cell' = IF toFile THEN cell ELSE [cell EXCEPT ![c].known = remembered]
        \/ /\ wanted /\ (Breaks("setup") \/ Breaks("lost"))
           /\ Goes(c, i, afterFailure) /\ UNCHANGED remote
     /\ UNCHANGED file

(* Mutants: a failed setup leaves the database, the id is not remembered.  *)
setupLeavesDatabase(c, i) == Setup(c, i, "failed", attempts[c][i].id)
forgetsDatabase(c, i) == Setup(c, i, "undo", NoDb)

applyCreateSetup(c, i) == Setup(c, i, "undo", attempts[c][i].id)

(* The id is written back: the file is read again, truncated, filled with  *)
(* what was read without the setup, and its mode set.                      *)
persistReads(c, i) ==
  /\ At(c, i, "persist")
  /\ \/ Becomes(c, i, [attempts[c][i] EXCEPT !.stage = "truncate", !.env = file])
     \/ Breaks("write") /\ Goes(c, i, "undo")
  /\ UNCHANGED <<file, remote>>

persistTruncates(c, i) ==
  /\ At(c, i, "truncate")
  /\ \/ file' = Torn /\ Goes(c, i, "fill")
     \/ Breaks("write") /\ file' \in {file, Torn} /\ Goes(c, i, "undo")
  /\ UNCHANGED remote

persistFills(c, i) ==
  LET a == attempts[c][i]
  IN /\ At(c, i, "fill")
     /\ file' = [key |-> a.env.key, db |-> a.id, setup |-> FALSE]
     /\ Goes(c, i, "done") \/ (Breaks("write") /\ Goes(c, i, "undo"))
     /\ UNCHANGED remote

(* A failure after the creation: the database is deleted, if that succeeds,*)
(* and the attempt is rejected with the first error.                       *)
deleteCreated(c, i) ==
  LET undone == [remote EXCEPT ![attempts[c][i].id].status = "undone"]
  IN /\ At(c, i, "undo")
     /\ remote' \in IF Breaks("lost") THEN {remote, undone} ELSE {undone}
     /\ Goes(c, i, "failed")
     /\ UNCHANGED file

Attempt(c) ==
  /\ \E i \in DOMAIN attempts[c] :
       \/ LoadEnv(c, i) \/ CreateDatabase(c, i) \/ applyCreateSetup(c, i)
       \/ persistReads(c, i) \/ persistTruncates(c, i) \/ persistFills(c, i) \/ deleteCreated(c, i)
  /\ UNCHANGED <<calls, session, budget>>

-----------------------------------------------------------------------------
(* The calls.                                                              *)

Pending(c, k, stage) == k \in DOMAIN calls[c] /\ calls[c][k].stage = stage
HandleOf(c, k) == attempts[c][calls[c][k].at]
Handle(c, k, stage) == Pending(c, k, stage) /\ HandleOf(c, k).stage = "done"
Hot(d) == remote[d].status = "hot"

Return(c, k, call) == calls' = [calls EXCEPT ![c][k] = call] /\ UNCHANGED <<cell, attempts>>
End(c, k, stage) == Return(c, k, [calls[c][k] EXCEPT !.stage = stage])

(* The next request of a migration asks for the database again.            *)
AskAgain(c, k, call) ==
  IF cell[c].deleted THEN End(c, k, "failed")
  ELSE /\ Connect(c)
       /\ calls' = [calls EXCEPT ![c][k] = [call EXCEPT !.at = database(c).at]]

(* A request that changes the database: done, refused, or its answer lost. *)
Request(c, k, accepted, changed, goesOn) ==
  \/ accepted /\ remote' = changed /\ goesOn
  \/ ~accepted /\ UNCHANGED remote /\ End(c, k, "failed")
  \/ Breaks("lost") /\ remote' \in {remote, IF accepted THEN changed ELSE remote} /\ End(c, k, "failed")

(* Mutant: a migration whose connection is rejected is never told.         *)
rejectedUnheard(c, k) ==
  /\ k \in DOMAIN calls[c] /\ calls[c][k].stage \notin Ended \union {"migrate"}
  /\ HandleOf(c, k).stage = "failed"
  /\ End(c, k, "failed") /\ UNCHANGED remote

Rejected(c, k) ==
  /\ k \in DOMAIN calls[c] /\ calls[c][k].stage \notin Ended
  /\ HandleOf(c, k).stage = "failed"
  /\ End(c, k, "failed") /\ UNCHANGED remote

(* A batch of the script.  Its key is that of the script with the number of*)
(* the batch, so that a batch which has been applied is answered again.    *)
Batch(c, k, replayed) ==
  LET call == calls[c][k]
      d == HandleOf(c, k).id
      n == call.step
  IN /\ Handle(c, k, "script")
     /\ Request(c, k, Hot(d),
                IF n \in replayed THEN remote ELSE [remote EXCEPT ![d].chunks = Append(@, n)],
                Return(c, k, IF n = Chunks THEN [call EXCEPT !.stage = "ok"]
                             ELSE [call EXCEPT !.step = n + 1]))

(* Mutant: a retry under a new key.                                        *)
scriptWithNewKey(c, k) == Batch(c, k, {})

executeStatementBatches(c, k) == Batch(c, k, ToSet(remote[HandleOf(c, k).id].chunks))

(* migrate: the table of versions is made when missing, the versions read, *)
(* each missing migration run in one batch with its version, a primary key.*)
ensureMigrationTable(c, k) ==
  LET call == calls[c][k]
      d == HandleOf(c, k).id
  IN \/ /\ Handle(c, k, "migrate") /\ Hot(d) /\ UNCHANGED remote
        /\ AskAgain(c, k, [call EXCEPT !.stage = IF remote[d].table THEN "versions" ELSE "table"])
     \/ /\ Handle(c, k, "migrate") /\ (~Hot(d) \/ Breaks("lost")) /\ UNCHANGED remote
        /\ End(c, k, "failed")
     \/ /\ Handle(c, k, "table")
        /\ Request(c, k, Hot(d) /\ ~remote[d].table, [remote EXCEPT ![d].table = TRUE],
                   AskAgain(c, k, [call EXCEPT !.stage = "versions"]))

Proceed(c, k, seen) ==
  LET missing == 1..MaxVersion \ seen
      call == [calls[c][k] EXCEPT !.seen = seen]
  IN IF missing = {} THEN Return(c, k, [call EXCEPT !.stage = "ok"])
     ELSE AskAgain(c, k, [call EXCEPT !.stage = "apply", !.step = Min(missing)])

readVersions(c, k) ==
  LET d == HandleOf(c, k).id
      readable == Hot(d) /\ remote[d].table
  IN /\ Handle(c, k, "versions")
     /\ \/ readable /\ Proceed(c, k, ToSet(remote[d].versions))
        \/ (~readable \/ Breaks("lost")) /\ End(c, k, "failed")
     /\ UNCHANGED remote

(* Mutant: goes on with the next migration after a failure.                *)
migrateGoesOn(c, k) ==
  LET call == calls[c][k]
      d == HandleOf(c, k).id
  IN /\ Handle(c, k, "apply") /\ Hot(d) /\ call.step \notin ToSet(remote[d].versions)
     /\ remote' \in {remote, [remote EXCEPT ![d].versions = Append(@, call.step)]}
     /\ Proceed(c, k, call.seen \union {call.step})

migrate(c, k) ==
  LET call == calls[c][k]
      d == HandleOf(c, k).id
  IN /\ Handle(c, k, "apply")
     /\ Request(c, k, Hot(d) /\ remote[d].table /\ call.step \notin ToSet(remote[d].versions),
                [remote EXCEPT ![d].versions = Append(@, call.step)],
                Proceed(c, k, call.seen \union {call.step}))

deleteDatabase(c, k) ==
  LET d == HandleOf(c, k).id
      deleted == [remote EXCEPT ![d].status = "deleted"]
  IN /\ Handle(c, k, "delete")
     /\ \/ /\ Hot(d) /\ remote' = deleted
           /\ calls' = [calls EXCEPT ![c][k].stage = "ok"]
           /\ cell' = [cell EXCEPT ![c].promise = 0, ![c].deleted = TRUE]
           /\ UNCHANGED attempts
        \/ ~Hot(d) /\ UNCHANGED remote /\ End(c, k, "failed")
        \/ Hot(d) /\ Breaks("lost") /\ remote' \in {remote, deleted} /\ End(c, k, "failed")

createDatabaseFromCreateDbOptions(c, k) ==
  Handle(c, k, "createDb") /\ End(c, k, "ok") /\ UNCHANGED remote

Call(c) ==
  /\ \E k \in DOMAIN calls[c] :
       \/ Rejected(c, k) \/ executeStatementBatches(c, k) \/ ensureMigrationTable(c, k)
       \/ readVersions(c, k) \/ migrate(c, k) \/ deleteDatabase(c, k)
       \/ createDatabaseFromCreateDbOptions(c, k)
  /\ UNCHANGED <<file, session, budget>>

-----------------------------------------------------------------------------
(* The user.                                                               *)

Acts(c, op) == /\ budget > 0 /\ May(op) /\ c \in session.clients
               /\ budget' = budget - 1
               /\ UNCHANGED <<file, remote, session>>

NewCall(op, at) == [stage |-> op, at |-> at, step |-> 1, seen |-> {}]

Begin(c, op) ==
  /\ Acts(c, op) /\ op # "createDb" /\ ~cell[c].deleted
  /\ Connect(c)
  /\ calls' = [calls EXCEPT ![c] = Append(@, NewCall(op, database(c).at))]

(* create-db with setup options: a creation of its own, not the client's.  *)
BeginCreateDb(c) ==
  /\ Acts(c, "createDb")
  /\ attempts' = [attempts EXCEPT ![c] =
                    Append(@, [stage |-> "load", env |-> Torn, id |-> NoDb, closed |-> FALSE,
                               lazy |-> FALSE])]
  /\ calls' = [calls EXCEPT ![c] = Append(@, NewCall("createDb", Len(attempts[c]) + 1))]
  /\ UNCHANGED cell

(* close, and reconnect: the cached promise is dropped, resolved or not.   *)
closeCachedDatabase(c) ==
  /\ Acts(c, "close") /\ cell[c].promise # 0
  /\ session.patient => attempts[c][cell[c].promise].stage = "done"
  /\ cell' = [cell EXCEPT ![c].promise = 0]
  /\ attempts' = [attempts EXCEPT ![c][cell[c].promise].closed = TRUE]
  /\ UNCHANGED calls

(* The process dies and is started again.                                  *)
Crash(c) ==
  /\ Breaks("crash") /\ budget > 0 /\ c \in session.clients
  /\ attempts[c] # <<>>
  /\ budget' = budget - 1
  /\ cell' = [cell EXCEPT ![c] = Unconnected]
  /\ attempts' = [attempts EXCEPT ![c] = <<>>]
  /\ calls' = [calls EXCEPT ![c] = <<>>]
  /\ UNCHANGED <<file, remote, session>>

Init ==
  /\ file \in {[key |-> TRUE, db |-> NoDb, setup |-> s] : s \in BOOLEAN}
  /\ remote = [d \in Ids |-> Fresh]
  /\ cell = [c \in Clients |-> Unconnected]
  /\ attempts = [c \in Clients |-> <<>>]
  /\ calls = [c \in Clients |-> <<>>]
  /\ session \in Sessions
  /\ budget = session.ops

Next == \E c \in Clients :
          \/ Attempt(c) \/ Call(c) \/ BeginCreateDb(c) \/ closeCachedDatabase(c) \/ Crash(c)
          \/ \E op \in Operations : Begin(c, op)

Spec == Init /\ [][Next]_vars

(* The event loop of each process resumes what it awaits; requests and     *)
(* file operations end, with an answer or an error.                        *)
FairSpec == Spec /\ \A c \in Clients : WF_vars(Attempt(c)) /\ WF_vars(Call(c))
-----------------------------------------------------------------------------
Envs == [key : BOOLEAN, db : 0..MaxDb, setup : BOOLEAN]
Stages == {"load", "create", "setup", "persist", "truncate", "fill", "undo"} \union Settled

TypeOK ==
  /\ file \in Envs
  /\ \A d \in Ids : /\ remote[d].status \in {"free", "hot", "deleted", "undone"}
                    /\ ToSet(remote[d].versions) \subseteq 1..MaxVersion
  /\ \A c \in Clients :
       /\ cell[c].promise \in 0..Len(attempts[c]) /\ cell[c].known \in 0..MaxDb
       /\ \A i \in DOMAIN attempts[c] : LET a == attempts[c][i]
                                        IN /\ a.stage \in Stages /\ a.env \in Envs
                                           /\ a.stage # "failed" /\ a.stage # "load" /\
                                              a.stage # "create" => a.id \in Ids
       /\ \A k \in DOMAIN calls[c] : calls[c][k].at \in DOMAIN attempts[c]

(* At most one connection is under way that the client has not closed, and *)
(* it is the one that the next call will share.                            *)
SingleFlight ==
  \A c \in Clients : \A i \in DOMAIN attempts[c] :
    LET a == attempts[c][i]
    IN a.lazy /\ ~a.closed /\ a.stage \notin Settled /\ ~cell[c].deleted => cell[c].promise = i

(* Unless the file system fails, the database named by the env file was set*)
(* up completely and never deleted by the cleanup of a creation, whichever *)
(* processes share the file, crash or lose answers.                        *)
FileNamesReady ==
  ~Breaks("write") /\ file.db # NoDb => /\ remote[file.db].ready
                                        /\ remote[file.db].status \in {"hot", "deleted"}

(* Unless a process dies or an answer is lost, every database that exists  *)
(* was handed to a caller or is being set up, persisted or deleted.        *)
NothingIsLeft ==
  session.faults \subseteq {"setup", "write"} =>
    \A d \in Ids : remote[d].status = "hot" =>
      \E c \in Clients : \E i \in DOMAIN attempts[c] :
        attempts[c][i].id = d /\ attempts[c][i].stage # "failed"

(* One client that is closed only when connected, without create-db beside *)
(* it, creates one database and keeps it, unless the creation fails or its *)
(* answer is lost.                                                         *)
Alone == /\ session.patient /\ ~May("createDb") /\ session.faults \subseteq {"setup", "write"}
         /\ \E c \in Clients : session.clients = {c}
CreatesOnce == Alone => Cardinality({d \in Ids : remote[d].status \in {"hot", "deleted"}}) <= 1

(* A script, retried under its key or run by several clients at once,      *)
(* leaves each database with a prefix of its batches, each applied once,   *)
(* and never runs ahead of its database.                                   *)
ScriptIsPrefix ==
  /\ \A d \in Ids : \A n \in DOMAIN remote[d].chunks : remote[d].chunks[n] = n
  /\ \A c \in Clients : \A k \in DOMAIN calls[c] :
       calls[c][k].stage = "script" /\ calls[c][k].step > 1 =>
         Len(remote[HandleOf(c, k).id].chunks) >= calls[c][k].step - 1

(* Migrations are applied once and in order, also when clients migrate the *)
(* same database at once, answers are lost and migrate is called again.    *)
MigrationsInOrder ==
  ~May("close") => \A d \in Ids : \A n \in DOMAIN remote[d].versions : remote[d].versions[n] = n

(* Every call comes to an end.                                             *)
CallsEnd == \A c \in Clients : (\E k \in DOMAIN calls[c] : calls[c][k].stage \notin Ended)
                               ~> (\A k \in DOMAIN calls[c] : calls[c][k].stage \in Ended)
=============================================================================
