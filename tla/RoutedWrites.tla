------------------------------ MODULE RoutedWrites ------------------------------
(***************************************************************************)
(* A SQL write to a database that lives on a shard canister.               *)
(*                                                                         *)
(* The control canister journals the write in routed_operations, awaits    *)
(* sql_execute_internal (or sql_batch_internal) on the shard, awaits       *)
(* database_usage_internal, then charges the database and marks the        *)
(* journal row.  A canister message runs atomically up to its next await,  *)
(* so an action here is the code between two awaits.  Any number of calls  *)
(* may be suspended at an await at once.  Calls are bounded-wait: the      *)
(* caller may get an error although the callee ran, or will still run.     *)
(*                                                                         *)
(* One remote, hot database is modelled.  A call that is refused without   *)
(* changing any state (no role, database not hot, suspended billing, key   *)
(* reused for another request, outcome unknown) takes no step.             *)
(***************************************************************************)
EXTENDS Integers, FiniteSets

CONSTANTS
  Calls,        \* call contexts of sql_execute / sql_batch, HTTP or Candid
  Reconcilers,  \* call contexts of reconcile_routed_operation
  Keys,         \* idempotency keys: operation_id of routed and data-plane operations
  Bodies,       \* requests, told apart by method and request_hash
  NoBody,       \* no such operation
  Principals,   \* callers checked against database_members
  Tokens,       \* bearer tokens of write scope
  Cost,         \* Cost[b]: billing units of request b
  InitBalance,  \* billing_balance_units at the start
  TopUpUnits,   \* units of one top_up_database_balance
  MaxTopUps     \* bound: number of top-ups

Callers == Principals \cup Tokens

ASSUME CostAssumption == /\ Cost \in [Bodies -> Nat \ {0}]
                         /\ NoBody \notin Bodies
ASSUME ContextAssumption == Calls \cap Reconcilers = {}
ASSUME BalanceAssumption == /\ InitBalance \in Nat
                            /\ TopUpUnits \in Nat \ {0}
                            /\ MaxTopUps \in Nat

VARIABLES
  status,       \* control: routed_operations.status per key, "none" without a row
  body,         \* control: routed_operations.method and request_hash per key
  balance,      \* control: databases.billing_balance_units
  spent,        \* control: databases.billing_spent_units
  billing,      \* control: databases.billing_status
  controlSize,  \* control: databases.logical_size_bytes, as a version of the image
  writers,      \* control: callers with the writer role, tokens not revoked
  dpBody,       \* shard: data_plane_operations, the request applied per key
  shardSize,    \* shard: version of the SQLite image, advanced by every write
  phase,        \* where each call context stands, see CallPhases
  arg,          \* the request each call carries
  target,       \* the key each reconciliation works on
  read,         \* the logical size the usage call of a context answered
  late,         \* calls given up by control whose request the shard may still run
  topUps,       \* number of top-ups so far, bounded by MaxTopUps
  executed,     \* history: times the image was changed under a key
  charges       \* history: times a key was charged

journal == <<status, body>>
account == <<balance, spent, billing, charges>>
shard   == <<dpBody, shardSize, executed>>
inputs  == <<arg, target, read, late>>
vars    == <<journal, account, controlSize, writers, shard, phase, inputs, topUps>>

Contexts == Calls \cup Reconcilers
Requests == [key : Keys, body : Bodies, caller : Callers]
NoRequest == [key |-> "none"]

Statuses == {"none", "pending", "applied", "failed", "unknown"}

(* "idle": not called yet.  "write": awaiting the shard's SQL call.        *)
(* "written", "refused": the shard ran it, the answer travels back.        *)
(* "usage": awaiting database_usage_internal.  "sized": its answer         *)
(* travels back.  The others are returned calls: "ok" and "replayed"       *)
(* returned success, "failed" and "unknown" an error after marking the     *)
(* journal row so, "exhausted" an error because units ran out.             *)
Waiting    == {"write", "written", "refused", "usage", "sized"}
Returned   == {"ok", "replayed", "failed", "unknown", "exhausted"}
CallPhases == {"idle"} \cup Waiting \cup Returned

(* "proof": awaiting get_data_plane_operation_internal.                    *)
ReconcilePhases == {"idle", "proof", "usage", "sized", "done"}

Init ==
  /\ status = [k \in Keys |-> "none"]
  /\ body = [k \in Keys |-> NoBody]
  /\ balance = InitBalance
  /\ spent = 0
  /\ billing = "active"
  /\ controlSize = 0
  /\ writers = Callers
  /\ dpBody = [k \in Keys |-> NoBody]
  /\ shardSize = 0
  /\ phase = [x \in Contexts |-> "idle"]
  /\ arg = [c \in Calls |-> NoRequest]
  /\ target = [r \in Reconcilers |-> "none"]
  /\ read = [x \in Contexts |-> 0]
  /\ late = {}
  /\ topUps = 0
  /\ executed = [k \in Keys |-> 0]
  /\ charges = [k \in Keys |-> 0]

--------------------------------------------------------------------------------
(* Billing on the control canister.                                        *)

HasUnits(b) == billing = "active" /\ balance >= Cost[b]

(* Mutant: a charge may overdraw the balance.                              *)
Unclamped(n) == n

Clamp(n) == IF n > 0 THEN n ELSE 0

(* Mutant: a charge is not counted as spent.                               *)
Unrecorded(k, b) ==
  /\ balance' = Clamp(balance - Cost[b])
  /\ charges' = [charges EXCEPT ![k] = @ + 1]
  /\ UNCHANGED <<spent, billing>>

(* charge_database_units: the balance is clamped at zero, spent is not.    *)
ChargeUnits(k, b) ==
  /\ balance' = Clamp(balance - Cost[b])
  /\ spent' = spent + Cost[b]
  /\ charges' = [charges EXCEPT ![k] = @ + 1]
  /\ UNCHANGED billing

TopUp ==
  /\ topUps < MaxTopUps
  /\ topUps' = topUps + 1
  /\ balance' = balance + TopUpUnits
  /\ billing' = "active"
  /\ UNCHANGED <<journal, spent, charges, controlSize, writers, shard, phase, inputs>>

(* Another message's change of members or tokens between two awaits.  A    *)
(* revoked token stays revoked.                                            *)
Revoke(p) ==
  /\ p \in writers
  /\ writers' = writers \ {p}
  /\ UNCHANGED <<journal, account, controlSize, shard, phase, inputs, topUps>>

Grant(p) ==
  /\ p \in Principals \ writers
  /\ writers' = writers \cup {p}
  /\ UNCHANGED <<journal, account, controlSize, shard, phase, inputs, topUps>>

--------------------------------------------------------------------------------
(* The write handler up to its first await.                                *)

Enter(c, r, p) ==
  /\ phase' = [phase EXCEPT ![c] = p]
  /\ arg' = [arg EXCEPT ![c] = r]
  /\ UNCHANGED <<controlSize, writers, shard, target, read, late, topUps>>

(* A replay must repeat the request the row was written for.               *)
SameRequest(r) == body[r.key] = r.body

(* The units check comes before the journal is looked at, so it also hits  *)
(* the retry of an applied write.                                          *)
StartExhausted(c, r) ==
  /\ phase[c] = "idle"
  /\ r.caller \in writers
  /\ billing = "active" /\ balance < Cost[r.body]
  /\ billing' = "suspended"
  /\ Enter(c, r, "exhausted")
  /\ UNCHANGED <<journal, balance, spent, charges>>

(* Mutant: a pending row is answered as a replay.                          *)
ReplayableEarly(k) == status[k] \in {"pending", "applied"}

Replayable(k) == status[k] = "applied"

StartReplay(c, r) ==
  /\ phase[c] = "idle"
  /\ r.caller \in writers
  /\ HasUnits(r.body)
  /\ Replayable(r.key) /\ SameRequest(r)
  /\ Enter(c, r, "replayed")
  /\ UNCHANGED <<journal, account>>

(* A missing row is inserted as pending.  A pending or failed row of the   *)
(* same request is taken as it is and the call goes ahead.                 *)
StartWrite(c, r) ==
  /\ phase[c] = "idle"
  /\ r.caller \in writers
  /\ HasUnits(r.body)
  /\ \/ /\ status[r.key] = "none"
        /\ status' = [status EXCEPT ![r.key] = "pending"]
        /\ body' = [body EXCEPT ![r.key] = r.body]
     \/ /\ status[r.key] \in {"pending", "failed"} /\ SameRequest(r)
        /\ UNCHANGED journal
  /\ Enter(c, r, "write")
  /\ UNCHANGED account

--------------------------------------------------------------------------------
(* The shard: one atomic message.                                          *)

(* The call sits in the shard's queue, with or without a waiting caller.   *)
Deliverable(c) == phase[c] = "write" \/ c \in late

(* Mutant: a key is run again.                                             *)
AlwaysFresh(k) == TRUE

(* The data-plane operation log has no entry of this key yet.              *)
Fresh(k) == dpBody[k] = NoBody

Answer(c, p) ==
  /\ phase' = IF phase[c] = "write" THEN [phase EXCEPT ![c] = p] ELSE phase
  /\ late' = late \ {c}
  /\ UNCHANGED <<journal, account, controlSize, writers, arg, target, read, topUps>>

ShardExecute(c) ==
  LET r == arg[c] IN
  /\ Deliverable(c)
  /\ Fresh(r.key)
  /\ dpBody' = [dpBody EXCEPT ![r.key] = r.body]
  /\ shardSize' = shardSize + 1
  /\ executed' = [executed EXCEPT ![r.key] = @ + 1]
  /\ Answer(c, "written")

(* "already applied", an SQL error or a database that is not hot.          *)
ShardRefuse(c) ==
  /\ Deliverable(c)
  /\ Answer(c, "refused")
  /\ UNCHANGED shard

(* database_usage_internal, for a write or a reconciliation.               *)
ShardUsage(x) ==
  /\ phase[x] = "usage"
  /\ phase' = [phase EXCEPT ![x] = "sized"]
  /\ read' = [read EXCEPT ![x] = shardSize]
  /\ UNCHANGED <<journal, account, controlSize, writers, shard, arg, target, late, topUps>>

--------------------------------------------------------------------------------
(* The write handler after its awaits.                                     *)

(* Mutant: the row keeps its status.                                       *)
MarkForgotten(c, s) == phase' = [phase EXCEPT ![c] = s] /\ UNCHANGED journal

(* update_routed_operation_status overwrites the row whatever another call *)
(* of the same key has made of it meanwhile.                               *)
Mark(c, s) ==
  /\ phase' = [phase EXCEPT ![c] = s]
  /\ status' = [status EXCEPT ![arg[c].key] = s]
  /\ UNCHANGED body

WriteAnswered(c) ==
  /\ phase[c] = "written"
  /\ phase' = [phase EXCEPT ![c] = "usage"]
  /\ UNCHANGED <<journal, account, controlSize, writers, shard, inputs, topUps>>

(* Mutant: every error of a call counts as an unknown outcome.             *)
MarkedAsUnknown == "unknown"

CallErrorMark == "failed"

(* A bounded-wait call fails when the callee refuses, or when no answer    *)
(* came in time: the shard has run the call then, or may still run it.     *)
CallMayFail == {"write", "written", "refused"}

WriteFailed(c) ==
  /\ phase[c] \in CallMayFail
  /\ late' = IF phase[c] = "write" THEN late \cup {c} ELSE late
  /\ Mark(c, CallErrorMark)
  /\ UNCHANGED <<account, controlSize, writers, shard, arg, target, read, topUps>>

UsageFailed(c) ==
  /\ phase[c] \in {"usage", "sized"}
  /\ Mark(c, "unknown")
  /\ UNCHANGED <<account, controlSize, writers, shard, inputs, topUps>>

(* complete_routed_write looks the caller's role up again, its token twin  *)
(* trusts the scope read before the first await.                           *)
MayComplete(c) == arg[c].caller \in Principals => arg[c].caller \in writers

CompleteWrite(c) ==
  /\ phase[c] = "sized"
  /\ MayComplete(c)
  /\ ChargeUnits(arg[c].key, arg[c].body)
  /\ controlSize' = read[c]
  /\ phase' = [phase EXCEPT ![c] = "ok"]
  /\ status' = [status EXCEPT ![arg[c].key] = "applied"]
  /\ UNCHANGED <<body, writers, shard, inputs, topUps>>

CompletionRefused(c) ==
  /\ phase[c] = "sized"
  /\ ~ MayComplete(c)
  /\ Mark(c, "unknown")
  /\ UNCHANGED <<account, controlSize, writers, shard, inputs, topUps>>

--------------------------------------------------------------------------------
(* reconcile_routed_operation, a controller's call: the row must be        *)
(* unknown before the awaits and still be unknown after them.              *)

(* Mutant: the status of the row is not looked at.                         *)
AnyRow(k) == status[k] # "none"

OutcomeUnknown(k) == status[k] = "unknown"

ReconcileStart(r, k) ==
  /\ phase[r] = "idle"
  /\ OutcomeUnknown(k)
  /\ phase' = [phase EXCEPT ![r] = "proof"]
  /\ target' = [target EXCEPT ![r] = k]
  /\ UNCHANGED <<journal, account, controlSize, writers, shard, arg, read, late, topUps>>

(* get_data_plane_operation_internal: the proof of the row's own request.  *)
ReconcileProof(r) ==
  /\ phase[r] = "proof"
  /\ dpBody[target[r]] # NoBody
  /\ dpBody[target[r]] = body[target[r]]
  /\ phase' = [phase EXCEPT ![r] = "usage"]
  /\ UNCHANGED <<journal, account, controlSize, writers, shard, inputs, topUps>>

(* No proof, another request's proof, a row no longer unknown, or a failed *)
(* call: nothing changes.                                                  *)
ReconcileFailed(r) ==
  /\ phase[r] \in {"proof", "usage", "sized"}
  /\ phase' = [phase EXCEPT ![r] = "done"]
  /\ UNCHANGED <<journal, account, controlSize, writers, shard, inputs, topUps>>

ReconcileFinish(r) ==
  LET k == target[r] IN
  /\ phase[r] = "sized"
  /\ OutcomeUnknown(k)
  /\ ChargeUnits(k, body[k])
  /\ controlSize' = read[r]
  /\ phase' = [phase EXCEPT ![r] = "done"]
  /\ status' = [status EXCEPT ![k] = "applied"]
  /\ UNCHANGED <<body, writers, shard, inputs, topUps>>

--------------------------------------------------------------------------------

CallStep(c) ==
  \/ \E r \in Requests : StartExhausted(c, r) \/ StartReplay(c, r) \/ StartWrite(c, r)
  \/ ShardExecute(c) \/ ShardRefuse(c) \/ ShardUsage(c)
  \/ WriteAnswered(c) \/ WriteFailed(c) \/ UsageFailed(c)
  \/ CompleteWrite(c) \/ CompletionRefused(c)

ReconcileStep(r) ==
  \/ \E k \in Keys : ReconcileStart(r, k)
  \/ ReconcileProof(r) \/ ShardUsage(r) \/ ReconcileFailed(r) \/ ReconcileFinish(r)

Next == \/ \E c \in Calls : CallStep(c)
        \/ \E r \in Reconcilers : ReconcileStep(r)
        \/ \E p \in Callers : Revoke(p) \/ Grant(p)
        \/ TopUp

Spec == Init /\ [][Next]_vars

(* The platform answers every bounded-wait call, if only with a timeout,   *)
(* and runs the callback: a suspended handler always goes on.  Nothing is  *)
(* assumed of the shard, of clients or of controllers.                     *)
CallReturns(c) == \/ WriteAnswered(c) \/ WriteFailed(c) \/ UsageFailed(c)
                  \/ CompleteWrite(c) \/ CompletionRefused(c)

FairSpec == /\ Spec
            /\ \A c \in Calls : WF_vars(CallReturns(c))
            /\ \A r \in Reconcilers : WF_vars(ReconcileFinish(r) \/ ReconcileFailed(r))

--------------------------------------------------------------------------------
(* Properties.                                                             *)

(* Every variable holds values of its kind.                                *)
TypeOK ==
  /\ status \in [Keys -> Statuses]
  /\ body \in [Keys -> Bodies \cup {NoBody}]
  /\ balance \in Nat /\ spent \in Nat
  /\ billing \in {"active", "suspended"}
  /\ controlSize \in Nat
  /\ writers \subseteq Callers
  /\ dpBody \in [Keys -> Bodies \cup {NoBody}]
  /\ shardSize \in Nat
  /\ phase \in [Contexts -> CallPhases \cup ReconcilePhases]
  /\ arg \in [Calls -> Requests \cup {NoRequest}]
  /\ target \in [Reconcilers -> Keys \cup {"none"}]
  /\ read \in [Contexts -> Nat]
  /\ late \subseteq Calls
  /\ topUps \in 0..MaxTopUps
  /\ executed \in [Keys -> Nat]
  /\ charges \in [Keys -> Nat]

(* A key changes the SQLite image at most once, whatever the client        *)
(* retries, however many calls of the key run at once, and even when the   *)
(* shard runs a call its caller has given up.                              *)
AppliedAtMostOnce == \A k \in Keys : executed[k] <= 1

(* A key is charged at most once, and only after the image was changed     *)
(* under it: completions, retries and reconciliations racing for the same  *)
(* row never charge it twice, and a write that never ran costs nothing.    *)
ChargedAtMostOnce == \A k \in Keys : charges[k] <= executed[k] /\ charges[k] <= 1

(* A caller told that its write succeeded, by its own call or by a replay, *)
(* has the very request it sent in the image and paid for.                 *)
AcknowledgedWasApplied ==
  \A c \in Calls : phase[c] \in {"ok", "replayed"} =>
     /\ dpBody[arg[c].key] = arg[c].body
     /\ charges[arg[c].key] = 1

(* A row marked unknown can be reconciled: the shard holds the proof of    *)
(* this very request and nobody has charged it.                            *)
UnknownIsRecoverable ==
  \A k \in Keys : status[k] = "unknown" =>
     /\ dpBody[k] = body[k]
     /\ executed[k] = 1
     /\ charges[k] = 0

(* Units are never lost: what was credited is either left or recorded as   *)
(* spent.  (The clamp in charge_database_units makes it possible that more *)
(* is recorded as spent than was ever credited.)                           *)
NoUnitsLost == balance + spent >= InitBalance + topUps * TopUpUnits

(* A called write does not hang and its row does not stay pending: the     *)
(* handler always returns.                                                 *)
CallsReturn == \A c \in Calls : phase[c] \in Waiting ~> phase[c] \in Returned
PendingIsResolved == \A k \in Keys : status[k] = "pending" ~> status[k] # "pending"
WritesEnd == CallsReturn /\ PendingIsResolved

(* The protocol keeps the promise of WriteLedger.                          *)
Charged == {k \in Keys : charges[k] > 0}
Acked == {k \in Keys : \E c \in Calls : phase[c] \in {"ok", "replayed"} /\ arg[c].key = k}

Ledger == INSTANCE WriteLedger
          WITH applied <- dpBody, charged <- Charged, acked <- Acked

ImplementsLedger == Ledger!Spec

(* docs/SHARDING.md: the control canister marks a failed call "failed" and *)
(* can query the proof of a write whose response was lost.  So once no     *)
(* call of the key is on its way, a row marked failed should stand for a   *)
(* write that did not change the image.                                    *)
Settled(k) == \A c \in Calls : (phase[c] \in Waiting \/ c \in late) => arg[c].key # k

FailedWasNotApplied ==
  \A k \in Keys : status[k] = "failed" /\ Settled(k) => executed[k] = 0

(* docs/GOAL_AUDIT.md: a retry of an applied write is answered with        *)
(* success.  So the row of an acknowledged write should stay applied.      *)
AcknowledgedStaysApplied ==
  \A c \in Calls : phase[c] = "ok" => status[arg[c].key] = "applied"
================================================================================
