-------------------------- MODULE RoutedWrites_proofs --------------------------
(***************************************************************************)
(* Proofs about RoutedWrites, for any sets of calls, keys and requests.    *)
(***************************************************************************)
EXTENDS RoutedWrites, TLAPS

--------------------------------------------------------------------------------
(* The inductive invariant.                                                *)

(* A call that was admitted: its row exists and is of its request.         *)
Admitted(c) == phase[c] \notin {"idle", "exhausted"}

(* A call whose success on the shard its handler has not used up yet.      *)
Holds(c) == phase[c] \in {"written", "usage", "sized"}

PhasesOK ==
  /\ \A c \in Calls : /\ phase[c] \in CallPhases
                      /\ c \in late => phase[c] = "failed"
  /\ \A r \in Reconcilers : /\ phase[r] \in ReconcilePhases
                            /\ phase[r] # "idle" => target[r] \in Keys

RowsOK ==
  \A c \in Calls : Admitted(c) =>
    /\ arg[c] \in Requests
    /\ status[arg[c].key] # "none"
    /\ body[arg[c].key] = arg[c].body

ShardOK ==
  \A k \in Keys : IF dpBody[k] = NoBody
                  THEN executed[k] = 0 /\ charges[k] = 0
                  ELSE /\ executed[k] = 1
                       /\ status[k] # "none"
                       /\ dpBody[k] = body[k]

(* At most one call of a key ever holds a success, and while it does       *)
(* nobody else can charge the key.                                         *)
HoldersOK ==
  \A c \in Calls : Holds(c) =>
    /\ dpBody[arg[c].key] # NoBody
    /\ charges[arg[c].key] = 0
    /\ status[arg[c].key] # "unknown"
    /\ \A d \in Calls : Holds(d) /\ arg[d].key = arg[c].key => d = c

JournalOK ==
  \A k \in Keys :
    /\ charges[k] <= 1
    /\ status[k] = "unknown" => dpBody[k] # NoBody /\ charges[k] = 0
    /\ status[k] = "applied" => charges[k] = 1

AcksOK == \A c \in Calls : phase[c] \in {"ok", "replayed"} => charges[arg[c].key] = 1

IInv == /\ TypeOK
        /\ PhasesOK
        /\ RowsOK
        /\ ShardOK
        /\ HoldersOK
        /\ JournalOK
        /\ AcksOK

--------------------------------------------------------------------------------
(* Each action preserves the invariant.                                    *)

(* A top-up touches the account only.                                       *)
LEMMA TopUpStep ==
  ASSUME IInv, TopUp
  PROVE  IInv'
<1> USE DEF IInv, TopUp, journal, account, shard, inputs
<1>1. TypeOK'
  BY BalanceAssumption DEF TypeOK
<1>2. PhasesOK'
  BY DEF PhasesOK
<1>3. RowsOK'
  BY DEF RowsOK, Admitted
<1>4. ShardOK'
  BY DEF ShardOK
<1>5. HoldersOK'
  BY DEF HoldersOK, Holds
<1>6. JournalOK'
  BY DEF JournalOK
<1>7. AcksOK'
  BY DEF AcksOK
<1> QED BY <1>1, <1>2, <1>3, <1>4, <1>5, <1>6, <1>7

(* A change of members touches none of what IInv relates.                   *)
LEMMA RevokeStep ==
  ASSUME NEW p \in Callers, IInv, Revoke(p)
  PROVE  IInv'
<1> USE DEF IInv, Revoke, journal, account, shard, inputs
<1>1. TypeOK'
  BY DEF TypeOK
<1>2. PhasesOK'
  BY DEF PhasesOK
<1>3. RowsOK'
  BY DEF RowsOK, Admitted
<1>4. ShardOK'
  BY DEF ShardOK
<1>5. HoldersOK'
  BY DEF HoldersOK, Holds
<1>6. JournalOK'
  BY DEF JournalOK
<1>7. AcksOK'
  BY DEF AcksOK
<1> QED BY <1>1, <1>2, <1>3, <1>4, <1>5, <1>6, <1>7

(* Nor does a grant.                                                        *)
LEMMA GrantStep ==
  ASSUME NEW p \in Callers, IInv, Grant(p)
  PROVE  IInv'
<1> USE DEF IInv, Grant, journal, account, shard, inputs
<1>1. TypeOK'
  BY DEF TypeOK
<1>2. PhasesOK'
  BY DEF PhasesOK
<1>3. RowsOK'
  BY DEF RowsOK, Admitted
<1>4. ShardOK'
  BY DEF ShardOK
<1>5. HoldersOK'
  BY DEF HoldersOK, Holds
<1>6. JournalOK'
  BY DEF JournalOK
<1>7. AcksOK'
  BY DEF AcksOK
<1> QED BY <1>1, <1>2, <1>3, <1>4, <1>5, <1>6, <1>7

(* A call refused for lack of units is not admitted.                        *)
LEMMA StartExhaustedStep ==
  ASSUME NEW c \in Calls, NEW r \in Requests, IInv, StartExhausted(c, r)
  PROVE  IInv'
<1> USE DEF IInv, StartExhausted, Enter, journal, account, shard
<1>1. TypeOK'
  BY DEF TypeOK, Contexts, CallPhases, Returned
<1>2. PhasesOK'
  BY ContextAssumption DEF PhasesOK, CallPhases, Returned
<1>3. RowsOK'
  BY DEF RowsOK, Admitted
<1>4. ShardOK'
  BY DEF ShardOK
<1>5. HoldersOK'
  BY DEF HoldersOK, Holds
<1>6. JournalOK'
  BY DEF JournalOK
<1>7. AcksOK'
  BY DEF AcksOK
<1> QED BY <1>1, <1>2, <1>3, <1>4, <1>5, <1>6, <1>7

(* A replay is acknowledged: the row is applied, hence charged.             *)
LEMMA StartReplayStep ==
  ASSUME NEW c \in Calls, NEW r \in Requests, IInv, StartReplay(c, r)
  PROVE  IInv'
<1> USE DEF IInv, StartReplay, Enter, Replayable, SameRequest, journal, account, shard
<1>1. TypeOK'
  BY DEF TypeOK, Contexts, CallPhases, Returned
<1>2. PhasesOK'
  BY ContextAssumption DEF PhasesOK, CallPhases, Returned
<1>3. RowsOK'
  BY DEF RowsOK, TypeOK, Admitted
<1>4. ShardOK'
  BY DEF ShardOK
<1>5. HoldersOK'
  BY DEF HoldersOK, Holds
<1>6. JournalOK'
  BY DEF JournalOK
<1>7. AcksOK'
  BY DEF AcksOK, JournalOK, TypeOK, Requests
<1> QED BY <1>1, <1>2, <1>3, <1>4, <1>5, <1>6, <1>7

(* A write is admitted under a new row or one of its own request.           *)
LEMMA StartWriteStep ==
  ASSUME NEW c \in Calls, NEW r \in Requests, IInv, StartWrite(c, r)
  PROVE  IInv'
<1> USE DEF IInv, StartWrite, Enter, SameRequest, journal, account, shard
<1>1. TypeOK'
  BY DEF TypeOK, Requests, Contexts, CallPhases, Waiting, Statuses
<1>2. PhasesOK'
  BY ContextAssumption DEF PhasesOK, CallPhases, Waiting
<1>3. RowsOK'
  BY DEF RowsOK, TypeOK, Admitted, Requests
<1>4. ShardOK'
  BY DEF ShardOK, TypeOK
<1>5. HoldersOK'
  BY DEF HoldersOK, RowsOK, TypeOK, Admitted, Holds, Requests
<1>6. JournalOK'
  BY DEF JournalOK, TypeOK
<1>7. AcksOK'
  BY DEF AcksOK
<1> QED BY <1>1, <1>2, <1>3, <1>4, <1>5, <1>6, <1>7

(* The key is fresh, so nobody holds a success of it: this call will.       *)
LEMMA ShardExecuteStep ==
  ASSUME NEW c \in Calls, IInv, ShardExecute(c)
  PROVE  IInv'
<1> USE DEF IInv, ShardExecute, Answer, Deliverable, Fresh, journal, account
<1>1. TypeOK'
  <2>1. arg[c] \in Requests
    BY DEF RowsOK, PhasesOK, Admitted
  <2> QED
    BY <2>1 DEF TypeOK, Requests, Contexts, CallPhases, Waiting
<1>2. PhasesOK'
  BY DEF PhasesOK, CallPhases, ReconcilePhases, Waiting
<1>3. RowsOK'
  BY DEF RowsOK, Admitted
<1>4. ShardOK'
  BY CostAssumption DEF ShardOK, RowsOK, TypeOK, Admitted, Requests, PhasesOK
<1>5. HoldersOK'
  BY CostAssumption DEF HoldersOK, RowsOK, ShardOK, JournalOK, TypeOK, Admitted, Holds, Requests
<1>6. JournalOK'
  BY DEF JournalOK
<1>7. AcksOK'
  BY DEF AcksOK
<1> QED BY <1>1, <1>2, <1>3, <1>4, <1>5, <1>6, <1>7

(* A refusal leaves the shard as it is.                                     *)
LEMMA ShardRefuseStep ==
  ASSUME NEW c \in Calls, IInv, ShardRefuse(c)
  PROVE  IInv'
<1> USE DEF IInv, ShardRefuse, Answer, Deliverable, journal, account, shard
<1>1. TypeOK'
  BY DEF TypeOK, Contexts, CallPhases, Waiting
<1>2. PhasesOK'
  BY DEF PhasesOK, CallPhases, ReconcilePhases, Waiting
<1>3. RowsOK'
  BY DEF RowsOK, Admitted
<1>4. ShardOK'
  BY DEF ShardOK
<1>5. HoldersOK'
  BY DEF HoldersOK, Holds
<1>6. JournalOK'
  BY DEF JournalOK
<1>7. AcksOK'
  BY DEF AcksOK
<1> QED BY <1>1, <1>2, <1>3, <1>4, <1>5, <1>6, <1>7

(* Reading the size changes neither rows nor charges.                       *)
LEMMA ShardUsageStep ==
  ASSUME NEW x \in Contexts, IInv, ShardUsage(x)
  PROVE  IInv'
<1> USE DEF IInv, ShardUsage, journal, account, shard
<1>1. TypeOK'
  BY DEF TypeOK, ReconcilePhases
<1>2. PhasesOK'
  BY DEF PhasesOK, CallPhases, ReconcilePhases, Waiting
<1>3. RowsOK'
  BY DEF RowsOK, Admitted
<1>4. ShardOK'
  BY DEF ShardOK
<1>5. HoldersOK'
  BY DEF HoldersOK, Holds
<1>6. JournalOK'
  BY DEF JournalOK
<1>7. AcksOK'
  BY DEF AcksOK
<1> QED BY <1>1, <1>2, <1>3, <1>4, <1>5, <1>6, <1>7

(* The caller of a success keeps holding it.                                *)
LEMMA WriteAnsweredStep ==
  ASSUME NEW c \in Calls, IInv, WriteAnswered(c)
  PROVE  IInv'
<1> USE DEF IInv, WriteAnswered, journal, account, shard, inputs
<1>1. TypeOK'
  BY DEF TypeOK, Contexts, ReconcilePhases
<1>2. PhasesOK'
  BY DEF PhasesOK, CallPhases, ReconcilePhases, Waiting
<1>3. RowsOK'
  BY DEF RowsOK, Admitted
<1>4. ShardOK'
  BY DEF ShardOK
<1>5. HoldersOK'
  BY DEF HoldersOK, Holds
<1>6. JournalOK'
  BY DEF JournalOK
<1>7. AcksOK'
  BY DEF AcksOK
<1> QED BY <1>1, <1>2, <1>3, <1>4, <1>5, <1>6, <1>7

(* Marking the row failed gives up the success, if there was one.           *)
LEMMA WriteFailedStep ==
  ASSUME NEW c \in Calls, IInv, WriteFailed(c)
  PROVE  IInv'
<1> USE DEF IInv, WriteFailed, Mark, CallMayFail, CallErrorMark, journal, account, shard, inputs
<1>1. TypeOK'
  BY DEF TypeOK, Requests, Contexts, CallPhases, ReconcilePhases, Waiting, Returned, Statuses
<1>2. PhasesOK'
  BY DEF PhasesOK, TypeOK, CallPhases, ReconcilePhases, Returned, Contexts
<1>3. RowsOK'
  BY DEF RowsOK, Admitted
<1>4. ShardOK'
  BY DEF ShardOK
<1>5. HoldersOK'
  BY DEF HoldersOK, Holds
<1>6. JournalOK'
  BY DEF JournalOK
<1>7. AcksOK'
  BY DEF AcksOK
<1> QED BY <1>1, <1>2, <1>3, <1>4, <1>5, <1>6, <1>7

(* The holder leaves the row unknown: applied, uncharged, held by nobody.   *)
LEMMA UsageFailedStep ==
  ASSUME NEW c \in Calls, IInv, UsageFailed(c)
  PROVE  IInv'
<1> USE DEF IInv, UsageFailed, Mark, journal, account, shard, inputs
<1>1. TypeOK'
  BY DEF TypeOK, Requests, Contexts, CallPhases, ReconcilePhases, Waiting, Returned, Statuses
<1>2. PhasesOK'
  BY ContextAssumption DEF PhasesOK, CallPhases, Returned
<1>3. RowsOK'
  BY DEF RowsOK, Admitted
<1>4. ShardOK'
  BY DEF ShardOK
<1>5. HoldersOK'
  BY DEF HoldersOK, TypeOK, Holds, Contexts
<1>6. JournalOK'
  BY DEF JournalOK, HoldersOK, Holds
<1>7. AcksOK'
  BY DEF AcksOK
<1> QED BY <1>1, <1>2, <1>3, <1>4, <1>5, <1>6, <1>7

(* The only holder charges the key, which was not charged before.           *)
LEMMA CompleteWriteStep ==
  ASSUME NEW c \in Calls, IInv, CompleteWrite(c)
  PROVE  IInv'
<1> USE DEF IInv, CompleteWrite, ChargeUnits, Clamp, account, shard, inputs
<1>1. TypeOK'
  <2>1. arg[c] \in Requests
    BY DEF RowsOK, Admitted
  <2>2. Cost[arg[c].body] \in Nat
    BY <2>1, CostAssumption DEF Requests
  <2> QED
    BY <2>1, <2>2 DEF TypeOK, Requests, Contexts, CallPhases, Returned, Statuses
<1>2. PhasesOK'
  BY ContextAssumption DEF PhasesOK, CallPhases, Returned
<1>3. RowsOK'
  BY DEF RowsOK, Admitted
<1>4. ShardOK'
  BY DEF ShardOK, HoldersOK, Holds
<1>5. HoldersOK'
  BY DEF HoldersOK, TypeOK, Holds, Contexts
<1>6. JournalOK'
  BY DEF JournalOK, HoldersOK, TypeOK, Holds
<1>7. AcksOK'
  BY DEF AcksOK, HoldersOK, RowsOK, TypeOK, Admitted, Holds, Requests
<1> QED BY <1>1, <1>2, <1>3, <1>4, <1>5, <1>6, <1>7

(* As when the usage call fails.                                            *)
LEMMA CompletionRefusedStep ==
  ASSUME NEW c \in Calls, IInv, CompletionRefused(c)
  PROVE  IInv'
<1> USE DEF IInv, CompletionRefused, Mark, journal, account, shard, inputs
<1>1. TypeOK'
  BY DEF TypeOK, Requests, Contexts, CallPhases, ReconcilePhases, Waiting, Returned, Statuses
<1>2. PhasesOK'
  BY ContextAssumption DEF PhasesOK, CallPhases, Returned
<1>3. RowsOK'
  BY DEF RowsOK, Admitted
<1>4. ShardOK'
  BY DEF ShardOK
<1>5. HoldersOK'
  BY DEF HoldersOK, TypeOK, Holds, Contexts
<1>6. JournalOK'
  BY DEF JournalOK, HoldersOK, Holds
<1>7. AcksOK'
  BY DEF AcksOK
<1> QED BY <1>1, <1>2, <1>3, <1>4, <1>5, <1>6, <1>7

(* A reconciliation has its key from the start.                             *)
LEMMA ReconcileStartStep ==
  ASSUME NEW r \in Reconcilers, NEW k \in Keys, IInv, ReconcileStart(r, k)
  PROVE  IInv'
<1> USE DEF IInv, ReconcileStart, OutcomeUnknown, journal, account, shard
<1>1. TypeOK'
  BY DEF TypeOK, Contexts, ReconcilePhases
<1>2. PhasesOK'
  BY ContextAssumption DEF PhasesOK, TypeOK, ReconcilePhases
<1>3. RowsOK'
  BY ContextAssumption DEF RowsOK, Admitted
<1>4. ShardOK'
  BY DEF ShardOK
<1>5. HoldersOK'
  BY DEF HoldersOK, Holds
<1>6. JournalOK'
  BY DEF JournalOK
<1>7. AcksOK'
  BY DEF AcksOK
<1> QED BY <1>1, <1>2, <1>3, <1>4, <1>5, <1>6, <1>7

(* The proof changes nothing but the phase.                                 *)
LEMMA ReconcileProofStep ==
  ASSUME NEW r \in Reconcilers, IInv, ReconcileProof(r)
  PROVE  IInv'
<1> USE DEF IInv, ReconcileProof, journal, account, shard, inputs
<1>1. TypeOK'
  BY DEF TypeOK, Contexts, ReconcilePhases
<1>2. PhasesOK'
  BY DEF PhasesOK, CallPhases, ReconcilePhases, Waiting
<1>3. RowsOK'
  BY DEF RowsOK, Admitted
<1>4. ShardOK'
  BY DEF ShardOK
<1>5. HoldersOK'
  BY ContextAssumption DEF HoldersOK, Holds
<1>6. JournalOK'
  BY DEF JournalOK
<1>7. AcksOK'
  BY DEF AcksOK
<1> QED BY <1>1, <1>2, <1>3, <1>4, <1>5, <1>6, <1>7

(* A failed reconciliation changes nothing but the phase.                   *)
LEMMA ReconcileFailedStep ==
  ASSUME NEW r \in Reconcilers, IInv, ReconcileFailed(r)
  PROVE  IInv'
<1> USE DEF IInv, ReconcileFailed, journal, account, shard, inputs
<1>1. TypeOK'
  BY DEF TypeOK, Contexts, ReconcilePhases
<1>2. PhasesOK'
  BY ContextAssumption DEF PhasesOK, ReconcilePhases
<1>3. RowsOK'
  BY DEF RowsOK, Admitted
<1>4. ShardOK'
  BY DEF ShardOK
<1>5. HoldersOK'
  BY DEF HoldersOK, Holds
<1>6. JournalOK'
  BY DEF JournalOK
<1>7. AcksOK'
  BY DEF AcksOK
<1> QED BY <1>1, <1>2, <1>3, <1>4, <1>5, <1>6, <1>7

(* The row is still unknown, so its key is uncharged and held by nobody.    *)
LEMMA ReconcileFinishStep ==
  ASSUME NEW r \in Reconcilers, IInv, ReconcileFinish(r)
  PROVE  IInv'
<1> USE DEF IInv, ReconcileFinish, OutcomeUnknown, ChargeUnits, Clamp, account, shard, inputs
<1>1. TypeOK'
  <2>1. target[r] \in Keys
    BY DEF PhasesOK
  <2>2. body[target[r]] \in Bodies
    BY <2>1 DEF TypeOK, JournalOK, ShardOK
  <2>3. Cost[body[target[r]]] \in Nat
    BY <2>2, CostAssumption
  <2> QED
    BY <2>1, <2>3 DEF TypeOK, Contexts, ReconcilePhases, Statuses
<1>2. PhasesOK'
  BY ContextAssumption DEF PhasesOK, ReconcilePhases
<1>3. RowsOK'
  BY DEF RowsOK, Admitted
<1>4. ShardOK'
  BY DEF ShardOK, JournalOK
<1>5. HoldersOK'
  BY DEF HoldersOK, Holds
<1>6. JournalOK'
  BY DEF JournalOK, TypeOK
<1>7. AcksOK'
  BY DEF AcksOK, JournalOK, TypeOK
<1> QED BY <1>1, <1>2, <1>3, <1>4, <1>5, <1>6, <1>7

--------------------------------------------------------------------------------
(* The theorems.                                                           *)

(* At the start nothing is journaled, applied or under way.                *)
LEMMA InitIInv == Init => IInv
<1> SUFFICES ASSUME Init PROVE IInv
  OBVIOUS
<1> USE DEF Init
<1>1. TypeOK
  BY BalanceAssumption DEF TypeOK, Statuses, CallPhases, Contexts, Callers
<1>2. PhasesOK
  BY DEF PhasesOK, CallPhases, ReconcilePhases, Contexts
<1>3. RowsOK /\ HoldersOK /\ AcksOK
  BY DEF RowsOK, HoldersOK, AcksOK, Admitted, Holds, Contexts
<1>4. ShardOK /\ JournalOK
  BY DEF ShardOK, JournalOK
<1> QED BY <1>1, <1>2, <1>3, <1>4 DEF IInv

(* Every step of the protocol preserves the invariant.                     *)
LEMMA NextIInv == IInv /\ [Next]_vars => IInv'
<1> SUFFICES ASSUME IInv, [Next]_vars PROVE IInv'
  OBVIOUS
<1>1. CASE UNCHANGED vars
  BY <1>1 DEF vars, journal, account, shard, inputs, IInv, TypeOK, PhasesOK,
     RowsOK, ShardOK, HoldersOK, JournalOK, AcksOK, Admitted, Holds
<1>2. CASE TopUp
  BY <1>2, TopUpStep
<1>3. CASE \E p \in Callers : Revoke(p) \/ Grant(p)
  BY <1>3, RevokeStep, GrantStep
<1>4. ASSUME NEW c \in Calls, CallStep(c) PROVE IInv'
  <2>1. CASE \E r \in Requests : StartExhausted(c, r) \/ StartReplay(c, r) \/ StartWrite(c, r)
    BY <2>1, StartExhaustedStep, StartReplayStep, StartWriteStep
  <2>2. CASE ShardExecute(c) \/ ShardRefuse(c) \/ ShardUsage(c)
    BY <2>2, ShardExecuteStep, ShardRefuseStep, ShardUsageStep DEF Contexts
  <2>3. CASE WriteAnswered(c) \/ WriteFailed(c) \/ UsageFailed(c)
    BY <2>3, WriteAnsweredStep, WriteFailedStep, UsageFailedStep
  <2>4. CASE CompleteWrite(c) \/ CompletionRefused(c)
    BY <2>4, CompleteWriteStep, CompletionRefusedStep
  <2> QED BY <1>4, <2>1, <2>2, <2>3, <2>4 DEF CallStep
<1>5. ASSUME NEW r \in Reconcilers, ReconcileStep(r) PROVE IInv'
  BY <1>5, ReconcileStartStep, ReconcileProofStep, ShardUsageStep,
     ReconcileFailedStep, ReconcileFinishStep DEF ReconcileStep, Contexts
<1> QED BY <1>1, <1>2, <1>3, <1>4, <1>5 DEF Next

(* The invariant holds in every reachable state.                           *)
THEOREM Invariance == Spec => []IInv
  BY InitIInv, NextIInv, PTL DEF Spec

(* Every variable of the protocol keeps its type.                          *)
THEOREM TypeCorrectness == Spec => []TypeOK
<1>1. IInv => TypeOK
  BY DEF IInv
<1> QED BY <1>1, Invariance, PTL

(* A key changes the image at most once, for any number of calls, keys and *)
(* requests, with lost answers and late requests.                          *)
THEOREM AtMostOnceApplied == Spec => []AppliedAtMostOnce
<1>1. IInv => AppliedAtMostOnce
  BY DEF IInv, ShardOK, AppliedAtMostOnce
<1> QED BY <1>1, Invariance, PTL

(* A key is charged at most once, and only if it changed the image: the    *)
(* completion, its retries and the reconciliations never charge it twice.  *)
THEOREM AtMostOnceCharged == Spec => []ChargedAtMostOnce
<1>1. IInv => ChargedAtMostOnce
  BY DEF IInv, TypeOK, ShardOK, JournalOK, ChargedAtMostOnce
<1> QED BY <1>1, Invariance, PTL

(* A call or a replay that reported success stands for a write that is in  *)
(* the image, for the request that was sent, and that is paid for.         *)
THEOREM AcknowledgedMeansApplied == Spec => []AcknowledgedWasApplied
<1>1. IInv => AcknowledgedWasApplied
  <2> SUFFICES ASSUME IInv, NEW c \in Calls, phase[c] \in {"ok", "replayed"}
               PROVE  dpBody[arg[c].key] = arg[c].body /\ charges[arg[c].key] = 1
    BY DEF AcknowledgedWasApplied
  <2>1. arg[c].key \in Keys /\ body[arg[c].key] = arg[c].body
    BY DEF IInv, RowsOK, Admitted, Requests
  <2>2. charges[arg[c].key] = 1
    BY DEF IInv, AcksOK
  <2> QED BY <2>1, <2>2 DEF IInv, ShardOK
<1> QED BY <1>1, Invariance, PTL

(* Whatever races led to it, a row marked unknown can be reconciled: the   *)
(* shard has the proof of its request and the key is not charged yet.      *)
THEOREM UnknownCanBeReconciled == Spec => []UnknownIsRecoverable
<1>1. IInv => UnknownIsRecoverable
  BY DEF IInv, JournalOK, ShardOK, UnknownIsRecoverable
<1> QED BY <1>1, Invariance, PTL

--------------------------------------------------------------------------------
(* The account.                                                            *)

(* What a top-up adds, in a form without a product of variables.           *)
LEMMA NextTopUp == ASSUME NEW n \in Nat
                   PROVE  (n + 1) * TopUpUnits = n * TopUpUnits + TopUpUnits
  BY BalanceAssumption, SMT

(* Units that cover a sum still cover it when they grow.                   *)
LEMMA MoreCovers ==
  ASSUME NEW b1 \in Nat, NEW s1 \in Nat, NEW b2 \in Nat, NEW s2 \in Nat, NEW m \in Int,
         b2 + s2 >= b1 + s1, b1 + s1 >= m
  PROVE  b2 + s2 >= m
  OBVIOUS

(* No step of the protocol loses units: a charge takes from the balance at *)
(* most what it adds to the units spent.                                   *)
LEMMA NextKeepsUnits == IInv /\ NoUnitsLost /\ [Next]_vars => NoUnitsLost'
<1> SUFFICES ASSUME IInv, NoUnitsLost, [Next]_vars PROVE NoUnitsLost'
  OBVIOUS
<1> DEFINE Credited(n) == InitBalance + n * TopUpUnits
<1>t. balance \in Nat /\ spent \in Nat /\ topUps \in Nat
  BY DEF IInv, TypeOK
<1>0. balance + spent >= Credited(topUps)
  BY DEF NoUnitsLost
<1>1. CASE TopUp
  <2>1. Credited(topUps') = Credited(topUps) + TopUpUnits
    BY <1>t, <1>1, NextTopUp, BalanceAssumption DEF TopUp
  <2>2. balance' = balance + TopUpUnits /\ spent' = spent
    BY <1>1 DEF TopUp
  <2> QED BY <1>t, <1>0, <2>1, <2>2, BalanceAssumption DEF NoUnitsLost
<1>2. ASSUME NEW k, NEW b, Cost[b] \in Nat, ChargeUnits(k, b), topUps' = topUps
      PROVE  NoUnitsLost'
  <2>1. balance' \in Nat /\ spent' \in Nat /\ balance' + spent' >= balance + spent
    BY <1>t, <1>2 DEF ChargeUnits, Clamp
  <2>2. Credited(topUps) \in Int /\ Credited(topUps') = Credited(topUps)
    BY <1>t, <1>2, BalanceAssumption
  <2>3. balance' + spent' >= Credited(topUps)
    BY <1>t, <1>0, <2>1, <2>2, MoreCovers, Zenon
  <2> QED BY <2>2, <2>3, Zenon DEF NoUnitsLost
<1>3. CASE UNCHANGED <<balance, spent, topUps>>
  BY <1>0, <1>3 DEF NoUnitsLost
<1>4. ASSUME NEW c \in Calls, CompleteWrite(c) PROVE NoUnitsLost'
  <2>1. arg[c].body \in Bodies
    BY <1>4 DEF CompleteWrite, IInv, RowsOK, Admitted, Requests
  <2> QED BY <2>1, <1>2, <1>4, CostAssumption DEF CompleteWrite
<1>5. ASSUME NEW r \in Reconcilers, ReconcileFinish(r) PROVE NoUnitsLost'
  <2>1. body[target[r]] \in Bodies
    BY <1>5 DEF ReconcileFinish, OutcomeUnknown, IInv, TypeOK, PhasesOK, JournalOK, ShardOK
  <2> QED BY <2>1, <1>2, <1>5, CostAssumption DEF ReconcileFinish
<1>6. ASSUME NEW c \in Calls, CallStep(c), ~ CompleteWrite(c) PROVE NoUnitsLost'
  BY <1>3, <1>6 DEF CallStep, StartExhausted, StartReplay, StartWrite, Enter, ShardExecute,
     ShardRefuse, Answer, ShardUsage, WriteAnswered, WriteFailed, UsageFailed,
     CompletionRefused, Mark, account
<1>7. ASSUME NEW r \in Reconcilers, ReconcileStep(r), ~ ReconcileFinish(r) PROVE NoUnitsLost'
  BY <1>3, <1>7 DEF ReconcileStep, ReconcileStart, ReconcileProof, ShardUsage,
     ReconcileFailed, account
<1>8. CASE (\E p \in Callers : Revoke(p) \/ Grant(p)) \/ UNCHANGED vars
  BY <1>3, <1>8 DEF Revoke, Grant, vars, account
<1> QED BY <1>1, <1>4, <1>5, <1>6, <1>7, <1>8 DEF Next

(* Units credited to the database are either left or recorded as spent.    *)
THEOREM UnitsAreKept == Spec => []NoUnitsLost
<1>1. Init => NoUnitsLost
  BY BalanceAssumption DEF Init, NoUnitsLost
<1> QED BY <1>1, Invariance, NextKeepsUnits, PTL DEF Spec

--------------------------------------------------------------------------------
(* The refinement: the protocol implements WriteLedger.                    *)

(* A step that changes no image, account or acknowledgement is invisible   *)
(* to the abstract ledger.                                                 *)
LEMMA QuietStep ==
  ASSUME UNCHANGED <<dpBody, charges, balance, spent>>,
         \A c \in Calls : phase'[c] \in {"ok", "replayed"} <=> phase[c] \in {"ok", "replayed"},
         \A c \in Calls : phase[c] \in {"ok", "replayed"} => arg'[c] = arg[c]
  PROVE  UNCHANGED Ledger!ledger
<1>1. Acked' = Acked
  BY DEF Acked
<1>2. Charged' = Charged
  BY DEF Charged
<1> QED BY <1>1, <1>2 DEF Ledger!ledger

(* The steps a call takes before it succeeds or after it failed.           *)
LEMMA QuietCallStep ==
  ASSUME IInv, NEW c \in Calls, CallStep(c), ~ ShardExecute(c), ~ CompleteWrite(c),
         ~ \E r \in Requests : StartReplay(c, r)
  PROVE  UNCHANGED Ledger!ledger
<1>0. phase \in [Contexts -> CallPhases \cup ReconcilePhases] /\ arg \in [Calls -> Requests \cup {NoRequest}]
  BY DEF IInv, TypeOK
<1>1. CASE \E r \in Requests : StartExhausted(c, r) \/ StartWrite(c, r)
  BY <1>0, <1>1, QuietStep DEF StartExhausted, StartWrite, Enter, account, shard, Contexts
<1>2. CASE ShardRefuse(c) \/ ShardUsage(c)
  BY <1>0, <1>2, QuietStep DEF ShardRefuse, Answer, ShardUsage, account, shard, Contexts
<1>3. CASE WriteAnswered(c) \/ WriteFailed(c) \/ UsageFailed(c) \/ CompletionRefused(c)
  BY <1>0, <1>3, QuietStep DEF WriteAnswered, WriteFailed, UsageFailed, CompletionRefused,
     Mark, CallErrorMark, CallMayFail, account, shard, inputs, Contexts
<1> QED BY <1>1, <1>2, <1>3 DEF CallStep

(* A reconciliation is seen only when it charges.                          *)
LEMMA QuietReconcileStep ==
  ASSUME IInv, NEW r \in Reconcilers, ReconcileStep(r), ~ ReconcileFinish(r)
  PROVE  UNCHANGED Ledger!ledger
<1>0. phase \in [Contexts -> CallPhases \cup ReconcilePhases]
  BY DEF IInv, TypeOK
<1> QED BY <1>0, QuietStep, ContextAssumption DEF ReconcileStep, ReconcileStart, ReconcileProof,
     ShardUsage, ReconcileFailed, account, shard, inputs, Contexts

(* A replay acknowledges a key that is already charged.                    *)
LEMMA ReplayAcknowledges ==
  ASSUME IInv, NEW c \in Calls, NEW r \in Requests, StartReplay(c, r)
  PROVE  Ledger!Acknowledge(r.key)
<1>1. r.key \in Charged
  BY DEF StartReplay, Replayable, IInv, JournalOK, Charged, Requests
<1>2. Acked' = Acked \cup {r.key}
  BY DEF StartReplay, Enter, Acked, IInv, TypeOK, Contexts, Requests
<1>3. Charged' = Charged
  BY DEF StartReplay, account, Charged
<1> QED BY <1>1, <1>2, <1>3 DEF Ledger!Acknowledge, StartReplay, Enter, account, shard

(* The shard's message is the moment a write is applied.                   *)
LEMMA ExecuteApplies ==
  ASSUME IInv, NEW c \in Calls, ShardExecute(c)
  PROVE  \E k \in Keys : \E b \in Bodies : Ledger!Apply(k, b)
<1>0. phase \in [Contexts -> CallPhases \cup ReconcilePhases]
  BY DEF IInv, TypeOK
<1>1. arg[c].key \in Keys /\ arg[c].body \in Bodies
  BY DEF ShardExecute, Deliverable, IInv, PhasesOK, RowsOK, Admitted, Requests
<1>2. Acked' = Acked
  BY <1>0 DEF ShardExecute, Answer, Acked, Contexts
<1>3. Charged' = Charged
  BY DEF ShardExecute, Answer, account, Charged
<1>4. Ledger!Apply(arg[c].key, arg[c].body)
  BY <1>2, <1>3 DEF Ledger!Apply, ShardExecute, Fresh, Answer, account
<1> QED BY <1>1, <1>4

(* A completion charges the key of its call and acknowledges it.           *)
LEMMA CompletionCharges ==
  ASSUME IInv, NEW c \in Calls, CompleteWrite(c)
  PROVE  \E k \in Keys : Ledger!Charge(k)
<1> DEFINE k == arg[c].key
<1>1. k \in Keys /\ body[k] = arg[c].body
  BY DEF CompleteWrite, IInv, RowsOK, Admitted, Requests
<1>2. dpBody[k] # NoBody /\ dpBody[k] = arg[c].body /\ charges[k] = 0
  BY <1>1 DEF CompleteWrite, IInv, HoldersOK, ShardOK, Holds
<1>3. charges' = [charges EXCEPT ![k] = 1] /\ charges \in [Keys -> Nat]
  BY <1>1, <1>2 DEF CompleteWrite, ChargeUnits, IInv, TypeOK
<1>4. k \notin Charged /\ Charged' = Charged \cup {k}
  BY <1>1, <1>2, <1>3 DEF Charged
<1>5. Acked' = Acked \cup {k}
  BY <1>1 DEF CompleteWrite, inputs, Acked, IInv, TypeOK, Contexts
<1>6. balance' = Ledger!Clamp(balance - Cost[dpBody[k]]) /\ spent' = spent + Cost[dpBody[k]]
  BY <1>2 DEF CompleteWrite, ChargeUnits, Clamp, Ledger!Clamp
<1>7. UNCHANGED dpBody
  BY DEF CompleteWrite, shard
<1>8. Ledger!Charge(k)
  BY <1>2, <1>4, <1>5, <1>6, <1>7 DEF Ledger!Charge
<1> QED BY <1>1, <1>8

(* A reconciliation charges its key and acknowledges nothing.              *)
LEMMA ReconciliationCharges ==
  ASSUME IInv, NEW r \in Reconcilers, ReconcileFinish(r)
  PROVE  \E k \in Keys : Ledger!Charge(k)
<1> DEFINE k == target[r]
<1>1. k \in Keys
  BY DEF ReconcileFinish, IInv, PhasesOK
<1>2. dpBody[k] # NoBody /\ dpBody[k] = body[k] /\ charges[k] = 0
  BY <1>1 DEF ReconcileFinish, OutcomeUnknown, IInv, JournalOK, ShardOK
<1>3. charges' = [charges EXCEPT ![k] = 1] /\ charges \in [Keys -> Nat]
  BY <1>1, <1>2 DEF ReconcileFinish, ChargeUnits, IInv, TypeOK
<1>4. k \notin Charged /\ Charged' = Charged \cup {k}
  BY <1>1, <1>2, <1>3 DEF Charged
<1>5. Acked' = Acked
  BY ContextAssumption DEF ReconcileFinish, inputs, Acked, IInv, TypeOK, Contexts
<1>6. balance' = Ledger!Clamp(balance - Cost[dpBody[k]]) /\ spent' = spent + Cost[dpBody[k]]
  BY <1>2 DEF ReconcileFinish, ChargeUnits, Clamp, Ledger!Clamp
<1>7. UNCHANGED dpBody
  BY DEF ReconcileFinish, shard
<1>8. Ledger!Charge(k)
  BY <1>2, <1>4, <1>5, <1>6, <1>7 DEF Ledger!Charge
<1> QED BY <1>1, <1>8

(* A top-up credits the account and changes nothing else.                  *)
LEMMA TopUpCredits == IInv /\ TopUp => Ledger!Credit
<1> SUFFICES ASSUME IInv, TopUp PROVE Ledger!Credit
  OBVIOUS
<1>1. balance' > balance
  BY BalanceAssumption DEF TopUp, IInv, TypeOK
<1>2. UNCHANGED <<dpBody, Charged, Acked, spent>>
  BY DEF TopUp, Charged, Acked, shard, inputs
<1> QED BY <1>1, <1>2 DEF Ledger!Credit

(* Every step of the protocol is a step of the ledger or none.             *)
LEMMA NextImplements == IInv /\ [Next]_vars => [Ledger!Next]_(Ledger!ledger)
<1> SUFFICES ASSUME IInv, [Next]_vars PROVE [Ledger!Next]_(Ledger!ledger)
  OBVIOUS
<1>1. CASE TopUp
  BY <1>1, TopUpCredits DEF Ledger!Next
<1>2. CASE (\E p \in Callers : Revoke(p) \/ Grant(p)) \/ UNCHANGED vars
  BY <1>2, QuietStep DEF Revoke, Grant, vars, account, shard, inputs
<1>3. ASSUME NEW c \in Calls, CallStep(c) PROVE [Ledger!Next]_(Ledger!ledger)
  <2>1. CASE \E r \in Requests : StartReplay(c, r)
    BY <2>1, ReplayAcknowledges DEF Ledger!Next, Requests
  <2>2. CASE ShardExecute(c)
    BY <2>2, ExecuteApplies DEF Ledger!Next
  <2>3. CASE CompleteWrite(c)
    BY <2>3, CompletionCharges DEF Ledger!Next
  <2> QED BY <1>3, <2>1, <2>2, <2>3, QuietCallStep
<1>4. ASSUME NEW r \in Reconcilers, ReconcileStep(r) PROVE [Ledger!Next]_(Ledger!ledger)
  BY <1>4, ReconciliationCharges, QuietReconcileStep DEF Ledger!Next
<1> QED BY <1>1, <1>2, <1>3, <1>4 DEF Next

(* The routed-write protocol implements WriteLedger: a write is applied at *)
(* most once, charged at most once and only after it was applied, and      *)
(* acknowledged only once charged, however calls and reconciliations race. *)
THEOREM Refinement == Spec => ImplementsLedger
<1>1. Init => Ledger!Init
  BY DEF Init, Ledger!Init, Charged, Acked, Contexts
<1> QED BY <1>1, Invariance, NextImplements, PTL DEF Spec, ImplementsLedger, Ledger!Spec
--------------------------------------------------------------------------------
(* Where a write ends once its calls have returned.                        *)

(* Applied, never charged, and nobody is left who could: the journal says  *)
(* failed, so that no reconciliation starts, and the shard runs no key     *)
(* twice, so that no retry gets a success to complete.                     *)
Lost(k) ==
  /\ status[k] = "failed"
  /\ dpBody[k] # NoBody /\ charges[k] = 0
  /\ \A c \in Calls : Holds(c) => arg[c].key # k

(* Applied, and no other call of the key is left that could still fail.    *)
Lasting(k) ==
  /\ status[k] = "applied"
  /\ \A c \in Calls : phase[c] \in {"write", "refused"} => arg[c].key # k

(* A pending row is that of a call that has not returned.                  *)
PendingHasCall ==
  \A k \in Keys : status[k] = "pending" =>
    \E c \in Calls : phase[c] \in Waiting /\ arg[c].key = k

(* What a key looks like when no call of it is on its way: not applied and *)
(* not charged, both, waiting for a reconciliation, or lost.               *)
OutcomeOf(k) ==
  \/ status[k] \in {"none", "failed"} /\ dpBody[k] = NoBody /\ charges[k] = 0
  \/ status[k] \in {"applied", "failed"} /\ dpBody[k] # NoBody /\ charges[k] = 1
  \/ status[k] = "unknown" /\ dpBody[k] # NoBody /\ charges[k] = 0
  \/ Lost(k)

(* A lost write stays lost, whatever a step does.                          *)
LEMMA StepKeepsLost ==
  ASSUME IInv, [Next]_vars, NEW k \in Keys, Lost(k)
  PROVE  Lost(k)'
<1>0. /\ phase \in [Contexts -> CallPhases \cup ReconcilePhases]
      /\ arg \in [Calls -> Requests \cup {NoRequest}]
      /\ status \in [Keys -> Statuses] /\ charges \in [Keys -> Nat]
      /\ dpBody \in [Keys -> Bodies \cup {NoBody}]
  BY DEF IInv, TypeOK
<1>1. CASE TopUp \/ (\E p \in Callers : Revoke(p) \/ Grant(p)) \/ UNCHANGED vars
  BY <1>1 DEF TopUp, Revoke, Grant, vars, journal, account, shard, inputs, Lost, Holds
<1>2. ASSUME NEW c \in Calls, CallStep(c) PROVE Lost(k)'
  <2>1. CASE \E r \in Requests : StartExhausted(c, r) \/ StartReplay(c, r) \/ StartWrite(c, r)
    BY <1>0, <2>1 DEF StartExhausted, StartReplay, StartWrite, Enter, journal, account, shard,
       Lost, Holds, Requests, Contexts
  <2>2. CASE ShardExecute(c)
    <3>1. arg[c].key \in Keys /\ arg[c].key # k
      BY <2>2 DEF ShardExecute, Fresh, Deliverable, Lost, IInv, PhasesOK, RowsOK, Admitted, Requests
    <3> QED BY <1>0, <2>2, <3>1 DEF ShardExecute, Answer, journal, account, Lost, Holds, Contexts
  <2>3. CASE ShardRefuse(c) \/ ShardUsage(c) \/ WriteAnswered(c)
    BY <1>0, <2>3 DEF ShardRefuse, Answer, ShardUsage, WriteAnswered, journal, account, shard, inputs,
       Lost, Holds, Contexts
  <2>4. CASE WriteFailed(c)
    BY <1>0, <2>4 DEF WriteFailed, Mark, CallErrorMark, CallMayFail, account, shard,
       Lost, Holds, Contexts
  <2>5. CASE UsageFailed(c) \/ CompletionRefused(c)
    BY <1>0, <2>5 DEF UsageFailed, CompletionRefused, Mark, account, shard, inputs,
       Lost, Holds, Contexts
  <2>6. CASE CompleteWrite(c)
    BY <1>0, <2>6 DEF CompleteWrite, ChargeUnits, shard, inputs, Lost, Holds, Contexts
  <2> QED BY <1>2, <2>1, <2>2, <2>3, <2>4, <2>5, <2>6 DEF CallStep
<1>3. ASSUME NEW r \in Reconcilers, ReconcileStep(r) PROVE Lost(k)'
  <2>1. CASE ReconcileFinish(r)
    <3>1. target[r] # k
      BY <2>1 DEF ReconcileFinish, OutcomeUnknown, Lost
    <3> QED BY <1>0, <2>1, <3>1, ContextAssumption DEF ReconcileFinish, ChargeUnits, shard, inputs,
       Lost, Holds, Contexts
  <2>2. CASE ~ReconcileFinish(r)
    BY <1>0, <1>3, <2>2, ContextAssumption DEF ReconcileStep, ReconcileStart, ReconcileProof, ShardUsage,
       ReconcileFailed, journal, account, shard, inputs, Lost, Holds, Contexts
  <2> QED BY <2>1, <2>2
<1> QED BY <1>1, <1>2, <1>3 DEF Next

(* A write that a call or a late request applied and that the journal      *)
(* calls failed is never charged and never reconciled, by nobody.          *)
THEOREM LostForGood == Spec => [][\A k \in Keys : Lost(k) => Lost(k)']_vars
<1>1. IInv /\ [Next]_vars => [\A k \in Keys : Lost(k) => Lost(k)']_vars
  BY StepKeepsLost
<1> QED BY <1>1, Invariance, PTL DEF Spec

(* Who holds a success has not charged it.                                 *)
LEMMA HolderIsNotLasting ==
  ASSUME IInv, NEW c \in Calls, Holds(c), NEW k \in Keys, status[k] = "applied"
  PROVE  arg[c].key # k
BY DEF IInv, HoldersOK, JournalOK

(* An applied row that no other call can fail stays applied.               *)
LEMMA StepKeepsLasting ==
  ASSUME IInv, [Next]_vars, NEW k \in Keys, Lasting(k)
  PROVE  Lasting(k)'
<1>0. /\ phase \in [Contexts -> CallPhases \cup ReconcilePhases]
      /\ arg \in [Calls -> Requests \cup {NoRequest}]
      /\ status \in [Keys -> Statuses]
  BY DEF IInv, TypeOK
<1>1. CASE TopUp \/ (\E p \in Callers : Revoke(p) \/ Grant(p)) \/ UNCHANGED vars
  BY <1>1 DEF TopUp, Revoke, Grant, vars, journal, account, shard, inputs, Lasting
<1>2. ASSUME NEW c \in Calls, CallStep(c) PROVE Lasting(k)'
  <2>1. CASE \E r \in Requests : StartExhausted(c, r) \/ StartReplay(c, r) \/ StartWrite(c, r)
    BY <1>0, <2>1 DEF StartExhausted, StartReplay, StartWrite, Enter, journal, account,
       Lasting, Requests, Contexts
  <2>2. CASE ShardExecute(c) \/ ShardRefuse(c) \/ ShardUsage(c) \/ WriteAnswered(c)
    BY <1>0, <2>2 DEF ShardExecute, ShardRefuse, Answer, ShardUsage, WriteAnswered, journal, shard,
       inputs, Lasting, Contexts
  <2>3. CASE WriteFailed(c)
    <3>1. arg[c].key # k
      BY <2>3, HolderIsNotLasting DEF WriteFailed, CallMayFail, Lasting, Holds
    <3> QED BY <1>0, <2>3, <3>1 DEF WriteFailed, Mark, CallErrorMark, Lasting, Contexts
  <2>4. CASE UsageFailed(c) \/ CompletionRefused(c) \/ CompleteWrite(c)
    <3>1. arg[c].key # k
      BY <2>4, HolderIsNotLasting DEF UsageFailed, CompletionRefused, CompleteWrite, Lasting, Holds
    <3> QED BY <1>0, <2>4, <3>1 DEF UsageFailed, CompletionRefused, CompleteWrite, Mark, inputs,
         Lasting, Contexts
  <2> QED BY <1>2, <2>1, <2>2, <2>3, <2>4 DEF CallStep
<1>3. ASSUME NEW r \in Reconcilers, ReconcileStep(r) PROVE Lasting(k)'
  BY <1>0, <1>3, ContextAssumption DEF ReconcileStep, ReconcileStart, ReconcileProof, ShardUsage,
     ReconcileFailed, ReconcileFinish, journal, inputs, Lasting, Contexts
<1> QED BY <1>1, <1>2, <1>3 DEF Next

(* The promise that a retry of an applied write is answered with success   *)
(* holds from the moment no other call of the key waits for the shard, and *)
(* from then on for ever: new calls, late requests and reconciliations     *)
(* leave the row as it is.                                                 *)
THEOREM AppliedLasts == Spec => [][\A k \in Keys : Lasting(k) => Lasting(k)']_vars
<1>1. IInv /\ [Next]_vars => [\A k \in Keys : Lasting(k) => Lasting(k)']_vars
  BY StepKeepsLasting
<1> QED BY <1>1, Invariance, PTL DEF Spec

(* A call leaves its row pending only as long as it waits.                 *)
LEMMA StepKeepsPending ==
  ASSUME IInv, PendingHasCall, [Next]_vars
  PROVE  PendingHasCall'
<1>0. /\ phase \in [Contexts -> CallPhases \cup ReconcilePhases]
      /\ arg \in [Calls -> Requests \cup {NoRequest}]
      /\ status \in [Keys -> Statuses]
  BY DEF IInv, TypeOK
<1> SUFFICES ASSUME NEW k \in Keys, status'[k] = "pending"
             PROVE  \E c \in Calls : phase'[c] \in Waiting /\ arg'[c].key = k
  BY DEF PendingHasCall
<1>w. Waiting = {"write", "written", "refused", "usage", "sized"}
  BY DEF Waiting
<1>1. CASE \E c \in Calls, r \in Requests : StartWrite(c, r) /\ r.key = k
  BY <1>0, <1>1, <1>w DEF StartWrite, Enter, Contexts
<1>2. CASE ~ \E c \in Calls, r \in Requests : StartWrite(c, r) /\ r.key = k
  <2>1. status[k] = "pending"
    BY <1>0, <1>2 DEF Next, CallStep, ReconcileStep, TopUp, Revoke, Grant, vars, journal, inputs,
       StartExhausted, StartReplay, StartWrite, Enter, ShardExecute, ShardRefuse, Answer, ShardUsage,
       WriteAnswered, WriteFailed, UsageFailed, CompletionRefused, Mark, CallErrorMark, CompleteWrite,
       ReconcileStart, ReconcileProof, ReconcileFailed, ReconcileFinish, Requests
  <2>2. PICK d \in Calls : phase[d] \in Waiting /\ arg[d].key = k
    BY <2>1 DEF PendingHasCall
  <2>3. arg'[d] = arg[d]
    BY <1>0, <1>w, <2>2 DEF Next, CallStep, ReconcileStep, TopUp, Revoke, Grant, vars, inputs,
       StartExhausted, StartReplay, StartWrite, Enter, ShardExecute, ShardRefuse, Answer, ShardUsage,
       WriteAnswered, WriteFailed, UsageFailed, CompletionRefused, CompleteWrite,
       ReconcileStart, ReconcileProof, ReconcileFailed, ReconcileFinish
  <2>4. phase'[d] \in Waiting
    <3>1. CASE TopUp \/ (\E p \in Callers : Revoke(p) \/ Grant(p)) \/ UNCHANGED vars
      BY <2>2, <3>1 DEF TopUp, Revoke, Grant, vars
    <3>2. ASSUME NEW r \in Reconcilers, ReconcileStep(r) PROVE phase'[d] \in Waiting
      BY <1>0, <2>2, <3>2, ContextAssumption DEF ReconcileStep, ReconcileStart, ReconcileProof,
         ShardUsage, ReconcileFailed, ReconcileFinish, Contexts
    <3>3. ASSUME NEW c \in Calls, CallStep(c) PROVE phase'[d] \in Waiting
      <4>1. CASE \E r \in Requests : StartExhausted(c, r) \/ StartReplay(c, r) \/ StartWrite(c, r)
        BY <1>0, <1>w, <2>2, <4>1 DEF StartExhausted, StartReplay, StartWrite, Enter, Contexts
      <4>2. CASE ShardExecute(c) \/ ShardRefuse(c) \/ ShardUsage(c) \/ WriteAnswered(c)
        BY <1>0, <1>w, <2>2, <4>2 DEF ShardExecute, ShardRefuse, Answer, ShardUsage, WriteAnswered, Contexts
      <4>3. CASE WriteFailed(c) \/ UsageFailed(c) \/ CompletionRefused(c) \/ CompleteWrite(c)
        <5>1. c # d
          BY <1>0, <2>2, <4>3 DEF WriteFailed, UsageFailed, CompletionRefused, CompleteWrite, Mark,
             CallErrorMark
        <5> QED BY <1>0, <2>2, <4>3, <5>1 DEF WriteFailed, UsageFailed, CompletionRefused,
             CompleteWrite, Mark, Contexts
      <4> QED BY <3>3, <4>1, <4>2, <4>3 DEF CallStep
    <3> QED BY <3>1, <3>2, <3>3 DEF Next
  <2> QED BY <2>2, <2>3, <2>4
<1> QED BY <1>1, <1>2

(* When no call of a key is on its way, its write was not applied and not  *)
(* charged, or applied and charged, or can be reconciled, or is lost: the  *)
(* only way in which image and account come apart for good is a failed row *)
(* of a write that was applied.                                            *)
THEOREM WritesEndAccounted == Spec => [](\A k \in Keys : Settled(k) => OutcomeOf(k))
<1>1. Init => PendingHasCall
  BY DEF Init, PendingHasCall
<1>2. IInv /\ PendingHasCall => \A k \in Keys : Settled(k) => OutcomeOf(k)
  <2> SUFFICES ASSUME IInv, PendingHasCall, NEW k \in Keys, Settled(k)
               PROVE  OutcomeOf(k)
    OBVIOUS
  <2>1. status[k] \in {"none", "applied", "failed", "unknown"}
    BY DEF IInv, TypeOK, Statuses, PendingHasCall, Settled
  <2>2. charges[k] \in {0, 1}
    BY DEF IInv, TypeOK, JournalOK
  <2>3. \A c \in Calls : Holds(c) => arg[c].key # k
    BY DEF Settled, Holds, Waiting
  <2> QED BY <2>1, <2>2, <2>3 DEF OutcomeOf, Lost, IInv, ShardOK, JournalOK
<1>3. IInv /\ PendingHasCall /\ [Next]_vars => PendingHasCall'
  BY StepKeepsPending
<1> QED BY <1>1, <1>2, <1>3, Invariance, PTL DEF Spec
================================================================================
