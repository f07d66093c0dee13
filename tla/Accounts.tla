-------------------------------- MODULE Accounts --------------------------------
(***************************************************************************)
(* Who may use a database, and who pays for it.                            *)
(*                                                                         *)
(* The control canister keeps the members of every database and the bearer *)
(* tokens that stand in for an owner, and it credits a database with the   *)
(* ICP its owner approved.  A deposit awaits icrc2_transfer_from of the    *)
(* ICP ledger, a new token awaits raw_rand; an action is the code between  *)
(* two awaits, and whatever was checked before an await may have changed   *)
(* after it.  Calls are bounded-wait: the ledger may move the tokens       *)
(* although the caller got an error, and even after it.                    *)
(*                                                                         *)
(* A call that is refused without changing any state takes no step.        *)
(***************************************************************************)
EXTENDS Integers, Sequences, FiniteSets, FiniteSetsExt

CONSTANTS
  Dbs,          \* databases
  People,       \* principals other than the anonymous one, which gets no access
  Calls,        \* call contexts of deposit_with_approval and create_database_token,
                \* each serves one; a token is named by the call that made it
  Amounts,      \* amount_e8s of a deposit
  Fees,         \* transfer fees of the ledger
  MinDeposit,   \* MIN_DEPOSIT_E8S
  UnitsPerIcp,  \* ICPDB_UNITS_PER_ICP
  E8sPerIcp,    \* ICP_E8S_PER_ICP
  MaxU64,       \* largest u64
  MaxTime,      \* bound: clock readings a deposit can carry
  MaxChanges    \* bound: changes of members, tokens, statuses, billing and fee

ASSUME NameAssumption == /\ People \cap Calls = {}
                         /\ "none" \notin People \cup Calls \cup Dbs
ASSUME AmountAssumption == Amounts \subseteq Nat /\ Fees \subseteq Nat \ {0}
ASSUME RateAssumption == /\ UnitsPerIcp \in Nat \ {0}
                         /\ E8sPerIcp \in Nat \ {0}
                         /\ MinDeposit \in Nat /\ MaxU64 \in Nat
ASSUME BoundAssumption == MaxTime \in Nat /\ MaxChanges \in Nat
ASSUME PeopleAssumption == IsFiniteSet(People)

VARIABLES
  members,      \* database_members: the role of each principal on each database
  hot,          \* databases whose status is hot
  tokens,       \* database_tokens: the token each token call has made
  tokenCall,    \* where each token call stands
  payments,     \* payments
  balance,      \* databases.billing_balance_units, as far as deposits raise it
  billing,      \* databases.billing_status
  transferFee,  \* billing_config: the ledger's fee as last heard
  pendingDeposits, \* PENDING_DEPOSITS: pairs of payer and database
  stage,        \* where each deposit stands
  arg,          \* what each deposit asks of the ledger, and for which database
  outcome,      \* what each deposit returned
  asked,        \* deposits whose request the ledger has not run
  reply,        \* the ledger's answer to each deposit
  ledger,       \* the ledger's blocks: the deposits that moved tokens, in order
  ledgerFee,    \* the fee the ledger asks for
  now,          \* the canister's clock
  changes       \* number of changes so far, bounded by MaxChanges

access  == <<members, hot, tokens, tokenCall>>
account == <<payments, balance, billing, transferFee>>
calls   == <<pendingDeposits, stage, arg, outcome>>
icp     == <<asked, reply, ledger, ledgerFee>>
vars    == <<access, account, calls, icp, now, changes>>

Roles    == {"reader", "writer", "owner"}
Scopes   == {"read", "write", "owner"}
NoToken  == [state |-> "none", db |-> "none", scope |-> "none", by |-> "none"]
NoArg    == [by |-> "none", db |-> "none", amount |-> 0, fee |-> 0, time |-> 0]
NoReply  == [kind |-> "none", n |-> 0]

Created  == [state : {"live", "revoked"}, db : Dbs, scope : Scopes, by : People \cup Calls]
Drafts   == [state : {"random", "returned"}, db : Dbs, scope : Scopes, by : People \cup Calls]
Args     == [by : People, db : Dbs, amount : Amounts, fee : Fees, time : 0..MaxTime]
Payments == [db : Dbs, payer : People, amount : Amounts, units : Nat \ {0}, block : Nat \ {0}]

Success  == {"credited", "existing"}
Errors   == {"notOwner", "recorded", "requote", "duplicate", "failed", "lost"}

IsOwner(d, p) == members[d][p] = "owner"
Owners(d)     == {p \in People : IsOwner(d, p)}

Init ==
  /\ \E founder \in [Dbs -> People] :
       members = [d \in Dbs |-> [p \in People |-> IF p = founder[d] THEN "owner" ELSE "none"]]
  /\ hot = Dbs
  /\ tokens = [t \in Calls |-> NoToken]
  /\ tokenCall = [t \in Calls |-> NoToken]
  /\ payments = {}
  /\ balance = [d \in Dbs |-> 0]
  /\ billing = [d \in Dbs |-> "active"]
  /\ transferFee \in Fees
  /\ pendingDeposits = {}
  /\ stage = [c \in Calls |-> "idle"]
  /\ arg = [c \in Calls |-> NoArg]
  /\ outcome = [c \in Calls |-> "none"]
  /\ asked = {}
  /\ reply = [c \in Calls |-> NoReply]
  /\ ledger = <<>>
  /\ ledgerFee \in Fees
  /\ now = 0
  /\ changes = 0

Unused(c) == stage[c] = "idle" /\ tokenCall[c].state = "none"

Change == changes < MaxChanges /\ changes' = changes + 1

--------------------------------------------------------------------------------
(* Members.  The caller is an owner, or a live token of owner scope.       *)

(* Mutant of OwnerToken: which database the token is for is not looked at. *)
AnyOwnerToken(k, d) == tokens[k].state = "live" /\ tokens[k].scope = "owner"

OwnerToken(k, d) == tokens[k].state = "live" /\ tokens[k].db = d /\ tokens[k].scope = "owner"

MayManage(x, d) == IF x \in People THEN IsOwner(d, x) ELSE OwnerToken(x, d)

(* Mutant of LastOwner: off by one.                                        *)
NoOwnerLeft(d, q) == IsOwner(d, q) /\ Cardinality(Owners(d)) < 1

(* reject_last_owner_removal                                               *)
LastOwner(d, q) == IsOwner(d, q) /\ Cardinality(Owners(d)) <= 1

grant_database_access(x, d, q, role) ==
  /\ Change
  /\ MayManage(x, d)
  /\ d \in hot
  /\ role # "owner" => x # q /\ ~LastOwner(d, q)
  /\ members' = [members EXCEPT ![d][q] = role]
  /\ UNCHANGED <<hot, tokens, tokenCall, account, calls, icp, now>>

revoke_database_access(x, d, q) ==
  /\ Change
  /\ MayManage(x, d)
  /\ d \in hot
  /\ x # q /\ ~LastOwner(d, q)
  /\ members' = [members EXCEPT ![d][q] = "none"]
  /\ UNCHANGED <<hot, tokens, tokenCall, account, calls, icp, now>>

(* The lifecycle calls of other modules take a database out of use and     *)
(* back, and a write that costs more than is left suspends its billing.    *)
LifecycleMoves(d) ==
  /\ Change
  /\ hot' = IF d \in hot THEN hot \ {d} ELSE hot \cup {d}
  /\ UNCHANGED <<members, tokens, tokenCall, account, calls, icp, now>>

ensure_database_has_units(d) ==
  /\ Change
  /\ billing' = [billing EXCEPT ![d] = "suspended"]
  /\ UNCHANGED <<access, payments, balance, transferFee, calls, icp, now>>

--------------------------------------------------------------------------------
(* Tokens.                                                                 *)

create_database_token(t, x, d, scope) ==
  /\ Unused(t)
  /\ MayManage(x, d)
  /\ tokenCall' = [tokenCall EXCEPT ![t] = [state |-> "random", db |-> d, scope |-> scope, by |-> x]]
  /\ UNCHANGED <<members, hot, tokens, account, calls, icp, now, changes>>

(* Mutant of MayStillCreate: the look before raw_rand is trusted.          *)
CheckedBefore(t) == TRUE

(* After raw_rand a principal's role is looked up again; what a token was  *)
(* authenticated for before is taken as it was.                            *)
MayStillCreate(t) == tokenCall[t].by \in People => IsOwner(tokenCall[t].db, tokenCall[t].by)

TokenCreated(t) ==
  /\ tokenCall[t].state = "random"
  /\ MayStillCreate(t)
  /\ tokens' = [tokens EXCEPT ![t] = [tokenCall[t] EXCEPT !.state = "live"]]
  /\ tokenCall' = [tokenCall EXCEPT ![t].state = "returned"]
  /\ UNCHANGED <<members, hot, account, calls, icp, now, changes>>

TokenRefused(t) ==
  /\ tokenCall[t].state = "random"
  /\ tokenCall' = [tokenCall EXCEPT ![t].state = "returned"]
  /\ UNCHANGED <<members, hot, tokens, account, calls, icp, now, changes>>

revoke_database_token(x, t) ==
  /\ Change
  /\ tokens[t].state = "live"
  /\ MayManage(x, tokens[t].db)
  /\ tokens' = [tokens EXCEPT ![t].state = "revoked"]
  /\ UNCHANGED <<members, hot, tokenCall, account, calls, icp, now>>

--------------------------------------------------------------------------------
(* The ICP ledger.  It moves tokens once for equal requests, and answers   *)
(* the second with the block of the first; a request carries no memo, so   *)
(* the database it pays for tells it nothing.                              *)

Transfer(c)     == [from |-> arg[c].by, amount |-> arg[c].amount, fee |-> arg[c].fee, time |-> arg[c].time]
Earlier(c)      == {i \in DOMAIN ledger : Transfer(ledger[i]) = Transfer(c)}
Answers(c, k, n) == reply' = [reply EXCEPT ![c] = [kind |-> k, n |-> n]]

icrc2_transfer_from(c) ==
  /\ c \in asked
  /\ asked' = asked \ {c}
  /\ \/ /\ arg[c].fee # ledgerFee
        /\ Answers(c, "badFee", ledgerFee)
        /\ UNCHANGED ledger
     \/ /\ arg[c].fee = ledgerFee
        /\ \E i \in Earlier(c) : Answers(c, "duplicate", i)
        /\ UNCHANGED ledger
     \/ /\ arg[c].fee = ledgerFee
        /\ Earlier(c) = {}
        /\ ledger' = Append(ledger, c)
        /\ Answers(c, "ok", Len(ledger) + 1)
     \/ /\ Answers(c, "failed", 0)
        /\ UNCHANGED ledger
  /\ UNCHANGED <<access, account, calls, ledgerFee, now, changes>>

FeeChanges ==
  /\ Change
  /\ ledgerFee' \in Fees
  /\ UNCHANGED <<access, account, calls, asked, reply, ledger, now>>

Tick ==
  /\ now < MaxTime
  /\ now' = now + 1
  /\ UNCHANGED <<access, account, calls, icp, changes>>

--------------------------------------------------------------------------------
(* Deposits.                                                               *)

(* Mutant of Creditable: what rounds down to no unit is accepted.          *)
NoMinimum(a) == a * UnitsPerIcp <= MaxU64

(* credited_units_for_deposit, in u64: too little, or a product that       *)
(* overflows, is an error.                                                 *)
Creditable(a) == a >= MinDeposit /\ a * UnitsPerIcp <= MaxU64 /\ a * UnitsPerIcp >= E8sPerIcp

(* Mutant of CreditedUnits: a fraction of a unit is rounded up.            *)
RoundedUp(a) == (a * UnitsPerIcp + E8sPerIcp - 1) \div E8sPerIcp

CreditedUnits(a) == (a * UnitsPerIcp) \div E8sPerIcp

Pair(c) == <<arg[c].by, arg[c].db>>

(* Mutant of deposit_with_approval: no guard is taken first.               *)
unguardedDeposit(c, p, d, a) ==
  /\ Unused(c) /\ IsOwner(d, p) /\ Creditable(a)
  /\ pendingDeposits' = pendingDeposits \cup {<<p, d>>}
  /\ arg' = [arg EXCEPT ![c] = [by |-> p, db |-> d, amount |-> a, fee |-> transferFee, time |-> now]]
  /\ stage' = [stage EXCEPT ![c] = "transfer"]
  /\ asked' = asked \cup {c}
  /\ UNCHANGED <<access, account, outcome, reply, ledger, ledgerFee, now, changes>>

deposit_with_approval(c, p, d, a) ==
  /\ Unused(c)
  /\ <<p, d>> \notin pendingDeposits
  /\ IsOwner(d, p)
  /\ Creditable(a)
  /\ pendingDeposits' = pendingDeposits \cup {<<p, d>>}
  /\ arg' = [arg EXCEPT ![c] = [by |-> p, db |-> d, amount |-> a, fee |-> transferFee, time |-> now]]
  /\ stage' = [stage EXCEPT ![c] = "transfer"]
  /\ asked' = asked \cup {c}
  /\ UNCHANGED <<access, account, outcome, reply, ledger, ledgerFee, now, changes>>

(* Every way out of the handler drops its DepositGuard.                    *)
Returns(c, result) ==
  /\ stage' = [stage EXCEPT ![c] = "returned"]
  /\ outcome' = [outcome EXCEPT ![c] = result]
  /\ pendingDeposits' = pendingDeposits \ {Pair(c)}
  /\ UNCHANGED <<access, arg, icp, now, changes>>

Answered(c, kind) == stage[c] = "transfer" /\ reply[c].kind = kind

Recorded(i) == {x \in payments : x.block = i}

Payment(c) == [db |-> arg[c].db, payer |-> arg[c].by, amount |-> arg[c].amount,
               units |-> CreditedUnits(arg[c].amount), block |-> reply[c].n]

Credit(c) ==
  /\ balance' = [balance EXCEPT ![arg[c].db] = @ + CreditedUnits(arg[c].amount)]
  /\ billing' = [billing EXCEPT ![arg[c].db] = "active"]
  /\ UNCHANGED transferFee

record_approved_deposit(c) ==
  /\ Answered(c, "ok")
  /\ IsOwner(arg[c].db, arg[c].by)
  /\ Creditable(arg[c].amount)
  /\ Recorded(reply[c].n) = {}
  /\ payments' = payments \cup {Payment(c)}
  /\ Credit(c)
  /\ Returns(c, "credited")

NotRecorded(c) ==
  /\ Answered(c, "ok")
  /\ \/ ~IsOwner(arg[c].db, arg[c].by) /\ Returns(c, "notOwner")
     \/ /\ IsOwner(arg[c].db, arg[c].by)
        /\ ~Creditable(arg[c].amount) \/ Recorded(reply[c].n) # {}
        /\ Returns(c, "recorded")
  /\ UNCHANGED account

update_icp_transfer_fee_from_bad_fee(c) ==
  /\ Answered(c, "badFee")
  /\ transferFee' = reply[c].n
  /\ UNCHANGED <<payments, balance, billing>>
  /\ Returns(c, "requote")

(* Mutant of IsOwnPayment: any payment of the block will do.               *)
IsPayment(c) == Recorded(reply[c].n) # {}

IsOwnPayment(c) ==
  /\ IsOwner(arg[c].db, arg[c].by)
  /\ \E x \in Recorded(reply[c].n) : x.db = arg[c].db /\ x.payer = arg[c].by

(* Mutant of deposit_result_for_existing_payment: a duplicate is recorded  *)
(* as if its transfer had been made.                                       *)
recordsDuplicate(c) ==
  /\ Answered(c, "duplicate")
  /\ payments' = IF Recorded(reply[c].n) = {} THEN payments \cup {Payment(c)} ELSE payments
  /\ Credit(c)
  /\ Returns(c, "existing")

deposit_result_for_existing_payment(c) ==
  /\ Answered(c, "duplicate")
  /\ \/ IsOwnPayment(c) /\ Returns(c, "existing")
     \/ ~IsOwnPayment(c) /\ Returns(c, "duplicate")
  /\ UNCHANGED account

TransferRefused(c) ==
  /\ Answered(c, "failed")
  /\ UNCHANGED account
  /\ Returns(c, "failed")

(* The bounded-wait call ends with an error whatever the ledger did, or    *)
(* will do.                                                                *)
GiveUp(c) ==
  /\ stage[c] = "transfer"
  /\ UNCHANGED account
  /\ Returns(c, "lost")

--------------------------------------------------------------------------------
MemberStep ==
  \E x \in People \cup Calls, d \in Dbs, q \in People :
    \/ \E role \in Roles : grant_database_access(x, d, q, role)
    \/ revoke_database_access(x, d, q)

TokenStep ==
  \E t \in Calls :
    \/ \E x \in People \cup Calls, d \in Dbs, scope \in Scopes :
         create_database_token(t, x, d, scope)
    \/ TokenCreated(t)
    \/ TokenRefused(t)
    \/ \E x \in People \cup Calls : revoke_database_token(x, t)

DepositStep(c) ==
  \/ \E p \in People, d \in Dbs, a \in Amounts : deposit_with_approval(c, p, d, a)
  \/ icrc2_transfer_from(c)
  \/ record_approved_deposit(c)
  \/ NotRecorded(c)
  \/ update_icp_transfer_fee_from_bad_fee(c)
  \/ deposit_result_for_existing_payment(c)
  \/ TransferRefused(c)
  \/ GiveUp(c)

DatabaseStep == \E d \in Dbs : LifecycleMoves(d) \/ ensure_database_has_units(d)

Next ==
  \/ MemberStep
  \/ TokenStep
  \/ DatabaseStep
  \/ \E c \in Calls : DepositStep(c)
  \/ FeeChanges
  \/ Tick

Spec == Init /\ [][Next]_vars

--------------------------------------------------------------------------------
(* Properties.                                                             *)

TypeOK ==
  /\ members \in [Dbs -> [People -> Roles \cup {"none"}]]
  /\ hot \subseteq Dbs
  /\ tokens \in [Calls -> Created \cup {NoToken}]
  /\ tokenCall \in [Calls -> Drafts \cup {NoToken}]
  /\ payments \subseteq Payments
  /\ balance \in [Dbs -> Nat]
  /\ billing \in [Dbs -> {"active", "suspended"}]
  /\ transferFee \in Fees /\ ledgerFee \in Fees
  /\ pendingDeposits \subseteq People \X Dbs
  /\ stage \in [Calls -> {"idle", "transfer", "returned"}]
  /\ arg \in [Calls -> Args \cup {NoArg}]
  /\ outcome \in [Calls -> Success \cup Errors \cup {"none"}]
  /\ asked \subseteq Calls
  /\ reply \in [Calls -> [kind : {"none", "ok", "badFee", "duplicate", "failed"}, n : Nat]]
  /\ ledger \in Seq(Calls)
  /\ now \in 0..MaxTime /\ changes \in 0..MaxChanges

(* A database keeps an owner whatever principals and owner tokens do       *)
(* (docs/DB_LIFECYCLE.md:18).                                              *)
KeepsOwner == \A d \in Dbs : Owners(d) # {}

(* Whoever makes a token holds the database it is for: a principal is an   *)
(* owner when the token is made, although raw_rand is awaited after the    *)
(* first look, a token is an owner token of that very database.            *)
TokensComeFromOwners ==
  [][\A t \in Calls :
       LET made == tokens'[t]
       IN tokens[t] = NoToken /\ made # NoToken =>
            IF made.by \in People
            THEN IsOwner(made.db, made.by)
            ELSE /\ tokens[made.by] \in Created
                 /\ tokens[made.by].db = made.db
                 /\ tokens[made.by].scope = "owner"]_vars

(* Every payment stands for one block of the ledger that moved that amount *)
(* from that payer, and no block is two payments.                          *)
PaymentsArePaid ==
  /\ \A x \in payments :
       /\ x.block \in DOMAIN ledger
       /\ arg[ledger[x.block]].by = x.payer
       /\ arg[ledger[x.block]].db = x.db
       /\ arg[ledger[x.block]].amount = x.amount
  /\ \A x, y \in payments : x.block = y.block => x = y

(* Tokens that moved are a payment, unless the deposit still waits, its    *)
(* answer was lost, or its payer was no owner any more when it came.       *)
PaidIsCredited ==
  \A i \in DOMAIN ledger :
    \/ stage[ledger[i]] = "transfer"
    \/ outcome[ledger[i]] \in {"lost", "notOwner"}
    \/ \E x \in payments :
         x.block = i /\ x.payer = arg[ledger[i]].by /\ x.db = arg[ledger[i]].db

(* The payments are the ledger's blocks, less those that nobody could be   *)
(* credited for.                                                           *)
PaymentsMatchBlocks == PaymentsArePaid /\ PaidIsCredited

(* A deposit that reports success, be it of a duplicate, has its amount    *)
(* recorded for its database under the block it reports.                   *)
SuccessMeansCredited ==
  \A c \in Calls :
    outcome[c] \in Success =>
      \E x \in payments :
        /\ x.block = reply[c].n
        /\ x.db = arg[c].db /\ x.payer = arg[c].by /\ x.amount = arg[c].amount

(* The guards held are those of the deposits that wait, one each: none     *)
(* leaks, and no payer waits twice for one database.                       *)
GuardsAreHeld ==
  /\ pendingDeposits = {Pair(c) : c \in {e \in Calls : stage[e] = "transfer"}}
  /\ \A c, e \in Calls :
       stage[c] = "transfer" /\ stage[e] = "transfer" /\ Pair(c) = Pair(e) => c = e

(* The sum of the weights w[x] of the elements x of a set.                 *)
SumOver(w, S) == MapThenSumSet(LAMBDA x : w[x], S)

(* The units deposits gave a database are those of its payments.           *)
UnitsAddUp ==
  \A d \in Dbs :
    balance[d] = SumOver([x \in payments |-> x.units], {x \in payments : x.db = d})

(* No unit without ICP: the units deposits gave a database are never worth *)
(* more than what the ledger moved for it.                                 *)
UnitsArePaidFor ==
  \A d \in Dbs :
    LET Moved == SumOver([i \in DOMAIN ledger |-> arg[ledger[i]].amount],
                         {i \in DOMAIN ledger : arg[ledger[i]].db = d})
    IN balance[d] * E8sPerIcp <= Moved * UnitsPerIcp

(* What deposits gave a database is accounted for on both sides: by its    *)
(* payments, and by the ICP that moved.                                    *)
UnitsAreBacked == UnitsAddUp /\ UnitsArePaidFor
================================================================================
