---------------------------- MODULE Accounts_proofs ----------------------------
(***************************************************************************)
(* Proofs about Accounts, for any databases, principals, deposits, tokens, *)
(* amounts and rates.                                                      *)
(***************************************************************************)
EXTENDS Accounts, SequenceFacts

--------------------------------------------------------------------------------
(* The inductive invariant.                                                *)

(* Whoever asks for a token by a token holds one of its database.          *)
Descends(r) ==
  r.by \in Calls =>
    tokens[r.by] \in Created /\ tokens[r.by].db = r.db /\ tokens[r.by].scope = "owner"

DescentOK ==
  \A t \in Calls :
    /\ Descends(tokens[t]) /\ Descends(tokenCall[t])
    /\ tokenCall[t].state # "returned" => tokens[t] = NoToken

CallsOK ==
  \A c \in Calls :
    /\ stage[c] = "idle" => reply[c] = NoReply /\ c \notin asked
    /\ stage[c] # "idle" => arg[c] \in Args /\ Creditable(arg[c].amount)
    /\ outcome[c] = "none" <=> stage[c] # "returned"
    /\ c \in asked => reply[c] = NoReply

(* An answer tells what the ledger holds.                                  *)
LedgerOK ==
  /\ \A i \in DOMAIN ledger :
       stage[ledger[i]] # "idle" /\ reply[ledger[i]] = [kind |-> "ok", n |-> i]
  /\ \A c \in Calls :
       /\ reply[c].kind = "ok" => reply[c].n \in DOMAIN ledger /\ ledger[reply[c].n] = c
       /\ reply[c].kind = "duplicate" =>
            reply[c].n \in DOMAIN ledger /\ Transfer(ledger[reply[c].n]) = Transfer(c)
       /\ reply[c].kind = "badFee" => reply[c].n \in Fees

PaidBy(x) == \E i \in DOMAIN ledger :
               /\ i = x.block
               /\ outcome[ledger[i]] = "credited"
               /\ arg[ledger[i]].by = x.payer
               /\ arg[ledger[i]].db = x.db
               /\ arg[ledger[i]].amount = x.amount

PaymentsOK ==
  /\ \A x \in payments : PaidBy(x)
  /\ \A x, y \in payments : x.block = y.block => x = y

HasPayment(c) == \E x \in payments :
                   /\ x.block = reply[c].n
                   /\ x.db = arg[c].db /\ x.payer = arg[c].by /\ x.amount = arg[c].amount

(* A deposit whose tokens moved fails only if its answer is lost or its    *)
(* payer is no owner any more.                                             *)
OutcomesOK ==
  \A c \in Calls :
    /\ outcome[c] \in Success => HasPayment(c)
    /\ reply[c].kind = "ok" => outcome[c] \in {"none", "credited", "lost", "notOwner"}
    /\ reply[c].kind = "none" => outcome[c] \in {"none", "lost"}

DepositsOK == CallsOK /\ LedgerOK /\ PaymentsOK /\ OutcomesOK /\ GuardsAreHeld

IInv == TypeOK /\ KeepsOwner /\ DescentOK /\ DepositsOK

--------------------------------------------------------------------------------
(* Facts about the operators of the model.                                 *)

(* What is credited for a deposit is a positive number of units.           *)
LEMMA UnitsArePositive ==
  ASSUME NEW a \in Amounts, Creditable(a)
  PROVE  CreditedUnits(a) \in Nat \ {0}
<1> DEFINE e == a * UnitsPerIcp
<1>1. e \in Nat
  BY AmountAssumption, RateAssumption
<1>2. E8sPerIcp \in Nat \ {0} /\ e >= E8sPerIcp
  BY RateAssumption DEF Creditable
<1> HIDE DEF e
<1>3. e \div E8sPerIcp \in Nat \ {0}
  BY <1>1, <1>2
<1> QED BY <1>3 DEF CreditedUnits, e

(* Who is not the last owner leaves another one.                           *)
LEMMA OwnerRemains ==
  ASSUME TypeOK, NEW d \in Dbs, NEW q \in People, Owners(d) # {}, ~LastOwner(d, q)
  PROVE  \E p \in Owners(d) : p # q
<1>1. CASE ~IsOwner(d, q)
  BY <1>1 DEF Owners
<1>2. CASE IsOwner(d, q)
  <2>1. IsFiniteSet(Owners(d))
    BY PeopleAssumption, FS_Subset DEF Owners
  <2> QED BY <1>2, <2>1, AnotherMember DEF LastOwner, Owners
<1> QED BY <1>1, <1>2

--------------------------------------------------------------------------------
(* Members and tokens.                                                     *)

AccessOK == TypeOK /\ KeepsOwner /\ DescentOK

(* A role may be taken from anybody but the last owner.                    *)
LEMMA MembersKeepOwner ==
  ASSUME AccessOK, NEW d \in Dbs, NEW q \in People, NEW role \in Roles \cup {"none"},
         role # "owner" => ~LastOwner(d, q),
         members' = [members EXCEPT ![d][q] = role]
  PROVE  KeepsOwner' /\ members' \in [Dbs -> [People -> Roles \cup {"none"}]]
<1> USE DEF AccessOK
<1>1. members \in [Dbs -> [People -> Roles \cup {"none"}]]
  BY DEF TypeOK
<1>2. members' \in [Dbs -> [People -> Roles \cup {"none"}]]
  BY <1>1
<1>3. ASSUME NEW e \in Dbs PROVE \E p \in People : members'[e][p] = "owner"
  <2>1. CASE e # d
    <3>1. PICK p \in People : members[e][p] = "owner"
      BY DEF KeepsOwner, Owners, IsOwner
    <3> QED BY <2>1, <3>1, <1>1
  <2>2. CASE e = d /\ role = "owner"
    BY <2>2, <1>1
  <2>3. CASE e = d /\ role # "owner"
    <3>1. PICK p \in Owners(d) : p # q
      BY <2>3, OwnerRemains DEF KeepsOwner
    <3>2. p \in People /\ members[d][p] = "owner"
      BY DEF Owners, IsOwner
    <3>3. members'[d][p] = members[d][p]
      BY <3>1, <3>2, <1>1
    <3> QED BY <2>3, <3>2, <3>3
  <2> QED BY <2>1, <2>2, <2>3
<1> QED BY <1>2, <1>3 DEF KeepsOwner, Owners, IsOwner

(* Grants and revocations leave every database an owner.                   *)
LEMMA GrantsKeepAccess ==
  ASSUME AccessOK, MemberStep
  PROVE  AccessOK'
<1> USE DEF AccessOK
<1>1. PICK x \in People \cup Calls, d \in Dbs, q \in People :
        \/ \E role \in Roles : grant_database_access(x, d, q, role)
        \/ revoke_database_access(x, d, q)
  BY DEF MemberStep
<1>2. PICK role \in Roles \cup {"none"} :
        (role # "owner" => ~LastOwner(d, q)) /\ members' = [members EXCEPT ![d][q] = role]
  BY <1>1 DEF grant_database_access, revoke_database_access
<1>3. Change /\ UNCHANGED <<hot, tokens, tokenCall, account, calls, icp, now>>
  BY <1>1 DEF grant_database_access, revoke_database_access
<1>4. KeepsOwner' /\ members' \in [Dbs -> [People -> Roles \cup {"none"}]]
  BY <1>2, MembersKeepOwner
<1>5. changes' \in 0..MaxChanges
  BY <1>3, BoundAssumption DEF Change, TypeOK
<1>6. TypeOK'
  BY <1>3, <1>4, <1>5 DEF TypeOK, account, calls, icp
<1>7. DescentOK'
  BY <1>3 DEF DescentOK, Descends
<1> QED BY <1>4, <1>6, <1>7

(* Tokens that are there stay there, for the same database and of the same *)
(* scope, so what descended from one still does.                           *)
LEMMA TokensStay ==
  ASSUME \A t \in Calls : tokens[t] \in Created =>
           /\ tokens'[t] \in Created
           /\ tokens'[t].db = tokens[t].db /\ tokens'[t].scope = tokens[t].scope,
         NEW r, Descends(r), NEW q, q.by = r.by, q.db = r.db
  PROVE  q.by \in Calls =>
           tokens'[q.by] \in Created /\ tokens'[q.by].db = q.db /\ tokens'[q.by].scope = "owner"
BY DEF Descends

(* A token is made for what its maker was authenticated for.               *)
LEMMA TokensKeepAccess ==
  ASSUME AccessOK, TokenStep
  PROVE  AccessOK'
<1> USE DEF AccessOK
<1>1. PICK t \in Calls :
        \/ \E x \in People \cup Calls, d \in Dbs, scope \in Scopes :
             create_database_token(t, x, d, scope)
        \/ TokenCreated(t)
        \/ TokenRefused(t)
        \/ \E x \in People \cup Calls : revoke_database_token(x, t)
  BY DEF TokenStep
<1>2. /\ tokens \in [Calls -> Created \cup {NoToken}]
      /\ tokenCall \in [Calls -> Drafts \cup {NoToken}]
      /\ changes \in 0..MaxChanges
  BY DEF TypeOK
<1>3. ASSUME UNCHANGED <<members, hot, account, calls, icp, now>>, changes' \in 0..MaxChanges,
             tokens' \in [Calls -> Created \cup {NoToken}],
             tokenCall' \in [Calls -> Drafts \cup {NoToken}],
             DescentOK'
      PROVE  AccessOK'
  <2>1. TypeOK'
    BY <1>3 DEF TypeOK, account, calls, icp
  <2>2. KeepsOwner'
    BY <1>3 DEF KeepsOwner, Owners, IsOwner
  <2> QED BY <1>3, <2>1, <2>2
<1>4. ASSUME NEW x \in People \cup Calls, NEW d \in Dbs, NEW scope \in Scopes,
             create_database_token(t, x, d, scope)
      PROVE  AccessOK'
  <2> DEFINE r == [state |-> "random", db |-> d, scope |-> scope, by |-> x]
  <2>1. /\ tokenCall' = [tokenCall EXCEPT ![t] = r]
        /\ UNCHANGED <<members, hot, tokens, account, calls, icp, now, changes>>
        /\ MayManage(x, d)
    BY <1>4 DEF create_database_token
  <2>2. r \in Drafts /\ r.by = x /\ r.db = d
    BY DEF Drafts
  <2>3. Descends(r)
    <3>1. x \in Calls => OwnerToken(x, d)
      BY <2>1, NameAssumption DEF MayManage
    <3>2. x \in Calls => tokens[x] \in Created
      BY <3>1, <1>2 DEF OwnerToken, NoToken
    <3> QED BY <3>1, <3>2 DEF Descends, OwnerToken
  <2> HIDE DEF r
  <2>4. tokenCall' \in [Calls -> Drafts \cup {NoToken}]
    BY <2>1, <2>2, <1>2
  <2>5. \A u \in Calls : tokenCall'[u] = IF u = t THEN r ELSE tokenCall[u]
    BY <2>1, <1>2
  <2>6. tokens[t] = NoToken
    BY <1>4 DEF create_database_token, DescentOK, Unused
  <2>7. DescentOK'
    BY <2>1, <2>3, <2>5, <2>6 DEF DescentOK, Descends
  <2> QED BY <1>2, <1>3, <2>1, <2>4, <2>7
<1>5. ASSUME TokenCreated(t) PROVE AccessOK'
  <2>1. /\ tokenCall[t].state = "random"
        /\ tokens' = [tokens EXCEPT ![t] = [tokenCall[t] EXCEPT !.state = "live"]]
        /\ tokenCall' = [tokenCall EXCEPT ![t].state = "returned"]
        /\ UNCHANGED <<members, hot, account, calls, icp, now, changes>>
    BY <1>5 DEF TokenCreated
  <2>2. tokenCall[t] \in Drafts
    BY <2>1, <1>2 DEF NoToken
  <2> DEFINE live == [tokenCall[t] EXCEPT !.state = "live"]
             back == [tokenCall[t] EXCEPT !.state = "returned"]
  <2>3. /\ live \in Created /\ live.by = tokenCall[t].by /\ live.db = tokenCall[t].db
        /\ back \in Drafts /\ back.by = tokenCall[t].by /\ back.db = tokenCall[t].db
    BY <2>2 DEF Created, Drafts
  <2>4. /\ tokens' = [tokens EXCEPT ![t] = live]
        /\ tokenCall' = [tokenCall EXCEPT ![t] = back]
    BY <2>1, <1>2
  <2> HIDE DEF live, back
  <2>5. /\ tokens' \in [Calls -> Created \cup {NoToken}]
        /\ tokenCall' \in [Calls -> Drafts \cup {NoToken}]
    BY <2>3, <2>4, <1>2
  <2>6. \A u \in Calls :
          /\ tokens'[u] = IF u = t THEN live ELSE tokens[u]
          /\ tokenCall'[u] = IF u = t THEN back ELSE tokenCall[u]
    BY <2>4, <1>2
  <2>7. tokens[t] = NoToken /\ back.state = "returned" /\ Descends(tokenCall[t])
    BY <2>1, <2>2 DEF DescentOK, back, Drafts
  <2>8. \A u \in Calls : tokens[u] \in Created => tokens'[u] = tokens[u]
    BY <2>6, <2>7 DEF Created, NoToken
  <2>9. ASSUME NEW u \in Calls PROVE Descends(tokens[u])' /\ Descends(tokenCall[u])'
    <3>1. Descends(tokens[u]) /\ Descends(tokenCall[u])
      BY DEF DescentOK
    <3>2. \E r : Descends(r) /\ tokens'[u].by = r.by /\ tokens'[u].db = r.db
      BY <2>3, <2>6, <2>7, <3>1
    <3>3. \E r : Descends(r) /\ tokenCall'[u].by = r.by /\ tokenCall'[u].db = r.db
      BY <2>3, <2>6, <2>7, <3>1
    <3> QED BY <2>8, <3>2, <3>3, TokensStay DEF Descends
  <2>10. DescentOK'
    BY <2>6, <2>7, <2>9 DEF DescentOK
  <2> QED BY <1>2, <1>3, <2>1, <2>5, <2>10
<1>6. ASSUME TokenRefused(t) PROVE AccessOK'
  <2>1. /\ tokenCall[t].state = "random"
        /\ tokenCall' = [tokenCall EXCEPT ![t].state = "returned"]
        /\ UNCHANGED <<members, hot, tokens, account, calls, icp, now, changes>>
    BY <1>6 DEF TokenRefused
  <2>2. tokenCall[t] \in Drafts
    BY <2>1, <1>2 DEF NoToken
  <2> DEFINE back == [tokenCall[t] EXCEPT !.state = "returned"]
  <2>3. back \in Drafts /\ back.by = tokenCall[t].by /\ back.db = tokenCall[t].db
    BY <2>2 DEF Drafts
  <2>4. tokenCall' = [tokenCall EXCEPT ![t] = back]
    BY <2>1, <1>2
  <2>5. back.state = "returned"
    BY <2>2 DEF Drafts
  <2> HIDE DEF back
  <2>6. tokenCall' \in [Calls -> Drafts \cup {NoToken}]
    BY <2>3, <2>4, <1>2
  <2>7. \A u \in Calls : tokenCall'[u] = IF u = t THEN back ELSE tokenCall[u]
    BY <2>4, <1>2
  <2>8. DescentOK'
    BY <2>1, <2>3, <2>5, <2>7 DEF DescentOK, Descends
  <2> QED BY <1>2, <1>3, <2>1, <2>6, <2>8
<1>7. ASSUME NEW x \in People \cup Calls, revoke_database_token(x, t) PROVE AccessOK'
  <2>1. /\ Change
        /\ tokens[t].state = "live"
        /\ tokens' = [tokens EXCEPT ![t].state = "revoked"]
        /\ UNCHANGED <<members, hot, tokenCall, account, calls, icp, now>>
    BY <1>7 DEF revoke_database_token
  <2>2. tokens[t] \in Created
    BY <2>1, <1>2 DEF NoToken
  <2> DEFINE gone == [tokens[t] EXCEPT !.state = "revoked"]
  <2>3. /\ gone \in Created /\ gone.by = tokens[t].by /\ gone.db = tokens[t].db
        /\ gone.scope = tokens[t].scope
    BY <2>2 DEF Created
  <2>4. tokens' = [tokens EXCEPT ![t] = gone]
    BY <2>1, <1>2
  <2> HIDE DEF gone
  <2>5. tokens' \in [Calls -> Created \cup {NoToken}]
    BY <2>3, <2>4, <1>2
  <2>6. \A u \in Calls : tokens'[u] = IF u = t THEN gone ELSE tokens[u]
    BY <2>4, <1>2
  <2>7. changes' \in 0..MaxChanges
    BY <2>1, <1>2, BoundAssumption DEF Change
  <2>8. \A u \in Calls : tokens[u] \in Created =>
          /\ tokens'[u] \in Created
          /\ tokens'[u].db = tokens[u].db /\ tokens'[u].scope = tokens[u].scope
    BY <2>3, <2>6
  <2>9. ASSUME NEW u \in Calls PROVE Descends(tokens[u])' /\ Descends(tokenCall[u])'
    <3>1. Descends(tokens[u]) /\ Descends(tokenCall[u])
      BY DEF DescentOK
    <3>2. tokens'[u].by = tokens[u].by /\ tokens'[u].db = tokens[u].db
      BY <2>3, <2>6
    <3>3. tokenCall'[u] = tokenCall[u]
      BY <2>1
    <3> QED BY <2>8, <3>1, <3>2, <3>3, TokensStay DEF Descends
  <2>10. tokens[t] # NoToken
    BY <2>1 DEF NoToken
  <2>11. DescentOK'
    BY <2>1, <2>6, <2>9, <2>10 DEF DescentOK
  <2> QED BY <1>2, <1>3, <2>1, <2>5, <2>7, <2>11
<1> QED BY <1>1, <1>4, <1>5, <1>6, <1>7

(* The other actions of the database and of the ledger's and canister's    *)
(* surroundings leave members and tokens alone.                            *)
LEMMA OthersKeepAccess ==
  ASSUME AccessOK, DatabaseStep \/ FeeChanges \/ Tick
  PROVE  AccessOK'
<1> USE DEF AccessOK
<1>1. UNCHANGED <<members, tokens, tokenCall, payments, balance, transferFee, calls, asked, reply, ledger>>
  BY DEF DatabaseStep, LifecycleMoves, ensure_database_has_units, FeeChanges, Tick, account, icp,
         access
<1>2. KeepsOwner' /\ DescentOK'
  BY <1>1 DEF KeepsOwner, Owners, IsOwner, DescentOK, Descends
<1>3. hot' \subseteq Dbs /\ billing' \in [Dbs -> {"active", "suspended"}]
  BY DEF DatabaseStep, LifecycleMoves, ensure_database_has_units, FeeChanges, Tick, account, access,
         TypeOK
<1>4. ledgerFee' \in Fees
  BY DEF DatabaseStep, LifecycleMoves, ensure_database_has_units, FeeChanges, Tick, icp, TypeOK
<1>5. now' \in 0..MaxTime /\ changes' \in 0..MaxChanges
  BY BoundAssumption
     DEF DatabaseStep, LifecycleMoves, ensure_database_has_units, FeeChanges, Tick, Change, TypeOK
<1>6. TypeOK'
  BY <1>1, <1>3, <1>4, <1>5 DEF TypeOK, calls
<1> QED BY <1>2, <1>6

--------------------------------------------------------------------------------
(* Deposits.                                                               *)

(* A block of the ledger is a deposit; blocks are counted from one.        *)
LEMMA BlocksAreDeposits ==
  ASSUME TypeOK
  PROVE  \A i \in DOMAIN ledger : ledger[i] \in Calls /\ i \in Nat \ {0}
<1>1. ledger \in Seq(Calls)
  BY DEF TypeOK
<1>2. DOMAIN ledger = 1 .. Len(ledger) /\ Len(ledger) \in Nat
  BY <1>1, LenProperties
<1>3. \A i \in 1 .. Len(ledger) : ledger[i] \in Calls
  BY <1>1, ElementOfSeq
<1> QED BY <1>2, <1>3

(* Nothing said of deposits depends on members, tokens or billing.         *)
LEMMA DepositsUntouched ==
  ASSUME DepositsOK, UNCHANGED <<payments, calls, asked, reply, ledger>>
  PROVE  DepositsOK'
<1> USE DEF DepositsOK, calls
<1>1. CallsOK'
  BY DEF CallsOK
<1>2. LedgerOK'
  BY DEF LedgerOK, Transfer
<1>3. PaymentsOK'
  BY DEF PaymentsOK, PaidBy
<1>4. OutcomesOK'
  BY DEF OutcomesOK, HasPayment
<1>5. GuardsAreHeld'
  BY DEF GuardsAreHeld, Pair
<1> QED BY <1>1, <1>2, <1>3, <1>4, <1>5

(* A guard is held until its deposit returns, and then no more.            *)
LEMMA GuardIsDropped ==
  ASSUME TypeOK, CallsOK, GuardsAreHeld, NEW c \in Calls, NEW result \in Success \cup Errors,
         stage[c] = "transfer", Returns(c, result)
  PROVE  /\ GuardsAreHeld'
         /\ stage' \in [Calls -> {"idle", "transfer", "returned"}]
         /\ outcome' \in [Calls -> Success \cup Errors \cup {"none"}]
         /\ pendingDeposits' \subseteq People \X Dbs
         /\ \A e \in Calls : /\ stage'[e] = IF e = c THEN "returned" ELSE stage[e]
                             /\ outcome'[e] = IF e = c THEN result ELSE outcome[e]
<1>1. /\ stage \in [Calls -> {"idle", "transfer", "returned"}]
      /\ outcome \in [Calls -> Success \cup Errors \cup {"none"}]
      /\ pendingDeposits \subseteq People \X Dbs
  BY DEF TypeOK
<1>2. /\ stage' = [stage EXCEPT ![c] = "returned"]
      /\ outcome' = [outcome EXCEPT ![c] = result]
      /\ pendingDeposits' = pendingDeposits \ {Pair(c)}
      /\ arg' = arg
  BY DEF Returns
<1>3. \A e \in Calls : /\ stage'[e] = IF e = c THEN "returned" ELSE stage[e]
                       /\ outcome'[e] = IF e = c THEN result ELSE outcome[e]
                       /\ Pair(e)' = Pair(e)
  BY <1>1, <1>2 DEF Pair
<1>4. \A e \in Calls : stage[e] = "transfer" /\ e # c => Pair(e) # Pair(c)
  BY DEF GuardsAreHeld
<1>5. pendingDeposits' = {Pair(e)' : e \in {f \in Calls : stage'[f] = "transfer"}}
  <2>1. pendingDeposits = {Pair(e) : e \in {f \in Calls : stage[f] = "transfer"}}
    BY DEF GuardsAreHeld
  <2>2. ASSUME NEW x \in pendingDeposits'
        PROVE  x \in {Pair(e)' : e \in {f \in Calls : stage'[f] = "transfer"}}
    <3>1. PICK e \in Calls : stage[e] = "transfer" /\ x = Pair(e)
      BY <1>2, <2>1
    <3>2. e # c
      BY <1>2, <3>1
    <3> QED BY <1>3, <3>1, <3>2
  <2>3. ASSUME NEW e \in Calls, stage'[e] = "transfer" PROVE Pair(e)' \in pendingDeposits'
    <3>1. e # c /\ stage[e] = "transfer" /\ Pair(e)' = Pair(e)
      BY <1>3, <2>3
    <3>2. Pair(e) \in pendingDeposits /\ Pair(e) # Pair(c)
      BY <1>4, <2>1, <3>1
    <3> QED BY <1>2, <3>1, <3>2
  <2> QED BY <2>2, <2>3
<1>6. \A e, f \in Calls :
        stage'[e] = "transfer" /\ stage'[f] = "transfer" /\ Pair(e)' = Pair(f)' => e = f
  BY <1>3 DEF GuardsAreHeld
<1>7. GuardsAreHeld'
  BY <1>5, <1>6 DEF GuardsAreHeld
<1> QED BY <1>1, <1>2, <1>3, <1>7

(* A deposit may return without a payment of its own if its answer was     *)
(* lost, its payer is no owner, or its tokens did not move.                *)
LEMMA ReturnKeepsDeposits ==
  ASSUME TypeOK, DepositsOK, NEW c \in Calls, NEW result \in Errors \cup {"existing"},
         stage[c] = "transfer", Returns(c, result), payments' = payments,
         reply[c].kind = "ok" => result \in {"lost", "notOwner"},
         reply[c].kind = "none" => result = "lost",
         result = "existing" => HasPayment(c)
  PROVE  DepositsOK'
<1> USE DEF DepositsOK
<1>1. /\ GuardsAreHeld'
      /\ \A e \in Calls : /\ stage'[e] = IF e = c THEN "returned" ELSE stage[e]
                          /\ outcome'[e] = IF e = c THEN result ELSE outcome[e]
  BY GuardIsDropped DEF Success
<1>2. UNCHANGED <<arg, asked, reply, ledger, payments>>
  BY DEF Returns, icp
<1>3. outcome[c] = "none" /\ result # "none" /\ result # "credited" /\ ledger \in Seq(Calls)
  BY DEF CallsOK, Errors, TypeOK
<1>4. CallsOK'
  BY <1>1, <1>2, <1>3 DEF CallsOK
<1>5. LedgerOK'
  BY <1>1, <1>2, <1>3 DEF LedgerOK, Transfer
<1>6. PaymentsOK'
  BY <1>1, <1>2, <1>3 DEF PaymentsOK, PaidBy
<1>7. OutcomesOK'
  <2>1. \A e \in Calls : HasPayment(e)' <=> HasPayment(e)
    BY <1>2 DEF HasPayment
  <2> QED BY <1>1, <1>2, <1>3, <2>1 DEF OutcomesOK, Success, Errors
<1> QED BY <1>1, <1>4, <1>5, <1>6, <1>7

(* A block that a waiting deposit made is not a payment yet.               *)
LEMMA NotYetRecorded ==
  ASSUME DepositsOK, NEW c \in Calls, Answered(c, "ok")
  PROVE  /\ Recorded(reply[c].n) = {}
         /\ Creditable(arg[c].amount) /\ arg[c] \in Args
         /\ reply[c].n \in DOMAIN ledger /\ ledger[reply[c].n] = c
<1> USE DEF DepositsOK
<1>1. outcome[c] = "none" /\ Creditable(arg[c].amount) /\ arg[c] \in Args
  BY DEF CallsOK, Answered
<1>2. reply[c].n \in DOMAIN ledger /\ ledger[reply[c].n] = c
  BY DEF LedgerOK, Answered
<1>3. ASSUME NEW x \in payments, x.block = reply[c].n PROVE FALSE
  BY <1>1, <1>2, <1>3 DEF PaymentsOK, PaidBy
<1> QED BY <1>1, <1>2, <1>3 DEF Recorded

(* A recorded deposit is the one payment of its block.                     *)
LEMMA RecordKeepsDeposits ==
  ASSUME TypeOK, DepositsOK, NEW c \in Calls, record_approved_deposit(c)
  PROVE  DepositsOK'
<1> USE DEF DepositsOK
<1>1. Answered(c, "ok") /\ payments' = payments \cup {Payment(c)} /\ Returns(c, "credited")
  BY DEF record_approved_deposit
<1>2. /\ GuardsAreHeld'
      /\ \A e \in Calls : /\ stage'[e] = IF e = c THEN "returned" ELSE stage[e]
                          /\ outcome'[e] = IF e = c THEN "credited" ELSE outcome[e]
  BY <1>1, GuardIsDropped DEF Success, Answered
<1>3. UNCHANGED <<arg, asked, reply, ledger>>
  BY <1>1 DEF Returns, icp
<1>4. /\ Recorded(reply[c].n) = {}
      /\ reply[c].n \in DOMAIN ledger /\ ledger[reply[c].n] = c
  BY <1>1, NotYetRecorded
<1>5. /\ Payment(c).block = reply[c].n /\ Payment(c).payer = arg[c].by
      /\ Payment(c).db = arg[c].db /\ Payment(c).amount = arg[c].amount
  BY DEF Payment
<1>6. outcome[c] = "none" /\ ledger \in Seq(Calls) /\ stage[c] = "transfer" /\ reply[c].kind = "ok"
  BY <1>1 DEF CallsOK, TypeOK, Answered
<1>7. CallsOK'
  BY <1>2, <1>3, <1>6 DEF CallsOK
<1>8. LedgerOK'
  BY <1>2, <1>3, <1>6 DEF LedgerOK, Transfer
<1>9. PaymentsOK'
  <2>1. \A x \in payments : PaidBy(x)' /\ x.block # reply[c].n
    BY <1>2, <1>3, <1>4, <1>6 DEF PaymentsOK, PaidBy, Recorded
  <2>2. PaidBy(Payment(c))'
    <3>1. LET i == reply[c].n IN
            /\ i \in DOMAIN ledger' /\ i = Payment(c).block
            /\ outcome'[ledger'[i]] = "credited"
            /\ arg'[ledger'[i]].by = Payment(c).payer
            /\ arg'[ledger'[i]].db = Payment(c).db
            /\ arg'[ledger'[i]].amount = Payment(c).amount
      BY <1>2, <1>3, <1>4, <1>5
    <3>2. Payment(c)' = Payment(c)
      BY <1>3 DEF Payment
    <3> QED BY <3>1, <3>2 DEF PaidBy
  <2>3. Payment(c)' = Payment(c)
    BY <1>3 DEF Payment
  <2>4. \A x \in payments' : PaidBy(x)'
    BY <1>1, <2>1, <2>2, <2>3
  <2>5. \A x, y \in payments' : x.block = y.block => x = y
    BY <1>1, <1>5, <2>1 DEF PaymentsOK
  <2> QED BY <2>4, <2>5 DEF PaymentsOK
<1>10. OutcomesOK'
  <2>1. \A e \in Calls : HasPayment(e) => HasPayment(e)'
    BY <1>1, <1>3 DEF HasPayment
  <2>2. HasPayment(c)'
    BY <1>1, <1>3, <1>5 DEF HasPayment
  <2> QED BY <1>2, <1>3, <1>6, <2>1, <2>2 DEF OutcomesOK
<1> QED BY <1>2, <1>7, <1>8, <1>9, <1>10

(* The handlers that end without a payment.                                *)
ReturnsUnpaid(c) ==
  \/ NotRecorded(c)
  \/ update_icp_transfer_fee_from_bad_fee(c)
  \/ deposit_result_for_existing_payment(c)
  \/ TransferRefused(c)
  \/ GiveUp(c)

(* The other ways to return leave the payments as they are.                *)
LEMMA UnpaidKeepsDeposits ==
  ASSUME TypeOK, DepositsOK, NEW c \in Calls, ReturnsUnpaid(c)
  PROVE  /\ DepositsOK'
         /\ \E result \in Errors \cup {"existing"} : stage[c] = "transfer" /\ Returns(c, result)
         /\ UNCHANGED <<payments, balance, billing>> /\ transferFee' \in Fees
<1> USE DEF DepositsOK
<1>1. \E result \in Errors \cup {"existing"} :
        /\ stage[c] = "transfer" /\ Returns(c, result)
        /\ reply[c].kind = "ok" => result \in {"lost", "notOwner"}
        /\ reply[c].kind = "none" => result = "lost"
        /\ result = "existing" => HasPayment(c)
  <2>1. CASE NotRecorded(c)
    <3>1. Answered(c, "ok")
      BY <2>1 DEF NotRecorded
    <3>2. Returns(c, "notOwner")
      BY <2>1, <3>1, NotYetRecorded DEF NotRecorded
    <3> QED BY <3>1, <3>2 DEF Answered, Errors
  <2>2. CASE update_icp_transfer_fee_from_bad_fee(c)
    BY <2>2 DEF update_icp_transfer_fee_from_bad_fee, Answered, Errors
  <2>3. CASE deposit_result_for_existing_payment(c) /\ IsOwnPayment(c)
    <3>1. Answered(c, "duplicate") /\ Returns(c, "existing")
      BY <2>3 DEF deposit_result_for_existing_payment
    <3>2. PICK x \in payments : x.block = reply[c].n /\ x.db = arg[c].db /\ x.payer = arg[c].by
      BY <2>3 DEF IsOwnPayment, Recorded
    <3>3. reply[c].n \in DOMAIN ledger /\ Transfer(ledger[reply[c].n]) = Transfer(c)
      BY <3>1 DEF LedgerOK, Answered
    <3>4. arg[ledger[reply[c].n]].amount = arg[c].amount
      BY <3>3 DEF Transfer
    <3>5. x.amount = arg[c].amount
      BY <3>2, <3>4 DEF PaymentsOK, PaidBy
    <3>6. HasPayment(c)
      BY <3>2, <3>5 DEF HasPayment
    <3> QED BY <3>1, <3>6 DEF Answered
  <2>4. CASE deposit_result_for_existing_payment(c) /\ ~IsOwnPayment(c)
    BY <2>4 DEF deposit_result_for_existing_payment, Answered, Errors
  <2>5. CASE TransferRefused(c)
    BY <2>5 DEF TransferRefused, Answered, Errors
  <2>6. CASE GiveUp(c)
    BY <2>6 DEF GiveUp, Errors
  <2> QED BY <2>1, <2>2, <2>3, <2>4, <2>5, <2>6 DEF ReturnsUnpaid
<1>2. UNCHANGED <<payments, balance, billing>>
  BY DEF ReturnsUnpaid, NotRecorded, update_icp_transfer_fee_from_bad_fee,
         deposit_result_for_existing_payment, TransferRefused, GiveUp, account
<1>3. transferFee' \in Fees
  BY DEF ReturnsUnpaid, NotRecorded, update_icp_transfer_fee_from_bad_fee, Answered, LedgerOK,
         deposit_result_for_existing_payment, TransferRefused, GiveUp, account, TypeOK
<1> QED BY <1>1, <1>2, <1>3, ReturnKeepsDeposits

(* A deposit begins with its guard free and nothing asked.                 *)
LEMMA StartKeepsDeposits ==
  ASSUME TypeOK, DepositsOK, NEW c \in Calls, NEW p \in People, NEW d \in Dbs, NEW a \in Amounts,
         deposit_with_approval(c, p, d, a)
  PROVE  TypeOK' /\ DepositsOK'
<1> USE DEF DepositsOK
<1> DEFINE r == [by |-> p, db |-> d, amount |-> a, fee |-> transferFee, time |-> now]
<1>1. /\ stage[c] = "idle" /\ <<p, d>> \notin pendingDeposits /\ Creditable(a)
      /\ pendingDeposits' = pendingDeposits \cup {<<p, d>>}
      /\ arg' = [arg EXCEPT ![c] = r]
      /\ stage' = [stage EXCEPT ![c] = "transfer"]
      /\ asked' = asked \cup {c}
      /\ UNCHANGED <<access, account, outcome, reply, ledger, ledgerFee, now, changes>>
  BY DEF deposit_with_approval, Unused
<1>2. r \in Args /\ r.by = p /\ r.db = d /\ r.amount = a
  BY DEF Args, TypeOK
<1> HIDE DEF r
<1>3. TypeOK'
  BY <1>1, <1>2 DEF TypeOK, access, account
<1>4. \A e \in Calls : /\ stage'[e] = IF e = c THEN "transfer" ELSE stage[e]
                       /\ arg'[e] = IF e = c THEN r ELSE arg[e]
  BY <1>1 DEF TypeOK
<1>5. reply[c] = NoReply /\ outcome[c] = "none" /\ c \notin asked
  BY <1>1 DEF CallsOK
<1>6. CallsOK'
  BY <1>1, <1>2, <1>4, <1>5 DEF CallsOK
<1>7. \A i \in DOMAIN ledger : ledger[i] \in Calls /\ ledger[i] # c
  BY <1>1, BlocksAreDeposits DEF LedgerOK
<1>8. \A i \in DOMAIN ledger : arg'[ledger[i]] = arg[ledger[i]] /\ stage'[ledger[i]] = stage[ledger[i]]
  BY <1>4, <1>7
<1>9. LedgerOK'
  <2>1. \A e \in Calls : reply[e].kind = "duplicate" => e # c /\ arg'[e] = arg[e]
    BY <1>4, <1>5 DEF NoReply
  <2>2. ASSUME NEW e \in Calls, reply[e].kind = "duplicate"
        PROVE  Transfer(ledger[reply[e].n])' = Transfer(e)'
    <3>1. reply[e].n \in DOMAIN ledger /\ Transfer(ledger[reply[e].n]) = Transfer(e)
      BY <2>2 DEF LedgerOK
    <3>2. arg'[ledger[reply[e].n]] = arg[ledger[reply[e].n]] /\ arg'[e] = arg[e]
      BY <1>8, <2>1, <2>2, <3>1
    <3> QED BY <1>1, <3>1, <3>2 DEF Transfer
  <2>3. \A i \in DOMAIN ledger : stage'[ledger[i]] # "idle"
    BY <1>8 DEF LedgerOK
  <2> QED BY <1>1, <2>2, <2>3 DEF LedgerOK
<1>10. PaymentsOK'
  BY <1>1, <1>8 DEF PaymentsOK, PaidBy, account
<1>11. OutcomesOK'
  <2>1. \A e \in Calls : e # c /\ HasPayment(e) => HasPayment(e)'
    BY <1>1, <1>4 DEF HasPayment, account
  <2> QED BY <1>1, <1>5, <2>1 DEF OutcomesOK, Success
<1>12. GuardsAreHeld'
  <2>1. \A e \in Calls : Pair(e)' = IF e = c THEN <<p, d>> ELSE Pair(e)
    BY <1>2, <1>4 DEF Pair
  <2>2. \A e \in Calls : stage[e] = "transfer" => Pair(e) \in pendingDeposits /\ e # c
    BY <1>1 DEF GuardsAreHeld
  <2>3. \A x \in pendingDeposits : \E e \in Calls : stage[e] = "transfer" /\ x = Pair(e)
    BY DEF GuardsAreHeld
  <2>4. pendingDeposits' = {Pair(e)' : e \in {f \in Calls : stage'[f] = "transfer"}}
    <3>1. \A x \in pendingDeposits' : \E e \in Calls : stage'[e] = "transfer" /\ x = Pair(e)'
      BY <1>1, <1>4, <2>1, <2>2, <2>3
    <3>2. \A e \in Calls : stage'[e] = "transfer" => Pair(e)' \in pendingDeposits'
      BY <1>1, <1>4, <2>1, <2>2
    <3> QED BY <3>1, <3>2
  <2>5. \A e, f \in Calls :
          stage'[e] = "transfer" /\ stage'[f] = "transfer" /\ Pair(e)' = Pair(f)' => e = f
    BY <1>1, <1>4, <2>1, <2>2 DEF GuardsAreHeld
  <2> QED BY <2>4, <2>5 DEF GuardsAreHeld
<1> QED BY <1>3, <1>6, <1>9, <1>10, <1>11, <1>12

(* The ledger answers what it holds.                                       *)
LEMMA LedgerKeepsDeposits ==
  ASSUME TypeOK, DepositsOK, NEW c \in Calls, icrc2_transfer_from(c)
  PROVE  TypeOK' /\ DepositsOK'
<1> USE DEF DepositsOK
<1>1. /\ c \in asked /\ asked' = asked \ {c}
      /\ UNCHANGED <<access, account, calls, ledgerFee, now, changes>>
  BY DEF icrc2_transfer_from
<1>2. /\ reply[c] = NoReply /\ stage[c] # "idle"
      /\ ledger \in Seq(Calls) /\ reply \in [Calls -> [kind : {"none", "ok", "badFee", "duplicate", "failed"}, n : Nat]]
      /\ Len(ledger) \in Nat /\ DOMAIN ledger = 1 .. Len(ledger)
  BY <1>1 DEF CallsOK, TypeOK
<1>3. \A i \in DOMAIN ledger : ledger[i] \in Calls /\ ledger[i] # c
  <2>1. ASSUME NEW i \in DOMAIN ledger, ledger[i] = c PROVE FALSE
    <3>1. reply[ledger[i]] = [kind |-> "ok", n |-> i]
      BY DEF LedgerOK
    <3>2. reply[c].kind = "ok"
      BY <2>1, <3>1
    <3> QED BY <1>2, <3>2 DEF NoReply
  <2> QED BY <2>1, BlocksAreDeposits
<1>4. PICK k \in {"ok", "badFee", "duplicate", "failed"}, n \in Nat :
        /\ Answers(c, k, n)
        /\ k = "ok" => n = Len(ledger) + 1 /\ ledger' = Append(ledger, c)
        /\ k # "ok" => ledger' = ledger
        /\ k = "duplicate" => n \in DOMAIN ledger /\ Transfer(ledger[n]) = Transfer(c)
        /\ k = "badFee" => n \in Fees
  <2>1. CASE Answers(c, "badFee", ledgerFee) /\ ledger' = ledger
    <3>1. ledgerFee \in Fees /\ ledgerFee \in Nat
      BY AmountAssumption DEF TypeOK
    <3> QED BY <2>1, <3>1
  <2>2. CASE (\E i \in Earlier(c) : Answers(c, "duplicate", i)) /\ ledger' = ledger
    <3>1. PICK i \in Earlier(c) : Answers(c, "duplicate", i)
      BY <2>2
    <3>2. i \in DOMAIN ledger /\ i \in Nat /\ Transfer(ledger[i]) = Transfer(c)
      BY <1>2, <3>1 DEF Earlier
    <3> QED BY <2>2, <3>1, <3>2
  <2>3. CASE ledger' = Append(ledger, c) /\ Answers(c, "ok", Len(ledger) + 1)
    <3>1. Len(ledger) + 1 \in Nat
      BY <1>2
    <3> QED BY <2>3, <3>1
  <2>4. CASE Answers(c, "failed", 0) /\ ledger' = ledger
    BY <2>4
  <2> QED BY <2>1, <2>2, <2>3, <2>4 DEF icrc2_transfer_from
<1>5. \A e \in Calls : reply'[e] = IF e = c THEN [kind |-> k, n |-> n] ELSE reply[e]
  BY <1>2, <1>4 DEF Answers
<1>6. reply' \in [Calls -> [kind : {"none", "ok", "badFee", "duplicate", "failed"}, n : Nat]]
  BY <1>2, <1>4 DEF Answers
<1>7. /\ ledger' \in Seq(Calls)
      /\ \A i \in DOMAIN ledger : i \in DOMAIN ledger' /\ ledger'[i] = ledger[i]
      /\ \A i \in DOMAIN ledger' : i \in DOMAIN ledger \/ (k = "ok" /\ i = n /\ ledger'[i] = c)
      /\ k = "ok" => n \in DOMAIN ledger' /\ ledger'[n] = c
  <2>1. CASE k = "ok"
    <3>1. /\ ledger' \in Seq(Calls) /\ DOMAIN ledger' = 1 .. Len(ledger) + 1
          /\ \A i \in 1 .. Len(ledger) : ledger'[i] = ledger[i]
          /\ ledger'[Len(ledger) + 1] = c
      <4>1. ledger' = Append(ledger, c) /\ Append(ledger, c) \in Seq(Calls)
        BY <1>2, <1>4, <2>1, AppendProperties
      <4>2. DOMAIN ledger' = 1 .. Len(ledger') /\ Len(ledger') = Len(ledger) + 1
        BY <1>2, <4>1, AppendProperties, LenProperties
      <4>3. /\ \A i \in 1 .. Len(ledger) : ledger'[i] = ledger[i]
            /\ ledger'[Len(ledger) + 1] = c
        BY <1>2, <4>1, AppendProperties
      <4> QED BY <4>1, <4>2, <4>3
    <3> QED BY <1>2, <1>4, <2>1, <3>1
  <2>2. CASE k # "ok"
    BY <1>2, <1>4, <2>2
  <2> QED BY <2>1, <2>2
<1>8. TypeOK'
  BY <1>1, <1>6, <1>7 DEF TypeOK, access, account, calls
<1>9. CallsOK'
  BY <1>1, <1>2, <1>5 DEF CallsOK, calls
<1>10. LedgerOK'
  <2>1. \A i \in DOMAIN ledger' : stage'[ledger'[i]] # "idle" /\ reply'[ledger'[i]] = [kind |-> "ok", n |-> i]
    <3> SUFFICES ASSUME NEW i \in DOMAIN ledger'
                 PROVE  stage'[ledger'[i]] # "idle" /\ reply'[ledger'[i]] = [kind |-> "ok", n |-> i]
      OBVIOUS
    <3>1. CASE i \in DOMAIN ledger
      <4>1. /\ ledger'[i] = ledger[i] /\ ledger[i] \in Calls /\ ledger[i] # c
            /\ stage' = stage
        BY <1>1, <1>3, <1>7, <3>1 DEF calls
      <4>2. stage[ledger[i]] # "idle" /\ reply[ledger[i]] = [kind |-> "ok", n |-> i]
        BY <3>1 DEF LedgerOK
      <4> QED BY <1>5, <4>1, <4>2
    <3>2. CASE k = "ok" /\ i = n /\ ledger'[i] = c
      BY <1>1, <1>2, <1>5, <3>2 DEF calls
    <3> QED BY <1>7, <3>1, <3>2
  <2>2. ASSUME NEW e \in Calls
        PROVE  /\ reply'[e].kind = "ok" => reply'[e].n \in DOMAIN ledger' /\ ledger'[reply'[e].n] = e
               /\ reply'[e].kind = "duplicate" =>
                    reply'[e].n \in DOMAIN ledger' /\ Transfer(ledger[reply[e].n])' = Transfer(e)'
               /\ reply'[e].kind = "badFee" => reply'[e].n \in Fees
    <3>1. CASE e # c
      <4>1. reply'[e] = reply[e]
        BY <1>5, <3>1
      <4>2. reply[e].n \in DOMAIN ledger =>
              reply[e].n \in DOMAIN ledger' /\ ledger'[reply[e].n] = ledger[reply[e].n]
        BY <1>7
      <4>3. reply[e].kind = "duplicate" => Transfer(ledger[reply[e].n])' = Transfer(e)'
        <5>1. arg' = arg
          BY <1>1 DEF calls
        <5>2. reply[e].kind = "duplicate" =>
                reply[e].n \in DOMAIN ledger /\ Transfer(ledger[reply[e].n]) = Transfer(e)
          BY DEF LedgerOK
        <5> QED BY <4>1, <4>2, <5>1, <5>2 DEF Transfer
      <4> QED BY <4>1, <4>2, <4>3 DEF LedgerOK
    <3>2. CASE e = c
      <4>1. reply'[e].kind = k /\ reply'[e].n = n
        BY <1>5, <3>2
      <4>2. arg' = arg
        BY <1>1 DEF calls
      <4>3. k = "duplicate" => n \in DOMAIN ledger' /\ ledger'[n] = ledger[n]
        BY <1>4, <1>7
      <4>4. k = "duplicate" => Transfer(ledger[reply[e].n])' = Transfer(e)'
        BY <1>4, <3>2, <4>1, <4>2, <4>3 DEF Transfer
      <4> QED BY <1>4, <1>7, <3>2, <4>1, <4>3, <4>4
    <3> QED BY <3>1, <3>2
  <2> QED BY <2>1, <2>2 DEF LedgerOK
<1>11. PaymentsOK'
  BY <1>1, <1>7 DEF PaymentsOK, PaidBy, account, calls
<1>12. OutcomesOK'
  <2>1. outcome[c] \in {"none", "lost"}
    BY <1>2 DEF OutcomesOK, NoReply
  <2>2. \A e \in Calls : e # c /\ HasPayment(e) => HasPayment(e)'
    BY <1>1, <1>5 DEF HasPayment, account, calls
  <2> QED BY <1>1, <1>4, <1>5, <2>1, <2>2 DEF OutcomesOK, Success, calls
<1>13. GuardsAreHeld'
  BY <1>1 DEF GuardsAreHeld, Pair, calls
<1> QED BY <1>8, <1>9, <1>10, <1>11, <1>12, <1>13

(* A deposit that returns keeps the types of the state.                    *)
LEMMA ReturnKeepsTypes ==
  ASSUME TypeOK, DepositsOK, NEW c \in Calls, NEW result \in Success \cup Errors,
         stage[c] = "transfer", Returns(c, result),
         payments' \subseteq Payments, balance' \in [Dbs -> Nat],
         billing' \in [Dbs -> {"active", "suspended"}], transferFee' \in Fees
  PROVE  TypeOK'
<1>1. /\ stage' \in [Calls -> {"idle", "transfer", "returned"}]
      /\ outcome' \in [Calls -> Success \cup Errors \cup {"none"}]
      /\ pendingDeposits' \subseteq People \X Dbs
  BY GuardIsDropped DEF DepositsOK
<1>2. UNCHANGED <<access, arg, icp, now, changes>>
  BY DEF Returns
<1> QED BY <1>1, <1>2 DEF TypeOK, access, icp

(* A recorded payment credits a positive number of units.                  *)
LEMMA RecordKeepsTypes ==
  ASSUME TypeOK, DepositsOK, NEW c \in Calls, record_approved_deposit(c)
  PROVE  TypeOK'
<1> DEFINE a == arg[c].amount
           u == CreditedUnits(arg[c].amount)
<1>1. /\ Answered(c, "ok") /\ payments' = payments \cup {Payment(c)} /\ Returns(c, "credited")
      /\ balance' = [balance EXCEPT ![arg[c].db] = @ + u]
      /\ billing' = [billing EXCEPT ![arg[c].db] = "active"]
      /\ transferFee' = transferFee
  BY DEF record_approved_deposit, Credit
<1>2. /\ arg[c] \in Args /\ Creditable(arg[c].amount) /\ reply[c].n \in DOMAIN ledger
  BY <1>1, NotYetRecorded
<1>3. arg[c].by \in People /\ arg[c].db \in Dbs /\ arg[c].amount \in Amounts
  BY <1>2 DEF Args
<1>4. u \in Nat \ {0}
  BY <1>2, <1>3, UnitsArePositive
<1>5. reply[c].n \in Nat \ {0}
  BY <1>2, BlocksAreDeposits
<1>6. Payment(c) \in Payments
  BY <1>3, <1>4, <1>5 DEF Payment, Payments
<1> HIDE DEF u
<1>7. balance' \in [Dbs -> Nat] /\ billing' \in [Dbs -> {"active", "suspended"}]
  BY <1>1, <1>3, <1>4 DEF TypeOK
<1>8. payments' \subseteq Payments /\ transferFee' \in Fees
  BY <1>1, <1>6 DEF TypeOK
<1> QED BY <1>1, <1>7, <1>8, ReturnKeepsTypes DEF Answered, Success

(* Every step of a deposit keeps the invariant.                            *)
LEMMA DepositStepKeeps ==
  ASSUME AccessOK, DepositsOK, NEW c \in Calls, DepositStep(c)
  PROVE  AccessOK' /\ DepositsOK'
<1> USE DEF AccessOK
<1>1. TypeOK' /\ DepositsOK'
  <2>1. CASE \E p \in People, d \in Dbs, a \in Amounts : deposit_with_approval(c, p, d, a)
    BY <2>1, StartKeepsDeposits
  <2>2. CASE icrc2_transfer_from(c)
    BY <2>2, LedgerKeepsDeposits
  <2>3. CASE record_approved_deposit(c)
    BY <2>3, RecordKeepsDeposits, RecordKeepsTypes
  <2>4. CASE ReturnsUnpaid(c)
    <3>1. DepositsOK' /\ UNCHANGED <<payments, balance, billing>> /\ transferFee' \in Fees
      BY <2>4, UnpaidKeepsDeposits
    <3>2. PICK result \in Errors \cup {"existing"} : stage[c] = "transfer" /\ Returns(c, result)
      BY <2>4, UnpaidKeepsDeposits
    <3>3. payments' \subseteq Payments /\ balance' \in [Dbs -> Nat]
          /\ billing' \in [Dbs -> {"active", "suspended"}]
      BY <3>1 DEF TypeOK
    <3>4. result \in Success \cup Errors
      BY DEF Success
    <3> QED BY <3>1, <3>2, <3>3, <3>4, ReturnKeepsTypes
  <2> QED BY <2>1, <2>2, <2>3, <2>4 DEF DepositStep, ReturnsUnpaid
<1>2. UNCHANGED access
  BY DEF DepositStep, deposit_with_approval, icrc2_transfer_from, record_approved_deposit, NotRecorded,
         update_icp_transfer_fee_from_bad_fee, deposit_result_for_existing_payment, TransferRefused,
         GiveUp, Returns
<1>3. KeepsOwner' /\ DescentOK'
  BY <1>2 DEF KeepsOwner, Owners, IsOwner, DescentOK, Descends, access
<1> QED BY <1>1, <1>3

--------------------------------------------------------------------------------
(* Theorems.                                                               *)

(* The invariant holds at first.                                           *)
LEMMA InitOK == Init => IInv
<1> SUFFICES ASSUME Init PROVE IInv
  OBVIOUS
<1>1. TypeOK
  <2>1. members \in [Dbs -> [People -> Roles \cup {"none"}]]
    BY DEF Init, Roles
  <2> QED BY <2>1, BoundAssumption DEF Init, TypeOK, NoReply
<1>2. KeepsOwner
  BY DEF Init, KeepsOwner, Owners, IsOwner
<1>3. DescentOK
  BY NameAssumption DEF Init, DescentOK, Descends, NoToken
<1>4. CallsOK
  BY DEF Init, CallsOK
<1>5. LedgerOK
  BY DEF Init, LedgerOK, NoReply
<1>6. PaymentsOK
  BY DEF Init, PaymentsOK
<1>7. OutcomesOK
  BY DEF Init, OutcomesOK, Success, NoReply
<1>8. GuardsAreHeld
  BY DEF Init, GuardsAreHeld
<1> QED BY <1>1, <1>2, <1>3, <1>4, <1>5, <1>6, <1>7, <1>8 DEF IInv, DepositsOK

(* Every step keeps the invariant.                                         *)
LEMMA StepOK == IInv /\ [Next]_vars => IInv'
<1> SUFFICES ASSUME IInv, [Next]_vars PROVE IInv'
  OBVIOUS
<1> USE DEF IInv, AccessOK
<1>1. CASE MemberStep
  <2>1. UNCHANGED <<account, calls, icp>>
    BY <1>1 DEF MemberStep, grant_database_access, revoke_database_access
  <2> QED BY <1>1, <2>1, GrantsKeepAccess, DepositsUntouched DEF account, icp
<1>2. CASE TokenStep
  <2>1. UNCHANGED <<account, calls, icp>>
    BY <1>2 DEF TokenStep, create_database_token, TokenCreated, TokenRefused, revoke_database_token
  <2> QED BY <1>2, <2>1, TokensKeepAccess, DepositsUntouched DEF account, icp
<1>3. CASE DatabaseStep \/ FeeChanges \/ Tick
  <2>1. UNCHANGED <<payments, calls, asked, reply, ledger>>
    BY <1>3 DEF DatabaseStep, LifecycleMoves, ensure_database_has_units, FeeChanges, Tick, account, icp
  <2> QED BY <1>3, <2>1, OthersKeepAccess, DepositsUntouched
<1>4. ASSUME NEW c \in Calls, DepositStep(c) PROVE IInv'
  BY <1>4, DepositStepKeeps
<1>5. CASE UNCHANGED vars
  <2>1. TypeOK'
    BY <1>5 DEF TypeOK, vars, access, account, calls, icp
  <2>2. KeepsOwner' /\ DescentOK'
    BY <1>5 DEF KeepsOwner, Owners, IsOwner, DescentOK, Descends, vars, access
  <2>3. DepositsOK'
    BY <1>5, DepositsUntouched DEF vars, account, icp
  <2> QED BY <2>1, <2>2, <2>3
<1> QED BY <1>1, <1>2, <1>3, <1>4, <1>5 DEF Next

(* The invariant holds in every reachable state, whatever the sets of      *)
(* databases, principals, deposits and tokens and the amounts and rates.   *)
THEOREM Invariance == Spec => []IInv
BY InitOK, StepOK, PTL DEF Spec

(* The state is of its types; a payment never credits zero units.          *)
THEOREM TypeCorrectness == Spec => []TypeOK
<1>1. IInv => TypeOK
  BY DEF IInv
<1> QED BY <1>1, Invariance, PTL

(* A database keeps an owner.                                              *)
THEOREM OwnersRemain == Spec => []KeepsOwner
<1>1. IInv => KeepsOwner
  BY DEF IInv
<1> QED BY <1>1, Invariance, PTL

(* Whoever makes a token holds the database it is for, on both sides of    *)
(* the await if it is a principal.                                         *)
THEOREM TokensByOwners == Spec => TokensComeFromOwners
<1>1. ASSUME IInv, [Next]_vars, NEW t \in Calls, tokens[t] = NoToken, tokens'[t] # NoToken
      PROVE  IF tokens'[t].by \in People
             THEN IsOwner(tokens'[t].db, tokens'[t].by)
             ELSE /\ tokens[tokens'[t].by] \in Created
                  /\ tokens[tokens'[t].by].db = tokens'[t].db
                  /\ tokens[tokens'[t].by].scope = "owner"
  <2>1. tokens'[t] # tokens[t]
    BY <1>1
  <2>2. PICK u \in Calls : TokenCreated(u) \/ \E x \in People \cup Calls : revoke_database_token(x, u)
    BY <1>1, <2>1
       DEF Next, MemberStep, TokenStep, DatabaseStep, DepositStep, FeeChanges, Tick, vars, access,
           grant_database_access, revoke_database_access, create_database_token, TokenRefused,
           LifecycleMoves, ensure_database_has_units, deposit_with_approval, icrc2_transfer_from,
           record_approved_deposit, NotRecorded, update_icp_transfer_fee_from_bad_fee,
           deposit_result_for_existing_payment, TransferRefused, GiveUp, Returns
  <2>3. /\ tokens \in [Calls -> Created \cup {NoToken}]
        /\ tokenCall \in [Calls -> Drafts \cup {NoToken}]
    BY <1>1 DEF IInv, TypeOK
  <2>4. CASE \E x \in People \cup Calls : revoke_database_token(x, u)
    BY <1>1, <2>1, <2>3, <2>4 DEF revoke_database_token, NoToken
  <2>5. CASE TokenCreated(u)
    <3>1. u = t
      BY <2>1, <2>3, <2>5 DEF TokenCreated
    <3>2. tokenCall[t] \in Drafts /\ MayStillCreate(t)
      BY <2>3, <2>5, <3>1 DEF TokenCreated, NoToken
    <3>3. tokens'[t].by = tokenCall[t].by /\ tokens'[t].db = tokenCall[t].db
      BY <2>3, <2>5, <3>1, <3>2 DEF TokenCreated, Drafts
    <3>4. tokenCall[t].by \in People \cup Calls
      BY <3>2 DEF Drafts
    <3>5. CASE tokenCall[t].by \in People
      BY <3>2, <3>3, <3>5 DEF MayStillCreate
    <3>6. CASE tokenCall[t].by \notin People
      BY <1>1, <3>3, <3>4, <3>6 DEF IInv, DescentOK, Descends
    <3> QED BY <3>5, <3>6
  <2> QED BY <2>2, <2>4, <2>5
<1>2. IInv /\ [Next]_vars =>
        [\A t \in Calls :
           LET made == tokens'[t]
           IN tokens[t] = NoToken /\ made # NoToken =>
                IF made.by \in People
                THEN IsOwner(made.db, made.by)
                ELSE /\ tokens[made.by] \in Created
                     /\ tokens[made.by].db = made.db
                     /\ tokens[made.by].scope = "owner"]_vars
  BY <1>1
<1> QED BY <1>2, Invariance, PTL DEF Spec, TokensComeFromOwners

(* Every payment is one block of the ledger, from its payer and of its     *)
(* amount.                                                                 *)
LEMMA PaymentsPaid == IInv => PaymentsArePaid
BY DEF IInv, DepositsOK, PaymentsOK, PaidBy, PaymentsArePaid

(* Tokens that moved are credited, unless the answer was lost or the payer *)
(* was no owner any more.                                                  *)
LEMMA PaidMeansCredited == IInv => PaidIsCredited
<1>1. ASSUME IInv, NEW i \in DOMAIN ledger
      PROVE  \/ stage[ledger[i]] = "transfer"
             \/ outcome[ledger[i]] \in {"lost", "notOwner"}
             \/ \E x \in payments :
                  x.block = i /\ x.payer = arg[ledger[i]].by /\ x.db = arg[ledger[i]].db
  <2>1. ledger[i] \in Calls
    BY <1>1, BlocksAreDeposits DEF IInv
  <2>2. stage[ledger[i]] # "idle" /\ reply[ledger[i]] = [kind |-> "ok", n |-> i]
    BY <1>1 DEF IInv, DepositsOK, LedgerOK
  <2>3. reply[ledger[i]].kind = "ok" /\ reply[ledger[i]].n = i
    BY <2>2
  <2>4. outcome[ledger[i]] \in {"none", "credited", "lost", "notOwner"}
    BY <1>1, <2>1, <2>3 DEF IInv, DepositsOK, OutcomesOK
  <2>5. outcome[ledger[i]] = "none" => stage[ledger[i]] = "transfer"
    BY <1>1, <2>1, <2>2 DEF IInv, DepositsOK, CallsOK, TypeOK
  <2>6. outcome[ledger[i]] = "credited" => HasPayment(ledger[i])
    BY <1>1, <2>1 DEF IInv, DepositsOK, OutcomesOK, Success
  <2> QED BY <2>3, <2>4, <2>5, <2>6 DEF HasPayment
<1> QED BY <1>1 DEF PaidIsCredited

(* The payments are the blocks of the ledger, less those whose answer was  *)
(* lost or whose payer was no owner any more.                              *)
THEOREM PaymentsAgree == Spec => []PaymentsMatchBlocks
<1>1. IInv => PaymentsMatchBlocks
  BY PaymentsPaid, PaidMeansCredited DEF PaymentsMatchBlocks
<1> QED BY <1>1, Invariance, PTL

(* Success, of a duplicate too, means that the deposit is recorded.        *)
THEOREM SuccessCredits == Spec => []SuccessMeansCredited
<1>1. IInv => SuccessMeansCredited
  BY DEF IInv, DepositsOK, OutcomesOK, HasPayment, SuccessMeansCredited
<1> QED BY <1>1, Invariance, PTL

(* A guard is held exactly while its deposit waits.                        *)
THEOREM GuardsHeld == Spec => []GuardsAreHeld
<1>1. IInv => GuardsAreHeld
  BY DEF IInv, DepositsOK
<1> QED BY <1>1, Invariance, PTL

--------------------------------------------------------------------------------
(* The units of a database.                                                *)

Of(d) == {x \in payments : x.db = d}

(* A payment credits what its amount is worth, in whole units.             *)
UnitsInv ==
  /\ IsFiniteSet(payments)
  /\ \A x \in payments : x.units = CreditedUnits(x.amount)
  /\ UnitsAddUp

(* A sum of the model is one of those that the lemmas are about.           *)
LEMMA SumIsWeight ==
  ASSUME NEW w, NEW S
  PROVE  SumOver(w, S) = Weight(w, S)
BY DEF SumOver, Weight

(* A recorded deposit gives its database what its payment says.            *)
LEMMA RecordKeepsUnits ==
  ASSUME TypeOK, DepositsOK, UnitsInv, NEW c \in Calls, record_approved_deposit(c)
  PROVE  UnitsInv'
<1> DEFINE x == Payment(c)
           u == [y \in payments |-> y.units]
           v == [y \in payments' |-> y.units]
<1>1. /\ Answered(c, "ok")
      /\ payments' = payments \cup {x}
      /\ balance' = [balance EXCEPT ![arg[c].db] = @ + CreditedUnits(arg[c].amount)]
  BY DEF record_approved_deposit, Credit
<1>2. /\ Recorded(reply[c].n) = {}
      /\ Creditable(arg[c].amount) /\ arg[c] \in Args /\ reply[c].n \in DOMAIN ledger
  BY <1>1, NotYetRecorded
<1>3. /\ arg[c].db \in Dbs /\ x.db = arg[c].db /\ x.amount = arg[c].amount
      /\ x.units = CreditedUnits(arg[c].amount) /\ x.units \in Nat
  <2>1. arg[c].amount \in Amounts /\ arg[c].db \in Dbs
    BY <1>2 DEF Args
  <2> QED BY <2>1, <1>2, UnitsArePositive DEF Payment
<1>4. x \notin payments
  BY <1>2 DEF Recorded, Payment
<1> HIDE DEF x
<1>5. /\ IsFiniteSet(payments')
      /\ \A y \in payments' : y.units = CreditedUnits(y.amount)
  BY <1>1, <1>3, FS_AddElement DEF UnitsInv
<1>6. ASSUME NEW d \in Dbs PROVE balance'[d] = Weight(v, Of(d)')
  <2>1. /\ balance[d] = Weight(u, Of(d)) /\ balance \in [Dbs -> Nat]
        /\ IsFiniteSet(Of(d))
    BY SumIsWeight, FS_Subset DEF UnitsInv, UnitsAddUp, Of, TypeOK
  <2>2. \A y \in payments : u[y] = y.units /\ v[y] = y.units /\ y.units \in Nat
    BY <1>1 DEF TypeOK, Payments
  <2>3. v[x] = x.units
    BY <1>1
  <2> HIDE DEF u, v
  <2>4. Weight(v, Of(d)) = balance[d]
    <3>1. \A y \in Of(d) : v[y] = u[y]
      BY <2>2 DEF Of
    <3> QED BY <2>1, <3>1, WeightOfSame
  <2>5. CASE d = x.db
    <3>1. Of(d)' = Of(d) \cup {x}
      BY <1>1, <2>5 DEF Of
    <3>2. IsFiniteSet(Of(d)) /\ x \notin Of(d)
      BY <1>4, <2>1 DEF Of
    <3>3. \A y \in Of(d) \cup {x} : v[y] \in Nat
      BY <1>3, <2>2, <2>3 DEF Of
    <3>4. Weight(v, Of(d) \cup {x}) = Weight(v, Of(d)) + v[x]
      <4> DEFINE P == Of(d)
      <4>1. IsFiniteSet(P) /\ x \notin P /\ \A y \in P \cup {x} : v[y] \in Nat
        BY <3>2, <3>3
      <4> HIDE DEF P
      <4>2. Weight(v, P \cup {x}) = Weight(v, P) + v[x]
        BY <4>1, WeightWithOneMore
      <4> QED BY <4>2 DEF P
    <3>5. balance'[d] = balance[d] + x.units
      BY <1>1, <1>3, <2>1, <2>5
    <3> QED BY <2>3, <2>4, <3>1, <3>4, <3>5
  <2>6. CASE d # x.db
    <3>1. Of(d)' = Of(d)
      BY <1>1, <2>6 DEF Of
    <3>2. balance'[d] = balance[d]
      BY <1>1, <1>3, <2>1, <2>6
    <3> QED BY <2>4, <3>1, <3>2
  <2> QED BY <2>5, <2>6
<1>7. UnitsAddUp'
  BY <1>6, SumIsWeight DEF UnitsAddUp, Of
<1> QED BY <1>5, <1>7 DEF UnitsInv

(* The invariant of the units holds at first.                              *)
LEMMA UnitsInitOK == Init => UnitsInv
<1> SUFFICES ASSUME Init PROVE UnitsInv
  OBVIOUS
<1>1. payments = {} /\ \A d \in Dbs : balance[d] = 0
  BY DEF Init
<1>2. \A d \in Dbs : {x \in payments : x.db = d} = {}
  BY <1>1
<1>3. \A w : SumOver(w, {}) = 0
  BY SumIsWeight, WeightOfNone
<1> QED BY <1>1, <1>2, <1>3, FS_EmptySet DEF UnitsInv, UnitsAddUp

(* Every step keeps the invariant of the units: no other one gives or      *)
(* takes units that deposits gave.                                         *)
LEMMA UnitsStepOK == IInv /\ UnitsInv /\ [Next]_vars => UnitsInv'
<1> SUFFICES ASSUME IInv, UnitsInv, [Next]_vars PROVE UnitsInv'
  OBVIOUS
<1>1. CASE \E c \in Calls : record_approved_deposit(c)
  BY <1>1, RecordKeepsUnits DEF IInv
<1>2. CASE UNCHANGED <<payments, balance>>
  BY <1>2 DEF UnitsInv, UnitsAddUp
<1>3. (\E c \in Calls : record_approved_deposit(c)) \/ UNCHANGED <<payments, balance>>
  <2>1. CASE MemberStep \/ TokenStep \/ DatabaseStep \/ FeeChanges \/ Tick \/ UNCHANGED vars
    BY <2>1 DEF MemberStep, grant_database_access, revoke_database_access, TokenStep,
         create_database_token, TokenCreated, TokenRefused, revoke_database_token, DatabaseStep,
         LifecycleMoves, ensure_database_has_units, FeeChanges, Tick, vars, account
  <2>2. ASSUME NEW c \in Calls, DepositStep(c), ~record_approved_deposit(c)
        PROVE  UNCHANGED <<payments, balance>>
    BY <2>2 DEF DepositStep, deposit_with_approval, icrc2_transfer_from, NotRecorded,
         update_icp_transfer_fee_from_bad_fee, deposit_result_for_existing_payment,
         TransferRefused, GiveUp, account
  <2> QED BY <2>1, <2>2 DEF Next
<1> QED BY <1>1, <1>2, <1>3

(* What is credited is worth no more than what was paid.                   *)
LEMMA RoundedDown ==
  ASSUME NEW a \in Amounts
  PROVE  CreditedUnits(a) * E8sPerIcp <= a * UnitsPerIcp
<1> DEFINE e == a * UnitsPerIcp
<1>1. e \in Nat /\ E8sPerIcp \in Nat \ {0}
  BY AmountAssumption, RateAssumption
<1> HIDE DEF e
<1>2. (e \div E8sPerIcp) * E8sPerIcp <= e
  BY <1>1
<1> QED BY <1>2 DEF CreditedUnits, e

(* Each payment stands for a block of its own, of its database and amount, *)
(* and so all of them together for no more than was moved.                 *)
LEMMA UnitsPaidFor == IInv /\ UnitsInv => UnitsArePaidFor
<1> SUFFICES ASSUME IInv, UnitsInv, NEW d \in Dbs
             PROVE  balance[d] * E8sPerIcp
                    <= SumOver([i \in DOMAIN ledger |-> arg[ledger[i]].amount],
                               {i \in DOMAIN ledger : arg[ledger[i]].db = d}) * UnitsPerIcp
  BY DEF UnitsArePaidFor
<1> USE DEF IInv, DepositsOK
<1> DEFINE w == [x \in payments |-> x.units]
           v == [i \in DOMAIN ledger |-> arg[ledger[i]].amount]
           T == {i \in DOMAIN ledger : arg[ledger[i]].db = d}
           h == [x \in Of(d) |-> x.block]
<1>1. balance[d] = Weight(w, Of(d))
  BY SumIsWeight DEF UnitsInv, UnitsAddUp, Of
<1>2. IsFiniteSet(Of(d)) /\ IsFiniteSet(T)
  <2>1. DOMAIN ledger = 1 .. Len(ledger) /\ Len(ledger) \in Nat
    BY LenProperties DEF TypeOK
  <2>2. IsFiniteSet(DOMAIN ledger)
    BY <2>1, FS_Interval
  <2> QED BY <2>2, FS_Subset DEF Of, UnitsInv
<1>3. ASSUME NEW x \in Of(d)
      PROVE  /\ x \in payments /\ x.amount \in Amounts /\ w[x] = CreditedUnits(x.amount)
             /\ w[x] \in Nat
             /\ x.block \in T /\ v[x.block] = x.amount
  <2>1. x \in payments /\ x \in Payments /\ x.db = d /\ x.units = CreditedUnits(x.amount)
    BY DEF Of, UnitsInv, TypeOK
  <2>2. PaidBy(x)
    BY <2>1 DEF PaymentsOK
  <2> QED BY <2>1, <2>2 DEF PaidBy, Payments
<1>4. h \in [Of(d) -> T] /\ \A x \in Of(d) : h[x] = x.block
  BY <1>3
<1>5. \A x, y \in Of(d) : h[x] = h[y] => x = y
  BY <1>3, <1>4 DEF PaymentsOK
<1>6. \A i \in T : v[i] \in Nat
  <2>1. ASSUME NEW i \in DOMAIN ledger PROVE arg[ledger[i]].amount \in Nat
    <3>1. ledger[i] \in Calls /\ stage[ledger[i]] # "idle"
      BY BlocksAreDeposits DEF LedgerOK
    <3>2. arg[ledger[i]] \in Args
      BY <3>1 DEF CallsOK
    <3> QED BY <3>2, AmountAssumption DEF Args
  <2> QED BY <2>1
<1> HIDE DEF h, T, v, w
<1>7. \A x \in Of(d) : w[x] \in Nat /\ w[x] * E8sPerIcp <= v[h[x]] * UnitsPerIcp
  BY <1>3, <1>4, RoundedDown
<1>8. Weight(w, Of(d)) * E8sPerIcp <= Weight(v, T) * UnitsPerIcp
  <2>1. E8sPerIcp \in Nat /\ UnitsPerIcp \in Nat
    BY RateAssumption
  <2> QED BY <1>2, <1>4, <1>5, <1>6, <1>7, <2>1, WeightIsOutweighed
<1> QED BY <1>1, <1>8, SumIsWeight DEF T, v

(* The units that deposits gave a database are those of its payments, none *)
(* is credited twice and none left out, and no more than the ICP that the  *)
(* ledger moved for that database is worth.                                *)
THEOREM UnitsAccounted == Spec => []UnitsAreBacked
<1>1. Spec => [](IInv /\ UnitsInv)
  BY InitOK, StepOK, UnitsInitOK, UnitsStepOK, PTL DEF Spec
<1>2. IInv /\ UnitsInv => UnitsAreBacked
  BY UnitsPaidFor DEF UnitsInv, UnitsAreBacked
<1> QED BY <1>1, <1>2, PTL
================================================================================
