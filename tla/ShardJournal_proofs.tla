-------------------------- MODULE ShardJournal_proofs --------------------------
(***************************************************************************)
(* Proofs about the journal and the writes of migrated databases, for any  *)
(* calls, local databases and names and any numbers of shards, places and  *)
(* memories.                                                               *)
(*                                                                         *)
(* First: every divergence of the catalog and the shards shows in the      *)
(* journal, in sessions whose calls begin in milliseconds of their own.  A *)
(* database of a shard is disturbed when a call on it is about to end as   *)
(* unknown, or one has.  It stays disturbed, and until it is, its slot is  *)
(* accounted for: by one call, or by the catalog.                          *)
(*                                                                         *)
(* Second: the acknowledged writes of a database move with it, if besides  *)
(* its owners do not archive anew.  A database that the catalog routes to  *)
(* a shard has its writes in the memory of its slot; a migration that has  *)
(* restored its database has there what it hashed, which is all that was   *)
(* written while the database still is archived.                           *)
(***************************************************************************)
EXTENDS ShardPlacement_proofs

-----------------------------------------------------------------------------
(* The inductive invariant of the journal.                                 *)

On(c, d, s) == Active(c) /\ calls[c].db = d /\ calls[c].at = s

(* A call that has failed or is undone ends as unknown.                    *)
Failing(c) == calls[c].stage = "undo" \/ calls[c].reply = "error"

Unknown(d) == \E row \in DOMAIN journal : row.db = d /\ journal[row] = "unknown"
Disturbed(d, s) == Unknown(d) \/ \E c \in Calls : On(c, d, s) /\ Failing(c)

(* A call whose slot was created, and is hot when the call is to register  *)
(* it or has restored it.                                                  *)
Holder(c, d, s) == On(c, d, s) /\ (calls[c].stage = "create_slot" => calls[c].reply = "ok")
Finished(c) == calls[c].stage \in {"create_slot", "finalize_restore"} /\ calls[c].reply = "ok"

AccountedFor(d, s) ==
  /\ \A c \in Calls : Holder(c, d, s) =>
       /\ slots[s][d].status # "none" /\ catalog[d].at # s
       /\ Finished(c) => slots[s][d].status = "hot"
       /\ \A e \in Calls : Holder(e, d, s) => e = c
  /\ slots[s][d].status # "none" => catalog[d].at = s \/ \E c \in Calls : Holder(c, d, s)
  /\ catalog[d].at = s => /\ slots[s][d].status # "none"
                          /\ catalog[d].status = "hot" <=> slots[s][d].status = "hot"

RowsOK == \A c \in Calls : Active(c) => Status(Row(calls[c])) = "pending"
AccountsOK == \A d \in Ids, s \in Shards : ~Disturbed(d, s) => AccountedFor(d, s)
Accounts == ClockOK /\ RowsOK /\ AccountsOK

-----------------------------------------------------------------------------
(* The journal.                                                            *)

(* What a call writes to the journal, if it writes: a row of its           *)
(* millisecond that is not unknown.                                        *)
Writes(c) ==
  \/ UNCHANGED journal
  \/ \E row, status : /\ Journal(row, status) /\ Status(row) # "unknown"
                      /\ row.ms = calls'[c].ms

LEMMA JournalOf ==
  ASSUME NEW row, NEW status, Journal(row, status)
  PROVE  /\ Status(row)' = status
         /\ \A r : r # row => Status(r)' = Status(r)
         /\ \A r : r \in DOMAIN journal' <=> r \in DOMAIN journal \/ r = row
         /\ journal'[row] = status
         /\ \A r \in DOMAIN journal : r # row => journal'[r] = journal[r]
BY DEF Journal, Status

(* No row ceases to be unknown.                                            *)
LEMMA UnknownStays ==
  ASSUME NEW c, Writes(c), NEW d, Unknown(d)
  PROVE  Unknown(d)'
<1>1. PICK r \in DOMAIN journal : r.db = d /\ journal[r] = "unknown"
  BY DEF Unknown
<1>2. CASE UNCHANGED journal
  BY <1>1, <1>2 DEF Unknown
<1>3. CASE ~UNCHANGED journal
  <2>1. PICK row, status : Journal(row, status) /\ Status(row) # "unknown"
    BY <1>3 DEF Writes
  <2>2. r # row
    BY <1>1, <2>1 DEF Status
  <2>3. r \in DOMAIN journal' /\ journal'[r] = "unknown"
    BY <1>1, <2>1, <2>2, JournalOf
  <2> QED BY <1>1, <2>3 DEF Unknown
<1> QED BY <1>2, <1>3

(* No call writes the row of another.                                      *)
LEMMA OtherRows ==
  ASSUME NEW c \in Calls, Writes(c), ClockOK', Used(c)', NEW e \in Calls \ {c}, Used(e)',
         calls'[e] = calls[e]
  PROVE  Status(Row(calls[e]))' = Status(Row(calls[e]))
<1>1. Row(calls[e]).ms = calls[e].ms /\ calls'[c].ms # calls[e].ms
  BY DEF Row, ClockOK
<1>2. Row(calls'[e]) = Row(calls[e])
  BY DEF Row
<1>3. CASE UNCHANGED journal
  BY <1>3 DEF Status, Row
<1>4. CASE ~UNCHANGED journal
  <2>1. PICK row, status : Journal(row, status) /\ row.ms = calls'[c].ms
    BY <1>4 DEF Writes
  <2>2. Row(calls[e]) # row
    BY <1>1, <2>1
  <2> DEFINE r == Row(calls[e])
  <2>3. Row(calls[e])' = r
    BY <1>2 DEF Row
  <2> HIDE DEF r
  <2>4. Status(r)' = Status(r)
    BY <2>1, <2>2, JournalOf DEF r
  <2> QED BY <2>3, <2>4 DEF Status, r
<1> QED BY <1>3, <1>4

-----------------------------------------------------------------------------
(* Disturbed databases, and accounts that a step does not touch.           *)

(* What is disturbed stays so, when one call goes on or one begins.        *)
LEMMA DisturbedStays ==
  ASSUME NEW c \in Calls, \A e \in Calls \ {c} : calls'[e] = calls[e], Writes(c),
         \A d, s : On(c, d, s) /\ Failing(c) => Unknown(d)' \/ (On(c, d, s)' /\ Failing(c)'),
         NEW d, NEW s, Disturbed(d, s)
  PROVE  Disturbed(d, s)'
<1>1. CASE Unknown(d)
  BY <1>1, UnknownStays DEF Disturbed
<1>2. CASE ~Unknown(d)
  <2>1. PICK e \in Calls : On(e, d, s) /\ Failing(e)
    BY <1>2 DEF Disturbed
  <2>2. CASE e = c
    BY <2>1, <2>2 DEF Disturbed
  <2>3. CASE e # c
    BY <2>1, <2>3 DEF Disturbed, On, Failing, Active, Used
  <2> QED BY <2>2, <2>3
<1> QED BY <1>1, <1>2

LEMMA Untouched ==
  ASSUME NEW d, NEW s, AccountedFor(d, s),
         slots'[s][d].status = slots[s][d].status,
         catalog'[d] = catalog[d] \/ (catalog[d].at # s /\ catalog'[d].at # s),
         \A e \in Calls : Holder(e, d, s)' <=> Holder(e, d, s),
         \A e \in Calls : Holder(e, d, s) /\ Finished(e)' => Finished(e)
  PROVE  AccountedFor(d, s)'
<1>1. \A e \in Calls : Holder(e, d, s)' =>
        /\ slots'[s][d].status # "none" /\ catalog'[d].at # s
        /\ Finished(e)' => slots'[s][d].status = "hot"
        /\ \A f \in Calls : Holder(f, d, s)' => f = e
  BY DEF AccountedFor
<1>2. slots'[s][d].status # "none" => catalog'[d].at = s \/ \E e \in Calls : Holder(e, d, s)'
  BY DEF AccountedFor
<1>3. catalog'[d].at = s => /\ slots'[s][d].status # "none"
                            /\ catalog'[d].status = "hot" <=> slots'[s][d].status = "hot"
  BY DEF AccountedFor
<1> QED BY <1>1, <1>2, <1>3 DEF AccountedFor

(* The accounts of databases that a call is not on, before or after.       *)
LEMMA OthersUntouched ==
  ASSUME NEW c \in Calls, \A e \in Calls \ {c} : calls'[e] = calls[e],
         NEW d, NEW s, AccountedFor(d, s), ~Holder(c, d, s), ~Holder(c, d, s)',
         slots'[s][d].status = slots[s][d].status,
         catalog'[d] = catalog[d] \/ (catalog[d].at # s /\ catalog'[d].at # s)
  PROVE  AccountedFor(d, s)'
<1>1. \A e \in Calls : /\ Holder(e, d, s)' <=> Holder(e, d, s)
                       /\ Holder(e, d, s) /\ Finished(e)' => Finished(e)
  BY DEF Holder, On, Active, Used, Finished
<1> QED BY <1>1, Untouched

(* The account of the call that has the slot, and goes on having it.       *)
LEMMA HolderStays ==
  ASSUME NEW c \in Calls, \A e \in Calls \ {c} : calls'[e] = calls[e],
         NEW d, NEW s, AccountedFor(d, s), Holder(c, d, s), Holder(c, d, s)', UNCHANGED catalog,
         slots'[s][d].status # "none", Finished(c)' => slots'[s][d].status = "hot"
  PROVE  AccountedFor(d, s)'
<1>1. catalog'[d].at # s /\ \A e \in Calls : Holder(e, d, s) => e = c
  BY DEF AccountedFor
<1>2. \A e \in Calls : Holder(e, d, s)' => e = c
  BY <1>1 DEF Holder, On, Active, Used
<1> QED BY <1>1, <1>2 DEF AccountedFor

(* The accounts after a step of a call, once those of the databases that   *)
(* are not disturbed are known to hold.                                    *)
LEMMA AccountsAfter ==
  ASSUME NEW c \in Calls, \A e \in Calls \ {c} : calls'[e] = calls[e], Writes(c), AccountsOK,
         \A d, s : On(c, d, s) /\ Failing(c) => Unknown(d)' \/ (On(c, d, s)' /\ Failing(c)'),
         \A d \in Ids, s \in Shards : AccountedFor(d, s) /\ ~Disturbed(d, s)' => AccountedFor(d, s)'
  PROVE  AccountsOK'
<1>1. \A d \in Ids, s \in Shards : Disturbed(d, s) => Disturbed(d, s)'
  BY DisturbedStays
<1> QED BY <1>1 DEF AccountsOK

(* The rows after a step of a call.                                        *)
LEMMA RowsAfter ==
  ASSUME NEW c \in Calls, \A e \in Calls \ {c} : calls'[e] = calls[e], Writes(c), RowsOK,
         ClockOK', Used(c)', Active(c)' => Status(Row(calls[c]))' = "pending"
  PROVE  RowsOK'
<1> SUFFICES ASSUME NEW e \in Calls, Active(e)' PROVE Status(Row(calls[e]))' = "pending"
  BY DEF RowsOK
<1>1. CASE e = c
  BY <1>1
<1>2. CASE e # c
  <2>1. Active(e) /\ Used(e)'
    BY <1>2 DEF Active, Used
  <2>2. Status(Row(calls[e])) = "pending"
    BY <2>1 DEF RowsOK
  <2> QED BY <1>2, <2>1, <2>2, OtherRows
<1> QED BY <1>1, <1>2

-----------------------------------------------------------------------------
(* Shards.                                                                 *)

(* The status of the slot of a call that is served.                        *)
LEMMA Served ==
  ASSUME Base, NEW c \in Calls, Active(c), Runs(c), calls[c].stage # "undo"
  PROVE  LET status == slots'[calls[c].at][calls[c].db].status
         IN /\ status # "none"
            /\ calls[c].stage \in {"create_slot", "finalize_restore"} => status = "hot"
            /\ calls[c].stage = "create_slot" => slots[calls[c].at][calls[c].db].status = "none"
<1> DEFINE s == calls[c].at
           d == calls[c].db
<1>1. d \in Ids /\ s \in Shards /\ slots \in [Shards -> [Ids -> SlotRows]] /\ slots[s][d] \in SlotRows
  BY DatabasesOfCalls DEF Base, Types, ShardTypes
<1>2. \A new : slots' = [slots EXCEPT ![s][d] = new] => slots'[s][d] = new
  <2> HIDE DEF s, d
  <2> QED BY <1>1
<1>3. CASE calls[c].stage = "create_slot"
  <2> DEFINE hot == [NoSlot EXCEPT !.status = "hot"]
             new == [hot EXCEPT !.mount = Min(Free(s))]
  <2>1. create_database_slot(s, d)
    BY <1>3 DEF Runs, Awaits
  <2>2. slots[s][d].status = "none" /\ slots' = [slots EXCEPT ![s][d] = new]
    BY <2>1 DEF create_database_slot, Takes
  <2>3. new.status = "hot"
    BY DEF NoSlot
  <2> HIDE DEF new, s, d
  <2> QED BY <1>2, <1>3, <2>2, <2>3 DEF s, d
<1>4. CASE calls[c].stage = "delete_slot"
  <2> DEFINE new == [NoSlot EXCEPT !.status = "deleted"]
  <2>1. slots' = [slots EXCEPT ![s][d] = new]
    BY <1>4 DEF Runs, Awaits, delete_database_slot
  <2>2. new.status = "deleted"
    BY DEF NoSlot
  <2> HIDE DEF new, s, d
  <2> QED BY <1>2, <1>4, <2>1, <2>2 DEF s, d
<1>5. CASE calls[c].stage = "begin_restore"
  <2> DEFINE row == [NoSlot EXCEPT !.status = "restoring", !.digest = calls[c].digest, !.chunk = -1]
             new == [row EXCEPT !.mount = Min(Free(s))]
  <2>1. begin_database_restore(s, d, calls[c].digest)
    BY <1>5 DEF Runs, Awaits
  <2>2. slots' = [slots EXCEPT ![s][d] = new]
    BY <2>1 DEF begin_database_restore, Takes
  <2>3. new.status = "restoring"
    BY DEF NoSlot
  <2> HIDE DEF new, s, d
  <2> QED BY <1>2, <1>5, <2>2, <2>3 DEF s, d
<1>6. CASE calls[c].stage = "write_chunk"
  <2> DEFINE new == [slots[s][d] EXCEPT !.chunk = calls[c].chunk]
  <2>1. write_database_restore_chunk(s, d, calls[c].chunk)
    BY <1>6 DEF Runs, Awaits
  <2>2. slots[s][d].status = "restoring" /\ slots' = [slots EXCEPT ![s][d] = new]
    BY <2>1 DEF write_database_restore_chunk
  <2>3. new.status = "restoring"
    BY <1>1, <2>2 DEF SlotRows
  <2> HIDE DEF new, s, d
  <2> QED BY <1>2, <1>6, <2>2, <2>3 DEF s, d
<1>7. CASE calls[c].stage = "finalize_restore"
  <2> DEFINE new == [slots[s][d] EXCEPT !.status = "hot"]
  <2>1. slots' = [slots EXCEPT ![s][d] = new]
    BY <1>7 DEF Runs, Awaits, finalize_database_restore
  <2>2. new.status = "hot"
    BY <1>1 DEF SlotRows
  <2> HIDE DEF new, s, d
  <2> QED BY <1>2, <1>7, <2>1, <2>2 DEF s, d
<1> QED BY <1>3, <1>4, <1>5, <1>6, <1>7 DEF Runs, Awaits

(* A request that is served or refused.                                    *)
LEMMA ServeAccounts ==
  ASSUME Base, Accounts, NEW c \in Calls, Serve(c) \/ Refuse(c)
  PROVE  Accounts'
<1>1. Active(c) /\ calls[c].reply = "none"
  BY DEF Serve, Runs, Refuse, Awaits, Active, Used
<1>2. PICK reply \in {"ok", "error"} : /\ calls' = [calls EXCEPT ![c].reply = reply]
                                       /\ reply = "ok" => Runs(c)
  BY DEF Serve, Refuse, Replies
<1> DEFINE call == [calls[c] EXCEPT !.reply = reply]
<1>3. UNCHANGED <<catalog, shards, journal, session>> /\ Goes(c, call)
  BY <1>2 DEF Serve, Refuse, Replies, placement, Goes
<1>4. /\ Same(call, calls[c]) /\ call.stage = calls[c].stage /\ call.reply = reply
  BY <1>1, DatabasesOfCalls DEF CallRows, Same, Unused
<1> HIDE DEF call
<1>5. /\ calls'[c] = call /\ \A e \in Calls \ {c} : calls'[e] = calls[e]
  BY <1>3, <1>4 DEF Goes, Base, Types, CallTypes
<1>6. ClockOK'
  BY <1>1, <1>3, <1>4, BegunKept DEF Accounts, Base, Types, Active, Same
<1>7. Active(c)' /\ \A d, s : On(c, d, s)' <=> On(c, d, s)
  BY <1>1, <1>4, <1>5 DEF Active, Used, On, Same
<1>8. RowsOK'
  <2>1. Row(calls'[c]) = Row(calls[c])
    BY <1>4, <1>5 DEF Row, Same
  <2>2. Status(Row(calls[c])) = "pending"
    BY <1>1 DEF Accounts, RowsOK
  <2>3. Status(Row(calls[c]))' = "pending"
    BY <1>3, <2>1, <2>2 DEF Status
  <2> QED BY <1>3, <1>5, <1>6, <1>7, <2>3, RowsAfter DEF Writes, Accounts, Active
<1>9. \A d, s : On(c, d, s) /\ Failing(c) => On(c, d, s)' /\ Failing(c)'
  BY <1>1, <1>4, <1>5, <1>7 DEF Failing
<1>10. ASSUME NEW d \in Ids, NEW s \in Shards, AccountedFor(d, s), ~Disturbed(d, s)'
       PROVE  AccountedFor(d, s)'
  <2>1. CASE d = calls[c].db /\ s = calls[c].at
    <3>0. On(c, d, s) /\ On(c, d, s)'
      BY <1>1, <1>7, <2>1 DEF On
    <3>1. calls[c].stage # "undo" /\ reply = "ok" /\ Runs(c)
      BY <1>2, <1>4, <1>5, <1>10, <3>0 DEF Disturbed, Failing
    <3>2. /\ slots'[s][d].status # "none"
          /\ calls[c].stage \in {"create_slot", "finalize_restore"} => slots'[s][d].status = "hot"
          /\ calls[c].stage = "create_slot" => slots[s][d].status = "none"
      BY <1>1, <2>1, <3>1, Served
    <3>3. Holder(c, d, s)' /\ (Finished(c)' => slots'[s][d].status = "hot")
      BY <1>4, <1>5, <3>0, <3>1, <3>2 DEF Holder, Finished
    <3>4. CASE calls[c].stage # "create_slot"
      <4>1. Holder(c, d, s)
        BY <3>0, <3>4 DEF Holder
      <4> QED BY <1>3, <1>5, <1>10, <3>2, <3>3, <4>1, HolderStays
    <3>5. CASE calls[c].stage = "create_slot"
      <4>1. catalog[d].at # s /\ \A e \in Calls : ~Holder(e, d, s)
        BY <1>10, <3>2, <3>5 DEF AccountedFor
      <4>2. \A e \in Calls : Holder(e, d, s)' => e = c
        BY <1>5, <4>1 DEF Holder, On, Active, Used
      <4> QED BY <1>3, <3>2, <3>3, <4>1, <4>2 DEF AccountedFor
    <3> QED BY <3>4, <3>5
  <2>2. CASE ~(d = calls[c].db /\ s = calls[c].at)
    <3>1. ~Holder(c, d, s) /\ ~Holder(c, d, s)'
      BY <1>7, <2>2 DEF Holder, On
    <3>2. slots'[s][d].status = slots[s][d].status
      <4>1. CASE UNCHANGED slots
        BY <4>1
      <4>2. CASE Serve(c)
        <5> DEFINE t == calls[c].at
                   e == calls[c].db
        <5>1. e \in Ids /\ t \in Shards /\ calls[c].digest \in Int /\ calls[c].chunk \in Int
          BY <1>1, DatabasesOfCalls DEF CallRows
        <5>2. \E n \in Int : \/ create_database_slot(t, e)
                             \/ delete_database_slot(t, e)
                             \/ begin_database_restore(t, e, n)
                             \/ write_database_restore_chunk(t, e, n)
                             \/ finalize_database_restore(t, e)
                             \/ discard_database_slot(t, e)
          BY <4>2, <5>1 DEF Serve, Runs
        <5> HIDE DEF t, e
        <5>3. OnlySlot(t, e)
          BY <5>1, <5>2, HandlersKeepMemories DEF Base, Types
        <5> QED BY <1>10, <2>2, <5>3 DEF OnlySlot, t, e
      <4> QED BY <4>1, <4>2 DEF Refuse, shard
    <3> QED BY <1>3, <1>5, <1>10, <3>1, <3>2, OthersUntouched
  <2> QED BY <2>1, <2>2
<1>11. AccountsOK'
  BY <1>3, <1>5, <1>9, <1>10, AccountsAfter DEF Writes, Accounts
<1> QED BY <1>6, <1>8, <1>11 DEF Accounts

-----------------------------------------------------------------------------
(* The control canister.                                                   *)

(* How a call goes on: it ends as unknown, and a migration may reopen its  *)
(* database; its creation is undone; it places its database; or it takes   *)
(* the next step of a migration.                                           *)
FailsUnknown(c) ==
  /\ Ends(c, "unknown")
  /\ UNCHANGED catalog \/ (LocalIs(calls[c].db, "archiving") /\ Becomes(calls[c].db, "hot"))
IsUndone(c) == GoesTo(c, "undo") /\ UNCHANGED <<catalog, journal>>
Succeeds(c) ==
  /\ Finished(c) /\ Ends(c, "applied") /\ Places(c)
  /\ \/ catalog[calls[c].db] = Absent
     \/ calls[c].stage = "finalize_restore" /\ LocalIs(calls[c].db, "archiving")
GoesOn(c) ==
  /\ calls[c].reply = "ok" /\ calls[c].stage # "undo" /\ UNCHANGED <<catalog, journal>>
  /\ \E call : /\ Goes(c, call) /\ Same(call, calls[c]) /\ call.reply = "none"
               /\ call.digest = calls[c].digest
               /\ call.stage \in {"delete_slot", "begin_restore", "write_chunk", "finalize_restore"}
               /\ call.stage = "write_chunk" => calls[c].stage = "begin_restore"
               /\ call.stage = "finalize_restore" => calls[c].stage = "write_chunk"

(* The steps of a migration.                                               *)
LEMMA MigrationSteps ==
  ASSUME Base, NEW c \in Calls, MigrationGoesOn(c)
  PROVE  IsUndone(c) \/ GoesOn(c)
<1>1. PICK stage \in DOMAIN NextStage :
        /\ Answered(c, stage, "ok")
        /\ \/ Goes(c, Stage(calls[c], "undo"))
           \/ Goes(c, Stage(calls[c], NextStage[stage]))
           \/ Goes(c, [Stage(calls[c], NextStage[stage]) EXCEPT !.chunk = written[calls[c].db]])
  BY DEF MigrationGoesOn
<1>2. /\ NextStage[stage] \in {"delete_slot", "begin_restore", "write_chunk", "finalize_restore"}
      /\ NextStage[stage] = "write_chunk" => stage = "begin_restore"
      /\ NextStage[stage] = "finalize_restore" => stage = "write_chunk"
  BY DEF NextStage
<1>3. calls[c] \in CallRows /\ calls[c].reply = "ok" /\ calls[c].stage = stage /\ stage # "undo"
  BY <1>1 DEF Answered, Base, Types, CallTypes, NextStage
<1>4. UNCHANGED <<catalog, journal>>
  BY DEF MigrationGoesOn
<1> DEFINE next == NextStage[stage]
           call == Stage(calls[c], next)
<1> HIDE DEF next
<1>5. /\ call \in CallRows /\ Same(call, calls[c]) /\ call.reply = "none" /\ call.stage = next
      /\ call.digest = calls[c].digest
  BY <1>2, <1>3, StageTypes DEF Same, Stages, next
<1> HIDE DEF call
<1>6. CASE Goes(c, Stage(calls[c], "undo"))
  BY <1>4, <1>6 DEF IsUndone, GoesTo
<1>7. CASE Goes(c, call)
  BY <1>2, <1>3, <1>4, <1>5, <1>7 DEF GoesOn, next
<1>8. CASE Goes(c, [call EXCEPT !.chunk = written[calls[c].db]])
  <2> DEFINE new == [call EXCEPT !.chunk = written[calls[c].db]]
  <2>1. /\ Same(new, calls[c]) /\ new.reply = "none" /\ new.stage = next
        /\ new.digest = calls[c].digest
    BY <1>5 DEF CallRows, Same, Unused
  <2> HIDE DEF new
  <2> QED BY <1>2, <1>3, <1>4, <1>8, <2>1 DEF GoesOn, next, new
<1> QED BY <1>1, <1>6, <1>7, <1>8 DEF call, next

(* Every step of a call after its first.                                   *)
LEMMA Steps ==
  ASSUME Base, NEW c \in Calls, Continue(c), ~provision_database_shard(c)
  PROVE  FailsUnknown(c) \/ IsUndone(c) \/ Succeeds(c) \/ GoesOn(c)
<1>1. CASE register_remote_database(c)
  BY <1>1 DEF register_remote_database, Register, Answered, FailsUnknown, IsUndone, Succeeds,
              Finished, Absent
<1>2. CASE CreateFails(c)
  BY <1>2 DEF CreateFails, FailsUnknown, IsUndone
<1>3. CASE CreateUndone(c)
  BY <1>3 DEF CreateUndone, FailsUnknown
<1>4. CASE MigrationGoesOn(c)
  BY <1>4, MigrationSteps
<1>5. CASE complete_local_database_migration(c)
  BY <1>5 DEF complete_local_database_migration, Complete, Answered, IsUndone, Succeeds, Finished,
              LocalIs
<1>6. CASE MigrationFails(c)
  BY <1>6 DEF MigrationFails, IsUndone
<1>7. CASE cancel_local_database_migration(c)
  BY <1>7 DEF cancel_local_database_migration, CancelMigration, FailsUnknown, Becomes
<1> QED BY <1>1, <1>2, <1>3, <1>4, <1>5, <1>6, <1>7 DEF Continue

(* A call that goes on, or ends.                                           *)
LEMMA ContinueAccounts ==
  ASSUME Base, Accounts, NEW c \in Calls, Continue(c), ~provision_database_shard(c)
  PROVE  Accounts'
<1>1. /\ Active(c) /\ Used(c) /\ UNCHANGED slots
  BY DEF Continue, register_remote_database, Register, CreateFails, CreateUndone,
         MigrationGoesOn, complete_local_database_migration, Complete, MigrationFails,
         cancel_local_database_migration, CancelMigration, MovesOn, Answered, Used, Active,
         NextStage, shard
<1>2. /\ calls[c] \in CallRows /\ calls[c].db \in Ids /\ calls[c].at \in Shards
      /\ Status(Row(calls[c])) = "pending"
      /\ catalog \in [Ids -> [status : Statuses, at : {Local} \union 1..shards]]
  BY <1>1, DatabasesOfCalls DEF Accounts, RowsOK, Base, Types, CatalogTypes
<1>3. \A stage \in {"undo", "end"} : /\ Stage(calls[c], stage).stage = stage
                                     /\ Same(Stage(calls[c], stage), calls[c])
                                     /\ Stage(calls[c], stage).reply = "none"
  BY <1>2, StageTypes DEF Same, Stages
<1>4. \E call : /\ Goes(c, call) /\ Same(call, calls[c])
                /\ FailsUnknown(c) \/ Succeeds(c) => call.stage = "end"
                /\ IsUndone(c) => call.stage = "undo"
  <2>1. \A x, y : Goes(c, x) /\ Goes(c, y) => x = y
    BY DEF Goes, Base, Types, CallTypes
  <2>2. CASE FailsUnknown(c) \/ Succeeds(c)
    <3>1. Goes(c, Stage(calls[c], "end"))
      BY <2>2 DEF FailsUnknown, Succeeds, Ends, GoesTo
    <3>2. ~IsUndone(c)
      BY <1>3, <2>1, <3>1 DEF IsUndone, GoesTo
    <3> QED BY <1>3, <3>1, <3>2
  <2>3. CASE IsUndone(c) /\ ~(FailsUnknown(c) \/ Succeeds(c))
    BY <1>3, <2>3 DEF IsUndone, GoesTo
  <2>4. CASE GoesOn(c) /\ ~(FailsUnknown(c) \/ Succeeds(c)) /\ ~IsUndone(c)
    BY <2>4 DEF GoesOn
  <2> QED BY <2>2, <2>3, <2>4, Steps
<1>5. PICK call : /\ Goes(c, call) /\ Same(call, calls[c])
                  /\ FailsUnknown(c) \/ Succeeds(c) => call.stage = "end"
                  /\ IsUndone(c) => call.stage = "undo"
  BY <1>4
<1>6. /\ calls'[c] = call /\ \A e \in Calls \ {c} : calls'[e] = calls[e]
      /\ Row(call) = Row(calls[c])
  BY <1>5 DEF Goes, Same, Row, Base, Types, CallTypes
<1>7. ClockOK' /\ Used(c)'
  BY <1>1, <1>5, <1>6, BegunKept DEF Accounts, Base, Types, Same, Used
<1>8. Writes(c)
  BY <1>2, <1>5, <1>6, Steps DEF FailsUnknown, Succeeds, IsUndone, GoesOn, Ends, Writes, Row, Same
<1>9. \A d, s : /\ On(c, d, s)' => On(c, d, s)
                /\ ~Active(c)' => ~On(c, d, s)'
                /\ IsUndone(c) \/ GoesOn(c) => (On(c, d, s)' <=> On(c, d, s))
  BY <1>1, <1>5, <1>6 DEF On, Active, Used, Same, GoesOn, Goes, Base, Types, CallTypes
<1>10. FailsUnknown(c) \/ Succeeds(c) => ~Active(c)'
  BY <1>5, <1>6 DEF Active
<1>11. RowsOK'
  <2>1. ASSUME Active(c)' PROVE Status(Row(calls[c]))' = "pending"
    <3>1. UNCHANGED journal
      BY <1>10, <2>1, Steps DEF IsUndone, GoesOn
    <3> QED BY <1>2, <1>6, <3>1 DEF Status
  <2> QED BY <1>6, <1>7, <1>8, <2>1, RowsAfter DEF Accounts
<1>12. ASSUME FailsUnknown(c), NEW d, d = calls[c].db PROVE Unknown(d)'
  <2> DEFINE row == Row(calls[c])
  <2>1. Journal(row, "unknown") /\ row.db = d
    BY <1>12 DEF FailsUnknown, Ends, Row
  <2> HIDE DEF row
  <2>2. row \in DOMAIN journal' /\ journal'[row] = "unknown"
    BY <2>1, JournalOf
  <2> QED BY <2>1, <2>2 DEF Unknown
<1>13. IsUndone(c) => Failing(c)'
  BY <1>5, <1>6 DEF Failing
<1>14. \A d, s : On(c, d, s) /\ Failing(c) => Unknown(d)' \/ (On(c, d, s)' /\ Failing(c)')
  <2>1. Succeeds(c) \/ GoesOn(c) => ~Failing(c)
    BY DEF Succeeds, GoesOn, Finished, Failing
  <2>2. \A d, s : On(c, d, s) => d = calls[c].db
    BY DEF On
  <2> QED BY <1>9, <1>12, <1>13, <2>1, <2>2, Steps
<1>15. ASSUME NEW d \in Ids, NEW s \in Shards, AccountedFor(d, s), ~Disturbed(d, s)'
       PROVE  AccountedFor(d, s)'
  <2>1. ASSUME d # calls[c].db \/ s # calls[c].at,
               catalog'[d] = catalog[d] \/ (catalog[d].at # s /\ catalog'[d].at # s)
        PROVE  AccountedFor(d, s)'
    <3>1. ~Holder(c, d, s) /\ ~Holder(c, d, s)'
      BY <1>9, <2>1 DEF Holder, On
    <3> QED BY <1>1, <1>6, <1>15, <2>1, <3>1, OthersUntouched
  <2>2. CASE FailsUnknown(c)
    <3>1. d # calls[c].db
      BY <1>12, <1>15, <2>2 DEF Disturbed
    <3>2. catalog'[d] = catalog[d]
      BY <1>2, <2>2, <3>1 DEF FailsUnknown, Becomes
    <3> QED BY <2>1, <3>1, <3>2
  <2>3. CASE IsUndone(c)
    <3>1. ~On(c, d, s)
      BY <1>9, <1>13, <1>15, <2>3 DEF Disturbed
    <3> QED BY <1>1, <2>1, <2>3, <3>1 DEF IsUndone, On
  <2>4. CASE Succeeds(c)
    <3>0. catalog[calls[c].db].at = Local
      BY <2>4 DEF Succeeds, LocalIs, Absent
    <3>1. /\ catalog'[calls[c].db] = [status |-> "hot", at |-> calls[c].at]
          /\ d # calls[c].db => catalog'[d] = catalog[d]
      <4> DEFINE t == calls[c].at
                 e == calls[c].db
      <4>1. catalog' = [catalog EXCEPT ![e] = [status |-> "hot", at |-> t]] /\ e \in Ids
        BY <1>2, <2>4 DEF Succeeds, Places
      <4> HIDE DEF t, e
      <4> QED BY <1>2, <4>1 DEF t, e
    <3>2. CASE d = calls[c].db /\ s = calls[c].at
      <4>1. Holder(c, d, s) /\ Finished(c)
        BY <1>1, <2>4, <3>2 DEF Succeeds, Finished, Holder, On
      <4>2. slots[s][d].status = "hot" /\ \A e \in Calls : Holder(e, d, s) => e = c
        BY <1>15, <4>1 DEF AccountedFor
      <4>3. \A e \in Calls : ~Holder(e, d, s)'
        BY <1>6, <1>10, <2>4, <4>2 DEF Holder, On, Active, Used
      <4> QED BY <1>1, <3>1, <3>2, <4>2, <4>3 DEF AccountedFor
    <3>3. CASE d = calls[c].db /\ s # calls[c].at
      BY <2>1, <3>0, <3>1, <3>3 DEF Local, Shards
    <3>4. CASE d # calls[c].db
      BY <2>1, <3>1, <3>4
    <3> QED BY <3>2, <3>3, <3>4
  <2>5. CASE GoesOn(c)
    <3>1. CASE d = calls[c].db /\ s = calls[c].at
      <4>1. On(c, d, s) /\ On(c, d, s)'
        BY <1>1, <1>9, <2>5, <3>1 DEF On
      <4>2. /\ calls[c].reply = "ok" /\ calls'[c].reply = "none" /\ calls'[c].stage # "create_slot"
        BY <1>5, <1>6, <2>5 DEF GoesOn, Goes, Base, Types, CallTypes
      <4>3. Holder(c, d, s) /\ Holder(c, d, s)' /\ ~Finished(c)'
        BY <4>1, <4>2 DEF Holder, Finished
      <4>4. slots'[s][d].status # "none"
        BY <1>1, <1>15, <4>3 DEF AccountedFor
      <4> QED BY <1>6, <1>15, <2>5, <4>3, <4>4, HolderStays DEF GoesOn
    <3>2. CASE d # calls[c].db \/ s # calls[c].at
      BY <2>1, <2>5, <3>2 DEF GoesOn
    <3> QED BY <3>1, <3>2
  <2> QED BY <2>2, <2>3, <2>4, <2>5, Steps
<1>16. AccountsOK'
  BY <1>6, <1>8, <1>14, <1>15, AccountsAfter DEF Accounts
<1> QED BY <1>7, <1>11, <1>16 DEF Accounts

(* A call that begins, or goes on on a new shard: its row says that it has *)
(* run, is opened, or is closed as unknown.                                *)
Opened(c, call) ==
  /\ Goes(c, call) /\ call # Unused /\ call.reply = "none"
  /\ \/ call.stage \in {"provision", "end"} /\ UNCHANGED journal
     \/ /\ call.stage = "create_slot" /\ Status(Row(call)) # "unknown"
        /\ Journal(Row(call), "pending")
     \/ /\ call.stage = "end" /\ Status(Row(call)) # "unknown"
        /\ Journal(Row(call), "unknown")

(* A call that looks for its row, begins, or goes on on a new shard.       *)
LEMMA OpensOpened ==
  ASSUME NEW c \in Calls, NEW call \in CallRows, Opens(c, call)
  PROVE  \E new : Opened(c, new) /\ new.ms = call.ms
<1>1. \A stage \in {"create_slot", "end"} :
        /\ Stage(call, stage) # Unused /\ Stage(call, stage).reply = "none"
        /\ Stage(call, stage).stage = stage /\ Stage(call, stage).ms = call.ms
        /\ Row(Stage(call, stage)) = Row(call)
  BY StageTypes DEF Stages, Row
<1>2. CASE Status(Row(call)) \in {"applied", "unknown"}
  BY <1>1, <1>2 DEF Opens, Opened
<1>3. CASE Status(Row(call)) \notin {"applied", "unknown"}
  BY <1>1, <1>3 DEF Opens, Opened
<1> QED BY <1>2, <1>3

LEMMA BeginOpens ==
  ASSUME Base, NEW c \in Calls, Begin(c)
  PROVE  /\ \E new : Opened(c, new) /\ new.ms = Now
         /\ UNCHANGED catalog \/ \E d \in Ids : LocalIs(d, "hot") /\ Becomes(d, "archiving")
         /\ calls[c] = Unused /\ UNCHANGED slots
<1>1. calls[c] = Unused /\ UNCHANGED slots
  BY DEF Begin, Begins, create_database, create_remote_database, migrate_database_to_shard, shard
<1>2. Now \in 1..MaxMs
  BY <1>1, Clock
<1>3. /\ shards \in 0..MaxShards /\ MaxShards \in Nat /\ 1..shards \subseteq 0..MaxShards
      /\ shards <= shards
  BY Bounds DEF Base, Types, CatalogTypes
<1>4. CASE create_database(c)
  <2>1. UNCHANGED <<catalog, shards>>
    BY <1>4 DEF create_database, placement
  <2>2. CASE Selectable(shards) # {} /\ Allocate(c, Now, shards)
    <3>1. PICK d \in Generated, s \in Shards : Opens(c, NewCall("create", d, s, Now))
      BY <1>2, <1>3, <2>1, <2>2, AllocateTypes DEF Base
    <3>2. NewCall("create", d, s, Now) \in CallRows /\ NewCall("create", d, s, Now).ms = Now
      BY <1>2, <1>3, NewCallTypes DEF Shards, Ids
    <3> QED BY <1>1, <2>1, <3>1, <3>2, OpensOpened
  <2>3. CASE /\ Goes(c, [NewCall("create", 0, Local, Now) EXCEPT !.stage = "provision"])
             /\ UNCHANGED journal
    <3> DEFINE new == [NewCall("create", 0, Local, Now) EXCEPT !.stage = "provision"]
    <3>1. new # Unused /\ new.reply = "none" /\ new.stage = "provision" /\ new.ms = Now
      BY DEF NewCall, Unused
    <3> HIDE DEF new
    <3>2. Opened(c, new)
      BY <2>3, <3>1 DEF Opened, new
    <3> QED BY <1>1, <2>1, <3>1, <3>2
  <2> QED BY <1>4, <2>2, <2>3 DEF create_database
<1>5. ASSUME NEW s \in 1..shards, NEW d \in Locals \union Named, create_remote_database(c, d, s)
      PROVE  (\E new : Opened(c, new) /\ new.ms = Now) /\ UNCHANGED catalog
  <2>1. Opens(c, NewCall("create_remote", d, s, Now)) /\ UNCHANGED catalog
    BY <1>5 DEF create_remote_database, placement
  <2>2. /\ NewCall("create_remote", d, s, Now) \in CallRows
        /\ NewCall("create_remote", d, s, Now).ms = Now
    BY <1>2, <1>3, NewCallTypes DEF Ids
  <2> QED BY <2>1, <2>2, OpensOpened
<1>6. ASSUME NEW s \in 1..shards, NEW d \in Locals, migrate_database_to_shard(c, d, s)
      PROVE  /\ \E new : Opened(c, new) /\ new.ms = Now
             /\ UNCHANGED catalog \/ (LocalIs(d, "hot") /\ Becomes(d, "archiving"))
  <2> DEFINE call == [NewCall("migrate", d, s, Now) EXCEPT !.digest = written[d]]
  <2>1. d \in Ids
    BY DEF Ids
  <2>2. call \in CallRows /\ call.ms = Now
    <3>1. NewCall("migrate", d, s, Now) \in CallRows /\ NewCall("migrate", d, s, Now).ms = Now
      BY <1>2, <1>3, <2>1, NewCallTypes
    <3>2. written[d] \in Int
      BY <2>1, Bounds DEF Base, Types, CatalogTypes
    <3> QED BY <3>1, <3>2 DEF CallRows
  <2>3. UNCHANGED catalog \/ (LocalIs(d, "hot") /\ Becomes(d, "archiving"))
    BY <1>6 DEF migrate_database_to_shard, Becomes
  <2>4. \/ Opens(c, call)
        \/ /\ Goes(c, Stage(call, "end"))
           /\ IF Status(Row(call)) \in {"applied", "unknown"} THEN UNCHANGED journal
              ELSE Journal(Row(call), "unknown")
    BY <1>6 DEF migrate_database_to_shard
  <2> HIDE DEF call
  <2>5. ASSUME Goes(c, Stage(call, "end")),
               IF Status(Row(call)) \in {"applied", "unknown"} THEN UNCHANGED journal
               ELSE Journal(Row(call), "unknown")
        PROVE  \E new : Opened(c, new) /\ new.ms = Now
    <3> DEFINE new == Stage(call, "end")
    <3>1. /\ new # Unused /\ new.reply = "none" /\ new.stage = "end" /\ new.ms = Now
          /\ Row(new) = Row(call)
      BY <2>2, StageTypes DEF Stages, Row
    <3> HIDE DEF new
    <3>2. Opened(c, new)
      BY <2>5, <3>1 DEF Opened, new
    <3> QED BY <3>1, <3>2
  <2> QED BY <2>2, <2>3, <2>4, <2>5, OpensOpened
<1> QED BY <1>1, <1>4, <1>5, <1>6 DEF Begin, Ids

LEMMA ProvisionOpens ==
  ASSUME Base, NEW c \in Calls, provision_database_shard(c)
  PROVE  /\ \E new : Opened(c, new) /\ new.ms = calls[c].ms
         /\ Used(c) /\ ~Active(c) /\ UNCHANGED <<catalog, slots>>
<1>1. /\ Used(c) /\ ~Active(c) /\ calls[c].stage = "provision" /\ calls[c] \in CallRows
      /\ UNCHANGED <<catalog, slots>>
  BY DEF provision_database_shard, Awaits, Used, Active, Base, Types, CallTypes, shard
<1>2. CASE shards < MaxShards /\ shards' = shards + 1 /\ Allocate(c, calls[c].ms, shards + 1)
  <2>1. /\ shards \in Nat /\ shards' \in 0..MaxShards /\ shards <= shards'
        /\ shards' \in 1..MaxShards /\ MaxShards \in Nat
    BY <1>2, Bounds DEF Base, Types, CatalogTypes
  <2>2. Selectable(shards') # {}
    <3>1. HasRoom(shards')
      BY <1>2, <2>1, AssignedTypes DEF Base, Types, Shards
    <3> QED BY <2>1, <3>1 DEF Selectable
  <2>3. calls[c].ms \in 1..MaxMs /\ Allocate(c, calls[c].ms, shards')
    BY <1>1, <1>2 DEF CallRows
  <2> DEFINE ms == calls[c].ms
  <2>4. PICK d \in Generated, s \in Shards : Opens(c, NewCall("create", d, s, ms))
    BY <2>1, <2>2, <2>3, AllocateTypes DEF Base
  <2>5. NewCall("create", d, s, ms) \in CallRows /\ NewCall("create", d, s, ms).ms = ms
    BY <2>1, <2>3, NewCallTypes DEF Shards, Ids
  <2> QED BY <1>1, <2>4, <2>5, OpensOpened
<1>3. CASE GoesTo(c, "end") /\ UNCHANGED journal
  <2> DEFINE new == Stage(calls[c], "end")
  <2>1. new # Unused /\ new.reply = "none" /\ new.stage = "end" /\ new.ms = calls[c].ms
    BY <1>1, StageTypes DEF Stages
  <2> HIDE DEF new
  <2>2. Opened(c, new)
    BY <1>3, <2>1 DEF Opened, GoesTo, new
  <2> QED BY <1>1, <2>1, <2>2
<1> QED BY <1>2, <1>3 DEF provision_database_shard

(* What a call opens disturbs nobody.                                      *)
LEMMA OpenedAccounts ==
  ASSUME Base, Accounts, NEW c \in Calls, ~Active(c), NEW call, Opened(c, call), ClockOK',
         UNCHANGED slots,
         UNCHANGED catalog \/ \E d \in Ids : LocalIs(d, "hot") /\ Becomes(d, "archiving")
  PROVE  Accounts'
<1>1. /\ calls'[c] = call /\ Used(c)'
      /\ \A e \in Calls \ {c} : calls'[e] = calls[e]
  BY DEF Opened, Goes, Base, Types, CallTypes, Used
<1>2. Writes(c)
  BY <1>1 DEF Opened, Writes, Row
<1>3. RowsOK'
  <2>1. ASSUME Active(c)' PROVE Status(Row(calls[c]))' = "pending"
    <3>1. Journal(Row(call), "pending")
      BY <1>1, <2>1 DEF Opened, Active
    <3>2. Row(calls[c])' = Row(call)
      BY <1>1 DEF Row
    <3> DEFINE row == Row(call)
    <3> HIDE DEF row
    <3>3. Status(row)' = "pending"
      BY <3>1, JournalOf DEF row
    <3> QED BY <3>2, <3>3 DEF Status, row
  <2> QED BY <1>1, <1>2, <2>1, RowsAfter DEF Accounts
<1>4. \A d \in Ids, s \in Shards : catalog'[d] = catalog[d] \/ (catalog[d].at # s /\ catalog'[d].at # s)
  <2>1. catalog \in [Ids -> [status : Statuses, at : {Local} \union 1..shards]]
    BY DEF Base, Types, CatalogTypes
  <2>2. ASSUME NEW e \in Ids, LocalIs(e, "hot"), Becomes(e, "archiving"), NEW d \in Ids, NEW s \in Shards
        PROVE  catalog'[d] = catalog[d] \/ (catalog[d].at # s /\ catalog'[d].at # s)
    BY <2>1, <2>2 DEF LocalIs, Becomes, Local, Shards
  <2> QED BY <2>2
<1>5. \A d, s : ~On(c, d, s) /\ ~Holder(c, d, s) /\ ~Holder(c, d, s)'
  BY <1>1 DEF On, Holder, Opened, Active
<1>6. ASSUME NEW d \in Ids, NEW s \in Shards, AccountedFor(d, s) PROVE AccountedFor(d, s)'
  BY <1>1, <1>4, <1>5, <1>6, OthersUntouched
<1> QED BY <1>1, <1>2, <1>3, <1>5, <1>6, AccountsAfter DEF Accounts

LEMMA BeginAccounts ==
  ASSUME Base, Accounts, NoTwins, NEW c \in Calls, Begin(c)
  PROVE  Accounts'
<1>1. PICK new : Opened(c, new) /\ new.ms = Begun + 1
  BY BeginOpens DEF NoTwins, Now
<1>2. ClockOK'
  BY <1>1, BeginOpens, BegunGrows DEF Accounts, Base, Types, Opened
<1>3. ~Active(c)
  BY BeginOpens DEF Active, Used
<1> QED BY <1>1, <1>2, <1>3, BeginOpens, OpenedAccounts

LEMMA ProvisionAccounts ==
  ASSUME Base, Accounts, NEW c \in Calls, provision_database_shard(c)
  PROVE  Accounts'
<1>1. PICK new : Opened(c, new) /\ new.ms = calls[c].ms
  BY ProvisionOpens
<1>2. ClockOK'
  BY <1>1, ProvisionOpens, BegunKept DEF Accounts, Base, Types, Opened
<1> QED BY <1>1, <1>2, ProvisionOpens, OpenedAccounts

-----------------------------------------------------------------------------
(* Owners.                                                                 *)

(* What an owner does to a slot, the catalog says too.                     *)
LEMMA OwnerAccounts ==
  ASSUME Base, Accounts, NEW x \in Ids, Owns(x)
  PROVE  Accounts'
<1> DEFINE t == catalog[x].at
<1>1. UNCHANGED <<shards, journal, calls, session>>
  BY DEF Owns, begin_database_archive, cancel_database_archive, sql_write, delete_database,
         restore_database, Acts
<1>2. /\ catalog \in [Ids -> [status : Statuses, at : {Local} \union 1..shards]]
      /\ slots \in [Shards -> [Ids -> SlotRows]]
      /\ t \in {Local} \union Shards
  BY Bounds DEF Base, Types, CatalogTypes, ShardTypes, Shards
<1>3. ClockOK' /\ RowsOK'
  BY <1>1 DEF Accounts, ClockOK, RowsOK, Used, Active, Begun, Status, Row
<1>4. \A status : Becomes(x, status) => /\ catalog'[x].status = status /\ catalog'[x].at = t
                                        /\ \A d \in Ids : d # x => catalog'[d] = catalog[d]
  BY <1>2 DEF Becomes
<1>5. \/ UNCHANGED <<catalog, slots>>
      \/ t = Local /\ UNCHANGED slots /\ \E status : Becomes(x, status)
      \/ /\ t \in Shards /\ OnlySlot(t, x) /\ slots[t][x].status # "none"
         /\ \E status \in {"hot", "deleted"} : /\ Becomes(x, status)
                                               /\ slots'[t][x].status = status
  <2>1. CASE begin_database_archive(x) \/ cancel_database_archive(x)
    BY <2>1 DEF begin_database_archive, cancel_database_archive, LocalIs, shard
  <2>2. CASE sql_write(x)
    BY <2>2 DEF sql_write, shard
  <2>3. CASE delete_database(x)
    <3>1. Becomes(x, "deleted")
      BY <2>3 DEF delete_database
    <3>2. CASE t = Local
      BY <2>3, <3>1, <3>2 DEF delete_database, shard
    <3>3. CASE t # Local
      <4> DEFINE new == [NoSlot EXCEPT !.status = "deleted"]
      <4>1. t \in Shards /\ delete_database_slot(t, x)
        BY <1>2, <2>3, <3>3 DEF delete_database
      <4>2. OnlySlot(t, x)
        BY <4>1, HandlersKeepMemories DEF Base, Types
      <4>3. slots[t][x].status # "none" /\ slots' = [slots EXCEPT ![t][x] = new]
        BY <4>1 DEF delete_database_slot
      <4>4. new.status = "deleted"
        BY DEF NoSlot
      <4> HIDE DEF new, t
      <4>5. slots'[t][x].status = "deleted"
        BY <1>2, <4>1, <4>3, <4>4
      <4> QED BY <3>1, <4>1, <4>2, <4>3, <4>5
    <3> QED BY <3>2, <3>3
  <2>4. CASE restore_database(x)
    <3> DEFINE new == [NoSlot EXCEPT !.status = "hot"]
    <3>1. t \in Shards /\ Takes(t, x, new) /\ slots[t][x].status # "none" /\ Becomes(x, "hot")
      BY <1>2, <2>4 DEF restore_database
    <3>2. new \in SlotRows /\ new.status = "hot"
      BY Bounds DEF NoSlot, SlotRows, Statuses
    <3> HIDE DEF t, new
    <3>3. OnlySlot(t, x) /\ slots'[t][x].status = "hot"
      BY <3>1, <3>2, TakesMemory DEF Base, Types
    <3> QED BY <3>1, <3>3
  <2> QED BY <2>1, <2>2, <2>3, <2>4 DEF Owns
<1>6. /\ \A c \in Calls : \A d, s : /\ Holder(c, d, s)' <=> Holder(c, d, s)
                                    /\ Finished(c)' <=> Finished(c)
      /\ \A d, s : Disturbed(d, s)' <=> Disturbed(d, s)
  BY <1>1 DEF Holder, On, Active, Used, Finished, Disturbed, Failing, Unknown
<1> HIDE DEF t
<1>7. ASSUME NEW d \in Ids, NEW s \in Shards, AccountedFor(d, s) PROVE AccountedFor(d, s)'
  <2>1. CASE UNCHANGED <<catalog, slots>>
    BY <1>6, <1>7, <2>1, Untouched
  <2>2. CASE t = Local /\ UNCHANGED slots /\ \E status : Becomes(x, status)
    <3>1. catalog'[d] = catalog[d] \/ (catalog[d].at # s /\ catalog'[d].at # s)
      BY <1>4, <2>2 DEF t, Local, Shards
    <3> QED BY <1>6, <1>7, <2>2, <3>1, Untouched
  <2>3. CASE d # x \/ s # t
    <3>1. catalog'[d] = catalog[d] \/ (catalog[d].at # s /\ catalog'[d].at # s)
      BY <1>4, <1>5, <2>3 DEF t
    <3>2. slots'[s][d].status = slots[s][d].status
      BY <1>5, <2>3 DEF OnlySlot
    <3> QED BY <1>6, <1>7, <3>1, <3>2, Untouched
  <2>4. ASSUME d = x, s = t, slots[t][x].status # "none",
               NEW status \in {"hot", "deleted"}, Becomes(x, status), slots'[t][x].status = status
        PROVE  AccountedFor(d, s)'
    <3>1. \A c \in Calls : ~Holder(c, d, s)'
      BY <1>6, <1>7, <2>4 DEF AccountedFor, t
    <3>2. catalog'[d].status = status /\ catalog'[d].at = s
      BY <1>4, <2>4
    <3> QED BY <2>4, <3>1, <3>2 DEF AccountedFor
  <2> QED BY <1>5, <2>1, <2>2, <2>3, <2>4
<1>8. AccountsOK'
  BY <1>6, <1>7 DEF Accounts, AccountsOK
<1> QED BY <1>3, <1>8 DEF Accounts

-----------------------------------------------------------------------------
(* Everything together.                                                    *)

(* Only the catalog has databases before the first call.                   *)
LEMMA InitAccounts ==
  ASSUME Init
  PROVE  Accounts
<1>1. \A c \in Calls : ~Used(c) /\ ~Active(c)
  BY DEF Init, Used, Active
<1>2. \A d \in Ids, s \in Shards : slots[s][d].status = "none" /\ catalog[d].at # s
  BY DEF Init, NoSlot, Absent, Local, Shards
<1>3. AccountsOK
  BY <1>1, <1>2 DEF AccountsOK, AccountedFor, Holder, On
<1> QED BY <1>1, <1>3 DEF Accounts, ClockOK, RowsOK

(* Every step of sessions whose calls begin in milliseconds of their own.  *)
LEMMA StepAccounts ==
  ASSUME Base, Accounts, NoTwins, [Next]_vars
  PROVE  Accounts'
<1>1. ASSUME NEW c \in Calls, Begin(c) \/ Serve(c) \/ Refuse(c) \/ Continue(c)
      PROVE  Accounts'
  BY <1>1, BeginAccounts, ServeAccounts, ContinueAccounts, ProvisionAccounts
<1>2. ASSUME NEW x \in Ids, Owns(x) PROVE Accounts'
  BY <1>2, OwnerAccounts
<1>3. CASE UNCHANGED vars
  <2>1. /\ \A c \in Calls : \A d, s : /\ Holder(c, d, s)' <=> Holder(c, d, s)
                                      /\ Finished(c)' <=> Finished(c)
        /\ \A d, s : Disturbed(d, s)' <=> Disturbed(d, s)
    BY <1>3 DEF vars, Holder, On, Active, Used, Finished, Disturbed, Failing, Unknown
  <2>2. \A d \in Ids, s \in Shards : AccountedFor(d, s) => AccountedFor(d, s)'
    BY <1>3, <2>1, Untouched DEF vars, placement, shard
  <2>3. ClockOK' /\ RowsOK'
    BY <1>3 DEF vars, Accounts, ClockOK, RowsOK, Used, Active, Begun, Status, Row
  <2> QED BY <2>1, <2>2, <2>3 DEF Accounts, AccountsOK
<1> QED BY <1>1, <1>2, <1>3 DEF Next, Owns

(* When every call has returned, whatever was refused, failed, undone or   *)
(* lost on the way, a slot that the catalog does not know, or knows and    *)
(* lost, is the target of a row of shard_operations whose outcome is       *)
(* unknown.                                                                *)
THEOREM DivergenceShows == Spec => []DivergenceIsJournaled
<1> DEFINE Inv == Base /\ (NoTwins => Accounts)
<1>1. Init => Inv
  BY InitBase, InitAccounts
<1>2. Inv /\ [Next]_vars => Inv'
  <2> SUFFICES ASSUME Inv, [Next]_vars PROVE Inv'
    OBVIOUS
  <2>1. Base'
    BY StepBase
  <2>2. NoTwins' => NoTwins
    BY StepSession DEF NoTwins
  <2> QED BY <2>1, <2>2, StepAccounts
<1>3. Inv => DivergenceIsJournaled
  <2>1. ASSUME Base, Accounts, Quiet, NEW d \in Ids, NEW s \in Shards, ~Unknown(d)
        PROVE  slots[s][d].status = "hot" <=> RoutedTo(d, s)
    <3>1. \A c \in Calls : ~Active(c)
      BY <2>1 DEF Quiet, Active, Used
    <3>2. AccountedFor(d, s) /\ \A c \in Calls : ~Holder(c, d, s)
      BY <2>1, <3>1 DEF Accounts, AccountsOK, Disturbed, On, Holder
    <3>3. catalog[d] \in [status : Statuses, at : {Local} \union 1..shards]
      BY <2>1 DEF Base, Types, CatalogTypes
    <3>4. catalog[d].at = s /\ catalog[d].status = "hot" <=> RoutedTo(d, s)
      BY <3>3 DEF RoutedTo
    <3> QED BY <3>2, <3>4 DEF AccountedFor
  <2>2. ASSUME Inv, NoTwins, Quiet, NEW d \in Ids, NEW s \in Shards,
               (slots[s][d].status = "hot") # RoutedTo(d, s)
        PROVE  Unknown(d)
    <3>1. (slots[s][d].status = "hot") \in BOOLEAN /\ RoutedTo(d, s) \in BOOLEAN
      BY DEF RoutedTo
    <3> QED BY <2>1, <2>2, <3>1
  <2> QED BY <2>2 DEF DivergenceIsJournaled, Unknown
<1> QED BY <1>1, <1>2, <1>3, PTL DEF Spec

-----------------------------------------------------------------------------
(* The inductive invariant of the writes of migrated databases.            *)

Holds(s, d, v) == LET m == memory[s][slots[s][d].mount] IN d \in m.of /\ m.version = v

(* The slot of the migration expects the bytes it hashed, or has them.     *)
Copied(c) == \/ calls[c].stage \in {"write_chunk", "finalize_restore"}
             \/ calls[c].stage = "begin_restore" /\ calls[c].reply = "ok"
Restored(c) == calls[c].stage = "finalize_restore" /\ calls[c].reply = "ok"

CopyOK(c, d, s) ==
  /\ LocalIs(d, "archiving") => calls[c].digest = written[d]
  /\ Copied(c) => slots[s][d].status # "none" /\ slots[s][d].digest = calls[c].digest
  /\ Restored(c) => Holds(s, d, calls[c].digest)

CopiesOK == \A c \in Calls, d \in Ids, s \in Shards :
              Migrating(c) /\ On(c, d, s) => CopyOK(c, d, s)

RoutedWritesOK == \A d \in Ids, s \in Shards :
                    RoutedTo(d, s) /\ written[d] > 0 => Holds(s, d, written[d])
AbsentOK == \A d \in Ids : catalog[d] = Absent => written[d] = 0

Writings == CopiesOK /\ RoutedWritesOK /\ AbsentOK

-----------------------------------------------------------------------------
(* Slots and memories that a step leaves alone.                            *)

Kept(s, d) == /\ slots'[s][d] = slots[s][d]
              /\ Live(s, d) => memory'[s][slots[s][d].mount] = memory[s][slots[s][d].mount]

LEMMA LiveMounts ==
  ASSUME ShardTypes, MemoriesOK, NEW s \in Shards, NEW d \in Ids, Live(s, d)
  PROVE  /\ slots[s][d].mount \in 1..Mounts /\ slots[s][d].mount \notin Free(s)
         /\ \A e \in Ids : Live(s, e) /\ e # d => slots[s][e].mount # slots[s][d].mount
<1>1. \A e \in Ids : Live(s, e) => <<e, slots[s][e].mount>> \in history[s]
  BY DEF MemoriesOK
<1>2. history[s] \in SUBSET (Ids \X (1..Mounts))
  BY DEF ShardTypes
<1>3. slots[s][d].mount \in 1..Mounts
  BY <1>1, <1>2
<1> QED BY <1>1, <1>3 DEF MemoriesOK, Free

(* A memory is written at another mount.                                   *)
LEMMA OtherMount ==
  ASSUME ShardTypes, MemoriesOK, NEW s \in Shards, NEW d \in Ids, NEW t \in Shards, NEW m, NEW row,
         memory' = [memory EXCEPT ![t][m] = row],
         slots'[s][d] = slots[s][d], Live(s, d) /\ s = t => slots[s][d].mount # m
  PROVE  Kept(s, d)
<1>1. CASE Live(s, d)
  <2>1. slots[s][d].mount \in 1..Mounts
    BY <1>1, LiveMounts
  <2> DEFINE k == slots[s][d].mount
  <2>2. s = t => k # m
    BY <1>1
  <2> HIDE DEF k
  <2>3. memory'[s][k] = memory[s][k]
    BY <2>2 DEF ShardTypes
  <2> QED BY <2>3 DEF Kept, k
<1>2. CASE ~Live(s, d)
  BY <1>2 DEF Kept
<1> QED BY <1>1, <1>2

(* What a handler does to one slot, it does to no other.                   *)
LEMMA HandlersKeep ==
  ASSUME ShardTypes, MemoriesOK, NEW t \in Shards, NEW x \in Ids, NEW n \in Int,
         \/ create_database_slot(t, x)
         \/ delete_database_slot(t, x)
         \/ begin_database_restore(t, x, n)
         \/ write_database_restore_chunk(t, x, n)
         \/ finalize_database_restore(t, x)
         \/ discard_database_slot(t, x),
         NEW s \in Shards, NEW d \in Ids, s # t \/ d # x
  PROVE  Kept(s, d)
<1>1. slots'[s][d] = slots[s][d]
  BY HandlersKeepMemories DEF OnlySlot
<1>2. CASE UNCHANGED memory
  BY <1>1, <1>2 DEF Kept
<1>3. CASE finalize_database_restore(t, x)
  <2> DEFINE m == slots[t][x].mount
  <2>1. Live(t, x)
    BY <1>3 DEF finalize_database_restore, Live
  <2>2. PICK row : memory' = [memory EXCEPT ![t][m] = row]
    BY <1>3 DEF finalize_database_restore
  <2>3. Live(s, d) /\ s = t => slots[s][d].mount # m
    BY <2>1, LiveMounts
  <2> HIDE DEF m
  <2> QED BY <1>1, <2>2, <2>3, OtherMount
<1> QED BY <1>2, <1>3 DEF create_database_slot, delete_database_slot, begin_database_restore,
                         write_database_restore_chunk, discard_database_slot

(* A request leaves the slots of other databases alone, and a creation one *)
(* that exists.                                                            *)
LEMMA ServeKeeps ==
  ASSUME Base, NEW c \in Calls, Serve(c) \/ Refuse(c), NEW s \in Shards, NEW d \in Ids,
         \/ s # calls[c].at \/ d # calls[c].db
         \/ calls[c].stage = "create_slot" /\ slots[s][d].status # "none"
  PROVE  Kept(s, d)
<1>1. Active(c)
  BY DEF Serve, Runs, Refuse, Awaits, Active, Used
<1>2. CASE Refuse(c)
  BY <1>2 DEF Refuse, shard, Kept
<1>3. CASE Serve(c)
  <2> DEFINE t == calls[c].at
             x == calls[c].db
  <2>1. x \in Ids /\ t \in Shards /\ calls[c].digest \in Int /\ calls[c].chunk \in Int
    BY <1>1, DatabasesOfCalls DEF CallRows
  <2>2. \E n \in Int : \/ create_database_slot(t, x)
                       \/ delete_database_slot(t, x)
                       \/ begin_database_restore(t, x, n)
                       \/ write_database_restore_chunk(t, x, n)
                       \/ finalize_database_restore(t, x)
                       \/ discard_database_slot(t, x)
    BY <1>3, <2>1 DEF Serve, Runs
  <2>3. s # t \/ d # x
    BY <1>3 DEF Serve, Runs, Awaits, create_database_slot
  <2> HIDE DEF t, x
  <2> QED BY <2>1, <2>2, <2>3, HandlersKeep DEF Base, Types
<1> QED BY <1>2, <1>3

(* An owner leaves the slots of other databases alone.                     *)
LEMMA OwnerKeeps ==
  ASSUME Base, NEW x \in Ids, Owns(x), NEW s \in Shards, NEW d \in Ids, s # catalog[x].at \/ d # x
  PROVE  Kept(s, d)
<1> DEFINE t == catalog[x].at
<1>1. t \in {Local} \union Shards /\ slots \in [Shards -> [Ids -> SlotRows]]
  BY Bounds DEF Base, Types, CatalogTypes, ShardTypes, Shards
<1>2. CASE UNCHANGED shard
  BY <1>2 DEF shard, Kept
<1>3. CASE sql_write(x) /\ ~UNCHANGED shard
  <2> DEFINE m == slots[t][x].mount
  <2>1. /\ t \in Shards /\ Live(t, x) /\ UNCHANGED slots
        /\ \E row : memory' = [memory EXCEPT ![t][m] = row]
    BY <1>1, <1>3 DEF sql_write, Live
  <2>2. Live(s, d) /\ s = t => slots[s][d].mount # m
    BY <2>1, LiveMounts DEF Base, Types
  <2> HIDE DEF m, t
  <2> QED BY <2>1, <2>2, OtherMount DEF Base, Types
<1>4. CASE delete_database(x) /\ ~UNCHANGED shard
  <2>1. t \in Shards /\ delete_database_slot(t, x)
    BY <1>1, <1>4 DEF delete_database
  <2> HIDE DEF t
  <2> QED BY <2>1, HandlersKeep DEF Base, Types, t
<1>5. CASE restore_database(x)
  <2> DEFINE new == [NoSlot EXCEPT !.status = "hot"]
             m == Min(Free(t))
  <2>0. t \in Shards /\ Takes(t, x, new)
    BY <1>1, <1>5 DEF restore_database
  <2>1. m \in Free(t)
    BY <2>0, MinOfFree DEF Takes
  <2>6. PICK row : memory' = [memory EXCEPT ![t][m] = row]
    BY <1>5 DEF restore_database
  <2>2. new \in SlotRows
    BY Bounds DEF NoSlot, SlotRows, Statuses
  <2>3. Live(s, d) /\ s = t => slots[s][d].mount # m
    BY <2>1, LiveMounts DEF Base, Types
  <2> HIDE DEF t, new, m
  <2>4. OnlySlot(t, x)
    BY <2>0, <2>2, TakesMemory DEF Base, Types
  <2>5. slots'[s][d] = slots[s][d]
    BY <2>4 DEF OnlySlot, t
  <2> QED BY <2>0, <2>3, <2>5, <2>6, OtherMount DEF Base, Types
<1> QED BY <1>2, <1>3, <1>4, <1>5 DEF Owns, begin_database_archive, cancel_database_archive

LEMMA HoldsKept ==
  ASSUME NEW s, NEW d, Kept(s, d), Live(s, d), NEW v, Holds(s, d, v)
  PROVE  Holds(s, d, v)'
BY DEF Kept, Holds

(* The copy of a call that a step does not run.                            *)
LEMMA CopyKept ==
  ASSUME NEW c \in Calls, calls'[c] = calls[c], NEW d, NEW s, CopyOK(c, d, s),
         Copied(c) => Kept(s, d),
         Restored(c) => Live(s, d),
         LocalIs(d, "archiving")' => LocalIs(d, "archiving") /\ written'[d] = written[d]
  PROVE  CopyOK(c, d, s)'
<1>1. /\ LocalIs(d, "archiving")' => calls'[c].digest = written'[d]
      /\ Copied(c)' => slots'[s][d].status # "none" /\ slots'[s][d].digest = calls'[c].digest
  BY DEF CopyOK, Copied, Kept
<1>2. ASSUME Restored(c)', NEW v, v = calls[c].digest PROVE Holds(s, d, v)'
  <2>1. Restored(c) /\ Copied(c)
    BY <1>2 DEF Restored, Copied
  <2>2. Holds(s, d, v)
    BY <1>2, <2>1 DEF CopyOK
  <2> QED BY <2>1, <2>2, HoldsKept
<1> QED BY <1>1, <1>2 DEF CopyOK, Holds

-----------------------------------------------------------------------------
(* Shards.                                                                 *)

(* What the slot of a migration expects and has.                           *)
LEMMA ServedCopy ==
  ASSUME Base, NEW c \in Calls, Active(c), Runs(c), NEW d, NEW s, On(c, d, s)
  PROVE  /\ calls[c].stage = "begin_restore" =>
              slots'[s][d].status # "none" /\ slots'[s][d].digest = calls[c].digest
         /\ calls[c].stage \in {"write_chunk", "finalize_restore"} =>
              slots'[s][d].status # "none" /\ slots'[s][d].digest = slots[s][d].digest
         /\ calls[c].stage = "finalize_restore" =>
              \A v : v = slots[s][d].digest => Holds(s, d, v)'
<1>1. /\ d = calls[c].db /\ s = calls[c].at /\ d \in Ids /\ s \in Shards
      /\ slots \in [Shards -> [Ids -> SlotRows]] /\ slots[s][d] \in SlotRows
  BY DatabasesOfCalls DEF On, Base, Types, ShardTypes
<1>2. \A new : slots' = [slots EXCEPT ![s][d] = new] => slots'[s][d] = new
  BY <1>1
<1>3. ASSUME calls[c].stage = "begin_restore"
      PROVE  slots'[s][d].status # "none" /\ slots'[s][d].digest = calls[c].digest
  <2> DEFINE row == [NoSlot EXCEPT !.status = "restoring", !.digest = calls[c].digest, !.chunk = -1]
             new == [row EXCEPT !.mount = Min(Free(s))]
  <2>1. begin_database_restore(s, d, calls[c].digest)
    BY <1>1, <1>3 DEF Runs, Awaits
  <2>2. slots' = [slots EXCEPT ![s][d] = new]
    BY <2>1 DEF begin_database_restore, Takes
  <2>3. new.status = "restoring" /\ new.digest = calls[c].digest
    BY DEF NoSlot
  <2> HIDE DEF new
  <2> QED BY <1>2, <2>2, <2>3
<1>4. ASSUME calls[c].stage = "write_chunk"
      PROVE  slots'[s][d].status # "none" /\ slots'[s][d].digest = slots[s][d].digest
  <2> DEFINE new == [slots[s][d] EXCEPT !.chunk = calls[c].chunk]
  <2>1. write_database_restore_chunk(s, d, calls[c].chunk)
    BY <1>1, <1>4 DEF Runs, Awaits
  <2>2. slots[s][d].status = "restoring" /\ slots' = [slots EXCEPT ![s][d] = new]
    BY <2>1 DEF write_database_restore_chunk
  <2>3. new.status = "restoring" /\ new.digest = slots[s][d].digest
    BY <1>1, <2>2 DEF SlotRows
  <2> HIDE DEF new
  <2> QED BY <1>2, <2>2, <2>3
<1>5. ASSUME calls[c].stage = "finalize_restore"
      PROVE  /\ slots'[s][d].status # "none" /\ slots'[s][d].digest = slots[s][d].digest
             /\ \A v : v = slots[s][d].digest => Holds(s, d, v)'
  <2> DEFINE new == [slots[s][d] EXCEPT !.status = "hot"]
             m == slots[s][d].mount
             v0 == slots[s][d].digest
  <2>1. finalize_database_restore(s, d)
    BY <1>1, <1>5 DEF Runs, Awaits
  <2>2. /\ slots[s][d].status = "restoring" /\ slots' = [slots EXCEPT ![s][d] = new]
        /\ memory' = [memory EXCEPT ![s][m] = [of |-> {d}, version |-> v0]]
    BY <2>1 DEF finalize_database_restore
  <2>3. new.status = "hot" /\ new.digest = v0 /\ new.mount = m
    BY <1>1 DEF SlotRows
  <2>4. m \in 1..Mounts
    BY <1>1, <2>2, LiveMounts DEF Live, Base, Types
  <2> HIDE DEF new, m, v0
  <2>5. slots'[s][d] = new /\ memory'[s][m] = [of |-> {d}, version |-> v0]
    BY <1>1, <1>2, <2>2, <2>4 DEF Base, Types, ShardTypes
  <2>6. \A v : v = v0 => Holds(s, d, v)'
    BY <2>3, <2>5 DEF Holds
  <2> QED BY <2>3, <2>5, <2>6 DEF v0
<1> QED BY <1>3, <1>4, <1>5

(* A request that is served or refused.                                    *)
LEMMA ServeWrites ==
  ASSUME Base, SagaOK, Writings, NEW c \in Calls, Serve(c) \/ Refuse(c)
  PROVE  Writings'
<1>1. Active(c) /\ calls[c].reply = "none" /\ calls[c] \in CallRows
  BY DatabasesOfCalls DEF Serve, Runs, Refuse, Awaits, Active, Used
<1>2. PICK reply \in {"ok", "error"} : /\ calls' = [calls EXCEPT ![c].reply = reply]
                                       /\ reply = "ok" => Runs(c)
  BY DEF Serve, Refuse, Replies
<1>3. UNCHANGED <<catalog, written>>
  BY DEF Serve, Refuse, Replies, placement
<1>4. /\ calls'[c].reply = reply /\ calls'[c].stage = calls[c].stage
      /\ calls'[c].digest = calls[c].digest /\ \A e \in Calls \ {c} : calls'[e] = calls[e]
      /\ \A e \in Calls : \A d, s : Migrating(e)' /\ On(e, d, s)' => Migrating(e) /\ On(e, d, s)
  <2> DEFINE call == [calls[c] EXCEPT !.reply = reply]
  <2>1. Same(call, calls[c]) /\ call.stage = calls[c].stage /\ call.reply = reply
        /\ call.digest = calls[c].digest
    BY <1>1 DEF CallRows, Same, Unused
  <2>2. calls' = [calls EXCEPT ![c] = call]
    BY <1>2
  <2> HIDE DEF call
  <2>3. calls'[c] = call /\ \A e \in Calls \ {c} : calls'[e] = calls[e]
    BY <2>2 DEF Base, Types, CallTypes
  <2> QED BY <1>1, <2>1, <2>3 DEF Migrating, On, Active, Used, Same
<1>5. ASSUME NEW d \in Ids, NEW s \in Shards, d = calls[c].db, s = calls[c].at, Live(s, d),
             calls[c].op = "create_remote"
      PROVE  Kept(s, d)
  <2>1. calls[c].stage = "create_slot" /\ slots[s][d].status # "none"
    BY <1>1, <1>5 DEF SagaOK, CallsOK, Live
  <2> QED BY <2>1, ServeKeeps
<1>6. ASSUME NEW e \in Calls, NEW d \in Ids, NEW s \in Shards, Migrating(e)', On(e, d, s)'
      PROVE  CopyOK(e, d, s)'
  <2>1. Migrating(e) /\ On(e, d, s) /\ CopyOK(e, d, s)
    BY <1>4, <1>6 DEF Writings, CopiesOK
  <2>2. CASE e # c
    <3>1. Copied(e) => Kept(s, d)
      <4>1. CASE s # calls[c].at \/ d # calls[c].db
        BY <4>1, ServeKeeps
      <4>2. CASE s = calls[c].at /\ d = calls[c].db
        <5>1. calls[c].op = "create_remote"
          BY <1>1, <2>1, <2>2, <4>2, OneDatabase DEF SagaOK, Migrating, On, CallRows
        <5>2. calls[c].stage = "create_slot"
          BY <1>1, <5>1 DEF SagaOK, CallsOK
        <5> QED BY <2>1, <5>2, ServeKeeps DEF CopyOK
      <4> QED BY <4>1, <4>2
    <3>2. Restored(e) => Live(s, d)
      BY <2>1 DEF Restored, SagaOK, SlotsOK, Migrating, On, Live
    <3> QED BY <1>3, <1>4, <2>1, <2>2, <3>1, <3>2, CopyKept DEF LocalIs
  <2>3. CASE e = c
    <3>1. LocalIs(d, "archiving")' => calls'[c].digest = written'[d]
      BY <1>3, <1>4, <2>1, <2>3 DEF CopyOK, LocalIs
    <3>2. Copied(c)' => slots'[s][d].status # "none" /\ slots'[s][d].digest = calls'[c].digest
      <4>1. CASE Runs(c)
        BY <1>1, <1>4, <2>1, <2>3, <4>1, ServedCopy DEF Copied, CopyOK
      <4>2. CASE ~Runs(c)
        <5>1. UNCHANGED slots /\ reply = "error"
          BY <1>2, <4>2 DEF Serve, Refuse, shard
        <5> QED BY <1>4, <2>1, <2>3, <5>1 DEF Copied, CopyOK
      <4> QED BY <4>1, <4>2
    <3>3. ASSUME Restored(c)', NEW v, v = calls[c].digest PROVE Holds(s, d, v)'
      <4>1. Runs(c) /\ calls[c].stage = "finalize_restore"
        BY <1>2, <1>4, <3>3 DEF Restored
      <4>2. slots[s][d].digest = v
        BY <2>1, <2>3, <3>3, <4>1 DEF Copied, CopyOK
      <4> QED BY <1>1, <2>1, <2>3, <4>1, <4>2, ServedCopy
    <3> QED BY <1>4, <2>3, <3>1, <3>2, <3>3 DEF CopyOK, Holds
  <2> QED BY <2>2, <2>3
<1>7. ASSUME NEW d \in Ids, NEW s \in Shards, RoutedTo(d, s)', written'[d] > 0, NEW v, v = written[d]
      PROVE  Holds(s, d, v)'
  <2>1. RoutedTo(d, s) /\ Holds(s, d, v) /\ Live(s, d)
    BY <1>3, <1>7 DEF Writings, RoutedWritesOK, RoutedTo, SagaOK, RoutedOK, Live
  <2>2. Kept(s, d)
    <3>1. CASE s # calls[c].at \/ d # calls[c].db
      BY <3>1, ServeKeeps
    <3>2. CASE s = calls[c].at /\ d = calls[c].db
      <4>1. calls[c].op = "create_remote"
        BY <1>1, <2>1, <3>2 DEF SagaOK, CallsOK, CallRows, RoutedTo, Absent, Local, Shards
      <4> QED BY <1>5, <2>1, <3>2, <4>1
    <3> QED BY <3>1, <3>2
  <2> QED BY <2>1, <2>2, HoldsKept
<1>8. CopiesOK'
  BY <1>6 DEF CopiesOK
<1>9. RoutedWritesOK' /\ AbsentOK'
  BY <1>3, <1>7 DEF Writings, RoutedWritesOK, AbsentOK, Holds
<1> QED BY <1>8, <1>9 DEF Writings

-----------------------------------------------------------------------------
(* The control canister.                                                   *)

(* A call that goes on, or ends.                                           *)
LEMMA ContinueWrites ==
  ASSUME Base, SagaOK, Writings, NEW c \in Calls, Continue(c), ~provision_database_shard(c)
  PROVE  Writings'
<1>1. Active(c) /\ UNCHANGED <<slots, memory, written>>
  BY DEF Continue, register_remote_database, Register, CreateFails, CreateUndone,
         MigrationGoesOn, complete_local_database_migration, Complete, MigrationFails,
         cancel_local_database_migration, CancelMigration, MovesOn, Answered, Used, Active,
         NextStage, shard
<1>2. /\ calls[c] \in CallRows /\ calls[c].db \in Ids /\ calls[c].at \in Shards
      /\ catalog \in [Ids -> [status : Statuses, at : {Local} \union 1..shards]]
  BY <1>1, DatabasesOfCalls DEF Base, Types, CatalogTypes
<1>3. \A stage \in {"undo", "end"} : /\ Stage(calls[c], stage).stage = stage
                                     /\ Same(Stage(calls[c], stage), calls[c])
                                     /\ Stage(calls[c], stage).digest = calls[c].digest
                                     /\ Stage(calls[c], stage).reply = "none"
  BY <1>2, StageTypes DEF Same, Stages
<1>4. PICK call : /\ Goes(c, call) /\ Same(call, calls[c]) /\ call.reply = "none"
                  /\ call.digest = calls[c].digest
                  /\ call.stage \in {"write_chunk", "finalize_restore"} =>
                       \/ calls[c].stage = "begin_restore" /\ calls[c].reply = "ok"
                       \/ calls[c].stage = "write_chunk"
  <2>1. CASE FailsUnknown(c) \/ Succeeds(c) \/ IsUndone(c)
    <3>1. \E stage \in {"undo", "end"} : Goes(c, Stage(calls[c], stage))
      BY <2>1 DEF FailsUnknown, Succeeds, IsUndone, Ends, GoesTo
    <3> QED BY <1>3, <3>1
  <2>2. CASE GoesOn(c)
    BY <2>2 DEF GoesOn
  <2> QED BY <2>1, <2>2, Steps
<1>5. calls'[c] = call /\ \A e \in Calls \ {c} : calls'[e] = calls[e]
  BY <1>4 DEF Goes, Base, Types, CallTypes
<1>6. \A e \in Calls : \A d, s : Migrating(e)' /\ On(e, d, s)' => Migrating(e) /\ On(e, d, s)
  BY <1>1, <1>4, <1>5 DEF Migrating, On, Active, Used, Same
<1>7. \/ UNCHANGED catalog
      \/ LocalIs(calls[c].db, "archiving") /\ Becomes(calls[c].db, "hot")
      \/ Succeeds(c)
  BY Steps DEF FailsUnknown, IsUndone, GoesOn
<1>8. ASSUME NEW d \in Ids
      PROVE  \/ catalog'[d] = catalog[d]
             \/ catalog'[d] = [status |-> "hot", at |-> Local]
             \/ /\ Succeeds(c) /\ d = calls[c].db
                /\ catalog'[d] = [status |-> "hot", at |-> calls[c].at]
  <2> DEFINE x == calls[c].db
             t == calls[c].at
  <2>1. Succeeds(c) => catalog' = [catalog EXCEPT ![x] = [status |-> "hot", at |-> t]]
    BY DEF Succeeds, Places
  <2>2. x \in Ids
    BY <1>2
  <2> HIDE DEF x, t
  <2>3. Succeeds(c) => \/ catalog'[d] = catalog[d]
                       \/ d = x /\ catalog'[d] = [status |-> "hot", at |-> t]
    BY <1>2, <2>1, <2>2
  <2>4. LocalIs(x, "archiving") /\ Becomes(x, "hot") =>
          catalog'[d] = catalog[d] \/ catalog'[d] = [status |-> "hot", at |-> Local]
    BY <1>2, <2>2 DEF LocalIs, Becomes
  <2> QED BY <1>7, <2>3, <2>4 DEF x, t
<1>9. ASSUME NEW e \in Calls, NEW d \in Ids, NEW s \in Shards, Migrating(e)', On(e, d, s)'
      PROVE  CopyOK(e, d, s)'
  <2>1. Migrating(e) /\ On(e, d, s) /\ CopyOK(e, d, s)
    BY <1>6, <1>9 DEF Writings, CopiesOK
  <2>2. LocalIs(d, "archiving")' => LocalIs(d, "archiving") /\ written'[d] = written[d]
    BY <1>1, <1>8 DEF LocalIs
  <2>3. CASE e # c
    <3>1. Kept(s, d) /\ (Restored(e) => Live(s, d))
      BY <1>1, <2>1 DEF Kept, Restored, SagaOK, SlotsOK, Migrating, On, Live
    <3> QED BY <1>5, <2>1, <2>2, <2>3, <3>1, CopyKept
  <2>4. CASE e = c
    <3>1. (Copied(c)' => Copied(c)) /\ ~Restored(c)'
      BY <1>4, <1>5 DEF Copied, Restored
    <3> QED BY <1>1, <1>4, <1>5, <2>1, <2>2, <2>4, <3>1 DEF CopyOK
  <2> QED BY <2>3, <2>4
<1>10. ASSUME NEW d \in Ids, NEW s \in Shards, RoutedTo(d, s)', written'[d] > 0, NEW v, v = written[d]
       PROVE  Holds(s, d, v)'
  <2>1. CASE catalog'[d] = catalog[d]
    BY <1>1, <1>10, <2>1 DEF Writings, RoutedWritesOK, RoutedTo, Holds
  <2>2. CASE Succeeds(c) /\ d = calls[c].db /\ catalog'[d] = [status |-> "hot", at |-> calls[c].at]
    <3>1. s = calls[c].at /\ On(c, d, s)
      BY <1>1, <1>10, <2>2 DEF RoutedTo, On
    <3>2. catalog[d] # Absent
      BY <1>1, <1>10 DEF Writings, AbsentOK
    <3>3. calls[c].stage = "finalize_restore" /\ LocalIs(d, "archiving") /\ Restored(c)
      BY <2>2, <3>2 DEF Succeeds, Finished, Restored
    <3>4. Migrating(c)
      BY <1>1, <1>2, <3>3 DEF SagaOK, CallsOK, CallRows, Migrating
    <3>5. Holds(s, d, v)
      BY <1>10, <3>1, <3>3, <3>4 DEF Writings, CopiesOK, CopyOK
    <3> QED BY <1>1, <3>5 DEF Holds
  <2>3. CASE catalog'[d] = [status |-> "hot", at |-> Local]
    BY <1>10, <2>3 DEF RoutedTo, Local, Shards
  <2> QED BY <1>8, <2>1, <2>2, <2>3
<1>11. CopiesOK'
  BY <1>9 DEF CopiesOK
<1>12. RoutedWritesOK'
  BY <1>1, <1>10 DEF RoutedWritesOK, Holds
<1>13. AbsentOK'
  BY <1>1, <1>8 DEF Writings, AbsentOK, Absent
<1> QED BY <1>11, <1>12, <1>13 DEF Writings

(* A fresh migration has hashed all that was written.                      *)
LEMMA FreshWrites ==
  ASSUME Base, SagaOK, Writings, NEW c \in Calls, ~Active(c), NEW call \in CallRows, Fresh(c, call),
         UNCHANGED <<slots, memory, written>>
  PROVE  Writings'
<1>1. calls'[c] = call /\ \A e \in Calls \ {c} : calls'[e] = calls[e]
  BY DEF Fresh, Goes, Base, Types, CallTypes
<1>2. catalog \in [Ids -> [status : Statuses, at : {Local} \union 1..shards]]
  BY DEF Base, Types, CatalogTypes
<1>3. ASSUME NEW d \in Ids
      PROVE  \/ catalog'[d] = catalog[d]
             \/ /\ catalog'[d] = [status |-> "archiving", at |-> Local]
                /\ catalog[d] = [status |-> "hot", at |-> Local]
                /\ \A e \in Calls : Migrating(e) => calls[e].db # d
  <2>1. CASE UNCHANGED catalog
    BY <2>1
  <2> DEFINE x == call.db
  <2>2. CASE /\ x \in Ids /\ LocalIs(x, "hot") /\ Becomes(x, "archiving")
             /\ \A e \in Calls : Migrating(e) => calls[e].db # x
    <3> HIDE DEF x
    <3> QED BY <1>2, <2>2 DEF LocalIs, Becomes
  <2> QED BY <2>1, <2>2 DEF Fresh, Ids
<1>4. ASSUME NEW e \in Calls, NEW d \in Ids, NEW s \in Shards, Migrating(e)', On(e, d, s)'
      PROVE  CopyOK(e, d, s)'
  <2>1. CASE e # c
    <3>1. Migrating(e) /\ On(e, d, s) /\ CopyOK(e, d, s) /\ calls'[e] = calls[e]
      BY <1>1, <1>4, <2>1 DEF Migrating, On, Active, Used, Writings, CopiesOK
    <3>2. LocalIs(d, "archiving")' => LocalIs(d, "archiving") /\ written'[d] = written[d]
      BY <1>3, <3>1 DEF LocalIs, On
    <3>3. Kept(s, d) /\ (Restored(e) => Live(s, d))
      BY <3>1 DEF Kept, Restored, SagaOK, SlotsOK, Migrating, On, Live
    <3> QED BY <3>1, <3>2, <3>3, CopyKept
  <2>2. CASE e = c
    <3>1. /\ call.digest = written[d] /\ call.stage = "create_slot" /\ call.reply = "none"
      BY <1>1, <1>4, <2>2 DEF Fresh, Migrating, On, Active
    <3> QED BY <1>1, <2>2, <3>1 DEF CopyOK, Copied, Restored
  <2> QED BY <2>1, <2>2
<1>5. CopiesOK'
  BY <1>4 DEF CopiesOK
<1>6. RoutedWritesOK' /\ AbsentOK'
  BY <1>3 DEF Writings, RoutedWritesOK, RoutedTo, AbsentOK, Absent, Holds
<1> QED BY <1>5, <1>6 DEF Writings

-----------------------------------------------------------------------------
(* Owners.                                                                 *)

(* An owner writes to a memory that the database has, and restores what was*)
(* written to a new one.                                                   *)
LEMMA OwnerWrites ==
  ASSUME Base, SagaOK, Writings, NotArchivedAnew, NEW x \in Ids, Owns(x)
  PROVE  Writings'
<1> DEFINE t == catalog[x].at
<1>1. UNCHANGED <<shards, journal, calls, session>>
  BY DEF Owns, begin_database_archive, cancel_database_archive, sql_write, delete_database,
         restore_database, Acts
<1>2. /\ catalog \in [Ids -> [status : Statuses, at : {Local} \union 1..shards]]
      /\ slots \in [Shards -> [Ids -> SlotRows]] /\ written \in [Ids -> 0..MaxVersion]
      /\ t \in {Local} \union Shards
  BY Bounds DEF Base, Types, CatalogTypes, ShardTypes, Shards
<1>3. \A status : Becomes(x, status) => /\ catalog'[x].status = status /\ catalog'[x].at = t
                                        /\ \A d \in Ids : d # x => catalog'[d] = catalog[d]
  BY <1>2 DEF Becomes
<1>4. \A d \in Ids : d # x => catalog'[d] = catalog[d] /\ written'[d] = written[d]
  BY <1>2, <1>3 DEF Owns, begin_database_archive, cancel_database_archive, sql_write, delete_database,
         restore_database
<1> HIDE DEF t
<1>5. ASSUME NEW e \in Calls, Migrating(e), calls[e].db = x, LocalIs(x, "archiving")'
      PROVE  LocalIs(x, "archiving") /\ written'[x] = written[x]
  <2>1. CASE begin_database_archive(x)
    <3>1. ~Owner("cancel") /\ LocalIs(x, "hot")
      BY <2>1 DEF begin_database_archive, Acts, NotArchivedAnew, Owner
    <3>2. LocalIs(x, "archiving")
      BY <1>5, <3>1 DEF SagaOK, MigrationsOK
    <3> QED BY <3>1, <3>2 DEF LocalIs
  <2>2. CASE sql_write(x)
    <3>1. catalog'[x] = catalog[x] /\ catalog[x].status = "hot"
      BY <2>2 DEF sql_write
    <3> QED BY <1>5, <3>1 DEF LocalIs
  <2>3. CASE cancel_database_archive(x) \/ delete_database(x) \/ restore_database(x)
    <3>1. Becomes(x, "hot") \/ Becomes(x, "deleted")
      BY <2>3 DEF cancel_database_archive, delete_database, restore_database
    <3>2. catalog'[x].status # "archiving"
      BY <1>3, <3>1
    <3> QED BY <1>5, <3>2 DEF LocalIs
  <2> QED BY <2>1, <2>2, <2>3 DEF Owns
<1>6. ASSUME NEW e \in Calls, NEW d \in Ids, NEW s \in Shards, Migrating(e), On(e, d, s)
      PROVE  CopyOK(e, d, s)'
  <2>1. calls'[e] = calls[e] /\ CopyOK(e, d, s) /\ d = calls[e].db /\ s = calls[e].at
    BY <1>1, <1>6 DEF Writings, CopiesOK, On
  <2>2. LocalIs(d, "archiving")' => LocalIs(d, "archiving") /\ written'[d] = written[d]
    BY <1>4, <1>5, <1>6, <2>1 DEF LocalIs
  <2>3. catalog[d].at = Local
    BY <1>6, <2>1 DEF SagaOK, CallsOK, Migrating
  <2>4. Kept(s, d)
    BY <2>3, OwnerKeeps DEF Local, Shards
  <2>5. Restored(e) => Live(s, d)
    BY <1>6, <2>1 DEF Restored, SagaOK, SlotsOK, Migrating, Live
  <2> QED BY <2>1, <2>2, <2>4, <2>5, CopyKept
<1>7. ASSUME NEW s \in Shards, RoutedTo(x, s)', written'[x] > 0, NEW v, v = written'[x]
      PROVE  Holds(s, x, v)'
  <2>1. catalog'[x].status = "hot" /\ catalog'[x].at = s /\ s # Local
    BY <1>7 DEF RoutedTo, Local, Shards
  <2>2. CASE begin_database_archive(x) \/ cancel_database_archive(x) \/ delete_database(x)
    BY <1>3, <2>1, <2>2 DEF begin_database_archive, cancel_database_archive, delete_database,
                            LocalIs, t
  <2>3. CASE sql_write(x)
    <3> DEFINE m == slots[s][x].mount
               new == [of |-> memory[s][m].of \union {x}, version |-> written[x] + 1]
    <3>1. /\ s = catalog[x].at /\ slots[s][x].status = "hot" /\ UNCHANGED slots
          /\ memory' = [memory EXCEPT ![s][m] = new] /\ v = written[x] + 1
      BY <1>2, <1>7, <2>1, <2>3 DEF sql_write
    <3>2. m \in 1..Mounts
      BY <3>1, LiveMounts DEF Live, Base, Types
    <3>3. x \in new.of /\ new.version = v
      BY <3>1
    <3> HIDE DEF m, new
    <3>4. memory'[s][m] = new
      BY <3>1, <3>2 DEF Base, Types, ShardTypes
    <3> QED BY <3>1, <3>3, <3>4 DEF Holds, m
  <2>4. CASE restore_database(x)
    <3> DEFINE hot == [NoSlot EXCEPT !.status = "hot"]
               m == Min(Free(s))
               row == [hot EXCEPT !.mount = m]
               new == [of |-> {x}, version |-> written[x]]
    <3>1. s = catalog[x].at
      BY <1>3, <2>1, <2>4 DEF restore_database, t
    <3>2. /\ Takes(s, x, hot) /\ slots' = [slots EXCEPT ![s][x] = row]
          /\ memory' = [memory EXCEPT ![s][m] = new] /\ v = written[x]
      BY <1>7, <2>4, <3>1 DEF restore_database, Takes
    <3>3. m \in 1..Mounts
      BY <3>2, MinOfFree DEF Takes, Free
    <3>4. row.mount = m /\ x \in new.of /\ new.version = v
      BY <3>2 DEF NoSlot
    <3> HIDE DEF m, row, new
    <3>5. slots'[s][x] = row /\ memory'[s][m] = new
      BY <1>2, <3>2, <3>3 DEF Base, Types, ShardTypes
    <3> QED BY <3>4, <3>5 DEF Holds
  <2> QED BY <2>2, <2>3, <2>4 DEF Owns
<1>8. ASSUME NEW d \in Ids, NEW s \in Shards, d # x, RoutedTo(d, s)', written'[d] > 0,
             NEW v, v = written[d]
      PROVE  Holds(s, d, v)'
  <2>1. Holds(s, d, v) /\ Live(s, d)
    BY <1>4, <1>8 DEF Writings, RoutedWritesOK, RoutedTo, SagaOK, RoutedOK, Live
  <2>2. Kept(s, d)
    BY <1>8, OwnerKeeps
  <2> QED BY <2>1, <2>2, HoldsKept
<1>9. CopiesOK'
  BY <1>1, <1>6 DEF CopiesOK, Migrating, On, Active, Used
<1>10. RoutedWritesOK'
  BY <1>4, <1>7, <1>8 DEF RoutedWritesOK, Holds
<1>11. AbsentOK'
  <2>1. catalog'[x] # Absent
    <3>1. \A status : LocalIs(x, status) => catalog[x].status = status
      BY DEF LocalIs
    <3>2. catalog[x].status # "none"
      BY <3>1 DEF Owns, begin_database_archive, cancel_database_archive, sql_write, delete_database,
             restore_database
    <3>3. UNCHANGED catalog \/ \E status \in {"hot", "archiving", "deleted"} : Becomes(x, status)
      BY DEF Owns, begin_database_archive, cancel_database_archive, sql_write, delete_database,
             restore_database
    <3>4. catalog'[x].status # "none"
      BY <1>3, <3>2, <3>3
    <3> QED BY <3>4 DEF Absent
  <2> QED BY <1>4, <2>1 DEF Writings, AbsentOK
<1> QED BY <1>9, <1>10, <1>11 DEF Writings

-----------------------------------------------------------------------------
(* Everything together.                                                    *)

(* Nothing is written before the first call.                               *)
LEMMA InitWrites ==
  ASSUME Init
  PROVE  Writings
<1>1. \A c \in Calls : ~Migrating(c)
  BY DEF Init, Migrating, Active, Used
<1>2. \A d \in Ids : written[d] = 0
  BY DEF Init
<1> QED BY <1>1, <1>2 DEF Writings, CopiesOK, RoutedWritesOK, AbsentOK

(* Every step of sessions that are kept apart and archive nothing anew.    *)
LEMMA StepWrites ==
  ASSUME Base, SagaOK, Writings, Apart, NotArchivedAnew, [Next]_vars
  PROVE  Writings'
<1>1. ASSUME NEW c \in Calls, Begin(c) PROVE Writings'
  <2>1. PICK call \in CallRows : Fresh(c, call)
    BY <1>1, BeginIsFresh
  <2>2. ~Active(c) /\ UNCHANGED <<slots, memory, written>>
    BY <1>1, BeginIsFresh DEF Active, Used, shard, Begin, Begins, create_database,
                              create_remote_database, migrate_database_to_shard
  <2> QED BY <2>1, <2>2, FreshWrites
<1>2. ASSUME NEW c \in Calls, Serve(c) \/ Refuse(c) PROVE Writings'
  BY <1>2, ServeWrites
<1>3. ASSUME NEW c \in Calls, Continue(c) PROVE Writings'
  <2>1. CASE provision_database_shard(c)
    <3>1. PICK call \in CallRows : Fresh(c, call)
      BY <2>1, ProvisionIsFresh
    <3>2. ~Active(c) /\ UNCHANGED <<slots, memory, written>>
      BY <2>1 DEF provision_database_shard, Awaits, Active, shard
    <3> QED BY <3>1, <3>2, FreshWrites
  <2> QED BY <1>3, <2>1, ContinueWrites
<1>4. ASSUME NEW x \in Ids, Owns(x) PROVE Writings'
  BY <1>4, OwnerWrites
<1>5. CASE UNCHANGED vars
  BY <1>5 DEF vars, placement, shard, Writings, CopiesOK, RoutedWritesOK, AbsentOK, CopyOK, Copied,
              Restored, Holds, Migrating, On, Active, Used, LocalIs, RoutedTo
<1> QED BY <1>1, <1>2, <1>3, <1>4, <1>5 DEF Next, Owns

(* What was written to a database is in the memory of its slot wherever    *)
(* the catalog routes it: whichever creations, migrations, failures,       *)
(* cancelled archives and restores came before.                            *)
THEOREM WritesMoveAlong == Spec => []WritesSurvive
<1> DEFINE Inv == /\ Base /\ (Apart => SagaOK)
                  /\ Apart /\ NotArchivedAnew => Writings
<1>1. Init => Inv
  BY InitBase, InitSaga, InitWrites
<1>2. Inv /\ [Next]_vars => Inv'
  <2> SUFFICES ASSUME Inv, [Next]_vars PROVE Inv'
    OBVIOUS
  <2>1. Base'
    BY StepBase
  <2>2. (Apart' => Apart) /\ (NotArchivedAnew' => NotArchivedAnew)
    BY StepSession DEF Apart, NoTwins, MigratedOnce, Owner, NotArchivedAnew
  <2> QED BY <2>1, <2>2, StepSaga, StepWrites
<1>3. Inv => WritesSurvive
  BY DEF WritesSurvive, Apart, Writings, RoutedWritesOK, Holds
<1> QED BY <1>1, <1>2, <1>3, PTL DEF Spec
================================================================================
