------------------------- MODULE ShardPlacement_proofs -------------------------
(***************************************************************************)
(* Proofs about ShardPlacement, for any calls, local databases and names,  *)
(* any numbers of shards, places and memories and any sessions.            *)
(*                                                                         *)
(* Base, the types and what the history says of the memories, is inductive *)
(* by itself and gives TypeCorrectness, MemoriesStayDistinct and           *)
(* NoShardIsOverfilled.  RoutingIsServed needs SagaOK on top of it, and    *)
(* MigrationsReopen needs ArchivedByCall.                                  *)
(***************************************************************************)
EXTENDS ShardPlacement, SequenceFacts

-----------------------------------------------------------------------------
(* The inductive invariant.                                                *)

Used(c) == calls[c] # Unused
Active(c) == Used(c) /\ calls[c].stage \notin {"provision", "end"}

SlotRows == [status : Statuses, mount : 0..Mounts, digest : Int, chunk : Int]
Stages == {"begin", "provision", "create_slot", "delete_slot", "begin_restore", "write_chunk",
           "finalize_restore", "undo", "end"}
CallRows == [op : {"create", "create_remote", "migrate"}, stage : Stages, db : Ids \union {0},
             at : 0..MaxShards, ms : 1..MaxMs, reply : {"none", "ok", "error"},
             digest : Int, chunk : Int]

ShardTypes ==
  /\ slots \in [Shards -> [Ids -> SlotRows]]
  /\ history \in [Shards -> SUBSET (Ids \X (1..Mounts))]
  /\ memory \in [Shards -> [1..Mounts -> [of : SUBSET Ids, version : Int]]]

Placed == {d \in Ids : catalog[d].at # Local}

CatalogTypes ==
  /\ shards \in 0..MaxShards
  /\ catalog \in [Ids -> [status : Statuses, at : {Local} \union 1..shards]]
  /\ written \in [Ids -> 0..MaxVersion]
  /\ IsFiniteSet(Placed)

(* What a call may address when n shards are registered.                   *)
Addresses(call, n) ==
  IF call.stage = "provision" THEN call.op = "create"
  ELSE call.stage # "end" => call.db \in Ids /\ call.at \in 1..n

CallTypes ==
  /\ calls \in [Calls -> {Unused} \union CallRows]
  /\ \A c \in Calls : Used(c) => Addresses(calls[c], shards)

JournalTypes == \A row \in DOMAIN journal : journal[row] \in {"pending", "applied", "unknown"}

Types == ShardTypes /\ CatalogTypes /\ CallTypes /\ JournalTypes /\ session \in Sessions

(* A memory is in the history of one database, and in that of the database *)
(* that has it.                                                            *)
MemoriesOK ==
  \A s \in Shards :
    /\ \A d, e \in Ids, m \in 1..Mounts : <<d, m>> \in history[s] /\ <<e, m>> \in history[s] => d = e
    /\ \A d \in Ids : Live(s, d) => <<d, slots[s][d].mount>> \in history[s]

-----------------------------------------------------------------------------
(* Among numbers that are bounded some have the least value of a function, *)
(* and one of those is the least.                                          *)
LEMMA Least ==
  ASSUME NEW n \in Nat, NEW S \in SUBSET (0..n), S # {}, NEW f \in [S -> Int]
  PROVE  \E x \in S : \A y \in S : f[x] < f[y] \/ (f[x] = f[y] /\ x <= y)
<1> DEFINE N == 0..n
           Before(x, y) == f[x] < f[y] \/ (f[x] = f[y] /\ x <= y)
           Below(x) == {y \in S : Before(y, x)}
           T == {Below(x) : x \in S}
<1>1. IsFiniteSet(N)
  BY FS_Interval
<1>2. IsWellFoundedOn(StrictSubsetOrdering(N), SUBSET N)
  BY <1>1, FS_StrictSubsetOrderingWellFounded, FS_FiniteSubsetsOfFinite
<1>3. T \subseteq SUBSET N /\ T # {}
  OBVIOUS
<1>4. PICK t \in T : \A u \in T : <<u, t>> \notin StrictSubsetOrdering(N)
  <2> HIDE DEF T, N
  <2> QED BY <1>2, <1>3, WFMin
<1>5. PICK x \in S : t = Below(x)
  BY <1>4
<1>6. \A y, z \in S : /\ f[y] \in Int /\ y \in Int
                      /\ Before(y, y) /\ (Before(y, z) \/ Before(z, y))
  <2>1. \A y \in S : f[y] \in Int /\ y \in Int
    OBVIOUS
  <2>2. ASSUME NEW y \in S, NEW z \in S PROVE Before(y, z) \/ Before(z, y)
    <3>1. \A a, b, i, j \in Int : \/ a < b \/ (a = b /\ i <= j)
                                  \/ b < a \/ (b = a /\ j <= i)
      OBVIOUS
    <3>2. /\ f[y] \in Int /\ f[z] \in Int
          /\ y \in Int /\ z \in Int
      BY <2>1
    <3> QED BY <3>1, <3>2
  <2> QED BY <2>1, <2>2
<1>7. \A y, z, w \in S : Before(y, z) /\ Before(z, w) => Before(y, w)
  BY <1>6
<1>8. ASSUME NEW y \in S PROVE Before(x, y)
  <2> SUFFICES ASSUME ~Before(x, y) PROVE FALSE
    OBVIOUS
  <2> HIDE DEF Before
  <2>1. x \in Below(x) /\ x \notin Below(y)
    BY <1>6
  <2>2. Below(y) \subseteq Below(x)
    BY <1>6, <1>7
  <2>3. Below(y) \in T
    OBVIOUS
  <2> HIDE DEF Below
  <2> QED BY <2>1, <2>2, <2>3, <1>3, <1>4, <1>5 DEF StrictSubsetOrdering
<1> QED BY <1>8

(* The memory that a shard hands out is a free one.                        *)
LEMMA MinOfFree ==
  ASSUME NEW s \in Shards, Free(s) # {}
  PROVE  Min(Free(s)) \in Free(s)
<1>1. Mounts \in Nat
  BY Bounds
<1>2. Free(s) \in SUBSET (0..Mounts)
  BY <1>1 DEF Free
<1> QED BY <1>1, <1>2, MinOfSome

-----------------------------------------------------------------------------
(* The shard's handlers.                                                   *)

(* Only the slot of d on s changes.                                        *)
OnlySlot(s, d) == \A t \in Shards, e \in Ids : t # s \/ e # d => slots'[t][e] = slots[t][e]

(* A slot gets a memory of its own.                                        *)
LEMMA TakesMemory ==
  ASSUME ShardTypes, MemoriesOK, NEW s \in Shards, NEW d \in Ids, NEW slot \in SlotRows,
         Takes(s, d, slot)
  PROVE  /\ slots' \in [Shards -> [Ids -> SlotRows]]
         /\ history' \in [Shards -> SUBSET (Ids \X (1..Mounts))]
         /\ MemoriesOK'
         /\ OnlySlot(s, d)
         /\ slots'[s][d].status = slot.status
         /\ slots'[s][d].mount \in Free(s)
<1> DEFINE m == Min(Free(s))
<1>1. m \in 1..Mounts /\ \A e \in Ids : <<e, m>> \notin history[s]
  BY MinOfFree DEF Takes, Free
<1>2. /\ slots' = [slots EXCEPT ![s][d] = [slot EXCEPT !.mount = m]]
      /\ history' = [history EXCEPT ![s] = @ \union {<<d, m>>}]
  BY DEF Takes
<1> HIDE DEF m
<1>3. /\ slots' \in [Shards -> [Ids -> SlotRows]]
      /\ slots'[s][d] = [slot EXCEPT !.mount = m]
      /\ OnlySlot(s, d)
  <2>1. [slot EXCEPT !.mount = m] \in SlotRows
    BY <1>1 DEF SlotRows
  <2>2. slots \in [Shards -> [Ids -> SlotRows]]
    BY DEF ShardTypes
  <2> HIDE DEF SlotRows
  <2> QED BY <1>2, <2>1, <2>2 DEF OnlySlot
<1>4. /\ history' \in [Shards -> SUBSET (Ids \X (1..Mounts))]
      /\ history'[s] = history[s] \union {<<d, m>>}
      /\ \A t \in Shards : t # s => history'[t] = history[t]
  BY <1>1, <1>2 DEF ShardTypes
<1>5. MemoriesOK'
  <2> SUFFICES ASSUME NEW t \in Shards
               PROVE  /\ \A e, f \in Ids, k \in 1..Mounts :
                           <<e, k>> \in history'[t] /\ <<f, k>> \in history'[t] => e = f
                      /\ \A e \in Ids : Live(t, e)' => <<e, slots'[t][e].mount>> \in history'[t]
    BY DEF MemoriesOK
  <2>1. CASE t # s
    <3>1. history'[t] = history[t] /\ \A e \in Ids : slots'[t][e] = slots[t][e]
      BY <2>1, <1>3, <1>4 DEF OnlySlot
    <3> QED BY <3>1 DEF MemoriesOK, Live
  <2>2. CASE t = s
    <3>1. ASSUME NEW e \in Ids, NEW f \in Ids, NEW k \in 1..Mounts,
                 <<e, k>> \in history'[s], <<f, k>> \in history'[s]
          PROVE  e = f
      BY <3>1, <1>1, <1>4 DEF MemoriesOK
    <3>2. ASSUME NEW e \in Ids, Live(s, e)'
          PROVE  <<e, slots'[s][e].mount>> \in history'[s]
      <4>1. CASE e = d
        BY <4>1, <1>3, <1>4 DEF SlotRows
      <4>2. CASE e # d
        BY <4>2, <3>2, <1>3, <1>4 DEF MemoriesOK, OnlySlot, Live
      <4> QED BY <4>1, <4>2
    <3>3. \A e \in Ids : Live(s, e)' => <<e, slots'[s][e].mount>> \in history'[s]
      BY <3>2
    <3> QED BY <2>2, <3>1, <3>3
  <2> QED BY <2>1, <2>2
<1>6. slots'[s][d].status = slot.status /\ slots'[s][d].mount = m
  BY <1>3 DEF SlotRows
<1> QED BY <1>1, <1>3, <1>4, <1>5, <1>6 DEF Free

(* A slot keeps its memory, or is not live any more.                       *)
LEMMA KeepsMemory ==
  ASSUME ShardTypes, MemoriesOK, NEW s \in Shards, NEW d \in Ids, NEW slot \in SlotRows,
         slots' = [slots EXCEPT ![s][d] = slot], UNCHANGED history,
         slot.status \in {"hot", "restoring"} => Live(s, d) /\ slot.mount = slots[s][d].mount
  PROVE  /\ slots' \in [Shards -> [Ids -> SlotRows]]
         /\ history' \in [Shards -> SUBSET (Ids \X (1..Mounts))]
         /\ MemoriesOK'
         /\ OnlySlot(s, d)
         /\ slots'[s][d] = slot
<1>1. /\ slots' \in [Shards -> [Ids -> SlotRows]]
      /\ slots'[s][d] = slot
      /\ OnlySlot(s, d)
  BY DEF ShardTypes, OnlySlot
<1>2. MemoriesOK'
  BY <1>1 DEF MemoriesOK, OnlySlot, Live
<1> QED BY <1>1, <1>2 DEF ShardTypes

(* A memory is given back with the row.                                    *)
LEMMA DiscardsMemory ==
  ASSUME ShardTypes, MemoriesOK, NEW s \in Shards, NEW d \in Ids, discard_database_slot(s, d)
  PROVE  ShardTypes' /\ MemoriesOK' /\ OnlySlot(s, d)
<1>1. NoSlot \in SlotRows /\ NoSlot.status = "none"
  BY Bounds DEF NoSlot, SlotRows, Statuses
<1>2. /\ slots' \in [Shards -> [Ids -> SlotRows]]
      /\ slots'[s][d] = NoSlot
      /\ OnlySlot(s, d)
  BY <1>1 DEF ShardTypes, OnlySlot, discard_database_slot
<1>3. /\ history' \in [Shards -> SUBSET (Ids \X (1..Mounts))]
      /\ history'[s] = {h \in history[s] : h[1] # d}
      /\ \A t \in Shards : t # s => history'[t] = history[t]
  BY DEF ShardTypes, discard_database_slot
<1>4. ASSUME NEW t \in Shards
      PROVE  /\ history'[t] \subseteq history[t]
             /\ \A e \in Ids : Live(t, e)' => <<e, slots'[t][e].mount>> \in history'[t]
  <2>1. CASE t # s
    <3>1. history'[t] = history[t] /\ \A e \in Ids : slots'[t][e] = slots[t][e]
      BY <2>1, <1>2, <1>3 DEF OnlySlot
    <3> QED BY <3>1 DEF MemoriesOK, Live
  <2>2. CASE t = s
    <3>1. ASSUME NEW e \in Ids, Live(s, e)' PROVE <<e, slots'[s][e].mount>> \in history'[s]
      <4>1. e # d
        BY <3>1, <1>1, <1>2 DEF Live
      <4>2. slots'[s][e] = slots[s][e] /\ Live(s, e)
        BY <4>1, <3>1, <1>2 DEF OnlySlot, Live
      <4> QED BY <4>1, <4>2, <1>3 DEF MemoriesOK
    <3>2. \A e \in Ids : Live(s, e)' => <<e, slots'[s][e].mount>> \in history'[s]
      BY <3>1
    <3> QED BY <2>2, <3>2, <1>3
  <2> QED BY <2>1, <2>2
<1>5. MemoriesOK'
  BY <1>4 DEF MemoriesOK
<1> QED BY <1>2, <1>3, <1>5 DEF ShardTypes, discard_database_slot

(* Each handler of a shard keeps its memories apart.                       *)
LEMMA HandlersKeepMemories ==
  ASSUME ShardTypes, MemoriesOK, NEW s \in Shards, NEW d \in Ids, NEW n \in Int,
         \/ create_database_slot(s, d)
         \/ delete_database_slot(s, d)
         \/ begin_database_restore(s, d, n)
         \/ write_database_restore_chunk(s, d, n)
         \/ finalize_database_restore(s, d)
         \/ discard_database_slot(s, d)
  PROVE  ShardTypes' /\ MemoriesOK' /\ OnlySlot(s, d)
<1> DEFINE slot == slots[s][d]
<1>1. slot \in SlotRows
  BY DEF ShardTypes
<1>2. CASE create_database_slot(s, d)
  <2>1. [NoSlot EXCEPT !.status = "hot"] \in SlotRows
    BY Bounds DEF NoSlot, SlotRows, Statuses
  <2>2. /\ Takes(s, d, [NoSlot EXCEPT !.status = "hot"])
        /\ UNCHANGED memory
    BY <1>2 DEF create_database_slot
  <2> QED BY <2>1, <2>2, TakesMemory DEF ShardTypes
<1>3. CASE begin_database_restore(s, d, n)
  <2>1. [NoSlot EXCEPT !.status = "restoring", !.digest = n, !.chunk = -1] \in SlotRows
    <3>1. \A row \in SlotRows : /\ [row EXCEPT !.status = "restoring"] \in SlotRows
                                /\ [row EXCEPT !.digest = n] \in SlotRows
                                /\ [row EXCEPT !.chunk = -1] \in SlotRows
      BY DEF SlotRows, Statuses
    <3>2. NoSlot \in SlotRows
      BY Bounds DEF NoSlot, SlotRows, Statuses
    <3>3. [NoSlot EXCEPT !.status = "restoring", !.digest = n, !.chunk = -1]
            = [[[NoSlot EXCEPT !.status = "restoring"] EXCEPT !.digest = n] EXCEPT !.chunk = -1]
      BY DEF NoSlot
    <3> HIDE DEF NoSlot
    <3> QED BY <3>1, <3>2, <3>3
  <2>2. /\ Takes(s, d, [NoSlot EXCEPT !.status = "restoring", !.digest = n, !.chunk = -1])
        /\ UNCHANGED memory
    BY <1>3 DEF begin_database_restore
  <2> QED BY <2>1, <2>2, TakesMemory DEF ShardTypes
<1>4. CASE delete_database_slot(s, d)
  <2> DEFINE new == [NoSlot EXCEPT !.status = "deleted"]
  <2>1. new \in SlotRows /\ new.status = "deleted"
    BY Bounds DEF NoSlot, SlotRows, Statuses
  <2>2. slots' = [slots EXCEPT ![s][d] = new] /\ UNCHANGED <<history, memory>>
    BY <1>4 DEF delete_database_slot
  <2> HIDE DEF new
  <2> QED BY <2>1, <2>2, KeepsMemory DEF ShardTypes
<1>5. CASE write_database_restore_chunk(s, d, n)
  <2> DEFINE new == [slot EXCEPT !.chunk = n]
  <2>1. new \in SlotRows /\ new.status = slot.status /\ new.mount = slot.mount
    BY <1>1 DEF SlotRows
  <2>2. /\ slots' = [slots EXCEPT ![s][d] = new]
        /\ slot.status = "restoring"
        /\ UNCHANGED <<history, memory>>
    BY <1>1, <1>5 DEF write_database_restore_chunk, SlotRows, ShardTypes
  <2> HIDE DEF new
  <2> QED BY <2>1, <2>2, KeepsMemory DEF ShardTypes, Live
<1>6. CASE finalize_database_restore(s, d)
  <2> DEFINE new == [slot EXCEPT !.status = "hot"]
  <2>1. new \in SlotRows /\ new.status = "hot" /\ new.mount = slot.mount
    BY <1>1 DEF SlotRows, Statuses
  <2>2. /\ slots' = [slots EXCEPT ![s][d] = new]
        /\ slot.status = "restoring"
        /\ UNCHANGED history
    BY <1>1, <1>6 DEF finalize_database_restore, SlotRows, ShardTypes
  <2>3. memory' \in [Shards -> [1..Mounts -> [of : SUBSET Ids, version : Int]]]
    <3>1. slot.digest \in Int
      BY <1>1 DEF SlotRows
    <3>2. memory' = [memory EXCEPT ![s][slot.mount] = [of |-> {d}, version |-> slot.digest]]
      BY <1>6 DEF finalize_database_restore
    <3> HIDE DEF slot
    <3> QED BY <3>1, <3>2 DEF ShardTypes
  <2> HIDE DEF new
  <2> QED BY <2>1, <2>2, <2>3, KeepsMemory DEF ShardTypes, Live
<1>7. CASE discard_database_slot(s, d)
  BY <1>7, DiscardsMemory
<1> QED BY <1>2, <1>3, <1>4, <1>5, <1>6, <1>7

(* A step that leaves the shards alone.                                    *)
LEMMA ShardUntouched ==
  ASSUME ShardTypes, MemoriesOK, UNCHANGED shard
  PROVE  ShardTypes' /\ MemoriesOK'
BY DEF ShardTypes, MemoriesOK, Live, shard

-----------------------------------------------------------------------------
(* The catalog.                                                            *)

(* A database whose status changes stays where it is.                      *)
LEMMA BecomesTypes ==
  ASSUME CatalogTypes, NEW d \in Ids, NEW status \in Statuses, Becomes(d, status),
         shards' = shards, written' \in [Ids -> 0..MaxVersion]
  PROVE  CatalogTypes' /\ \A e \in Ids : catalog'[e].at = catalog[e].at
<1>1. catalog' = [catalog EXCEPT ![d].status = status]
  BY DEF Becomes
<1>2. /\ catalog' \in [Ids -> [status : Statuses, at : {Local} \union 1..shards]]
      /\ \A e \in Ids : catalog'[e].at = catalog[e].at
  BY <1>1 DEF CatalogTypes
<1>3. Placed' = Placed
  BY <1>2 DEF Placed
<1> QED BY <1>2, <1>3 DEF CatalogTypes

(* A call places its database.                                             *)
LEMMA PlacesTypes ==
  ASSUME CatalogTypes, NEW c \in Calls, calls[c].db \in Ids, calls[c].at \in 1..shards,
         Places(c), UNCHANGED <<shards, written>>
  PROVE  /\ CatalogTypes'
         /\ catalog'[calls[c].db] = [status |-> "hot", at |-> calls[c].at]
         /\ \A e \in Ids \ {calls[c].db} : catalog'[e] = catalog[e]
<1> DEFINE d == calls[c].db
           s == calls[c].at
<1>1. catalog' = [catalog EXCEPT ![d] = [status |-> "hot", at |-> s]]
  BY DEF Places
<1>2. d \in Ids /\ s \in 1..shards
  OBVIOUS
<1> HIDE DEF d, s
<1>3. /\ catalog' \in [Ids -> [status : Statuses, at : {Local} \union 1..shards]]
      /\ catalog'[d] = [status |-> "hot", at |-> s]
      /\ \A e \in Ids \ {d} : catalog'[e] = catalog[e]
  BY <1>1, <1>2 DEF CatalogTypes, Statuses
<1>4. IsFiniteSet(Placed')
  <2>1. IsFiniteSet(Placed \union {d})
    BY FS_AddElement DEF CatalogTypes
  <2>2. Placed' \in SUBSET (Placed \union {d})
    BY <1>3 DEF Placed
  <2> QED BY <2>1, <2>2, FS_Subset
<1> QED BY <1>3, <1>4 DEF CatalogTypes, d, s

(* A step that leaves the catalog alone; a shard may be registered in it.  *)
LEMMA CatalogUntouched ==
  ASSUME CatalogTypes, UNCHANGED <<catalog, written>>, shards' \in 0..MaxShards, shards <= shards'
  PROVE  CatalogTypes'
<1>1. 1..shards \subseteq 1..shards'
  BY DEF CatalogTypes
<1>2. Placed' = Placed
  BY DEF Placed
<1> QED BY <1>1, <1>2 DEF CatalogTypes

-----------------------------------------------------------------------------
(* Calls and their rows.                                                   *)

(* A call that reaches a stage is otherwise the call it was.               *)
LEMMA StageTypes ==
  ASSUME NEW call \in CallRows, NEW stage \in Stages
  PROVE  /\ Stage(call, stage) \in CallRows
         /\ Stage(call, stage) # Unused
         /\ Stage(call, stage).stage = stage /\ Stage(call, stage).reply = "none"
         /\ Stage(call, stage).op = call.op /\ Stage(call, stage).db = call.db
         /\ Stage(call, stage).at = call.at /\ Stage(call, stage).ms = call.ms
         /\ Stage(call, stage).digest = call.digest
<1>1. Stage(call, stage) = [[call EXCEPT !.stage = stage] EXCEPT !.reply = "none"]
  BY DEF Stage, CallRows
<1>2. [call EXCEPT !.stage = stage] \in CallRows
  BY DEF CallRows
<1>3. Stage(call, stage) \in CallRows
  BY <1>1, <1>2 DEF CallRows
<1> QED BY <1>1, <1>3 DEF CallRows, Unused

(* One call changes, to a call that addresses a registered shard.          *)
LEMMA GoesTypes ==
  ASSUME CallTypes, NEW c \in Calls, NEW call \in CallRows, Goes(c, call),
         shards \in Nat, shards' \in Nat, shards <= shards', Addresses(call, shards')
  PROVE  CallTypes'
<1>1. /\ calls' \in [Calls -> {Unused} \union CallRows]
      /\ calls'[c] = call /\ \A e \in Calls \ {c} : calls'[e] = calls[e]
  BY DEF Goes, CallTypes
<1>2. 1..shards \subseteq 1..shards'
  OBVIOUS
<1>3. ASSUME NEW e \in Calls, Used(e)' PROVE Addresses(calls[e], shards)'
  <2>1. CASE e = c
    BY <2>1, <1>1 DEF Addresses
  <2>2. CASE e # c
    BY <2>2, <1>1, <1>2, <1>3 DEF Addresses, Used, CallTypes
  <2> QED BY <2>1, <2>2
<1> QED BY <1>1, <1>3 DEF CallTypes

(* A row of the journal is opened or closed.                               *)
LEMMA JournalRowTypes ==
  ASSUME JournalTypes, NEW row, NEW status \in {"pending", "applied", "unknown"},
         Journal(row, status)
  PROVE  JournalTypes'
BY DEF Journal, JournalTypes

(* The call of an action that goes to a stage.                             *)
LEMMA GoesToTypes ==
  ASSUME Types, NEW c \in Calls, Used(c), NEW stage \in Stages \ {"provision"}, GoesTo(c, stage),
         calls[c].stage = "provision" => stage = "end",
         calls[c].stage = "end" => stage = "end",
         UNCHANGED shards
  PROVE  CallTypes'
<1>1. calls[c] \in CallRows /\ Addresses(calls[c], shards)
  BY DEF Types, CallTypes, Used
<1>2. Stage(calls[c], stage) \in CallRows /\ Addresses(Stage(calls[c], stage), shards')
  BY <1>1, StageTypes DEF Addresses
<1>3. shards \in Nat
  BY DEF Types, CatalogTypes
<1> QED BY <1>2, <1>3, GoesTypes DEF GoesTo, Types

(* A call ends and closes its row.                                         *)
LEMMA EndsTypes ==
  ASSUME Types, NEW c \in Calls, Used(c), NEW status \in {"applied", "unknown"}, Ends(c, status),
         UNCHANGED shards
  PROVE  CallTypes' /\ JournalTypes'
<1>1. GoesTo(c, "end") /\ Journal(Row(calls[c]), status)
  BY DEF Ends
<1>2. "end" \in Stages \ {"provision"}
  BY DEF Stages
<1>3. CallTypes'
  BY <1>1, <1>2, GoesToTypes
<1> QED BY <1>1, <1>3, JournalRowTypes DEF Types

(* A call opens its row, or returns what the row says.                     *)
LEMMA OpensTypes ==
  ASSUME Types, NEW c \in Calls, NEW call \in CallRows, Opens(c, call),
         shards' \in Nat, shards <= shards', call.db \in Ids, call.at \in 1..shards'
  PROVE  CallTypes' /\ JournalTypes'
<1>0. shards \in Nat /\ "end" \in Stages /\ "create_slot" \in Stages
  BY DEF Types, CatalogTypes, Stages
<1>1. \A stage \in {"end", "create_slot"} :
        /\ Stage(call, stage) \in CallRows
        /\ Addresses(Stage(call, stage), shards')
  BY <1>0, StageTypes DEF Addresses
<1>2. CASE Goes(c, Stage(call, "end")) /\ UNCHANGED journal
  BY <1>0, <1>1, <1>2, GoesTypes DEF Types, JournalTypes
<1>3. CASE Goes(c, Stage(call, "create_slot")) /\ Journal(Row(call), "pending")
  BY <1>0, <1>1, <1>3, GoesTypes, JournalRowTypes DEF Types
<1> QED BY <1>2, <1>3 DEF Opens

-----------------------------------------------------------------------------
(* The ids and shards that are chosen.                                     *)

(* There is a millisecond left for a call that begins.                     *)
LEMMA Clock ==
  ASSUME NEW c \in Calls, calls[c] = Unused
  PROVE  Begun \in Nat /\ MaxMs \in Nat /\ Begun + 1 \in 1..MaxMs /\ Now \in 1..MaxMs
<1> DEFINE B == {e \in Calls : calls[e] # Unused}
<1>1. B \in SUBSET Calls /\ B # Calls
  OBVIOUS
<1>2. /\ IsFiniteSet(B) /\ Cardinality(B) <= Cardinality(Calls)
      /\ Cardinality(Calls) # Cardinality(B)
  <2> HIDE DEF B
  <2> QED BY <1>1, FiniteCalls, FS_Subset
<1>3. Cardinality(B) \in Nat /\ Cardinality(Calls) \in Nat
  <2> HIDE DEF B
  <2> QED BY <1>2, FiniteCalls, FS_CardinalityType
<1>4. Begun = Cardinality(B) /\ MaxMs = Cardinality(Calls)
  BY DEF Begun, MaxMs
<1> HIDE DEF B
<1>5. Begun \in Nat /\ MaxMs \in Nat /\ Begun < MaxMs
  BY <1>2, <1>3, <1>4
<1> QED BY <1>5 DEF Now

(* Finitely many databases are assigned to a shard, and none to a new one. *)
LEMMA AssignedTypes ==
  ASSUME CatalogTypes, NEW s \in Shards
  PROVE  Assigned(s) \in Nat /\ (s > shards => HasRoom(s))
<1> DEFINE A == {d \in Ids : catalog[d].at = s /\ catalog[d].status \notin {"none", "deleted"}}
<1>1. A \in SUBSET Placed
  BY DEF Placed, Local, Shards
<1>2. IsFiniteSet(A)
  <2> HIDE DEF A
  <2> QED BY <1>1, FS_Subset DEF CatalogTypes
<1>3. Cardinality(A) \in Nat
  BY <1>2, FS_CardinalityType
<1>4. ASSUME s > shards PROVE Cardinality(A) < Capacity
  <2>1. A = {}
    BY <1>4 DEF CatalogTypes, Local, Shards
  <2> HIDE DEF A
  <2> QED BY <2>1, FS_EmptySet, Bounds
<1> QED BY <1>3, <1>4 DEF Assigned, HasRoom

(* A shard is chosen among those with room, and an id among those the      *)
(* catalog does not have.                                                  *)
LEMMA Chosen ==
  ASSUME CatalogTypes, NEW n \in 0..MaxShards, NEW ms \in 1..MaxMs,
         Selectable(n) # {}, Attempts(ms, select_database_shard_for_create(n)) # {}
  PROVE  LET s == select_database_shard_for_create(n)
             d == generated_remote_database_id(ms, s)
         IN /\ s \in 1..n /\ s \in Shards
            /\ d \in Generated /\ d \in Ids /\ d.at = ms /\ catalog[d] = Absent
<1> DEFINE s == select_database_shard_for_create(n)
           a == Min(Attempts(ms, s))
           f == [t \in Selectable(n) |-> Assigned(t)]
<1>1. /\ Selectable(n) \in SUBSET (0..n)
      /\ \A t \in Selectable(n) : t \in 1..n /\ t \in Shards /\ Assigned(t) \in Int
  <2>1. n \in Nat /\ MaxShards \in Nat /\ n <= MaxShards
    BY Bounds
  <2> QED BY <2>1, AssignedTypes DEF Selectable, Shards
<1>2. \E t \in Selectable(n) : \A u \in Selectable(n) :
        f[t] < f[u] \/ (f[t] = f[u] /\ t <= u)
  <2>1. f \in [Selectable(n) -> Int] /\ n \in Nat
    BY <1>1, Bounds
  <2> HIDE DEF f
  <2> QED BY <1>1, <2>1, Least
<1>3. s \in Selectable(n)
  BY <1>2 DEF select_database_shard_for_create
<1>4. a \in Attempts(ms, s)
  <2>1. MaxAttempt \in Nat /\ Attempts(ms, s) \in SUBSET (0..MaxAttempt)
    BY Bounds DEF Attempts
  <2> HIDE DEF s
  <2> QED BY <2>1, MinOfSome DEF s
<1> HIDE DEF a
<1>5. /\ a \in 0..MaxAttempt /\ catalog[Generate(ms, s, a)] = Absent
      /\ generated_remote_database_id(ms, s) = Generate(ms, s, a)
  BY <1>4 DEF Attempts, generated_remote_database_id, a
<1> HIDE DEF s
<1>6. Generate(ms, s, a) \in Generated /\ Generate(ms, s, a).at = ms
  BY <1>1, <1>3, <1>5 DEF Generate, Generated
<1> QED BY <1>1, <1>3, <1>5, <1>6 DEF s, Ids

(* A call that has not yet awaited anything.                               *)
LEMMA NewCallTypes ==
  ASSUME NEW op \in {"create", "create_remote", "migrate"}, NEW d \in Ids \union {0},
         NEW s \in 0..MaxShards, NEW ms \in 1..MaxMs
  PROVE  /\ NewCall(op, d, s, ms) \in CallRows
         /\ NewCall(op, d, s, ms).op = op /\ NewCall(op, d, s, ms).db = d
         /\ NewCall(op, d, s, ms).at = s /\ NewCall(op, d, s, ms).ms = ms
BY DEF NewCall, CallRows, Stages

(* The call that creates a database of a chosen id.                        *)
LEMMA AllocateTypes ==
  ASSUME Types, NEW c \in Calls, NEW ms \in 1..MaxMs, Allocate(c, ms, shards'),
         shards' \in 0..MaxShards, shards <= shards', Selectable(shards') # {}
  PROVE  /\ CallTypes' /\ JournalTypes'
         /\ \E d \in Generated, s \in Shards :
              /\ d.at = ms /\ catalog[d] = Absent
              /\ Opens(c, NewCall("create", d, s, ms))
<1> DEFINE n == shards'
           s == select_database_shard_for_create(n)
           d == generated_remote_database_id(ms, s)
<1>1. Attempts(ms, s) # {} /\ Opens(c, NewCall("create", d, s, ms))
  BY DEF Allocate
<1>2. /\ s \in 1..n /\ s \in Shards
      /\ d \in Generated /\ d \in Ids /\ d.at = ms /\ catalog[d] = Absent
  BY <1>1, Chosen DEF Types
<1> HIDE DEF s, d
<1>3. /\ NewCall("create", d, s, ms) \in CallRows
      /\ NewCall("create", d, s, ms).db = d /\ NewCall("create", d, s, ms).at = s
  <2>1. s \in 0..MaxShards
    BY <1>2, Bounds DEF Shards
  <2> QED BY <1>2, <2>1, NewCallTypes
<1>4. shards' \in Nat
  BY Bounds
<1>5. CallTypes' /\ JournalTypes'
  BY <1>1, <1>2, <1>3, <1>4, OpensTypes
<1> QED BY <1>1, <1>2, <1>5

-----------------------------------------------------------------------------
(* Each action keeps the types and the memories, and places databases on   *)
(* shards with room.                                                       *)

Base == Types /\ MemoriesOK

Fits == \A d \in Ids, s \in Shards : catalog[d].at # s /\ catalog'[d].at = s => HasRoom(s)

(* Creations, creations by a controller and migrations up to their await.  *)
LEMMA BeginBase ==
  ASSUME Base, NEW c \in Calls, Begin(c)
  PROVE  Base' /\ Fits
<1> USE DEF Base
<1>0. /\ shards \in Nat /\ shards \in 0..MaxShards /\ MaxShards \in Nat /\ shards <= shards
      /\ 1..shards \subseteq 0..MaxShards
  BY Bounds DEF Types, CatalogTypes
<1>1. calls[c] = Unused /\ UNCHANGED <<shard, written, session>>
  BY DEF Begin, Begins, create_database, create_remote_database, migrate_database_to_shard
<1>2. ShardTypes' /\ MemoriesOK' /\ Now \in 1..MaxMs
  BY <1>1, ShardUntouched, Clock DEF Types
<1>3. CASE create_database(c)
  <2>1. UNCHANGED <<catalog, shards>>
    BY <1>3 DEF create_database, placement
  <2>2. CatalogTypes' /\ Fits
    BY <1>0, <1>1, <2>1, CatalogUntouched DEF Types, Fits
  <2>3. CASE Selectable(shards) # {} /\ Allocate(c, Now, shards)
    BY <1>0, <1>1, <1>2, <2>1, <2>2, <2>3, AllocateTypes DEF Types
  <2>4. CASE /\ Goes(c, [NewCall("create", 0, Local, Now) EXCEPT !.stage = "provision"])
             /\ UNCHANGED journal
    <3> DEFINE call == NewCall("create", 0, Local, Now)
               new == [call EXCEPT !.stage = "provision"]
    <3>1. call \in CallRows /\ call.op = "create"
      BY <1>0, <1>2, NewCallTypes DEF Local
    <3> HIDE DEF call
    <3>2. new \in CallRows /\ new.stage = "provision" /\ new.op = "create"
      BY <3>1 DEF CallRows, Stages
    <3>3. CallTypes'
      BY <1>0, <2>1, <2>4, <3>2, GoesTypes DEF Addresses, Types, call
    <3> QED BY <1>1, <1>2, <2>2, <2>4, <3>3 DEF Types, JournalTypes
  <2> QED BY <1>3, <2>3, <2>4 DEF create_database
<1>4. ASSUME NEW s \in 1..shards, NEW d \in Locals \union Named, create_remote_database(c, d, s)
      PROVE  Base' /\ Fits
  <2> DEFINE call == NewCall("create_remote", d, s, Now)
  <2>1. Opens(c, call) /\ UNCHANGED <<catalog, shards>>
    BY <1>4 DEF create_remote_database, placement
  <2>2. call \in CallRows /\ call.db \in Ids /\ call.at \in 1..shards'
    BY <1>0, <1>2, <2>1, NewCallTypes DEF Ids
  <2> HIDE DEF call
  <2>3. CallTypes' /\ JournalTypes'
    BY <1>0, <2>1, <2>2, OpensTypes
  <2>4. CatalogTypes' /\ Fits
    BY <1>0, <1>1, <2>1, CatalogUntouched DEF Types, Fits
  <2> QED BY <1>1, <1>2, <2>3, <2>4 DEF Types
<1>5. ASSUME NEW s \in 1..shards, NEW d \in Locals, migrate_database_to_shard(c, d, s)
      PROVE  Base' /\ Fits
  <2> DEFINE call == [NewCall("migrate", d, s, Now) EXCEPT !.digest = written[d]]
  <2>1. UNCHANGED shards /\ d \in Ids
    BY <1>5 DEF migrate_database_to_shard, Ids
  <2>2. call \in CallRows /\ call.db = d /\ call.at = s
    <3>1. NewCall("migrate", d, s, Now) \in CallRows
      BY <1>0, <1>2, <2>1, NewCallTypes
    <3>2. written[d] \in Int
      BY <2>1, Bounds DEF Types, CatalogTypes
    <3> QED BY <3>1, <3>2 DEF CallRows, NewCall
  <2> HIDE DEF call
  <2>3. \/ /\ LocalIs(d, "hot") /\ Opens(c, call)
           /\ UNCHANGED catalog \/ Becomes(d, "archiving")
        \/ /\ Goes(c, Stage(call, "end")) /\ UNCHANGED catalog
           /\ UNCHANGED journal \/ Journal(Row(call), "unknown")
    BY <1>5 DEF migrate_database_to_shard, call, Becomes
  <2>4. CatalogTypes' /\ Fits
    <3>1. CASE UNCHANGED catalog
      BY <1>0, <1>1, <2>1, <3>1, CatalogUntouched DEF Types, Fits
    <3>2. CASE Becomes(d, "archiving")
      <4>1. "archiving" \in Statuses /\ written' \in [Ids -> 0..MaxVersion]
        BY <1>1 DEF Statuses, Types, CatalogTypes
      <4> QED BY <2>1, <3>2, <4>1, BecomesTypes DEF Types, Fits
    <3> QED BY <2>3, <3>1, <3>2
  <2>5. CallTypes' /\ JournalTypes'
    <3>1. CASE Opens(c, call)
      BY <1>0, <2>1, <2>2, <3>1, OpensTypes
    <3>2. CASE /\ Goes(c, Stage(call, "end"))
               /\ UNCHANGED journal \/ Journal(Row(call), "unknown")
      <4>1. Stage(call, "end") \in CallRows /\ Addresses(Stage(call, "end"), shards')
        BY <2>2, StageTypes DEF Addresses, Stages
      <4>2. CallTypes'
        BY <1>0, <2>1, <3>2, <4>1, GoesTypes DEF Types
      <4> QED BY <3>2, <4>2, JournalRowTypes DEF Types, JournalTypes
    <3> QED BY <2>3, <3>1, <3>2
  <2> QED BY <1>1, <1>2, <2>4, <2>5 DEF Types
<1> QED BY <1>3, <1>4, <1>5 DEF Begin

(* A shard is registered, which has room: nothing is placed on it yet.     *)
LEMMA ProvisionBase ==
  ASSUME Base, NEW c \in Calls, provision_database_shard(c)
  PROVE  Base' /\ Fits
<1> USE DEF Base
<1>1. /\ Used(c) /\ calls[c].stage = "provision" /\ calls[c] \in CallRows
      /\ UNCHANGED <<catalog, shard, written, session>>
  BY DEF provision_database_shard, Awaits, Used, Types, CallTypes
<1>2. ShardTypes' /\ MemoriesOK' /\ Fits
  BY <1>1, ShardUntouched DEF Types, Fits
<1>3. CASE shards < MaxShards /\ shards' = shards + 1 /\ Allocate(c, calls[c].ms, shards + 1)
  <2>1. shards \in Nat /\ shards' \in 0..MaxShards /\ shards <= shards' /\ shards' \in 1..MaxShards
    BY <1>3, Bounds DEF Types, CatalogTypes
  <2>2. CatalogTypes'
    BY <1>1, <2>1, CatalogUntouched DEF Types
  <2>3. HasRoom(shards')
    BY <1>3, <2>1, AssignedTypes DEF Types, Shards
  <2>4. Selectable(shards') # {}
    BY <1>3, <2>1, <2>3 DEF Selectable
  <2>5. calls[c].ms \in 1..MaxMs /\ Allocate(c, calls[c].ms, shards')
    BY <1>1, <1>3 DEF CallRows
  <2> QED BY <1>1, <1>2, <2>1, <2>2, <2>4, <2>5, AllocateTypes DEF Types
<1>4. CASE GoesTo(c, "end") /\ UNCHANGED <<shards, journal>>
  <2>1. CallTypes'
    BY <1>1, <1>4, GoesToTypes DEF Stages
  <2>2. shards' \in 0..MaxShards /\ shards <= shards'
    BY <1>4, Bounds DEF Types, CatalogTypes
  <2>3. CatalogTypes'
    BY <1>1, <2>2, CatalogUntouched DEF Types
  <2> QED BY <1>1, <1>2, <1>4, <2>1, <2>3 DEF Types, JournalTypes
<1> QED BY <1>3, <1>4 DEF provision_database_shard

(* The call is answered.                                                   *)
LEMMA RepliesTypes ==
  ASSUME Types, NEW c \in Calls, Used(c), calls[c].stage \notin {"provision", "end"},
         NEW replies \in SUBSET {"ok", "error"}, Replies(c, replies)
  PROVE  CatalogTypes' /\ CallTypes' /\ JournalTypes' /\ session' \in Sessions /\ Fits
<1>1. PICK reply \in replies : calls' = [calls EXCEPT ![c].reply = reply]
  BY DEF Replies
<1> DEFINE call == [calls[c] EXCEPT !.reply = reply]
<1>2. calls[c] \in CallRows /\ Addresses(calls[c], shards)
  BY DEF Types, CallTypes, Used
<1>3. call \in CallRows /\ Addresses(call, shards)
  BY <1>2 DEF CallRows, Addresses
<1>4. Goes(c, call) /\ UNCHANGED <<placement, journal, written, session>>
  BY <1>1 DEF Goes, Replies
<1> HIDE DEF call
<1>5. shards' = shards /\ shards \in Nat /\ shards <= shards' /\ shards' \in 0..MaxShards
  BY <1>4, Bounds DEF placement, Types, CatalogTypes
<1>6. CallTypes'
  BY <1>3, <1>4, <1>5, GoesTypes DEF Types
<1> QED BY <1>4, <1>5, <1>6, CatalogUntouched DEF Types, JournalTypes, placement, Fits

(* A shard serves or refuses a request.                                    *)
LEMMA ServeBase ==
  ASSUME Base, NEW c \in Calls, Serve(c) \/ Refuse(c)
  PROVE  Base' /\ Fits
<1> USE DEF Base
<1>1. CASE Serve(c)
  <2> DEFINE s == calls[c].at
             d == calls[c].db
  <2>1. Used(c) /\ calls[c].stage \notin {"provision", "end"} /\ Runs(c)
    BY <1>1 DEF Serve, Runs, Awaits, Used
  <2>2. calls[c] \in CallRows /\ d \in Ids /\ s \in Shards
    <3>1. calls[c] \in CallRows /\ d \in Ids /\ s \in 1..shards
      BY <2>1 DEF Types, CallTypes, Addresses, Used
    <3> QED BY <3>1, Bounds DEF Types, CatalogTypes, Shards
  <2>3. calls[c].digest \in Int /\ calls[c].chunk \in Int
    BY <2>2 DEF CallRows
  <2>4. \E n \in Int : \/ create_database_slot(s, d)
                       \/ delete_database_slot(s, d)
                       \/ begin_database_restore(s, d, n)
                       \/ write_database_restore_chunk(s, d, n)
                       \/ finalize_database_restore(s, d)
                       \/ discard_database_slot(s, d)
    BY <2>1, <2>3 DEF Runs
  <2> HIDE DEF s, d
  <2>5. ShardTypes' /\ MemoriesOK'
    BY <2>2, <2>4, HandlersKeepMemories DEF Types
  <2>6. \E replies \in SUBSET {"ok", "error"} : Replies(c, replies)
    BY <1>1 DEF Serve
  <2> QED BY <2>1, <2>5, <2>6, RepliesTypes DEF Types
<1>2. CASE Refuse(c)
  <2>1. /\ Used(c) /\ calls[c].stage \notin {"provision", "end"}
        /\ UNCHANGED shard /\ Replies(c, {"error"})
    BY <1>2 DEF Refuse, Used
  <2> QED BY <2>1, RepliesTypes, ShardUntouched DEF Types
<1> QED BY <1>1, <1>2

(* A call that goes on after an answer, and leaves the catalog or places   *)
(* its database or reopens it.                                             *)
LEMMA ContinueBase ==
  ASSUME Base, NEW c \in Calls, Continue(c)
  PROVE  Base' /\ Fits
<1> USE DEF Base
<1>1. CASE provision_database_shard(c)
  BY <1>1, ProvisionBase
<1>2. CASE ~provision_database_shard(c)
  <2>1. /\ MovesOn(c) /\ Used(c) /\ calls[c].stage \notin {"provision", "end"}
    BY <1>2 DEF Continue, register_remote_database, Register, CreateFails, CreateUndone,
                MigrationGoesOn, complete_local_database_migration, Complete,
                MigrationFails, cancel_local_database_migration, CancelMigration, MovesOn,
                Answered, Used, NextStage
  <2>2. /\ calls[c] \in CallRows /\ calls[c].db \in Ids /\ calls[c].at \in 1..shards
        /\ calls[c].at \in Shards
    <3>1. calls[c] \in CallRows /\ calls[c].db \in Ids /\ calls[c].at \in 1..shards
      BY <2>1 DEF Types, CallTypes, Addresses, Used
    <3> QED BY <3>1, Bounds DEF Types, CatalogTypes, Shards
  <2>3. UNCHANGED <<shards, shard, written, session>>
    BY <2>1 DEF MovesOn
  <2>4. ShardTypes' /\ MemoriesOK' /\ session' \in Sessions
    BY <2>3, ShardUntouched DEF Types
  <2>5. \/ UNCHANGED catalog
        \/ Places(c) /\ HasRoom(calls[c].at)
        \/ Becomes(calls[c].db, "hot")
    BY <1>2 DEF Continue, register_remote_database, Register, CreateFails, CreateUndone,
                MigrationGoesOn, complete_local_database_migration, Complete,
                MigrationFails, cancel_local_database_migration, CancelMigration, Becomes
  <2>6. CatalogTypes' /\ Fits
    <3>1. CASE UNCHANGED catalog
      <4>1. shards' \in 0..MaxShards /\ shards <= shards'
        BY <2>3, Bounds DEF Types, CatalogTypes
      <4> QED BY <2>3, <3>1, <4>1, CatalogUntouched DEF Types, Fits
    <3>2. CASE Places(c) /\ HasRoom(calls[c].at)
      <4>1. /\ CatalogTypes'
            /\ catalog'[calls[c].db] = [status |-> "hot", at |-> calls[c].at]
            /\ \A e \in Ids \ {calls[c].db} : catalog'[e] = catalog[e]
        BY <2>2, <2>3, <3>2, PlacesTypes DEF Types
      <4> QED BY <3>2, <4>1 DEF Fits
    <3>3. CASE Becomes(calls[c].db, "hot")
      <4>1. "hot" \in Statuses /\ written' \in [Ids -> 0..MaxVersion] /\ shards' = shards
        BY <2>3 DEF Statuses, Types, CatalogTypes
      <4>2. CatalogTypes' /\ \A e \in Ids : catalog'[e].at = catalog[e].at
        BY <2>2, <3>3, <4>1, BecomesTypes DEF Types
      <4> QED BY <4>2 DEF Fits
    <3> QED BY <2>5, <3>1, <3>2, <3>3
  <2>7. \/ \E stage \in Stages \ {"provision"} : GoesTo(c, stage) /\ UNCHANGED journal
        \/ \E status \in {"applied", "unknown"} : Ends(c, status)
        \/ Goes(c, [Stage(calls[c], "write_chunk") EXCEPT !.chunk = written[calls[c].db]])
           /\ UNCHANGED journal
    <3>1. CASE MigrationGoesOn(c)
      BY <3>1 DEF MigrationGoesOn, NextStage, GoesTo, Stages
    <3>2. CASE ~MigrationGoesOn(c)
      BY <1>2, <3>2 DEF Continue, register_remote_database, Register, CreateFails, CreateUndone,
                complete_local_database_migration, Complete,
                MigrationFails, cancel_local_database_migration, CancelMigration, Stages
    <3> QED BY <3>1, <3>2
  <2>8. CallTypes' /\ JournalTypes'
    <3>1. ASSUME NEW stage \in Stages \ {"provision"}, GoesTo(c, stage), UNCHANGED journal
          PROVE  CallTypes' /\ JournalTypes'
      BY <2>1, <2>3, <3>1, GoesToTypes DEF Types, JournalTypes
    <3>2. ASSUME NEW status \in {"applied", "unknown"}, Ends(c, status)
          PROVE  CallTypes' /\ JournalTypes'
      BY <2>1, <2>3, <3>2, EndsTypes
    <3>3. CASE /\ Goes(c, [Stage(calls[c], "write_chunk") EXCEPT !.chunk = written[calls[c].db]])
               /\ UNCHANGED journal
      <4> DEFINE call == Stage(calls[c], "write_chunk")
      <4>1. /\ call \in CallRows /\ call.stage = "write_chunk"
            /\ call.db = calls[c].db /\ call.at = calls[c].at
        BY <2>2, StageTypes DEF Stages
      <4>2. written[calls[c].db] \in Int
        BY <2>2, Bounds DEF Types, CatalogTypes
      <4> HIDE DEF call
      <4>3. /\ [call EXCEPT !.chunk = written[calls[c].db]] \in CallRows
            /\ Addresses([call EXCEPT !.chunk = written[calls[c].db]], shards)
        BY <2>2, <4>1, <4>2 DEF CallRows, Addresses
      <4>4. shards \in Nat /\ shards' = shards /\ shards <= shards'
        BY <2>3 DEF Types, CatalogTypes
      <4>5. CallTypes'
        BY <3>3, <4>3, <4>4, GoesTypes DEF Types, call
      <4> QED BY <3>3, <4>5 DEF Types, JournalTypes
    <3> QED BY <2>7, <3>1, <3>2, <3>3
  <2> QED BY <2>4, <2>6, <2>8 DEF Types
<1> QED BY <1>1, <1>2

Owns(d) == \/ begin_database_archive(d) \/ cancel_database_archive(d)
           \/ sql_write(d) \/ delete_database(d) \/ restore_database(d)

(* The owner archives, reopens, writes, deletes or restores.               *)
LEMMA OwnerBase ==
  ASSUME Base, NEW d \in Ids, Owns(d)
  PROVE  Base' /\ Fits
<1> USE DEF Base
<1>1. /\ UNCHANGED <<shards, journal, calls, session>>
      /\ CallTypes' /\ JournalTypes' /\ session' \in Sessions
  BY DEF Owns, begin_database_archive, cancel_database_archive, sql_write, delete_database,
         restore_database, Acts, Types, CallTypes, JournalTypes, Used
<1>2. catalog[d].at \in {Local} \union Shards
  BY Bounds DEF Types, CatalogTypes, Shards
<1>3. (UNCHANGED catalog \/ \E status \in Statuses : Becomes(d, status))
        /\ written' \in [Ids -> 0..MaxVersion] => CatalogTypes' /\ Fits
  <2>1. shards' \in 0..MaxShards /\ shards <= shards'
    BY <1>1, Bounds DEF Types, CatalogTypes
  <2>2. ASSUME UNCHANGED catalog, written' \in [Ids -> 0..MaxVersion] PROVE CatalogTypes' /\ Fits
    <3>1. Placed' = Placed
      BY <2>2 DEF Placed
    <3> QED BY <1>1, <2>2, <3>1 DEF Types, CatalogTypes, Fits
  <2>3. ASSUME NEW status \in Statuses, Becomes(d, status), written' \in [Ids -> 0..MaxVersion]
        PROVE  CatalogTypes' /\ Fits
    BY <1>1, <2>3, BecomesTypes DEF Types, Fits
  <2> QED BY <2>2, <2>3
<1>4. CASE begin_database_archive(d) \/ cancel_database_archive(d)
  <2>1. /\ \E status \in Statuses : Becomes(d, status)
        /\ UNCHANGED <<shard, written>>
    BY <1>4 DEF begin_database_archive, cancel_database_archive, Statuses
  <2>2. written' \in [Ids -> 0..MaxVersion]
    BY <2>1 DEF Types, CatalogTypes
  <2> QED BY <1>1, <1>3, <2>1, <2>2, ShardUntouched DEF Types
<1>5. CASE sql_write(d)
  <2>1. /\ UNCHANGED <<catalog, slots, history>> /\ written[d] < MaxVersion
        /\ written' = [written EXCEPT ![d] = @ + 1]
    BY <1>5 DEF sql_write, shard
  <2>2. written' \in [Ids -> 0..MaxVersion] /\ written[d] + 1 \in Int
    BY <2>1, Bounds DEF Types, CatalogTypes
  <2>3. memory' \in [Shards -> [1..Mounts -> [of : SUBSET Ids, version : Int]]]
    <3>1. CASE UNCHANGED memory
      BY <3>1 DEF Types, ShardTypes
    <3> DEFINE at == catalog[d].at
               m == slots[at][d].mount
    <3>2. CASE memory' = [memory EXCEPT ![at][m] = [of |-> @.of \union {d}, version |-> written[d] + 1]]
      <4> DEFINE new == [of |-> memory[at][m].of \union {d}, version |-> written[d] + 1]
      <4>1. CASE at \in Shards /\ m \in 1..Mounts
        <5> HIDE DEF at, m
        <5>1. new \in [of : SUBSET Ids, version : Int]
          <6>1. memory[at][m] \in [of : SUBSET Ids, version : Int]
            BY <4>1 DEF Types, ShardTypes
          <6>2. memory[at][m].of \union {d} \in SUBSET Ids
            BY <6>1
          <6> QED BY <2>2, <6>2
        <5>2. memory' = [memory EXCEPT ![at][m] = new]
          BY <3>2
        <5> HIDE DEF new
        <5> QED BY <4>1, <5>1, <5>2 DEF Types, ShardTypes
      <4>2. CASE ~(at \in Shards /\ m \in 1..Mounts)
        <5>1. memory' = memory
          <6> HIDE DEF at, m
          <6> QED BY <3>2, <4>2 DEF Types, ShardTypes
        <5> QED BY <5>1 DEF Types, ShardTypes
      <4> QED BY <4>1, <4>2
    <3> QED BY <1>5, <3>1, <3>2 DEF sql_write, shard
  <2>4. MemoriesOK'
    BY <2>1 DEF MemoriesOK, Live
  <2> QED BY <1>1, <1>3, <2>1, <2>2, <2>3, <2>4 DEF Types, ShardTypes
<1>6. CASE delete_database(d)
  <2>1. /\ \E status \in Statuses : Becomes(d, status)
        /\ written' \in [Ids -> 0..MaxVersion]
    BY <1>6 DEF delete_database, Statuses, Types, CatalogTypes
  <2>2. ShardTypes' /\ MemoriesOK'
    <3>1. CASE catalog[d].at = Local /\ UNCHANGED shard
      BY <3>1, ShardUntouched DEF Types
    <3>2. CASE catalog[d].at \in Shards /\ delete_database_slot(catalog[d].at, d)
      BY <3>2, HandlersKeepMemories DEF Types
    <3> QED BY <1>2, <1>6, <3>1, <3>2 DEF delete_database
  <2> QED BY <1>1, <1>3, <2>1, <2>2 DEF Types
<1>7. CASE restore_database(d)
  <2> DEFINE s == catalog[d].at
             new == [NoSlot EXCEPT !.status = "hot"]
  <2>1. /\ s \in Shards /\ Takes(s, d, new)
        /\ memory' = [memory EXCEPT ![s][Min(Free(s))] = [of |-> {d}, version |-> written[d]]]
        /\ Becomes(d, "hot") /\ UNCHANGED written
    BY <1>2, <1>7 DEF restore_database
  <2>2. new \in SlotRows /\ written[d] \in Int
    BY Bounds DEF NoSlot, SlotRows, Statuses, Types, CatalogTypes
  <2> HIDE DEF s, new
  <2>3. /\ slots' \in [Shards -> [Ids -> SlotRows]]
        /\ history' \in [Shards -> SUBSET (Ids \X (1..Mounts))]
        /\ MemoriesOK'
    BY <2>1, <2>2, TakesMemory DEF Types
  <2>4. memory' \in [Shards -> [1..Mounts -> [of : SUBSET Ids, version : Int]]]
    BY <2>1, <2>2 DEF Types, ShardTypes
  <2>5. (\E status \in Statuses : Becomes(d, status)) /\ written' \in [Ids -> 0..MaxVersion]
    BY <2>1 DEF Statuses, Types, CatalogTypes
  <2> QED BY <1>1, <1>3, <2>3, <2>4, <2>5 DEF Types, ShardTypes
<1> QED BY <1>4, <1>5, <1>6, <1>7 DEF Owns

(* Nothing has been handed out before the first call.                      *)
LEMMA InitBase ==
  ASSUME Init
  PROVE  Base
<1>1. /\ session \in Sessions /\ shards \in 0..MaxShards /\ Mounts \in Nat /\ MaxVersion \in Nat
  BY Bounds DEF Init
<1>2. NoSlot \in SlotRows /\ NoSlot.status = "none"
  BY <1>1 DEF NoSlot, SlotRows, Statuses
<1>3. ShardTypes /\ MemoriesOK
  <2> HIDE DEF NoSlot, SlotRows
  <2> QED BY <1>2 DEF Init, ShardTypes, MemoriesOK, Live, Blank
<1>4. CatalogTypes
  <2>1. Placed = {}
    BY DEF Init, Placed, Absent, Local
  <2> QED BY <1>1, <2>1, FS_EmptySet DEF Init, CatalogTypes, Absent, Local, Statuses
<1>5. CallTypes
  BY DEF Init, CallTypes, Used
<1>6. JournalTypes
  BY DEF Init, JournalTypes
<1> QED BY <1>1, <1>3, <1>4, <1>5, <1>6 DEF Base, Types

(* Every step.                                                             *)
LEMMA StepBase ==
  ASSUME Base, [Next]_vars
  PROVE  Base' /\ (Fits \/ UNCHANGED placement)
<1>1. ASSUME NEW c \in Calls, Begin(c) \/ Serve(c) \/ Refuse(c) \/ Continue(c)
      PROVE  Base' /\ Fits
  BY <1>1, BeginBase, ServeBase, ContinueBase
<1>2. ASSUME NEW d \in Ids, Owns(d) PROVE Base' /\ Fits
  BY <1>2, OwnerBase
<1>3. CASE UNCHANGED vars
  BY <1>3 DEF vars, placement, shard, Base, Types, ShardTypes, CatalogTypes, Placed, CallTypes,
              JournalTypes, Used, MemoriesOK, Live
<1> QED BY <1>1, <1>2, <1>3 DEF Next, Owns

(* What the types, the memories and the places rest on.                    *)
THEOREM Invariance == Spec => []Base
<1>1. Init => Base
  BY InitBase
<1>2. Base /\ [Next]_vars => Base'
  BY StepBase
<1> QED BY <1>1, <1>2, PTL DEF Spec

(* Types, of any number of calls, shards, memories and names.              *)
THEOREM TypeCorrectness == Spec => []TypeOK
<1>1. Base => TypeOK
  BY Bounds DEF Base, Types, ShardTypes, CatalogTypes, JournalTypes, SlotRows, TypeOK
<1> QED BY <1>1, Invariance, PTL

(* Whatever calls overlap, fail, are compensated or lose their answers, two*)
(* databases of a shard never share a memory.                              *)
THEOREM MemoriesStayDistinct == Spec => []MemoriesAreDistinct
<1>1. Base => MemoriesAreDistinct
  <2> SUFFICES ASSUME Base, NEW s \in Shards, NEW d \in Ids, NEW e \in Ids,
                      d # e, Live(s, d), Live(s, e), slots[s][d].mount = slots[s][e].mount
               PROVE  FALSE
    BY DEF MemoriesAreDistinct
  <2> DEFINE m == slots[s][d].mount
  <2>1. <<d, m>> \in history[s] /\ <<e, m>> \in history[s]
    BY DEF Base, MemoriesOK
  <2>2. m \in 1..Mounts
    BY <2>1 DEF Base, Types, ShardTypes
  <2> QED BY <2>1, <2>2 DEF Base, MemoriesOK
<1> QED BY <1>1, Invariance, PTL

(* However many databases are planned for the last place of a shard, no    *)
(* creation and no migration places one beyond its capacity.               *)
THEOREM NoShardIsOverfilled == Spec => PlacementsFit
<1>1. Base /\ [Next]_vars =>
        [\A d \in Ids, s \in Shards : catalog[d].at # s /\ catalog'[d].at = s => HasRoom(s)]_placement
  BY StepBase DEF Fits
<1> QED BY <1>1, Invariance, PTL DEF Spec, PlacementsFit

-----------------------------------------------------------------------------
(* Sagas.  What the catalog routes to a shard stays there because a call   *)
(* that would take a slot away works on a database that the catalog does   *)
(* not have (a creation) or has locally (a migration), and because no other*)
(* call places that database meanwhile.                                    *)

Migrating(c) == Active(c) /\ calls[c].op = "migrate"

(* The databases that calls work on, and the stages they reach.            *)
CallsOK ==
  \A c \in Calls : Active(c) =>
    /\ calls[c].op = "create" =>
         /\ calls[c].stage \in {"create_slot", "undo"}
         /\ calls[c].db \in Generated /\ calls[c].db.at = calls[c].ms
         /\ catalog[calls[c].db] = Absent
    /\ calls[c].op = "create_remote" =>
         calls[c].stage = "create_slot" /\ calls[c].db \in Locals \union Named
    /\ calls[c].op = "migrate" => calls[c].db \in Locals /\ catalog[calls[c].db].at = Local

LocalsOK == \A d \in Locals : catalog[d].status # "none"

(* No two calls begin in one millisecond.                                  *)
ClockOK ==
  /\ \A c \in Calls : Used(c) => calls[c].ms \in 1..Begun
  /\ \A c, e \in Calls : Used(c) /\ Used(e) /\ calls[c].ms = calls[e].ms => c = e

(* One migration of a database at a time.                                  *)
MigrationsOK ==
  /\ \A c, e \in Calls : Migrating(c) /\ Migrating(e) /\ calls[c].db = calls[e].db => c = e
  /\ ~Owner("cancel") => \A c \in Calls : Migrating(c) => LocalIs(calls[c].db, "archiving")

(* A slot that a call may register is still hot.                           *)
SlotsOK ==
  \A c \in Calls :
    /\ Active(c) /\ calls[c].reply = "ok"
    /\ \/ calls[c].op # "migrate" /\ calls[c].stage = "create_slot" /\ catalog[calls[c].db] = Absent
       \/ calls[c].op = "migrate" /\ calls[c].stage = "finalize_restore"
    => slots[calls[c].at][calls[c].db].status = "hot"

RoutedOK == \A d \in Ids, s \in Shards : RoutedTo(d, s) => slots[s][d].status = "hot"

SagaOK == CallsOK /\ LocalsOK /\ ClockOK /\ MigrationsOK /\ SlotsOK /\ RoutedOK

(* Calls begin in milliseconds of their own, and no owner reopens a        *)
(* database under the first of several migrations.                         *)
Apart == NoTwins /\ MigratedOnce

-----------------------------------------------------------------------------
(* A call that goes on has the same id, database and shard.                *)
Same(call, old) == /\ call # Unused
                   /\ call.op = old.op /\ call.db = old.db /\ call.at = old.at /\ call.ms = old.ms

(* A call keeps its millisecond.                                           *)
LEMMA BegunKept ==
  ASSUME ClockOK, CallTypes, NEW c \in Calls, Used(c), NEW call, Goes(c, call),
         call # Unused, call.ms = calls[c].ms
  PROVE  ClockOK'
<1>1. /\ calls'[c] = call /\ \A e \in Calls \ {c} : calls'[e] = calls[e]
  BY DEF Goes, CallTypes
<1>2. \A e \in Calls : (calls'[e] # Unused <=> calls[e] # Unused)
  BY <1>1 DEF Used
<1>3. Begun' = Begun
  <2>1. {e \in Calls : calls'[e] # Unused} = {e \in Calls : calls[e] # Unused}
    BY <1>2
  <2> QED BY <2>1 DEF Begun
<1>4. \A e \in Calls : Used(e)' => Used(e) /\ calls'[e].ms = calls[e].ms
  BY <1>1, <1>2 DEF Used
<1> QED BY <1>3, <1>4 DEF ClockOK

(* A call that begins has a millisecond of its own.                        *)
LEMMA BegunGrows ==
  ASSUME ClockOK, CallTypes, NEW c \in Calls, calls[c] = Unused, NEW call, Goes(c, call),
         call # Unused, call.ms = Begun + 1
  PROVE  ClockOK'
<1> DEFINE B == {e \in Calls : calls[e] # Unused}
<1>1. /\ calls'[c] = call /\ \A e \in Calls \ {c} : calls'[e] = calls[e]
  BY DEF Goes, CallTypes
<1>2. IsFiniteSet(B)
  <2>1. B \in SUBSET Calls
    OBVIOUS
  <2> HIDE DEF B
  <2> QED BY <2>1, FiniteCalls, FS_Subset
<1>3. {e \in Calls : calls'[e] # Unused} = B \union {c}
  BY <1>1
<1>4. c \notin B /\ Begun = Cardinality(B) /\ Begun' = Cardinality(B \union {c})
  BY <1>3 DEF Begun
<1>5. Begun \in Nat /\ Begun' = Begun + 1
  <2> HIDE DEF B
  <2> QED BY <1>2, <1>4, FS_AddElement, FS_CardinalityType
<1>6. \A e \in Calls : Used(e)' => \/ e = c /\ calls'[e].ms = Begun + 1
                                   \/ e # c /\ Used(e) /\ calls'[e] = calls[e]
  BY <1>1 DEF Used
<1>7. ASSUME NEW e \in Calls, Used(e)' PROVE calls'[e].ms \in 1..Begun'
  BY <1>5, <1>6, <1>7 DEF ClockOK
<1>8. ASSUME NEW e \in Calls, NEW f \in Calls, Used(e)', Used(f)', calls'[e].ms = calls'[f].ms
      PROVE  e = f
  <2>1. \A g \in Calls : Used(g) => calls[g].ms < Begun + 1
    BY <1>5 DEF ClockOK
  <2> QED BY <1>5, <1>6, <1>8, <2>1 DEF ClockOK
<1> QED BY <1>7, <1>8 DEF ClockOK

(* What every step leaves to a call that it does not run.                  *)
LEMMA DatabasesOfCalls ==
  ASSUME Base, NEW c \in Calls, Active(c)
  PROVE  /\ calls[c] \in CallRows /\ calls[c].db \in Ids /\ calls[c].at \in Shards
         /\ calls[c].at \in 1..shards
<1>1. calls[c] \in CallRows /\ calls[c].db \in Ids /\ calls[c].at \in 1..shards
  BY DEF Base, Types, CallTypes, Addresses, Active, Used
<1> QED BY <1>1, Bounds DEF Base, Types, CatalogTypes, Shards

(* Two calls on one database are one creation, two creations by a          *)
(* controller, or a migration and a creation by a controller.              *)
LEMMA OneDatabase ==
  ASSUME CallsOK, ClockOK, MigrationsOK, NEW c \in Calls, NEW e \in Calls, c # e,
         Active(c), Active(e), calls[c].db = calls[e].db
  PROVE  /\ calls[c].op # "create" \/ calls[e].op \notin {"create", "create_remote", "migrate"}
         /\ calls[c].op # "migrate" \/ calls[e].op # "migrate"
<1>1. calls[c].op = "create" /\ calls[e].op = "create" => FALSE
  BY DEF CallsOK, ClockOK, Active
<1>2. calls[c].op = "create" /\ calls[e].op \in {"create_remote", "migrate"} => FALSE
  BY NamesAreChosen DEF CallsOK
<1>3. calls[c].op = "migrate" /\ calls[e].op = "migrate" => FALSE
  BY DEF MigrationsOK, Migrating
<1> QED BY <1>1, <1>2, <1>3

(* What the shards do for one call they do not undo for another.           *)
LEMMA ServeSaga ==
  ASSUME Base, SagaOK, NEW c \in Calls, Serve(c) \/ Refuse(c)
  PROVE  SagaOK'
<1> DEFINE s == calls[c].at
           d == calls[c].db
<1>1. Active(c)
  BY DEF Serve, Runs, Refuse, Awaits, Active, Used
<1>2. d \in Ids /\ s \in Shards /\ calls[c] \in CallRows
  BY <1>1, DatabasesOfCalls
<1>3. PICK reply \in {"ok", "error"} : /\ calls' = [calls EXCEPT ![c].reply = reply]
                                       /\ reply = "ok" => Runs(c)
  BY DEF Serve, Refuse, Replies
<1> DEFINE call == [calls[c] EXCEPT !.reply = reply]
<1>4. /\ UNCHANGED <<catalog, shards, session>> /\ Goes(c, call)
  BY <1>3 DEF Serve, Refuse, Replies, placement, Goes
<1>5. /\ Same(call, calls[c]) /\ call.stage = calls[c].stage /\ call.reply = reply
      /\ call \in CallRows
  BY <1>2 DEF CallRows, Same, Unused
<1> HIDE DEF call
<1>6. /\ calls'[c] = call /\ \A e \in Calls \ {c} : calls'[e] = calls[e]
      /\ calls' \in [Calls -> {Unused} \union CallRows]
  BY <1>4, <1>5 DEF Goes, Base, Types, CallTypes
<1>7. \A e \in Calls : /\ Used(e)' <=> Used(e)
                       /\ Active(e)' <=> Active(e)
                       /\ Migrating(e)' <=> Migrating(e)
                       /\ calls'[e].op = calls[e].op /\ calls'[e].db = calls[e].db
                       /\ calls'[e].at = calls[e].at /\ calls'[e].ms = calls[e].ms
                       /\ calls'[e].stage = calls[e].stage
  BY <1>1, <1>5, <1>6 DEF Used, Active, Migrating, Same
<1>8. CallsOK' /\ LocalsOK' /\ MigrationsOK'
  BY <1>4, <1>7 DEF SagaOK, CallsOK, LocalsOK, MigrationsOK, Owner, LocalIs
<1>9. ClockOK'
  BY <1>1, <1>4, <1>5, BegunKept DEF SagaOK, Base, Types, Active, Same
<1>10. \/ UNCHANGED slots
       \/ Runs(c) /\ OnlySlot(s, d)
  <2>1. CASE Refuse(c)
    BY <2>1 DEF Refuse, shard
  <2>2. CASE Serve(c)
    <3>1. calls[c].digest \in Int /\ calls[c].chunk \in Int
      BY <1>2 DEF CallRows
    <3>2. \E n \in Int : \/ create_database_slot(s, d)
                         \/ delete_database_slot(s, d)
                         \/ begin_database_restore(s, d, n)
                         \/ write_database_restore_chunk(s, d, n)
                         \/ finalize_database_restore(s, d)
                         \/ discard_database_slot(s, d)
      BY <2>2, <3>1 DEF Serve, Runs
    <3> HIDE DEF s, d
    <3>3. OnlySlot(s, d)
      BY <1>2, <3>2, HandlersKeepMemories DEF Base, Types
    <3> QED BY <2>2, <3>3 DEF Serve
  <2> QED BY <2>1, <2>2
<1>11. slots \in [Shards -> [Ids -> SlotRows]]
  BY DEF Base, Types, ShardTypes
(* A slot is hot once it is created or restored, and otherwise stays so    *)
(* unless the call migrates its database or takes back its creation.       *)
<1>12. ASSUME Runs(c), calls[c].op # "migrate", calls[c].stage = "create_slot"
       PROVE  slots[s][d].status # "hot" /\ slots'[s][d].status = "hot"
  <2> DEFINE hot == [NoSlot EXCEPT !.status = "hot"]
             new == [hot EXCEPT !.mount = Min(Free(s))]
  <2>1. create_database_slot(s, d)
    BY <1>12 DEF Runs, Awaits
  <2>2. slots[s][d].status = "none" /\ slots' = [slots EXCEPT ![s][d] = new]
    BY <2>1 DEF create_database_slot, Takes
  <2>3. new.status = "hot"
    BY DEF NoSlot
  <2> HIDE DEF new, s, d
  <2> QED BY <1>2, <1>11, <2>2, <2>3
<1>13. ASSUME Runs(c), calls[c].op = "migrate", calls[c].stage = "finalize_restore"
       PROVE  slots'[s][d].status = "hot"
  <2> DEFINE new == [slots[s][d] EXCEPT !.status = "hot"]
  <2>1. slots' = [slots EXCEPT ![s][d] = new]
    BY <1>13 DEF Runs, Awaits, finalize_database_restore
  <2>2. slots[s][d] \in SlotRows
    BY <1>2, <1>11
  <2>3. new.status = "hot"
    BY <2>2 DEF SlotRows
  <2> HIDE DEF new, s, d
  <2> QED BY <1>2, <1>11, <2>1, <2>3
<1>14. ASSUME Runs(c), calls[c].op = "migrate", calls[c].stage = "create_slot"
       PROVE  slots[s][d].status # "hot"
  BY <1>14 DEF Runs, Awaits, create_database_slot
<1>15. SlotsOK'
  <2> SUFFICES ASSUME NEW e \in Calls, Active(e), calls'[e].reply = "ok",
                      \/ /\ calls[e].op # "migrate" /\ calls[e].stage = "create_slot"
                         /\ catalog[calls[e].db] = Absent
                      \/ calls[e].op = "migrate" /\ calls[e].stage = "finalize_restore"
               PROVE  slots'[calls[e].at][calls[e].db].status = "hot"
    BY <1>4, <1>7 DEF SlotsOK
  <2>1. CASE e = c
    BY <1>3, <1>5, <1>6, <1>12, <1>13, <2>1
  <2>2. CASE e # c
    <3>1. slots[calls[e].at][calls[e].db].status = "hot"
      BY <1>6, <2>2 DEF SagaOK, SlotsOK
    <3>2. calls[e].at \in Shards /\ calls[e].db \in Ids /\ calls[e] \in CallRows
      BY DatabasesOfCalls
    <3>3. CASE calls[e].at # s \/ calls[e].db # d \/ UNCHANGED slots
      BY <1>10, <3>1, <3>2, <3>3 DEF OnlySlot
    <3>4. CASE calls[e].at = s /\ calls[e].db = d /\ Runs(c)
      <4>1. calls[c].op = "create_remote"
        <5>1. calls[c].op # "create"
          BY <1>1, <2>2, <3>2, <3>4, OneDatabase DEF CallRows, SagaOK
        <5>2. ASSUME calls[c].op = "migrate" PROVE FALSE
          <6>1. calls[e].op # "migrate"
            BY <1>1, <2>2, <3>4, <5>2, OneDatabase DEF SagaOK
          <6>2. catalog[d] # Absent
            BY <1>1, <5>2 DEF SagaOK, CallsOK, LocalsOK, Absent
          <6> QED BY <3>4, <6>1, <6>2
        <5> QED BY <1>2, <5>1, <5>2 DEF CallRows
      <4>2. calls[c].stage = "create_slot"
        BY <1>1, <4>1 DEF SagaOK, CallsOK
      <4> QED BY <1>12, <3>1, <3>4, <4>1, <4>2
    <3> QED BY <1>10, <3>3, <3>4
  <2> QED BY <2>1, <2>2
<1>16. RoutedOK'
  <2> SUFFICES ASSUME NEW e \in Ids, NEW t \in Shards, RoutedTo(e, t)
               PROVE  slots'[t][e].status = "hot"
    BY <1>4 DEF RoutedOK, RoutedTo
  <2>1. slots[t][e].status = "hot"
    BY DEF SagaOK, RoutedOK
  <2>2. CASE e # d \/ t # s \/ UNCHANGED slots
    BY <1>10, <2>1, <2>2 DEF OnlySlot
  <2>3. CASE e = d /\ t = s /\ Runs(c)
    <3>1. catalog[d].status = "hot" /\ catalog[d].at # Local
      BY <2>3 DEF RoutedTo, Shards, Local
    <3>2. calls[c].op = "create_remote"
      BY <1>1, <1>2, <3>1 DEF SagaOK, CallsOK, Absent, CallRows
    <3>3. calls[c].stage = "create_slot"
      BY <1>1, <3>2 DEF SagaOK, CallsOK
    <3> QED BY <1>12, <2>1, <2>3, <3>2, <3>3
  <2> QED BY <1>10, <2>2, <2>3
<1> QED BY <1>8, <1>9, <1>15, <1>16 DEF SagaOK

(* A call that goes on places or reopens the database it works on, or      *)
(* leaves the catalog alone.                                               *)
LEMMA ContinueSaga ==
  ASSUME Base, SagaOK, NEW c \in Calls, Continue(c), ~provision_database_shard(c)
  PROVE  SagaOK'
<1> DEFINE s == calls[c].at
           d == calls[c].db
<1>1. /\ Active(c) /\ Used(c) /\ UNCHANGED <<shards, shard, written, session>>
      /\ \E stage \in Stages, reply \in {"ok", "error"} : Answered(c, stage, reply)
  BY DEF Continue, register_remote_database, Register, CreateFails, CreateUndone,
         MigrationGoesOn, complete_local_database_migration, Complete, MigrationFails,
         cancel_local_database_migration, CancelMigration, MovesOn, Answered, Used, Active,
         NextStage, Stages
<1>2. d \in Ids /\ s \in Shards /\ s \in 1..shards /\ calls[c] \in CallRows
  BY <1>1, DatabasesOfCalls
<1>3. \E stage \in Stages : \/ GoesTo(c, stage)
                            \/ Goes(c, [Stage(calls[c], stage) EXCEPT !.chunk = written[d]])
  <2>1. CASE MigrationGoesOn(c)
    BY <2>1 DEF MigrationGoesOn, GoesTo, NextStage, Stages
  <2>2. CASE ~MigrationGoesOn(c)
    <3>1. GoesTo(c, "end") \/ GoesTo(c, "undo")
      BY <2>2 DEF Continue, register_remote_database, Register, CreateFails, CreateUndone,
         complete_local_database_migration, Complete, MigrationFails,
         cancel_local_database_migration, CancelMigration, Ends
    <3> QED BY <3>1 DEF Stages
  <2> QED BY <2>1, <2>2
<1>4. PICK call \in CallRows : /\ Goes(c, call) /\ Same(call, calls[c]) /\ call.reply = "none"
                               /\ call.chunk \in Int
  <2>1. PICK stage \in Stages : \/ GoesTo(c, stage)
                                \/ Goes(c, [Stage(calls[c], stage) EXCEPT !.chunk = written[d]])
    BY <1>3
  <2> DEFINE old == Stage(calls[c], stage)
  <2>2. old \in CallRows /\ Same(old, calls[c]) /\ old.reply = "none"
    BY <1>2, StageTypes DEF Same
  <2>3. written[d] \in Int
    BY <1>2, Bounds DEF Base, Types, CatalogTypes
  <2> HIDE DEF old
  <2>4. [old EXCEPT !.chunk = written[d]] \in CallRows
    BY <2>2, <2>3 DEF CallRows
  <2>5. /\ Same([old EXCEPT !.chunk = written[d]], calls[c])
        /\ [old EXCEPT !.chunk = written[d]].reply = "none"
    BY <2>2, <2>4 DEF Same, CallRows, Unused
  <2>6. Goes(c, old) \/ Goes(c, [old EXCEPT !.chunk = written[d]])
    BY <2>1 DEF GoesTo, old
  <2>7. \A x \in CallRows : x.chunk \in Int
    BY DEF CallRows
  <2> QED BY <2>2, <2>4, <2>5, <2>6, <2>7
<1>5. /\ calls'[c] = call /\ \A e \in Calls \ {c} : calls'[e] = calls[e]
  BY <1>4 DEF Goes, Base, Types, CallTypes
<1>6. \A e \in Calls : /\ Used(e)' <=> Used(e)
                       /\ calls'[e].op = calls[e].op /\ calls'[e].db = calls[e].db
                       /\ calls'[e].at = calls[e].at /\ calls'[e].ms = calls[e].ms
                       /\ e # c => calls'[e] = calls[e] /\ (Active(e)' <=> Active(e))
                       /\ Active(e)' => Active(e)
                       /\ Migrating(e)' => Migrating(e)
  BY <1>1, <1>4, <1>5 DEF Used, Active, Migrating, Same
<1>7. ClockOK'
  BY <1>1, <1>4, BegunKept DEF SagaOK, Base, Types, Same
<1>8. \/ UNCHANGED catalog
      \/ /\ Places(c) /\ ~Active(c)'
         /\ slots[s][d].status = "hot"
         /\ \/ calls[c].op # "migrate" /\ catalog[d] = Absent
            \/ calls[c].op = "migrate"
      \/ Becomes(d, "hot") /\ LocalIs(d, "archiving") /\ ~Active(c)' /\ calls[c].op = "migrate"
  <2>0. Ends(c, "applied") \/ Ends(c, "unknown") => ~Active(c)'
    <3>1. Stage(calls[c], "end").stage = "end"
      BY <1>2, StageTypes DEF Stages
    <3>2. Ends(c, "applied") \/ Ends(c, "unknown") => calls'[c] = Stage(calls[c], "end")
      BY DEF Ends, GoesTo, Goes, Base, Types, CallTypes
    <3> QED BY <3>1, <3>2 DEF Active
  <2>1. CASE register_remote_database(c)
    <3>1. /\ calls[c].op # "migrate" /\ calls[c].stage = "create_slot" /\ calls[c].reply = "ok"
      BY <2>1 DEF register_remote_database, Register, Answered
    <3>2. CASE UNCHANGED catalog
      BY <3>2
    <3>3. CASE catalog[d] = Absent /\ Places(c) /\ Ends(c, "applied")
      BY <1>1, <2>0, <3>1, <3>3 DEF SagaOK, SlotsOK
    <3> QED BY <2>1, <3>2, <3>3 DEF register_remote_database, Register
  <2>2. CASE CreateFails(c) \/ CreateUndone(c) \/ MigrationGoesOn(c) \/ MigrationFails(c)
    BY <2>2 DEF CreateFails, CreateUndone, MigrationGoesOn, MigrationFails
  <2>3. CASE complete_local_database_migration(c)
    <3>1. calls[c].stage = "finalize_restore" /\ calls[c].reply = "ok"
      BY <2>3 DEF complete_local_database_migration, Complete, Answered
    <3>2. calls[c].op = "migrate"
      BY <1>1, <1>2, <3>1 DEF SagaOK, CallsOK, CallRows
    <3>3. CASE UNCHANGED catalog
      BY <3>3
    <3>4. CASE Places(c) /\ Ends(c, "applied")
      BY <1>1, <2>0, <3>1, <3>2, <3>4 DEF SagaOK, SlotsOK
    <3> QED BY <2>3, <3>3, <3>4 DEF complete_local_database_migration, Complete
  <2>4. CASE cancel_local_database_migration(c)
    BY <2>0, <2>4 DEF cancel_local_database_migration, CancelMigration, Becomes
  <2> QED BY <2>1, <2>2, <2>3, <2>4 DEF Continue
<1>9. /\ \A e \in Ids \ {d} : catalog'[e] = catalog[e]
      /\ Places(c) => catalog'[d] = [status |-> "hot", at |-> s]
      /\ Becomes(d, "hot") => /\ catalog'[d].status = "hot" /\ catalog'[d].at = catalog[d].at
                              /\ \A e \in Ids : catalog'[e].at = catalog[e].at
  <2>1. catalog \in [Ids -> [status : Statuses, at : {Local} \union 1..shards]]
    BY DEF Base, Types, CatalogTypes
  <2>2. CASE UNCHANGED catalog
    <3>1. Places(c) => catalog'[d] = [status |-> "hot", at |-> s]
      BY <1>2, <2>1 DEF Places
    <3>2. Becomes(d, "hot") => catalog'[d].status = "hot"
      BY <1>2, <2>1 DEF Becomes
    <3> QED BY <2>2, <3>1, <3>2
  <2>3. CASE Places(c)
    <3> HIDE DEF s, d
    <3>1. catalog' = [catalog EXCEPT ![d] = [status |-> "hot", at |-> s]]
      BY <2>3 DEF Places, d, s
    <3>2. Becomes(d, "hot") => \A e \in Ids : catalog'[e].at = catalog[e].at
      BY <1>2, <2>1 DEF Becomes
    <3>3. catalog'[d] = [status |-> "hot", at |-> s] /\ \A e \in Ids \ {d} : catalog'[e] = catalog[e]
      BY <1>2, <2>1, <3>1
    <3> QED BY <1>2, <3>2, <3>3
  <2>4. CASE Becomes(d, "hot")
    <3> HIDE DEF s, d
    <3>1. Places(c) => catalog'[d] = [status |-> "hot", at |-> s]
      BY <1>2, <2>1 DEF Places, d, s
    <3> QED BY <1>2, <2>1, <2>4, <3>1 DEF Becomes
  <2> QED BY <1>8, <2>2, <2>3, <2>4
<1> HIDE DEF s, d
<1>10. ASSUME NEW e \in Calls, e # c, Active(e), calls[e].db = d, ~UNCHANGED catalog
       PROVE  calls[e].op = "create_remote"
  <2>1. calls[e] \in CallRows
    BY <1>10, DatabasesOfCalls
  <2>2. /\ calls[c].op # "create" /\ calls[e].op # "create"
        /\ ~(calls[c].op = "migrate" /\ calls[e].op = "migrate")
    BY <1>1, <1>2, <1>10, <2>1, OneDatabase DEF SagaOK, CallRows, d
  <2>3. ASSUME calls[e].op = "migrate" PROVE FALSE
    <3>1. d \in Locals /\ catalog[d].status # "none"
      BY <1>10, <2>3 DEF SagaOK, CallsOK, LocalsOK
    <3>2. calls[c].op = "migrate"
      BY <1>8, <1>10, <3>1 DEF Absent
    <3> QED BY <2>2, <2>3, <3>2
  <2> QED BY <2>1, <2>2, <2>3 DEF CallRows
<1>11. CallsOK'
  <2> SUFFICES ASSUME NEW e \in Calls, Active(e)'
               PROVE  /\ calls[e].op = "create" =>
                           /\ calls'[e].stage \in {"create_slot", "undo"}
                           /\ calls[e].db \in Generated /\ calls[e].db.at = calls[e].ms
                           /\ catalog'[calls[e].db] = Absent
                      /\ calls[e].op = "create_remote" =>
                           calls'[e].stage = "create_slot" /\ calls[e].db \in Locals \union Named
                      /\ calls[e].op = "migrate" =>
                           calls[e].db \in Locals /\ catalog'[calls[e].db].at = Local
    BY <1>6 DEF CallsOK
  <2>0. Active(e) /\ calls[e].db \in Ids
    BY <1>6, DatabasesOfCalls
  <2>1. CASE e # c
    <3>1. calls'[e] = calls[e]
      BY <1>6, <2>1
    <3>2. CASE calls[e].db # d \/ UNCHANGED catalog
      BY <1>9, <2>0, <3>1, <3>2 DEF SagaOK, CallsOK
    <3>3. CASE calls[e].db = d /\ ~UNCHANGED catalog
      BY <1>10, <2>0, <2>1, <3>1, <3>3 DEF SagaOK, CallsOK
    <3> QED BY <3>2, <3>3
  <2>2. CASE e = c
    <3>1. UNCHANGED catalog
      BY <1>8, <2>2
    <3>2. calls[c].op = "create" => calls'[c].stage = "undo"
      <4>1. Stage(calls[c], "end").stage = "end" /\ Stage(calls[c], "undo").stage = "undo"
        BY <1>2, StageTypes DEF Stages
      <4>2. calls[c].op = "create" => \/ GoesTo(c, "undo") \/ GoesTo(c, "end")
        BY <1>1 DEF Continue, register_remote_database, Register, CreateFails, CreateUndone,
         MigrationGoesOn, complete_local_database_migration, Complete, MigrationFails,
         cancel_local_database_migration, CancelMigration, Ends
      <4>3. \A stage \in Stages : GoesTo(c, stage) => calls'[c] = Stage(calls[c], stage)
        BY DEF GoesTo, Goes, Base, Types, CallTypes
      <4> QED BY <2>2, <4>1, <4>2, <4>3 DEF Active, Stages
    <3>3. calls[c].op # "create_remote"
      <4>1. Stage(calls[c], "end").stage = "end"
        BY <1>2, StageTypes DEF Stages
      <4>2. calls[c].op = "create_remote" => GoesTo(c, "end")
        BY <1>1 DEF Continue, register_remote_database, Register, CreateFails, CreateUndone,
         MigrationGoesOn, complete_local_database_migration, Complete, MigrationFails,
         cancel_local_database_migration, CancelMigration, Ends, Answered, SagaOK, CallsOK
      <4>3. GoesTo(c, "end") => calls'[c] = Stage(calls[c], "end")
        BY DEF GoesTo, Goes, Base, Types, CallTypes
      <4> QED BY <2>2, <4>1, <4>2, <4>3 DEF Active
    <3> QED BY <1>1, <2>2, <3>1, <3>2, <3>3 DEF SagaOK, CallsOK
  <2> QED BY <2>1, <2>2
<1>12. \A e \in Ids : catalog'[e] = catalog[e] \/ catalog'[e].status = "hot"
  BY <1>8, <1>9
<1>13. LocalsOK'
  BY <1>12 DEF SagaOK, LocalsOK, Ids
<1>14. MigrationsOK'
  <2>1. \A e, f \in Calls : /\ Migrating(e)' /\ Migrating(f)' /\ calls'[e].db = calls'[f].db
                            => e = f
    BY <1>6 DEF SagaOK, MigrationsOK
  <2>2. ASSUME ~Owner("cancel")', NEW e \in Calls, Migrating(e)'
        PROVE  LocalIs(calls[e].db, "archiving")'
    <3>1. Migrating(e) /\ LocalIs(calls[e].db, "archiving") /\ Active(e) /\ calls[e].db \in Ids
      BY <1>1, <1>6, <2>2, DatabasesOfCalls DEF SagaOK, MigrationsOK, Owner, Migrating
    <3>2. catalog'[calls[e].db] = catalog[calls[e].db]
      <4>1. CASE e = c
        BY <1>8, <2>2, <4>1 DEF Migrating
      <4>2. CASE e # c
        BY <1>9, <1>10, <3>1, <4>2 DEF Migrating
      <4> QED BY <4>1, <4>2
    <3> QED BY <1>6, <3>1, <3>2 DEF LocalIs
  <2>3. \A e \in Calls : calls'[e].db = calls[e].db
    BY <1>6
  <2> QED BY <2>1, <2>2, <2>3 DEF MigrationsOK, LocalIs
<1>15. UNCHANGED slots
  BY <1>1 DEF shard
<1>16. SlotsOK'
  <2> SUFFICES ASSUME NEW e \in Calls, Active(e)', calls'[e].reply = "ok",
                      \/ /\ calls'[e].op # "migrate" /\ calls'[e].stage = "create_slot"
                         /\ catalog'[calls'[e].db] = Absent
                      \/ calls'[e].op = "migrate" /\ calls'[e].stage = "finalize_restore"
               PROVE  slots[calls'[e].at][calls'[e].db].status = "hot"
    BY <1>15 DEF SlotsOK
  <2>1. e # c
    BY <1>4, <1>5
  <2>2. calls'[e] = calls[e] /\ Active(e) /\ calls[e].db \in Ids
    BY <1>6, <2>1, DatabasesOfCalls
  <2>3. catalog'[calls[e].db] = Absent => catalog[calls[e].db] = Absent
    BY <1>12, <2>2 DEF Absent
  <2> QED BY <2>2, <2>3 DEF SagaOK, SlotsOK
<1>17. RoutedOK'
  <2> SUFFICES ASSUME NEW e \in Ids, NEW t \in Shards, RoutedTo(e, t)'
               PROVE  slots[t][e].status = "hot"
    BY <1>15 DEF RoutedOK
  <2>1. CASE catalog'[e] = catalog[e]
    BY <2>1 DEF SagaOK, RoutedOK, RoutedTo
  <2>2. CASE catalog'[e] # catalog[e]
    <3>1. e = d
      BY <1>9, <2>2
    <3>2. CASE Places(c) /\ slots[s][d].status = "hot"
      BY <1>9, <3>1, <3>2 DEF RoutedTo
    <3>3. CASE Becomes(d, "hot") /\ LocalIs(d, "archiving")
      BY <1>9, <3>1, <3>3 DEF RoutedTo, LocalIs, Local, Shards
    <3> QED BY <1>8, <2>2, <3>1, <3>2, <3>3
  <2> QED BY <2>1, <2>2
<1> QED BY <1>7, <1>11, <1>13, <1>14, <1>16, <1>17 DEF SagaOK

(* The owner of a database deletes it and its slot together.               *)
LEMMA OwnerSaga ==
  ASSUME Base, SagaOK, NEW d \in Ids, Owns(d)
  PROVE  SagaOK'
<1> DEFINE s == catalog[d].at
<1>1. UNCHANGED <<shards, journal, calls, session>>
  BY DEF Owns, begin_database_archive, cancel_database_archive, sql_write, delete_database,
         restore_database, Acts
<1>2. /\ catalog \in [Ids -> [status : Statuses, at : {Local} \union 1..shards]]
      /\ slots \in [Shards -> [Ids -> SlotRows]]
      /\ s \in {Local} \union Shards
  BY Bounds DEF Base, Types, CatalogTypes, ShardTypes, Shards
<1>3. \/ UNCHANGED catalog
      \/ \E status \in Statuses \ {"none"} : Becomes(d, status) /\ catalog[d].status # "none"
  <2>1. \A status \in {"hot", "archiving"} : LocalIs(d, status) => catalog[d].status = status
    BY DEF LocalIs
  <2>2. begin_database_archive(d) => catalog[d].status # "none" /\ Becomes(d, "archiving")
    BY <2>1 DEF begin_database_archive
  <2>3. cancel_database_archive(d) => catalog[d].status # "none" /\ Becomes(d, "hot")
    BY <2>1 DEF cancel_database_archive
  <2>4. delete_database(d) => catalog[d].status # "none" /\ Becomes(d, "deleted")
    BY DEF delete_database
  <2>5. restore_database(d) => catalog[d].status # "none" /\ Becomes(d, "hot")
    BY DEF restore_database
  <2>6. sql_write(d) => UNCHANGED catalog
    BY DEF sql_write
  <2>7. {"hot", "archiving", "deleted"} \subseteq Statuses \ {"none"}
    BY DEF Statuses
  <2> QED BY <2>2, <2>3, <2>4, <2>5, <2>6, <2>7 DEF Owns
<1>4. /\ \A e \in Ids : e # d => catalog'[e] = catalog[e]
      /\ \A e \in Ids : catalog'[e].at = catalog[e].at
      /\ \A e \in Ids : (catalog'[e] = Absent <=> catalog[e] = Absent)
      /\ \A e \in Ids : (catalog'[e].status = "none" <=> catalog[e].status = "none")
  <2>1. CASE UNCHANGED catalog
    BY <2>1
  <2>2. ASSUME NEW status \in Statuses \ {"none"}, Becomes(d, status), catalog[d].status # "none"
        PROVE  /\ \A e \in Ids : e # d => catalog'[e] = catalog[e]
               /\ catalog'[d].at = catalog[d].at /\ catalog'[d].status # "none"
    BY <1>2, <2>2 DEF Becomes
  <2>3. \A row : row = Absent => row.status = "none"
    BY DEF Absent
  <2> QED BY <1>3, <2>1, <2>2, <2>3
<1>5. CallsOK' /\ LocalsOK'
  <2>1. \A e \in Calls : Active(e)' => Active(e) /\ calls[e].db \in Ids
    BY <1>1, DatabasesOfCalls DEF Active, Used
  <2> QED BY <1>1, <1>4, <2>1 DEF SagaOK, CallsOK, LocalsOK, Ids, Active, Used
<1>6. ClockOK'
  BY <1>1 DEF SagaOK, ClockOK, Used, Begun
<1>7. MigrationsOK'
  <2>1. ASSUME ~Owner("cancel"), NEW e \in Calls, Migrating(e)
        PROVE  LocalIs(calls[e].db, "archiving")'
    <3>1. LocalIs(calls[e].db, "archiving") /\ calls[e].db \in Ids
      BY <2>1, DatabasesOfCalls DEF SagaOK, MigrationsOK, Migrating
    <3>2. ASSUME calls[e].db = d PROVE UNCHANGED catalog
      <4>1. catalog[d].status = "archiving" /\ ~LocalIs(d, "hot")
        BY <3>1, <3>2 DEF LocalIs
      <4> QED BY <2>1, <4>1 DEF Owns, begin_database_archive, cancel_database_archive, sql_write,
                delete_database, restore_database, Acts
    <3> QED BY <1>1, <1>4, <3>1, <3>2 DEF LocalIs
  <2> QED BY <1>1, <2>1 DEF SagaOK, MigrationsOK, Migrating, Active, Used, Owner, LocalIs
<1>8. \/ UNCHANGED slots
      \/ /\ s \in Shards /\ catalog[d].status = "hot" /\ catalog'[d].status = "deleted"
         /\ OnlySlot(s, d)
      \/ s \in Shards /\ OnlySlot(s, d) /\ slots'[s][d].status = "hot"
  <2>1. CASE begin_database_archive(d) \/ cancel_database_archive(d) \/ sql_write(d)
    BY <2>1 DEF begin_database_archive, cancel_database_archive, sql_write, shard
  <2>2. CASE delete_database(d)
    <3>1. CASE s = Local
      BY <2>2, <3>1 DEF delete_database, shard
    <3>2. CASE s # Local
      <4>1. OnlySlot(s, d)
        BY <1>2, <2>2, <3>2, HandlersKeepMemories DEF delete_database, Base, Types
      <4>2. catalog[d].status = "hot" /\ catalog'[d].status = "deleted"
        BY <1>2, <2>2 DEF delete_database, Becomes
      <4> QED BY <1>2, <3>2, <4>1, <4>2
    <3> QED BY <3>1, <3>2
  <2>3. CASE restore_database(d)
    <3> DEFINE new == [NoSlot EXCEPT !.status = "hot"]
    <3>1. s \in Shards /\ Takes(s, d, new)
      BY <1>2, <2>3 DEF restore_database
    <3>2. new \in SlotRows /\ new.status = "hot"
      BY Bounds DEF NoSlot, SlotRows, Statuses
    <3> HIDE DEF s, new
    <3>3. OnlySlot(s, d) /\ slots'[s][d].status = "hot"
      BY <3>1, <3>2, TakesMemory DEF Base, Types
    <3> QED BY <3>1, <3>3
  <2> QED BY <2>1, <2>2, <2>3 DEF Owns
<1>9. SlotsOK'
  <2> SUFFICES ASSUME NEW e \in Calls, Active(e), calls[e].reply = "ok",
                      \/ /\ calls[e].op # "migrate" /\ calls[e].stage = "create_slot"
                         /\ catalog[calls[e].db] = Absent
                      \/ calls[e].op = "migrate" /\ calls[e].stage = "finalize_restore"
               PROVE  slots'[calls[e].at][calls[e].db].status = "hot"
    <3>1. \A e \in Calls : Active(e)' => Active(e) /\ calls[e].db \in Ids
      BY <1>1, DatabasesOfCalls DEF Active, Used
    <3> QED BY <1>1, <1>4, <3>1 DEF SlotsOK
  <2>1. calls[e].at \in Shards /\ calls[e].db \in Ids /\ slots[calls[e].at][calls[e].db].status = "hot"
    BY DatabasesOfCalls DEF SagaOK, SlotsOK
  <2>2. CASE calls[e].at # s \/ calls[e].db # d
    BY <1>8, <2>1, <2>2 DEF OnlySlot
  <2>3. CASE calls[e].at = s /\ calls[e].db = d
    <3>1. s # Local
      BY <2>1, <2>3 DEF Shards, Local
    <3>2. calls[e].op # "migrate" /\ catalog[d] = Absent
      BY <2>3, <3>1 DEF SagaOK, CallsOK
    <3> QED BY <1>8, <2>1, <2>3, <3>2 DEF Absent
  <2> QED BY <2>2, <2>3
<1>10. RoutedOK'
  <2> SUFFICES ASSUME NEW e \in Ids, NEW t \in Shards, RoutedTo(e, t)'
               PROVE  slots'[t][e].status = "hot"
    BY DEF RoutedOK
  <2>1. CASE e # d
    BY <1>4, <1>8, <2>1 DEF SagaOK, RoutedOK, RoutedTo, OnlySlot
  <2>2. CASE e = d
    <3>1. t = s /\ catalog'[d].status = "hot"
      BY <1>4, <2>2 DEF RoutedTo
    <3>2. CASE slots'[s][d].status = "hot"
      BY <2>2, <3>1, <3>2
    <3>3. CASE UNCHANGED slots
      <4>1. ~restore_database(d) => UNCHANGED catalog \/ s = Local
        BY <1>2, <3>1, <3>3 DEF Owns, begin_database_archive, cancel_database_archive, sql_write,
            delete_database, LocalIs, Becomes
      <4>2. restore_database(d) => slots'[s][d].status = "hot"
        <5> DEFINE new == [NoSlot EXCEPT !.status = "hot"]
        <5>1. restore_database(d) => s \in Shards /\ Takes(s, d, new)
          BY <1>2 DEF restore_database
        <5>2. new \in SlotRows /\ new.status = "hot"
          BY Bounds DEF NoSlot, SlotRows, Statuses
        <5> HIDE DEF s, new
        <5> QED BY <5>1, <5>2, TakesMemory DEF Base, Types
      <4>3. catalog'[d] = [status |-> "hot", at |-> t] /\ s # Local
        BY <2>2, <3>1 DEF RoutedTo, Shards, Local
      <4> QED BY <2>2, <3>1, <3>3, <4>1, <4>2, <4>3 DEF SagaOK, RoutedOK, RoutedTo
    <3> QED BY <1>8, <3>1, <3>2, <3>3
  <2> QED BY <2>1, <2>2
<1> QED BY <1>5, <1>6, <1>7, <1>9, <1>10 DEF SagaOK

(* A call that opens its row creates the slot, or ends.                    *)
LEMMA OpensCall ==
  ASSUME Base, NEW c \in Calls, NEW call \in CallRows, Opens(c, call)
  PROVE  \E new \in CallRows : /\ Goes(c, new) /\ Same(new, call) /\ new.reply = "none"
                               /\ new.stage \in {"create_slot", "end"}
<1>1. "create_slot" \in Stages /\ "end" \in Stages
  BY DEF Stages
<1>2. \A stage \in {"create_slot", "end"} :
        /\ Stage(call, stage) \in CallRows /\ Same(Stage(call, stage), call)
        /\ Stage(call, stage).reply = "none" /\ Stage(call, stage).stage = stage
  BY <1>1, StageTypes DEF Same
<1>3. \E stage \in {"create_slot", "end"} : Goes(c, Stage(call, stage))
  BY DEF Opens
<1> QED BY <1>2, <1>3

(* A creation whose id is new, a creation by a controller, or a migration  *)
(* of a local database that no other call migrates.                        *)
Fresh(c, call) ==
  /\ Goes(c, call) /\ call.reply = "none"
  /\ call.op \in {"create", "create_remote", "migrate"}
  /\ \/ call.stage \in {"provision", "end"} /\ UNCHANGED catalog
     \/ /\ call.stage = "create_slot" /\ UNCHANGED catalog
        /\ call.op = "create" /\ call.db \in Generated /\ call.db.at = call.ms
        /\ catalog[call.db] = Absent
     \/ /\ call.stage = "create_slot" /\ UNCHANGED catalog
        /\ call.op = "create_remote" /\ call.db \in Locals \union Named
     \/ /\ call.stage = "create_slot" /\ Becomes(call.db, "archiving")
        /\ call.op = "migrate" /\ call.db \in Locals /\ LocalIs(call.db, "hot")
        /\ call.digest = written[call.db]
        /\ \A e \in Calls : Migrating(e) => calls[e].db # call.db

(* Every call that begins is fresh.                                        *)
LEMMA BeginIsFresh ==
  ASSUME Base, SagaOK, Apart, NEW c \in Calls, Begin(c)
  PROVE  /\ \E call \in CallRows : Fresh(c, call) /\ call.ms = Begun + 1
         /\ calls[c] = Unused /\ UNCHANGED <<shards, shard, session>>
<1>1. /\ calls[c] = Unused /\ UNCHANGED <<shards, shard, session>>
  BY DEF Begin, Begins, create_database, create_remote_database, migrate_database_to_shard, placement
<1>2. Now = Begun + 1 /\ Now \in 1..MaxMs
  BY <1>1, Clock DEF Apart, NoTwins, Now
<1>3. /\ shards \in 0..MaxShards /\ MaxShards \in Nat /\ 1..shards \subseteq 0..MaxShards
      /\ shards <= shards
  BY Bounds DEF Base, Types, CatalogTypes
<1>4. CASE create_database(c)
  <2>1. UNCHANGED catalog
    BY <1>4 DEF create_database, placement
  <2>2. CASE Selectable(shards) # {} /\ Allocate(c, Now, shards)
    <3>1. PICK d \in Generated, s \in Shards : /\ d.at = Now /\ catalog[d] = Absent
                                               /\ Opens(c, NewCall("create", d, s, Now))
      BY <1>1, <1>2, <1>3, <2>2, AllocateTypes DEF Base
    <3> DEFINE call == NewCall("create", d, s, Now)
    <3>2. call \in CallRows /\ call.op = "create" /\ call.db = d /\ call.ms = Now
      BY <1>2, <1>3, NewCallTypes DEF Shards, Ids
    <3> HIDE DEF call
    <3>3. PICK new \in CallRows : /\ Goes(c, new) /\ Same(new, call) /\ new.reply = "none"
                                  /\ new.stage \in {"create_slot", "end"}
      BY <3>1, <3>2, OpensCall DEF call
    <3>4. Fresh(c, new) /\ new.ms = Now
      BY <2>1, <3>1, <3>2, <3>3 DEF Fresh, Same
    <3> QED BY <1>1, <1>2, <3>4
  <2>3. CASE Goes(c, [NewCall("create", 0, Local, Now) EXCEPT !.stage = "provision"])
    <3> DEFINE call == NewCall("create", 0, Local, Now)
               new == [call EXCEPT !.stage = "provision"]
    <3>1. /\ call \in CallRows /\ call.op = "create" /\ call.ms = Now /\ call.reply = "none"
      <4>1. call.reply = "none"
        BY DEF NewCall
      <4> QED BY <1>2, <1>3, <4>1, NewCallTypes DEF Local
    <3> HIDE DEF call
    <3>2. /\ new \in CallRows /\ new.stage = "provision" /\ new.op = "create" /\ new.ms = Now
          /\ new.reply = "none"
      BY <3>1 DEF CallRows, Stages
    <3>3. Fresh(c, new)
      BY <2>1, <2>3, <3>2 DEF Fresh, call
    <3> QED BY <1>1, <1>2, <3>2, <3>3
  <2> QED BY <1>4, <2>2, <2>3 DEF create_database
<1>5. ASSUME NEW s \in 1..shards, NEW d \in Locals \union Named, create_remote_database(c, d, s)
      PROVE  \E call \in CallRows : Fresh(c, call) /\ call.ms = Begun + 1
  <2> DEFINE call == NewCall("create_remote", d, s, Now)
  <2>1. Opens(c, call) /\ UNCHANGED catalog
    BY <1>5 DEF create_remote_database, placement
  <2>2. call \in CallRows /\ call.op = "create_remote" /\ call.db = d /\ call.ms = Now
    BY <1>2, <1>3, NewCallTypes DEF Ids
  <2> HIDE DEF call
  <2>3. PICK new \in CallRows : /\ Goes(c, new) /\ Same(new, call) /\ new.reply = "none"
                                /\ new.stage \in {"create_slot", "end"}
    BY <2>1, <2>2, OpensCall
  <2>4. Fresh(c, new) /\ new.ms = Now
    BY <2>1, <2>2, <2>3 DEF Fresh, Same
  <2> QED BY <1>2, <2>4
<1>6. ASSUME NEW s \in 1..shards, NEW d \in Locals, migrate_database_to_shard(c, d, s)
      PROVE  \E call \in CallRows : Fresh(c, call) /\ call.ms = Begun + 1
  <2> DEFINE call == [NewCall("migrate", d, s, Now) EXCEPT !.digest = written[d]]
  <2>1. d \in Ids
    BY DEF Ids
  <2>2. /\ call \in CallRows /\ call.op = "migrate" /\ call.db = d /\ call.ms = Now
        /\ call.digest = written[d]
    <3>1. NewCall("migrate", d, s, Now) \in CallRows
      BY <1>2, <1>3, <2>1, NewCallTypes
    <3>2. written[d] \in Int
      BY <2>1, Bounds DEF Base, Types, CatalogTypes
    <3> QED BY <3>1, <3>2 DEF CallRows, NewCall
  <2> HIDE DEF call
  <2>3. ASSUME Goes(c, Stage(call, "end")), UNCHANGED catalog
        PROVE  \E new \in CallRows : Fresh(c, new) /\ new.ms = Now
    <3> DEFINE new == Stage(call, "end")
    <3>1. new \in CallRows /\ Same(new, call) /\ new.reply = "none" /\ new.stage = "end"
      BY <2>2, StageTypes DEF Same, Stages
    <3> HIDE DEF new
    <3>2. Fresh(c, new) /\ new.ms = Now
      BY <2>2, <2>3, <3>1 DEF Fresh, Same, new
    <3> QED BY <3>1, <3>2
  <2>4. ASSUME Goes(c, Stage(call, "create_slot")), LocalIs(d, "hot"), Becomes(d, "archiving")
        PROVE  \E new \in CallRows : Fresh(c, new) /\ new.ms = Now
    <3> DEFINE new == Stage(call, "create_slot")
    <3>1. /\ new \in CallRows /\ Same(new, call) /\ new.reply = "none"
          /\ new.stage = "create_slot" /\ new.digest = call.digest
      BY <2>2, StageTypes DEF Same, Stages
    <3> HIDE DEF new
    <3>2. ASSUME NEW e \in Calls, Migrating(e), calls[e].db = d PROVE FALSE
      <4>1. CASE ~Owner("cancel")
        <5>1. LocalIs(d, "archiving")
          BY <3>2, <4>1 DEF SagaOK, MigrationsOK
        <5> QED BY <2>4, <5>1 DEF LocalIs
      <4>2. CASE Owner("cancel")
        <5> DEFINE M == {f \in Calls : calls[f].op = "migrate"}
        <5>1. Cardinality(M) < session.migrations
          BY <1>6 DEF migrate_database_to_shard
        <5>2. session.migrations \in Nat /\ ~(session.migrations > 1)
          BY <4>2, Bounds DEF Apart, MigratedOnce, Base, Types
        <5>3. M \in SUBSET Calls /\ e \in M
          BY <3>2 DEF Migrating
        <5> HIDE DEF M
        <5>4. IsFiniteSet(M)
          BY <5>3, FiniteCalls, FS_Subset
        <5>5. Cardinality(M) \in Nat
          BY <5>4, FS_CardinalityType
        <5>6. Cardinality(M) = 0
          BY <5>1, <5>2, <5>5
        <5> QED BY <5>3, <5>4, <5>6, FS_EmptySet
      <4> QED BY <4>1, <4>2
    <3>3. Fresh(c, new) /\ new.ms = Now
      BY <2>2, <2>4, <3>1, <3>2 DEF Fresh, Same, new
    <3> QED BY <3>1, <3>3
  <2>5. \/ Goes(c, Stage(call, "end")) /\ UNCHANGED catalog
        \/ Goes(c, Stage(call, "create_slot")) /\ LocalIs(d, "hot") /\ Becomes(d, "archiving")
    BY <1>6 DEF migrate_database_to_shard, call, Becomes, Opens
  <2> QED BY <1>2, <2>3, <2>4, <2>5
<1> QED BY <1>1, <1>4, <1>5, <1>6 DEF Begin

(* A fresh call disturbs no other.                                         *)
LEMMA FreshSaga ==
  ASSUME Base, SagaOK, NEW c \in Calls, ~Active(c), NEW call \in CallRows, Fresh(c, call),
         ClockOK', UNCHANGED <<slots, session>>
  PROVE  SagaOK'
<1> DEFINE d == call.db
<1>1. /\ calls'[c] = call /\ \A e \in Calls \ {c} : calls'[e] = calls[e]
      /\ call # Unused
  BY DEF Fresh, Goes, Base, Types, CallTypes, Unused
<1>2. \A e \in Calls \ {c} : /\ Active(e)' <=> Active(e)
                             /\ Migrating(e)' <=> Migrating(e)
  BY <1>1 DEF Active, Used, Migrating
<1>3. catalog \in [Ids -> [status : Statuses, at : {Local} \union 1..shards]]
  BY DEF Base, Types, CatalogTypes
<1>4. \/ UNCHANGED catalog
      \/ /\ call.op = "migrate" /\ d \in Ids /\ LocalIs(d, "hot")
         /\ catalog'[d] = [status |-> "archiving", at |-> Local]
         /\ \A e \in Ids \ {d} : catalog'[e] = catalog[e]
         /\ \A e \in Calls : Migrating(e) => calls[e].db # d
  <2>1. ASSUME d \in Ids, LocalIs(d, "hot"), Becomes(d, "archiving")
        PROVE  /\ catalog'[d] = [status |-> "archiving", at |-> Local]
               /\ \A e \in Ids \ {d} : catalog'[e] = catalog[e]
    BY <1>3, <2>1 DEF LocalIs, Becomes
  <2> QED BY <2>1 DEF Fresh, Ids
<1>5. \A e \in Ids : /\ catalog'[e].at = catalog[e].at
                     /\ (catalog'[e] = Absent <=> catalog[e] = Absent)
                     /\ catalog[e].status # "none" => catalog'[e].status # "none"
                     /\ \A s \in Shards : RoutedTo(e, s)' => RoutedTo(e, s)
  BY <1>4 DEF LocalIs, Absent, RoutedTo, Local, Shards
<1>6. CallsOK'
  <2> SUFFICES ASSUME NEW e \in Calls, Active(e)'
               PROVE  /\ calls'[e].op = "create" =>
                           /\ calls'[e].stage \in {"create_slot", "undo"}
                           /\ calls'[e].db \in Generated /\ calls'[e].db.at = calls'[e].ms
                           /\ catalog'[calls'[e].db] = Absent
                      /\ calls'[e].op = "create_remote" =>
                           calls'[e].stage = "create_slot" /\ calls'[e].db \in Locals \union Named
                      /\ calls'[e].op = "migrate" =>
                           calls'[e].db \in Locals /\ catalog'[calls'[e].db].at = Local
    BY DEF CallsOK
  <2>1. CASE e # c
    <3>1. calls'[e] = calls[e] /\ Active(e) /\ calls[e].db \in Ids
      BY <1>1, <1>2, <2>1, DatabasesOfCalls
    <3> QED BY <1>5, <3>1 DEF SagaOK, CallsOK
  <2>2. CASE e = c
    <3>1. call.stage \notin {"provision", "end"}
      BY <1>1, <2>2 DEF Active
    <3>2. call.op = "create" => UNCHANGED catalog
      BY <1>4
    <3>3. call.op = "migrate" => d \in Locals /\ catalog'[d].at = Local
      <4>1. call.op = "migrate" => d \in Locals /\ LocalIs(d, "hot")
        BY <3>1 DEF Fresh
      <4> QED BY <1>5, <4>1 DEF LocalIs, Ids
    <3> QED BY <1>1, <2>2, <3>1, <3>2, <3>3 DEF Fresh
  <2> QED BY <2>1, <2>2
<1>7. LocalsOK'
  BY <1>5 DEF SagaOK, LocalsOK, Ids
<1>8. MigrationsOK'
  <2>0. Migrating(c)' => /\ catalog'[d] = [status |-> "archiving", at |-> Local]
                         /\ \A e \in Calls : Migrating(e) => calls[e].db # d
    <3>1. Migrating(c)' => Becomes(d, "archiving") /\ d \in Locals /\ LocalIs(d, "hot")
                           /\ \A e \in Calls : Migrating(e) => calls[e].db # d
      BY <1>1 DEF Fresh, Migrating, Active
    <3>2. Becomes(d, "archiving") /\ d \in Locals /\ LocalIs(d, "hot")
            => catalog'[d] = [status |-> "archiving", at |-> Local]
      BY <1>3 DEF Becomes, LocalIs, Ids
    <3> QED BY <3>1, <3>2
  <2>1. ASSUME NEW e \in Calls, NEW f \in Calls, Migrating(e)', Migrating(f)',
               calls'[e].db = calls'[f].db
        PROVE  e = f
    BY <1>1, <1>2, <2>0, <2>1 DEF SagaOK, MigrationsOK
  <2>2. ASSUME ~Owner("cancel")', NEW e \in Calls, Migrating(e)'
        PROVE  LocalIs(calls[e].db, "archiving")'
    <3>1. CASE e = c
      BY <1>1, <2>0, <2>2, <3>1 DEF LocalIs
    <3>2. CASE e # c
      <4>1. /\ Migrating(e) /\ calls'[e] = calls[e] /\ LocalIs(calls[e].db, "archiving")
            /\ calls[e].db \in Ids
        BY <1>1, <1>2, <2>2, <3>2, DatabasesOfCalls DEF SagaOK, MigrationsOK, Owner, Migrating
      <4>2. catalog'[calls[e].db] = catalog[calls[e].db]
        BY <1>4, <4>1
      <4> QED BY <4>1, <4>2 DEF LocalIs
    <3> QED BY <3>1, <3>2
  <2> QED BY <2>1, <2>2 DEF MigrationsOK, LocalIs
<1>9. SlotsOK'
  <2> SUFFICES ASSUME NEW e \in Calls, Active(e)', calls'[e].reply = "ok",
                      \/ /\ calls'[e].op # "migrate" /\ calls'[e].stage = "create_slot"
                         /\ catalog'[calls'[e].db] = Absent
                      \/ calls'[e].op = "migrate" /\ calls'[e].stage = "finalize_restore"
               PROVE  slots[calls'[e].at][calls'[e].db].status = "hot"
    BY DEF SlotsOK
  <2>1. e # c
    BY <1>1 DEF Fresh
  <2>2. calls'[e] = calls[e] /\ Active(e) /\ calls[e].db \in Ids
    BY <1>1, <1>2, <2>1, DatabasesOfCalls
  <2> QED BY <1>5, <2>2 DEF SagaOK, SlotsOK
<1>10. RoutedOK'
  BY <1>5 DEF SagaOK, RoutedOK
<1> QED BY <1>6, <1>7, <1>8, <1>9, <1>10 DEF SagaOK

(* A call that begins in a millisecond of its own.                         *)
LEMMA BeginSaga ==
  ASSUME Base, SagaOK, Apart, NEW c \in Calls, Begin(c)
  PROVE  SagaOK'
<1>1. /\ calls[c] = Unused /\ UNCHANGED <<slots, session>> /\ ~Active(c)
  BY BeginIsFresh DEF shard, Active, Used
<1>2. PICK call \in CallRows : Fresh(c, call) /\ call.ms = Begun + 1
  BY BeginIsFresh
<1>3. ClockOK'
  <2>1. call # Unused /\ Goes(c, call)
    BY <1>2 DEF Fresh, Unused
  <2> QED BY <1>1, <1>2, <2>1, BegunGrows DEF SagaOK, Base, Types
<1> QED BY <1>1, <1>2, <1>3, FreshSaga

(* A creation goes on on the shard that was made for it.                   *)
LEMMA ProvisionIsFresh ==
  ASSUME Base, NEW c \in Calls, provision_database_shard(c)
  PROVE  /\ \E call \in CallRows : Fresh(c, call) /\ call.ms = calls[c].ms
         /\ Used(c) /\ ~Active(c) /\ UNCHANGED <<slots, session>>
<1>1. /\ Used(c) /\ calls[c].stage = "provision" /\ calls[c] \in CallRows /\ calls[c].op = "create"
      /\ UNCHANGED <<catalog, shard, written, session>>
  BY DEF provision_database_shard, Awaits, Used, Base, Types, CallTypes, Addresses
<1>2. \E call \in CallRows : Fresh(c, call) /\ call.ms = calls[c].ms
  <2>1. CASE shards < MaxShards /\ shards' = shards + 1 /\ Allocate(c, calls[c].ms, shards + 1)
    <3>1. /\ shards \in Nat /\ shards' \in 0..MaxShards /\ shards <= shards'
          /\ shards' \in 1..MaxShards /\ MaxShards \in Nat
      BY <2>1, Bounds DEF Base, Types, CatalogTypes
    <3>2. Selectable(shards') # {}
      <4>1. HasRoom(shards')
        BY <2>1, <3>1, AssignedTypes DEF Base, Types, Shards
      <4> QED BY <3>1, <4>1 DEF Selectable
    <3>3. calls[c].ms \in 1..MaxMs /\ Allocate(c, calls[c].ms, shards')
      BY <1>1, <2>1 DEF CallRows
    <3> DEFINE ms == calls[c].ms
    <3>4. PICK d \in Generated, s \in Shards : /\ d.at = ms /\ catalog[d] = Absent
                                               /\ Opens(c, NewCall("create", d, s, ms))
      BY <3>1, <3>2, <3>3, AllocateTypes DEF Base
    <3> DEFINE call == NewCall("create", d, s, ms)
    <3>5. call \in CallRows /\ call.op = "create" /\ call.db = d /\ call.ms = ms
      BY <3>1, <3>3, NewCallTypes DEF Shards, Ids
    <3> HIDE DEF call
    <3>6. PICK new \in CallRows : /\ Goes(c, new) /\ Same(new, call) /\ new.reply = "none"
                                  /\ new.stage \in {"create_slot", "end"}
      BY <3>4, <3>5, OpensCall DEF call
    <3>7. Fresh(c, new) /\ new.ms = ms
      BY <1>1, <3>4, <3>5, <3>6 DEF Fresh, Same
    <3> QED BY <3>7
  <2>2. CASE GoesTo(c, "end")
    <3> DEFINE new == Stage(calls[c], "end")
    <3>1. new \in CallRows /\ Same(new, calls[c]) /\ new.reply = "none" /\ new.stage = "end"
      BY <1>1, StageTypes DEF Same, Stages
    <3> HIDE DEF new
    <3>2. Fresh(c, new) /\ new.ms = calls[c].ms
      BY <1>1, <2>2, <3>1 DEF Fresh, Same, GoesTo, new
    <3> QED BY <3>1, <3>2
  <2> QED BY <2>1, <2>2 DEF provision_database_shard
<1> QED BY <1>1, <1>2 DEF Active, shard

LEMMA ProvisionSaga ==
  ASSUME Base, SagaOK, NEW c \in Calls, provision_database_shard(c)
  PROVE  SagaOK'
<1>1. PICK call \in CallRows : Fresh(c, call) /\ call.ms = calls[c].ms
  BY ProvisionIsFresh
<1>2. ClockOK'
  <2>1. call # Unused /\ Goes(c, call)
    BY <1>1 DEF Fresh, Unused
  <2> QED BY <1>1, <2>1, ProvisionIsFresh, BegunKept DEF SagaOK, Base, Types
<1> QED BY <1>1, <1>2, ProvisionIsFresh, FreshSaga

(* Only local databases exist before the first call.                       *)
LEMMA InitSaga ==
  ASSUME Init
  PROVE  SagaOK
<1>1. \A c \in Calls : ~Used(c) /\ ~Active(c) /\ ~Migrating(c)
  BY DEF Init, Used, Active, Migrating
<1>2. RoutedOK
  BY DEF Init, RoutedOK, RoutedTo, Absent, Local, Shards
<1>3. LocalsOK
  BY DEF Init, LocalsOK, Ids
<1> QED BY <1>1, <1>2, <1>3 DEF SagaOK, CallsOK, ClockOK, MigrationsOK, SlotsOK

(* Every step of sessions whose calls are kept apart.                      *)
LEMMA StepSaga ==
  ASSUME Base, SagaOK, Apart, [Next]_vars
  PROVE  SagaOK'
<1>1. ASSUME NEW c \in Calls, Begin(c) \/ Serve(c) \/ Refuse(c) \/ Continue(c)
      PROVE  SagaOK'
  BY <1>1, BeginSaga, ServeSaga, ContinueSaga, ProvisionSaga
<1>2. ASSUME NEW d \in Ids, Owns(d) PROVE SagaOK'
  BY <1>2, OwnerSaga
<1>3. CASE UNCHANGED vars
  BY <1>3 DEF vars, placement, shard, SagaOK, CallsOK, LocalsOK, ClockOK, MigrationsOK, SlotsOK,
              RoutedOK, RoutedTo, Active, Used, Migrating, Begun, Owner, LocalIs
<1> QED BY <1>1, <1>2, <1>3 DEF Next, Owns

(* What a session is does not change.                                      *)
LEMMA StepSession ==
  ASSUME [Next]_vars
  PROVE  session' = session
<1>1. ASSUME NEW c \in Calls, Begin(c) \/ Serve(c) \/ Refuse(c) \/ Continue(c)
      PROVE  session' = session
  BY <1>1 DEF Begin, Begins, create_database, create_remote_database,
        migrate_database_to_shard, Serve, Refuse, Replies, Continue, provision_database_shard,
        register_remote_database, Register, CreateFails, CreateUndone, MigrationGoesOn,
        complete_local_database_migration, Complete, MigrationFails,
        cancel_local_database_migration, CancelMigration, MovesOn
<1>2. ASSUME NEW d \in Ids, Owns(d) PROVE session' = session
  BY <1>2 DEF Owns, begin_database_archive, cancel_database_archive, sql_write,
        delete_database, restore_database, Acts
<1> QED BY <1>1, <1>2 DEF Next, Owns, vars

(* A database that the catalog routes to a shard is hot there, whatever    *)
(* calls overlap, fail, are compensated or lose their answers: of any      *)
(* number of creations, of creations by controllers and of migrations.     *)
THEOREM RoutingIsServed == Spec => []RoutedIsServed
<1> DEFINE Inv == Base /\ (Apart => SagaOK)
<1>1. Init => Inv
  BY InitBase, InitSaga
<1>2. Inv /\ [Next]_vars => Inv'
  <2> SUFFICES ASSUME Inv, [Next]_vars PROVE Inv'
    OBVIOUS
  <2>1. Base'
    BY StepBase
  <2>2. session' = session
    BY StepSession
  <2>3. Apart' => Apart
    BY <2>2 DEF Apart, NoTwins, MigratedOnce, Owner
  <2> QED BY <2>1, <2>3, StepSaga
<1>3. Inv => RoutedIsServed
  BY DEF SagaOK, RoutedOK, RoutedIsServed, Apart
<1> QED BY <1>1, <1>2, <1>3, PTL DEF Spec

-----------------------------------------------------------------------------
(* Whoever archives a database for its migration reopens it or places it.  *)
ArchivedByCall ==
  \A d \in Ids : catalog[d].status = "archiving" =>
    catalog[d].at = Local /\ \E c \in Calls : Migrating(c) /\ calls[c].db = d

(* Every step of sessions whose owners archive nothing.                    *)
LEMMA StepArchived ==
  ASSUME Base, ArchivedByCall, ~Owner("archive"), [Next]_vars
  PROVE  ArchivedByCall'
<1>1. catalog \in [Ids -> [status : Statuses, at : {Local} \union 1..shards]]
  BY DEF Base, Types, CatalogTypes
<1>2. calls \in [Calls -> {Unused} \union CallRows]
  BY DEF Base, Types, CallTypes
(* A step that archives nothing and ends no migration of what is archived. *)
<1>3. ASSUME \A e \in Ids : catalog'[e].status = "archiving" => catalog'[e] = catalog[e],
             \A e \in Calls : Migrating(e) =>
               \/ Migrating(e)' /\ calls'[e].db = calls[e].db
               \/ catalog'[calls[e].db].status # "archiving"
      PROVE  ArchivedByCall'
  BY <1>3 DEF ArchivedByCall
<1>4. ASSUME NEW c \in Calls, Begin(c) PROVE ArchivedByCall'
  <2>1. ~Migrating(c)
    BY <1>4 DEF Begin, Begins, create_database, create_remote_database,
          migrate_database_to_shard, Migrating, Active, Used
  <2>2. \A e \in Calls \ {c} : calls'[e] = calls[e]
    BY <1>2, <1>4 DEF Begin, create_database, create_remote_database, migrate_database_to_shard,
          Allocate, Opens, Goes
  <2>3. \A e \in Calls : Migrating(e) => Migrating(e)' /\ calls'[e].db = calls[e].db
    BY <2>1, <2>2 DEF Migrating, Active, Used
  <2>4. CASE UNCHANGED catalog
    BY <1>3, <2>3, <2>4
  <2>5. CASE ~UNCHANGED catalog
    <3>1. PICK s \in 1..shards, d \in Locals : migrate_database_to_shard(c, d, s)
      BY <1>4, <2>5 DEF Begin, create_database, create_remote_database, placement
    <3> DEFINE call == [NewCall("migrate", d, s, Now) EXCEPT !.digest = written[d]]
               new == Stage(call, "create_slot")
    <3>2. LocalIs(d, "hot") /\ Becomes(d, "archiving") /\ Goes(c, new)
      BY <2>5, <3>1 DEF migrate_database_to_shard, Becomes, Opens
    <3>3. new # Unused /\ new.op = "migrate" /\ new.stage = "create_slot" /\ new.db = d
      <4>1. new = [[call EXCEPT !.stage = "create_slot"] EXCEPT !.reply = "none"]
        BY DEF Stage, NewCall
      <4>2. /\ call.op = "migrate" /\ call.db = d
            /\ new.op = "migrate" /\ new.db = d /\ new.stage = "create_slot"
        BY <4>1 DEF NewCall
      <4> HIDE DEF new
      <4> QED BY <4>2 DEF Unused
    <3> HIDE DEF new
    <3>4. d \in Ids /\ Migrating(c)' /\ calls'[c].db = d
      BY <1>2, <3>2, <3>3 DEF Goes, Migrating, Active, Used, Ids
    <3>5. catalog'[d].at = Local /\ \A e \in Ids \ {d} : catalog'[e] = catalog[e]
      BY <1>1, <3>2, <3>4 DEF LocalIs, Becomes
    <3> QED BY <2>3, <3>4, <3>5 DEF ArchivedByCall
  <2> QED BY <2>4, <2>5
<1>5. ASSUME NEW c \in Calls, Serve(c) \/ Refuse(c) PROVE ArchivedByCall'
  <2>1. PICK reply \in {"ok", "error"} : calls' = [calls EXCEPT ![c].reply = reply]
    BY <1>5 DEF Serve, Refuse, Replies
  <2>2. UNCHANGED catalog
    BY <1>5 DEF Serve, Refuse, Replies, placement
  <2>3. Active(c) /\ calls[c] \in CallRows
    BY <1>2, <1>5 DEF Serve, Runs, Refuse, Awaits, Active, Used
  <2>4. [calls[c] EXCEPT !.reply = reply] \in CallRows
    BY <2>3 DEF CallRows
  <2>5. \A e \in Calls : Migrating(e) => Migrating(e)' /\ calls'[e].db = calls[e].db
    BY <1>2, <2>1, <2>3, <2>4 DEF Migrating, Active, Used, CallRows, Unused
  <2> QED BY <1>3, <2>2, <2>5
<1>6. ASSUME NEW c \in Calls, provision_database_shard(c) PROVE ArchivedByCall'
  <2>1. ~Migrating(c)
    BY <1>6 DEF provision_database_shard, Awaits, Migrating, Active
  <2>2. \A e \in Calls \ {c} : calls'[e] = calls[e]
    BY <1>2, <1>6 DEF provision_database_shard, Allocate, Opens, GoesTo, Goes
  <2>3. UNCHANGED catalog
    BY <1>6 DEF provision_database_shard
  <2>4. \A e \in Calls : Migrating(e) => Migrating(e)' /\ calls'[e].db = calls[e].db
    BY <2>1, <2>2 DEF Migrating, Active, Used
  <2> QED BY <1>3, <2>3, <2>4
<1>7. ASSUME NEW c \in Calls, Continue(c), ~provision_database_shard(c) PROVE ArchivedByCall'
  <2> DEFINE d == calls[c].db
  <2>1. Active(c)
    BY <1>7 DEF Continue, register_remote_database, Register, CreateFails, CreateUndone,
         MigrationGoesOn, complete_local_database_migration, Complete, MigrationFails,
         cancel_local_database_migration, CancelMigration, MovesOn, Answered, Used, Active,
         NextStage
  <2>2. d \in Ids /\ calls[c] \in CallRows
    BY <2>1, DatabasesOfCalls
  <2>3. \A e \in Calls \ {c} : calls'[e] = calls[e]
    BY <1>2, <1>7 DEF Continue, register_remote_database, Register, CreateFails, CreateUndone,
         MigrationGoesOn, complete_local_database_migration, Complete, MigrationFails,
         cancel_local_database_migration, CancelMigration, Ends, GoesTo, Goes
  <2>4. \A e \in Calls \ {c} : Migrating(e) => Migrating(e)' /\ calls'[e].db = calls[e].db
    BY <2>3 DEF Migrating, Active, Used
  <2>5. \/ UNCHANGED catalog
        \/ Places(c)
        \/ Becomes(d, "hot")
    BY <1>7 DEF Continue, register_remote_database, Register, CreateFails, CreateUndone,
         MigrationGoesOn, complete_local_database_migration, Complete, MigrationFails,
         cancel_local_database_migration, CancelMigration, Becomes
  <2>6. /\ \A e \in Ids : e # d => catalog'[e] = catalog[e]
        /\ catalog'[d] = catalog[d] \/ catalog'[d].status = "hot"
        /\ Places(c) \/ Becomes(d, "hot") => catalog'[d].status = "hot"
    <3> HIDE DEF d
    <3>1. Places(c) => catalog' = [catalog EXCEPT ![d] = [status |-> "hot", at |-> calls[c].at]]
      BY DEF Places, d
    <3> QED BY <1>1, <2>2, <2>5, <3>1 DEF Becomes
  <2>7. Migrating(c) => \/ Migrating(c)' /\ calls'[c].db = d
                        \/ catalog'[d].status # "archiving"
    <3>1. CASE MigrationGoesOn(c) \/ MigrationFails(c) \/ GoesTo(c, "undo")
      <4>1. \E stage \in Stages \ {"provision", "end"} :
              \/ GoesTo(c, stage)
              \/ Goes(c, [Stage(calls[c], stage) EXCEPT !.chunk = written[d]])
        BY <3>1 DEF MigrationGoesOn, MigrationFails, GoesTo, NextStage, Stages
      <4>2. PICK stage \in Stages \ {"provision", "end"} :
              \/ GoesTo(c, stage)
              \/ Goes(c, [Stage(calls[c], stage) EXCEPT !.chunk = written[d]])
        BY <4>1
      <4> DEFINE old == Stage(calls[c], stage)
      <4>3. old \in CallRows /\ old.op = calls[c].op /\ old.db = d /\ old.stage = stage
        BY <2>2, StageTypes
      <4>4. written[d] \in Int
        BY <2>2, Bounds DEF Base, Types, CatalogTypes
      <4> HIDE DEF old, d
      <4>5. [old EXCEPT !.chunk = written[d]] \in CallRows
        BY <4>3, <4>4 DEF CallRows
      <4>6. PICK call \in CallRows : /\ Goes(c, call)
                                     /\ call.op = calls[c].op /\ call.db = d /\ call.stage = stage
        BY <4>2, <4>3, <4>5 DEF GoesTo, old, CallRows
      <4>7. calls'[c] = call /\ call # Unused
        BY <1>2, <4>6 DEF Goes, CallRows, Unused
      <4> QED BY <4>6, <4>7 DEF Migrating, Active, Used
    <3>2. CASE complete_local_database_migration(c)
      <4>1. CASE Places(c)
        BY <2>6, <4>1
      <4> QED BY <3>1, <3>2, <4>1 DEF complete_local_database_migration, Complete
    <3>3. CASE cancel_local_database_migration(c)
      <4>1. CASE LocalIs(d, "archiving")
        <5>1. Becomes(d, "hot")
          BY <3>3, <4>1 DEF cancel_local_database_migration, CancelMigration, Becomes
        <5> QED BY <2>6, <5>1
      <4>2. CASE ~LocalIs(d, "archiving")
        <5>1. UNCHANGED catalog
          BY <3>3, <4>2 DEF cancel_local_database_migration, CancelMigration
        <5>2. catalog[d].status # "archiving"
          <6>1. catalog[d] = [status |-> catalog[d].status, at |-> catalog[d].at]
            BY <1>1, <2>2
          <6> QED BY <2>2, <4>2, <6>1 DEF ArchivedByCall, LocalIs
        <5> QED BY <5>1, <5>2
      <4> QED BY <4>1, <4>2
    <3>4. CASE register_remote_database(c) \/ CreateFails(c) \/ CreateUndone(c)
      BY <3>4 DEF register_remote_database, Register, CreateFails, CreateUndone, Migrating
    <3> QED BY <1>7, <3>1, <3>2, <3>3, <3>4 DEF Continue
  <2>8. \A e \in Ids : catalog'[e].status = "archiving" => catalog'[e] = catalog[e]
    BY <2>6
  <2> QED BY <1>3, <2>4, <2>7, <2>8
<1>8. ASSUME NEW d \in Ids, Owns(d) PROVE ArchivedByCall'
  <2>1. \/ UNCHANGED catalog
        \/ Becomes(d, "hot")
        \/ Becomes(d, "deleted")
    BY <1>8 DEF Owns, begin_database_archive, cancel_database_archive, sql_write,
          delete_database, restore_database, Acts
  <2>2. \A e \in Ids : catalog'[e].status = "archiving" => catalog'[e] = catalog[e]
    BY <1>1, <2>1 DEF Becomes
  <2>3. UNCHANGED calls
    BY <1>8 DEF Owns, begin_database_archive, cancel_database_archive, sql_write,
          delete_database, restore_database, Acts
  <2>4. \A e \in Calls : Migrating(e) => Migrating(e)' /\ calls'[e].db = calls[e].db
    BY <2>3 DEF Migrating, Active, Used
  <2> QED BY <1>3, <2>2, <2>4
<1>9. CASE UNCHANGED vars
  BY <1>9 DEF vars, placement, ArchivedByCall, Migrating, Active, Used
<1> QED BY <1>4, <1>5, <1>6, <1>7, <1>8, <1>9 DEF Next, Owns

(* When every call has returned, no migration has left its database        *)
(* archiving: whatever failed, it was reopened or placed.                  *)
THEOREM MigrationsReopen == Spec => []NotLeftArchiving
<1> DEFINE Inv == Base /\ (~Owner("archive") => ArchivedByCall)
<1>1. Init => Inv
  <2>1. Init => ArchivedByCall
    BY DEF Init, ArchivedByCall, Absent
  <2> QED BY <2>1, InitBase
<1>2. Inv /\ [Next]_vars => Inv'
  BY StepBase, StepArchived, StepSession DEF Owner
<1>3. Inv => NotLeftArchiving
  BY DEF ArchivedByCall, NotLeftArchiving, Quiet, Migrating, Active, Used
<1> QED BY <1>1, <1>2, <1>3, PTL DEF Spec
================================================================================
