---------------------------- MODULE Workbench_proofs ----------------------------
(***************************************************************************)
(* Proofs about Workbench, for any databases, tables, rows, page sizes and *)
(* kinds of session, with requests answered in any order.                  *)
(***************************************************************************)
EXTENDS Workbench, SequenceFacts

--------------------------------------------------------------------------------
(* Types, and what each kind of task may wait for.                         *)

AnyDb == Dbs \cup {NoDb}
Tables == 0..MaxTable
Descriptions == [db : AnyDb, table : Tables]
Drafts == [db : AnyDb, table : Tables, key : 0..MaxKey]
Images == [db : AnyDb, tables : SUBSET Names, rows : [Names -> Rows]]
Statements == [kind : {"none", "query", "create", "insert", "update", "delete"},
               table : Tables, key : 0..MaxKey]
Replies == [is : {"awaited", "ok", "failed"}, listed : [Dbs -> Statuses],
            tables : SUBSET Names, rows : Rows]

Sorted(i) == \A n \in Names : Increasing(i.rows[n])
StoreOK(s) == s \in Stores /\ \A d \in Dbs : Sorted(s[d])

Uis == [principal : BOOLEAN, databases : [AnyDb -> Statuses], databaseId : AnyDb,
        tables : SUBSET Names, tableName : Tables, limit : Limits,
        description : Descriptions, preview : Pages, selected : 0..MaxKey, draft : Drafts,
        snapshot : Images, loadState : {"loading", "ready", "error"}]

UiOK(u) == /\ u \in Uis /\ Sorted(u.snapshot)
           /\ u.databaseId # NoDb => u.principal
           /\ u.databases[NoDb] = "none"

Requests == {"list", "account", "resources", "table", "preview", "statement", "file", "create",
             "delete", "beginArchive", "finalizeArchive", "cancelArchive", "beginRestore",
             "finalizeRestore"}

Loads == {"resources", "table"}
Awaits == [effect |-> {"account"} \cup Loads, refresh |-> {"list"},
           create |-> {"create", "list"} \cup Loads, delete |-> {"delete", "list"},
           archive |-> {"beginArchive", "finalizeArchive", "list", "account"},
           cancelArchive |-> {"cancelArchive", "list", "account"},
           restore |-> {"beginRestore", "finalizeRestore", "list"} \cup Loads,
           selectTable |-> {"table"}, page |-> {"table"}, limit |-> {"preview"},
           row |-> {"statement"} \cup Loads, createTable |-> {"statement"} \cup Loads,
           sql |-> {"statement"} \cup Loads, loadDump |-> {"statement"} \cup Loads,
           loadArchive |-> {"file"}]

TaskSet == [op : Handlers, await : Requests, db : AnyDb, table : Tables, limit : Limits,
            target : Tables, offset : 0..MaxKey, statement : Statements, rest : Seq(Batches),
            image : Images, reply : Replies]

TaskOK(t) ==
  /\ t \in TaskSet /\ t.await \in Awaits[t.op] /\ Sorted(t.image)
  /\ t.reply.is = "awaited" => t.reply = NoReply
  /\ \/ t.db \in Dbs
     \/ t.op = "refresh"
     \/ t.await = "create" /\ t.reply.is # "ok"
  /\ t.await \in {"table", "preview"} => t.target \in Names
  /\ t.statement.kind = "create" => t.statement.table \in Names
  /\ t.op # "loadDump" => t.rest = <<>>

(* The control that starts a handler, which the user may then use.         *)
ControlOf(op) == IF op = "row" THEN "edit" ELSE op
Allowed(t) == t.op \in {"effect", "refresh"} \/ ControlOf(t.op) \in session.may

Base == /\ StoreOK(store) /\ UiOK(ui)
        /\ \A t \in DOMAIN tasks : TaskOK(t) /\ Allowed(t) /\ (t.op # "refresh" => ui.principal)
        /\ session \in Sessions /\ budget \in 0..session.ops

--------------------------------------------------------------------------------
(* Bags.  C is what B becomes when the tasks of R end, those of N start    *)
(* and the refresh effect of u starts if it fires.  A handler, unlike an   *)
(* effect, that was there once is there once or not at all.                *)

Only(B, R) == DOMAIN B = R /\ \A x \in R : B[x] = 1
Single(B, t) == Only(B, {t})
Once(B, t) == t \in DOMAIN B /\ B[t] = 1

EffectOf(u) ==
  Task(u, "effect", IF u.databases[u.databaseId] = "hot" THEN "resources" ELSE "account")

Fires(before, after, relisted) ==
  /\ \/ relisted
     \/ <<before.principal, before.databaseId, before.tableName, before.limit>>
        # <<after.principal, after.databaseId, after.tableName, after.limit>>
  /\ after.principal /\ after.databaseId # NoDb

Turn(B, R, N, C, u, fire) ==
  /\ \A e \in DOMAIN C : e \in DOMAIN B \/ e \in N \/ (fire /\ e = EffectOf(u))
  /\ DOMAIN B \ R \subseteq DOMAIN C /\ N \subseteq DOMAIN C
  /\ fire => EffectOf(u) \in DOMAIN C
  /\ Only(B, R) => /\ \A e \in DOMAIN C : e \in N \/ (fire /\ e = EffectOf(u))
                   /\ ~fire => Only(C, N)
  /\ \A e \in DOMAIN C : e.op # "effect" =>
       /\ e \notin N /\ Once(B, e) => Once(C, e) /\ e \notin R
       /\ e \in N /\ e \notin DOMAIN B => Once(C, e)

LEMMA EffectIsEffect ==
  ASSUME NEW u
  PROVE  EffectOf(u).op = "effect"
BY DEF EffectOf, Task

(* What is left of B without one copy of t.                                *)
LEMMA Removed ==
  ASSUME NEW B, NEW t, t \in DOMAIN B
  PROVE  /\ DOMAIN BagRemove(B, t) \subseteq DOMAIN B
         /\ DOMAIN B \ {t} \subseteq DOMAIN BagRemove(B, t)
         /\ Single(B, t) => Only(BagRemove(B, t), {})
         /\ \A e \in DOMAIN BagRemove(B, t) : Once(B, e) => e # t /\ Once(BagRemove(B, t), e)
<1>1. CASE B[t] = 1
  <2>1. BagRemove(B, t) = [e \in DOMAIN B \ {t} |-> B[e]]
    BY <1>1 DEF BagRemove
  <2> QED BY <2>1 DEF Single, Only, Once
<1>2. CASE B[t] # 1
  <2>1. BagRemove(B, t) = [e \in DOMAIN B |-> IF e = t THEN B[e] - 1 ELSE B[e]]
    BY <1>2 DEF BagRemove
  <2> QED BY <1>2, <2>1 DEF Single, Only, Once
<1> QED BY <1>1, <1>2

(* B and one more x.                                                       *)
LEMMA Added ==
  ASSUME NEW B, NEW x
  PROVE  /\ DOMAIN BagAdd(B, x) = DOMAIN B \cup {x}
         /\ Only(B, {}) => Single(BagAdd(B, x), x)
         /\ \A e : e # x /\ Once(B, e) => Once(BagAdd(B, x), e)
         /\ x \notin DOMAIN B => Once(BagAdd(B, x), x)
<1>1. CASE x \in DOMAIN B
  <2>1. BagAdd(B, x) = [e \in DOMAIN B |-> IF e = x THEN B[e] + 1 ELSE B[e]]
    BY <1>1 DEF BagAdd
  <2> QED BY <1>1, <2>1 DEF Only, Once
<1>2. CASE x \notin DOMAIN B
  <2>1. BagAdd(B, x) = [e \in DOMAIN B \cup {x} |-> IF e = x THEN 1 ELSE B[e]]
    BY <1>2 DEF BagAdd
  <2> QED BY <1>2, <2>1 DEF Only, Single, Once
<1> QED BY <1>1, <1>2

(* B and the effect of u, if it fires.                                     *)
LEMMA WithEffect ==
  ASSUME NEW B, NEW before, NEW u, NEW relisted,
         NEW C, C = B (+) refreshEffect(before, u, relisted)
  PROVE  /\ DOMAIN B \subseteq DOMAIN C
         /\ \A e \in DOMAIN C : e \in DOMAIN B \/ (Fires(before, u, relisted) /\ e = EffectOf(u))
         /\ Fires(before, u, relisted) => EffectOf(u) \in DOMAIN C
         /\ ~Fires(before, u, relisted) => \A N : Only(B, N) => Only(C, N)
         /\ \A e : e.op # "effect" /\ Once(B, e) => Once(C, e)
<1> DEFINE E == refreshEffect(before, u, relisted)
<1>1. DOMAIN C = DOMAIN B \cup DOMAIN E
  BY DEF (+)
<1>2. CASE Fires(before, u, relisted)
  <2>1. E = SetToBag({EffectOf(u)})
    BY <1>2 DEF Fires, refreshEffect, EffectOf
  <2>2. DOMAIN E = {EffectOf(u)}
    BY <2>1 DEF SetToBag
  <2>3. ASSUME NEW e, e.op # "effect", Once(B, e)
        PROVE  Once(C, e)
    <3>1. e \in DOMAIN B /\ e \notin DOMAIN E
      BY <2>2, <2>3, EffectIsEffect DEF Once
    <3>2. C[e] = B[e] + 0
      BY <1>1, <3>1 DEF (+)
    <3> QED BY <1>1, <2>3, <3>1, <3>2 DEF Once
  <2> QED BY <1>1, <1>2, <2>2, <2>3 DEF Only
<1>3. CASE ~Fires(before, u, relisted)
  <2>1. E = EmptyBag
    BY <1>3 DEF Fires, refreshEffect
  <2>2. DOMAIN E = {}
    BY <2>1 DEF EmptyBag, SetToBag
  <2>3. \A e \in DOMAIN B : C[e] = B[e] + 0
    BY <1>1, <2>2 DEF (+)
  <2>4. \A e : Once(B, e) => Once(C, e)
    BY <1>1, <2>3 DEF Once
  <2>5. \A N : Only(B, N) => Only(C, N)
    BY <1>1, <2>2, <2>4 DEF Only, Once
  <2> QED BY <1>1, <1>3, <2>2, <2>4, <2>5
<1> QED BY <1>2, <1>3

(* A task that goes on with x, one that ends, and one that starts.         *)
LEMMA GoesOn ==
  ASSUME NEW B, NEW t, t \in DOMAIN B, NEW x, NEW before, NEW u, NEW relisted,
         NEW C, C = BagAdd(BagRemove(B, t), x) (+) refreshEffect(before, u, relisted)
  PROVE  Turn(B, {t}, {x}, C, u, Fires(before, u, relisted))
<1> DEFINE R == BagRemove(B, t)
           A == BagAdd(R, x)
<1>1. /\ DOMAIN R \subseteq DOMAIN B /\ DOMAIN B \ {t} \subseteq DOMAIN R
      /\ Single(B, t) => Only(R, {})
      /\ \A e \in DOMAIN R : Once(B, e) => e # t /\ Once(R, e)
  BY Removed
<1>2. /\ DOMAIN A = DOMAIN R \cup {x} /\ (Only(R, {}) => Single(A, x))
      /\ \A e : e # x /\ Once(R, e) => Once(A, e)
      /\ x \notin DOMAIN R => Once(A, x)
  BY Added
<1>3. C = A (+) refreshEffect(before, u, relisted)
  OBVIOUS
<1> DEFINE F == Fires(before, u, relisted)
<1> HIDE DEF R, A
<1>4. /\ DOMAIN A \subseteq DOMAIN C
      /\ \A e \in DOMAIN C : e \in DOMAIN A \/ (F /\ e = EffectOf(u))
      /\ F => EffectOf(u) \in DOMAIN C
      /\ ~F => \A N : Only(A, N) => Only(C, N)
      /\ \A e : e.op # "effect" /\ Once(A, e) => Once(C, e)
  BY <1>3, WithEffect
<1> HIDE DEF F
<1>5. Only(B, {t}) => DOMAIN R = {} /\ Only(A, {x})
  BY <1>1, <1>2 DEF Only, Single
<1>6. Turn(B, {t}, {x}, C, u, F)
  BY <1>1, <1>2, <1>4, <1>5, EffectIsEffect DEF Turn
<1> QED BY <1>6 DEF F

LEMMA Ends ==
  ASSUME NEW B, NEW t, t \in DOMAIN B, NEW before, NEW u, NEW relisted,
         NEW C, C = BagRemove(B, t) (+) refreshEffect(before, u, relisted)
  PROVE  Turn(B, {t}, {}, C, u, Fires(before, u, relisted))
<1> DEFINE R == BagRemove(B, t)
<1>1. /\ DOMAIN R \subseteq DOMAIN B /\ DOMAIN B \ {t} \subseteq DOMAIN R
      /\ Single(B, t) => Only(R, {})
      /\ \A e \in DOMAIN R : Once(B, e) => e # t /\ Once(R, e)
  BY Removed
<1>2. C = R (+) refreshEffect(before, u, relisted)
  OBVIOUS
<1> HIDE DEF R
<1> QED BY <1>1, <1>2, WithEffect, EffectIsEffect DEF Turn, Only, Single

LEMMA Starts ==
  ASSUME NEW B, NEW x, NEW before, NEW u, NEW relisted,
         NEW C, C = BagAdd(B, x) (+) refreshEffect(before, u, relisted)
  PROVE  Turn(B, {}, {x}, C, u, Fires(before, u, relisted))
<1> DEFINE A == BagAdd(B, x)
<1>1. /\ DOMAIN A = DOMAIN B \cup {x} /\ (Only(B, {}) => Single(A, x))
      /\ \A e : e # x /\ Once(B, e) => Once(A, e)
      /\ x \notin DOMAIN B => Once(A, x)
  BY Added
<1>2. C = A (+) refreshEffect(before, u, relisted)
  OBVIOUS
<1> DEFINE F == Fires(before, u, relisted)
<1> HIDE DEF A
<1>3. /\ DOMAIN A \subseteq DOMAIN C
      /\ \A e \in DOMAIN C : e \in DOMAIN A \/ (F /\ e = EffectOf(u))
      /\ F => EffectOf(u) \in DOMAIN C
      /\ ~F => \A N : Only(A, N) => Only(C, N)
      /\ \A e : e.op # "effect" /\ Once(A, e) => Once(C, e)
  BY <1>2, WithEffect
<1> HIDE DEF F
<1>4. Only(B, {}) => DOMAIN B = {} /\ Only(A, {x})
  BY <1>1 DEF Only, Single
<1>5. Turn(B, {}, {x}, C, u, F)
  BY <1>1, <1>3, <1>4, EffectIsEffect DEF Turn
<1> QED BY <1>5 DEF F

LEMMA Stays ==
  ASSUME NEW B, NEW before, NEW u, NEW relisted,
         NEW C, C = B (+) refreshEffect(before, u, relisted)
  PROVE  Turn(B, {}, {}, C, u, Fires(before, u, relisted))
BY WithEffect, EffectIsEffect DEF Turn, Only

LEMMA Answers ==
  ASSUME NEW B, NEW t, t \in DOMAIN B, NEW x, NEW C, C = BagAdd(BagRemove(B, t), x), NEW u
  PROVE  Turn(B, {t}, {x}, C, u, FALSE)
<1> DEFINE R == BagRemove(B, t)
<1>1. /\ DOMAIN R \subseteq DOMAIN B /\ DOMAIN B \ {t} \subseteq DOMAIN R
      /\ Single(B, t) => Only(R, {})
      /\ \A e \in DOMAIN R : Once(B, e) => e # t /\ Once(R, e)
  BY Removed
<1>2. /\ DOMAIN C = DOMAIN R \cup {x} /\ (Only(R, {}) => Single(C, x))
      /\ \A e : e # x /\ Once(R, e) => Once(C, e)
      /\ x \notin DOMAIN R => Once(C, x)
  BY Added
<1> HIDE DEF R
<1> QED BY <1>1, <1>2 DEF Turn, Only, Single

--------------------------------------------------------------------------------
(* Rows.                                                                   *)

LEMMA RowsAreSequences ==
  ASSUME NEW s
  PROVE  s \in Rows <=> s \in Seq(Keys) /\ Len(s) <= MaxKey
<1>1. MaxKey \in Nat
  BY Bounds
<1>2. ASSUME s \in Rows
      PROVE  s \in Seq(Keys) /\ Len(s) <= MaxKey
  <2>1. PICK n \in 0..MaxKey : s \in [1..n -> Keys]
    BY <1>2 DEF Rows
  <2> QED BY <2>1, <1>1
<1>3. ASSUME s \in Seq(Keys), Len(s) <= MaxKey
      PROVE  s \in Rows
  <2>1. Len(s) \in 0..MaxKey /\ s \in [1..Len(s) -> Keys]
    BY <1>3, <1>1
  <2> QED BY <2>1 DEF Rows
<1> QED BY <1>2, <1>3

(* Keys that increase are at most MaxKey.                                  *)
LEMMA SortedRowsAreShort ==
  ASSUME NEW s \in Seq(Keys), Increasing(s)
  PROVE  s \in Rows
<1>1. MaxKey \in Nat /\ s \in Seq(1..MaxKey)
  BY Bounds DEF Keys
<1>2. Len(s) <= MaxKey
  BY <1>1, IncreasingIsShort DEF Increasing
<1> QED BY <1>2, RowsAreSequences

LEMMA InsertedRows ==
  ASSUME NEW s \in Rows, Increasing(s), NextKey(s) \in Keys
  PROVE  Append(s, NextKey(s)) \in Rows /\ Increasing(Append(s, NextKey(s)))
<1> DEFINE k == NextKey(s)
           r == Append(s, k)
<1>1. s \in Seq(Keys) /\ Len(s) \in Nat /\ DOMAIN s = 1..Len(s)
  BY RowsAreSequences, LenProperties
<1>2. /\ r \in Seq(Keys) /\ Len(r) = Len(s) + 1 /\ DOMAIN r = 1..(Len(s) + 1)
      /\ (\A i \in 1..Len(s) : r[i] = s[i]) /\ r[Len(s) + 1] = k
  BY <1>1, AppendProperties
<1>3. \A i \in 1..Len(s) : s[i] < k
  <2>1. SUFFICES ASSUME NEW i \in 1..Len(s)
                 PROVE  s[i] < k
    OBVIOUS
  <2>2. s # <<>> /\ Len(s) \in 1..Len(s)
    BY <1>1, <2>1
  <2>3. k = s[Len(s)] + 1
    BY <2>2 DEF NextKey, Last
  <2>4. i < Len(s) => s[i] < s[Len(s)]
    BY <1>1, <2>2 DEF Increasing
  <2>5. s[i] \in Keys /\ s[Len(s)] \in Keys
    BY <1>1, <2>2, ElementOfSeq
  <2> QED BY <1>1, <2>3, <2>4, <2>5 DEF Keys
<1>4. Increasing(r)
  <2>1. SUFFICES ASSUME NEW i \in 1..(Len(s) + 1), NEW j \in 1..(Len(s) + 1), i < j
                 PROVE  r[i] < r[j]
    BY <1>2 DEF Increasing
  <2>2. i \in 1..Len(s)
    BY <1>1, <2>1
  <2>3. CASE j = Len(s) + 1
    BY <1>2, <1>3, <2>2, <2>3
  <2>4. CASE j # Len(s) + 1
    <3>1. j \in 1..Len(s)
      BY <1>1, <2>4
    <3> QED BY <1>1, <1>2, <2>1, <2>2, <3>1 DEF Increasing
  <2> QED BY <2>3, <2>4
<1> QED BY <1>2, <1>4, SortedRowsAreShort

LEMMA RemainingRows ==
  ASSUME NEW s \in Rows, Increasing(s), NEW k
  PROVE  RemoveFirst(s, k) \in Rows /\ Increasing(RemoveFirst(s, k))
<1>1. s \in Seq(Keys) /\ Len(s) \in Nat /\ DOMAIN s = 1..Len(s)
  BY RowsAreSequences, LenProperties
<1>2. CASE RemoveFirst(s, k) = s
  BY <1>2
<1>3. CASE RemoveFirst(s, k) # s
  <2>1. PICK p \in 1..Len(s) : RemoveFirst(s, k) = RemoveAt(s, p)
    BY <1>1, <1>3, RemoveFirstProperties
  <2> DEFINE r == RemoveAt(s, p)
  <2>2. /\ r \in Seq(Keys) /\ Len(r) = Len(s) - 1
        /\ \A i \in 1..(Len(s) - 1) : r[i] = s[IF i < p THEN i ELSE i + 1]
    BY <1>1, RemoveAtProperties
  <2> HIDE DEF r
  <2>3. DOMAIN r = 1..(Len(s) - 1)
    BY <2>2, <1>1, LenProperties
  <2>4. Increasing(r)
    <3>1. SUFFICES ASSUME NEW i \in 1..(Len(s) - 1), NEW j \in 1..(Len(s) - 1), i < j
                   PROVE  r[i] < r[j]
      BY <2>3 DEF Increasing
    <3> DEFINE a == IF i < p THEN i ELSE i + 1
               b == IF j < p THEN j ELSE j + 1
    <3>2. a \in 1..Len(s) /\ b \in 1..Len(s) /\ a < b
      BY <1>1, <3>1
    <3>3. r[i] = s[a] /\ r[j] = s[b]
      BY <2>2
    <3> HIDE DEF a, b
    <3> QED BY <1>1, <3>2, <3>3 DEF Increasing
  <2> QED BY <2>1, <2>2, <2>4, SortedRowsAreShort DEF r
<1> QED BY <1>2, <1>3

(* A page is rows of the table.                                            *)
LEMMA PageIsRows ==
  ASSUME StoreOK(store), NEW d \in Dbs, NEW n \in Names, NEW offset \in Nat, NEW limit \in Nat
  PROVE  Page(d, n, offset, limit) \in Rows
<1> DEFINE s == store[d].rows[n]
           last == IF offset + limit < Len(s) THEN offset + limit ELSE Len(s)
<1>1. s \in Rows
  BY DEF StoreOK, Stores
<1>2. s \in Seq(Keys) /\ Len(s) \in Nat /\ Len(s) <= MaxKey
  BY <1>1, RowsAreSequences, LenProperties
<1>3. Page(d, n, offset, limit) = SubSeq(s, offset + 1, last)
  BY DEF Page
<1> HIDE DEF s
<1>4. last \in Nat /\ last <= Len(s)
  BY <1>2
<1>5. \A i \in (offset + 1)..last : s[i] \in Keys
  <2>1. \A i \in (offset + 1)..last : i \in 1..Len(s)
    BY <1>2, <1>4
  <2> QED BY <2>1, <1>2, ElementOfSeq
<1> HIDE DEF last
<1> DEFINE p == SubSeq(s, offset + 1, last)
<1>6. /\ p \in Seq(Keys)
      /\ Len(p) = IF offset + 1 <= last THEN last - (offset + 1) + 1 ELSE 0
  BY <1>4, <1>5, SubSeqProperties
<1> HIDE DEF p
<1>7. Len(p) <= MaxKey
  BY <1>2, <1>4, <1>6, Bounds
<1> QED BY <1>3, <1>6, <1>7, RowsAreSequences DEF p

--------------------------------------------------------------------------------
(* The React state.                                                        *)

(* v differs from u in the load state and the row editor at most.          *)
Same(u, v) ==
  /\ v.principal = u.principal /\ v.databases = u.databases /\ v.databaseId = u.databaseId
  /\ v.tables = u.tables /\ v.tableName = u.tableName /\ v.limit = u.limit
  /\ v.description = u.description /\ v.preview = u.preview /\ v.snapshot = u.snapshot

LEMMA NothingIsTyped ==
  /\ NoPreview \in Pages /\ NoDescription \in Descriptions /\ NoRow \in Drafts
  /\ NoImage \in Images /\ Sorted(NoImage) /\ NoReply \in Replies /\ NoStatement \in Statements
  /\ NoTable \in Tables /\ 0 \in 0..MaxKey /\ <<>> \in Rows /\ <<>> \in Seq(Batches)
<1>1. MaxTable \in Nat /\ MaxKey \in Nat
  BY Bounds
<1>2. <<>> \in Rows /\ Increasing(<<>>)
  <2>1. <<>> \in Seq(Keys) /\ Len(<<>>) = 0
    BY EmptySeq
  <2>2. \A i \in DOMAIN <<>> : FALSE
    OBVIOUS
  <2>3. <<>> \in Rows
    <3> DEFINE empty == <<>>
    <3>1. empty \in Seq(Keys) /\ Len(empty) <= MaxKey
      BY <1>1, <2>1
    <3> HIDE DEF empty
    <3>2. empty \in Rows
      BY <3>1, RowsAreSequences
    <3> QED BY <3>2 DEF empty
  <2>4. Increasing(<<>>)
    BY <2>2 DEF Increasing
  <2> QED BY <2>3, <2>4
<1>3. NoPreview \in Pages
  BY <1>1, <1>2 DEF NoPreview, Pages, NoTable
<1>4. NoImage \in Images /\ Sorted(NoImage)
  BY <1>2 DEF NoImage, Images, Sorted, AnyDb
<1>5. NoReply \in Replies
  BY <1>2 DEF NoReply, Replies, Statuses
<1> QED BY <1>1, <1>2, <1>3, <1>4, <1>5
        DEF NoDescription, Descriptions, NoRow, Drafts, NoStatement, Statements, NoTable, Tables,
            AnyDb

LEMMA Touched ==
  ASSUME NEW u, UiOK(u)
  PROVE  /\ UiOK(Loading(u)) /\ Same(u, Loading(u))
         /\ UiOK(Ready(u)) /\ Same(u, Ready(u))
         /\ UiOK(resetRowEditor(u)) /\ Same(u, resetRowEditor(u))
<1>1. u \in Uis
  BY DEF UiOK
<1>2. Loading(u) \in Uis /\ Same(u, Loading(u))
  BY <1>1 DEF Loading, Uis, Same
<1>3. Ready(u) \in Uis /\ Same(u, Ready(u))
  BY <1>1 DEF Ready, Uis, Same
<1>4. resetRowEditor(u) \in Uis /\ Same(u, resetRowEditor(u))
  BY <1>1, NothingIsTyped DEF resetRowEditor, Uis, Same
<1> QED BY <1>2, <1>3, <1>4 DEF UiOK, Same

LEMMA Finished ==
  ASSUME NEW u, UiOK(u), NEW t, NEW v, v = Finish(t, u)
  PROVE  UiOK(v) /\ Same(u, v)
<1>1. CASE t.op = "effect"
  BY <1>1 DEF Finish, Same
<1>2. CASE t.op # "effect" /\ t.op \in {"row", "page"}
  <2>1. v = Ready(resetRowEditor(u))
    BY <1>2 DEF Finish
  <2> QED BY <2>1, Touched DEF Same
<1>3. CASE t.op # "effect" /\ t.op \notin {"row", "page"}
  <2>1. v = Ready(u)
    BY <1>3 DEF Finish
  <2> QED BY <2>1, Touched
<1> QED BY <1>1, <1>2, <1>3

LEMMA Emptied ==
  ASSUME NEW u, UiOK(u), NEW v, v = clearTable(u)
  PROVE  /\ UiOK(v)
         /\ v.principal = u.principal /\ v.databases = u.databases /\ v.databaseId = u.databaseId
         /\ v.limit = u.limit /\ v.snapshot = u.snapshot /\ v.tables = u.tables
         /\ v.tableName = NoTable /\ v.description = NoDescription /\ v.preview = NoPreview
<1>1. u \in Uis
  BY DEF UiOK
<1>2. v = [u EXCEPT !.tableName = NoTable, !.description = NoDescription, !.preview = NoPreview]
  BY DEF clearTable
<1>3. v \in Uis
  BY <1>1, <1>2, NothingIsTyped DEF Uis
<1> QED BY <1>1, <1>2, <1>3 DEF UiOK, Uis

LEMMA Wiped ==
  ASSUME NEW u, UiOK(u), NEW v, v = clearTableState(u)
  PROVE  /\ UiOK(v)
         /\ v.principal = u.principal /\ v.databases = u.databases /\ v.databaseId = u.databaseId
         /\ v.limit = u.limit /\ v.snapshot = u.snapshot /\ v.tables = {}
         /\ v.tableName = NoTable /\ v.description = NoDescription /\ v.preview = NoPreview
<1> DEFINE c == clearTable(u)
           w == [c EXCEPT !.tables = {}]
<1>1. /\ UiOK(c)
      /\ c.principal = u.principal /\ c.databases = u.databases /\ c.databaseId = u.databaseId
      /\ c.limit = u.limit /\ c.snapshot = u.snapshot
      /\ c.tableName = NoTable /\ c.description = NoDescription /\ c.preview = NoPreview
  BY Emptied
<1>2. v = resetRowEditor(w)
  BY DEF clearTableState
<1> HIDE DEF c
<1>3. c \in Uis
  BY <1>1 DEF UiOK
<1>4. w \in Uis
  BY <1>3 DEF Uis
<1>5. /\ UiOK(w) /\ w.principal = c.principal /\ w.databases = c.databases
      /\ w.databaseId = c.databaseId /\ w.limit = c.limit /\ w.snapshot = c.snapshot
      /\ w.tables = {} /\ w.tableName = c.tableName /\ w.description = c.description
      /\ w.preview = c.preview
  BY <1>1, <1>3, <1>4 DEF UiOK, Uis
<1> HIDE DEF w
<1> QED BY <1>1, <1>2, <1>5, Touched DEF Same

--------------------------------------------------------------------------------
(* What a request is answered: a step that serves t replaces it by x, which *)
(* is refused (for a reason, or because requests may fail) or granted.  An *)
(* update that was applied may be heard of as a failure: its answer is lost.*)

Hot(d) == store[d].status = "hot"

Alike(t, x) ==
  /\ x.op = t.op /\ x.await = t.await /\ x.table = t.table /\ x.limit = t.limit
  /\ x.target = t.target /\ x.offset = t.offset /\ x.statement = t.statement
  /\ x.rest = t.rest

Denied(t, x) ==
  /\ x.reply.is = "failed" /\ x.db = t.db /\ x.image = t.image
  /\ UNCHANGED store
  /\ \/ session.failing
     \/ t.await = "resources" /\ ~Hot(t.db)
     \/ t.await \in {"table", "preview"} /\ ~(Hot(t.db) /\ t.target \in store[t.db].tables)
     \/ t.await = "statement" /\ ~Accepts(t.db, t.statement)
     \/ t.await \in DOMAIN Moves /\ store[t.db].status \notin Moves[t.await][1]
     \/ t.await \in {"create", "file"}

GrantedRead(t, x) ==
  /\ UNCHANGED store
  /\ x.db = t.db /\ x.image = t.image
  /\ \/ t.await = "list" /\ x.reply.listed = [d \in Dbs |-> store[d].status]
     \/ t.await \in {"account", "file"}
     \/ t.await = "resources" /\ Hot(t.db) /\ x.reply.tables = store[t.db].tables
     \/ /\ t.await \in {"table", "preview"} /\ Hot(t.db) /\ t.target \in store[t.db].tables
        /\ x.reply.rows = Page(t.db, t.target, t.offset, t.limit)

GrantedStatement(t, x) ==
  /\ t.await = "statement" /\ Accepts(t.db, t.statement)
  /\ store' = Execute(t.db, t.statement)
  /\ x.db = t.db /\ x.image = t.image

GrantedMove(t, x) ==
  /\ t.await \in DOMAIN Moves /\ store[t.db].status \in Moves[t.await][1]
  /\ store' = [store EXCEPT ![t.db].status = Moves[t.await][2]]
  /\ x.db = t.db /\ x.image = IF t.await = "beginArchive" THEN ImageOf(t.db) ELSE t.image

GrantedRestore(t, x) ==
  /\ t.await = "finalizeRestore"
  /\ store' = [store EXCEPT ![t.db] =
                 [status |-> "hot", tables |-> t.image.tables, rows |-> t.image.rows]]
  /\ x.db = t.db /\ x.image = t.image

GrantedCreate(t, x) ==
  /\ t.await = "create" /\ x.db \in Dbs /\ store[x.db].status = "none"
  /\ store' = [store EXCEPT ![x.db].status = "hot"]
  /\ x.image = t.image

Applied(t, x) == \/ GrantedStatement(t, x) \/ GrantedMove(t, x)
                 \/ GrantedRestore(t, x) \/ GrantedCreate(t, x)

(* How x hears of an update that was applied.                              *)
Told(t, x) == x.reply.is = "ok" \/ (x.reply.is = "failed" /\ t.await \in session.loses)

Granted(t, x) == \/ x.reply.is = "ok" /\ GrantedRead(t, x)
                 \/ Told(t, x) /\ Applied(t, x)

Served(t, x) ==
  /\ t.reply = NoReply /\ TaskOK(x) /\ Alike(t, x)
  /\ Turn(tasks, {t}, {x}, tasks', ui, FALSE)
  /\ Denied(t, x) \/ Granted(t, x)
  /\ StoreOK(store')

LEMMA Replied ==
  ASSUME NEW t, TaskOK(t), NEW r \in Replies, r.is \in {"ok", "failed"},
         t.await = "create" => r.is # "ok" \/ t.db \in Dbs,
         NEW x, x = [t EXCEPT !.reply = r]
  PROVE  TaskOK(x) /\ Alike(t, x) /\ x.reply = r /\ x.db = t.db /\ x.image = t.image
<1>1. t \in TaskSet
  BY DEF TaskOK
<1>2. /\ x \in TaskSet /\ Alike(t, x) /\ x.reply = r /\ x.db = t.db /\ x.image = t.image
  BY <1>1 DEF TaskSet, Alike
<1> QED BY <1>2 DEF TaskOK, Alike

(* The reply of a request that was granted, or refused, for the reason why.*)
LEMMA RepliesTyped ==
  /\ Refused \in Replies /\ Refused.is = "failed" /\ Done \in Replies /\ Done.is = "ok"
  /\ \A l \in [Dbs -> Statuses] : /\ [Done EXCEPT !.listed = l] \in Replies
                                  /\ [Done EXCEPT !.listed = l].is = "ok"
                                  /\ [Done EXCEPT !.listed = l].listed = l
  /\ \A n \in SUBSET Names : /\ [Done EXCEPT !.tables = n] \in Replies
                             /\ [Done EXCEPT !.tables = n].is = "ok"
                             /\ [Done EXCEPT !.tables = n].tables = n
  /\ \A p \in Rows : /\ [Done EXCEPT !.rows = p] \in Replies
                     /\ [Done EXCEPT !.rows = p].is = "ok"
                     /\ [Done EXCEPT !.rows = p].rows = p
<1>1. NoReply \in Replies
  BY NothingIsTyped
<1>2. Refused \in Replies /\ Refused.is = "failed" /\ Done \in Replies /\ Done.is = "ok"
  BY <1>1 DEF Refused, Done, Replies
<1> QED BY <1>2 DEF Replies

(* What the reply is does not depend on the rest of the task.              *)
LEMMA ReplyOf ==
  ASSUME NEW t, TaskOK(t), NEW r, NEW x, x = [t EXCEPT !.reply = r]
  PROVE  x.reply = r /\ x.db = t.db /\ x.image = t.image /\ x.await = t.await
<1>1. t \in TaskSet
  BY DEF TaskOK
<1> QED BY <1>1 DEF TaskSet

(* Only the answer to an update is lost, and a refusal is one.             *)
LEMMA OnlyUpdatesAreLost ==
  ASSUME Base
  PROVE  session.loses \subseteq Updates
BY Bounds DEF Base

LEMMA AnswerServes ==
  ASSUME Base, NEW t \in DOMAIN tasks, t.reply = NoReply,
         NEW r \in Replies, r.is \in {"ok", "failed"}, t.await = "create" => r.is # "ok",
         r = Refused \/ t.await \notin Updates,
         Answer(t, r), UNCHANGED store, NEW x, x = [t EXCEPT !.reply = r],
         Denied(t, x) \/ Granted(t, x)
  PROVE  Served(t, x)
<1>1. TaskOK(t)
  BY DEF Base
<1>2. TaskOK(x) /\ Alike(t, x)
  BY <1>1, Replied
<1>3. PICK heard \in Heard(t, r) : tasks' = BagAdd(Others(t), [t EXCEPT !.reply = heard])
  BY DEF Answer, AnswerWith
<1>4. heard = r
  BY <1>3, OnlyUpdatesAreLost DEF Heard
<1>5. Turn(tasks, {t}, {x}, tasks', ui, FALSE)
  BY <1>3, <1>4, Answers DEF Others
<1>6. StoreOK(store')
  BY DEF Base
<1> QED BY <1>2, <1>5, <1>6 DEF Served

(* An update that was applied is answered, and the answer is heard or lost.*)
LEMMA UpdateServes ==
  ASSUME Base, NEW t \in DOMAIN tasks, t.reply = NoReply, NEW y, TaskOK(y), Alike(t, y),
         t.await = "create" => y.db \in Dbs, AnswerWith(t, y, Done), Applied(t, y),
         StoreOK(store')
  PROVE  \E x : Served(t, x)
<1>1. PICK heard \in Heard(t, Done) : tasks' = BagAdd(Others(t), [y EXCEPT !.reply = heard])
  BY DEF AnswerWith
<1> DEFINE x == [y EXCEPT !.reply = heard]
<1>2. /\ heard \in Replies /\ heard.is \in {"ok", "failed"}
      /\ heard.is = "failed" => t.await \in session.loses
  BY <1>1, RepliesTyped DEF Heard
<1>3. y.await = t.await
  BY DEF Alike
<1>4. TaskOK(x) /\ Alike(y, x) /\ x.reply = heard /\ x.db = y.db /\ x.image = y.image
  BY <1>2, <1>3, Replied
<1>5. Turn(tasks, {t}, {x}, tasks', ui, FALSE)
  BY <1>1, Answers DEF Others
<1> HIDE DEF x
<1>6. Alike(t, x)
  BY <1>4 DEF Alike
<1>7. Told(t, x) /\ Applied(t, x)
  BY <1>2, <1>4
     DEF Told, Applied, GrantedStatement, GrantedMove, GrantedRestore, GrantedCreate
<1> QED BY <1>4, <1>5, <1>6, <1>7 DEF Served, Granted

LEMMA ReadServes ==
  ASSUME Base, NEW t \in DOMAIN tasks, Read(t)
  PROVE  \E x : Served(t, x)
<1>1. TaskOK(t) /\ t \in TaskSet /\ StoreOK(store)
  BY DEF Base, TaskOK
<1>2. CASE Waiting(t, "list") /\ Answer(t, [Done EXCEPT !.listed = [d \in Dbs |-> store[d].status]])
  <2> DEFINE l == [d \in Dbs |-> store[d].status]
             r == [Done EXCEPT !.listed = l]
             x == [t EXCEPT !.reply = r]
  <2>1. l \in [Dbs -> Statuses]
    BY <1>1 DEF StoreOK, Stores
  <2>2. r \in Replies /\ r.is = "ok" /\ r.listed = l
    BY <2>1, RepliesTyped
  <2>3. x.reply = r /\ x.db = t.db /\ x.image = t.image
    BY <1>1, ReplyOf
  <2>4. Granted(t, x)
    BY <1>2, <2>2, <2>3 DEF Granted, GrantedRead, Waiting, Read
  <2> QED BY <1>2, <2>2, <2>4, AnswerServes DEF Waiting, Read, Updates
<1>3. CASE Waiting(t, "account") /\ Answer(t, Done)
  <2> DEFINE x == [t EXCEPT !.reply = Done]
  <2>1. x.reply = Done /\ x.db = t.db /\ x.image = t.image
    BY <1>1, ReplyOf
  <2>2. Granted(t, x)
    BY <1>3, <2>1, RepliesTyped DEF Granted, GrantedRead, Waiting, Read
  <2> QED BY <1>3, <2>2, RepliesTyped, AnswerServes DEF Waiting, Read, Updates
<1>4. CASE Waiting(t, "resources") /\ Answer(t, IF store[t.db].status = "hot"
                     THEN [Done EXCEPT !.tables = store[t.db].tables] ELSE Refused)
  <2>0. t.db \in Dbs
    BY <1>1, <1>4 DEF TaskOK, Waiting, Awaits
  <2>1. CASE Hot(t.db)
    <3> DEFINE r == [Done EXCEPT !.tables = store[t.db].tables]
               x == [t EXCEPT !.reply = r]
    <3>1. store[t.db].tables \in SUBSET Names
      BY <1>1, <2>0 DEF StoreOK, Stores
    <3>2. r \in Replies /\ r.is = "ok" /\ r.tables = store[t.db].tables
      BY <3>1, RepliesTyped
    <3>3. x.reply = r /\ x.db = t.db /\ x.image = t.image
      BY <1>1, ReplyOf
    <3>4. Granted(t, x)
      BY <1>4, <2>1, <3>2, <3>3 DEF Granted, GrantedRead, Waiting, Read
    <3> QED BY <1>4, <2>1, <3>2, <3>4, AnswerServes DEF Waiting, Read, Hot, Updates
  <2>2. CASE ~Hot(t.db)
    <3> DEFINE x == [t EXCEPT !.reply = Refused]
    <3>1. x.reply = Refused /\ x.db = t.db /\ x.image = t.image
      BY <1>1, ReplyOf
    <3>2. Denied(t, x)
      BY <1>4, <2>2, <3>1, RepliesTyped DEF Denied, Waiting, Read
    <3> QED BY <1>4, <2>2, <3>2, RepliesTyped, AnswerServes DEF Waiting, Read, Hot, Updates
  <2> QED BY <2>1, <2>2
<1>5. CASE /\ t.await \in {"table", "preview"} /\ t.reply = NoReply
           /\ Answer(t, IF store[t.db].status = "hot" /\ t.target \in store[t.db].tables
                        THEN [Done EXCEPT !.rows = Page(t.db, t.target, t.offset, t.limit)]
                        ELSE Refused)
  <2>0. /\ t.db \in Dbs /\ t.target \in Names /\ t.offset \in Nat /\ t.limit \in Nat
    BY <1>1, <1>5, Bounds DEF TaskOK, TaskSet, Awaits
  <2>1. CASE Hot(t.db) /\ t.target \in store[t.db].tables
    <3> DEFINE p == Page(t.db, t.target, t.offset, t.limit)
               r == [Done EXCEPT !.rows = p]
               x == [t EXCEPT !.reply = r]
    <3>1. p \in Rows
      BY <1>1, <2>0, PageIsRows
    <3>2. r \in Replies /\ r.is = "ok" /\ r.rows = p
      BY <3>1, RepliesTyped
    <3>3. x.reply = r /\ x.db = t.db /\ x.image = t.image
      BY <1>1, ReplyOf
    <3>4. Granted(t, x)
      BY <1>5, <2>1, <3>2, <3>3 DEF Granted, GrantedRead, Read
    <3> QED BY <1>5, <2>1, <3>2, <3>4, AnswerServes DEF Read, Hot, Updates
  <2>2. CASE ~(Hot(t.db) /\ t.target \in store[t.db].tables)
    <3> DEFINE x == [t EXCEPT !.reply = Refused]
    <3>1. x.reply = Refused /\ x.db = t.db /\ x.image = t.image
      BY <1>1, ReplyOf
    <3>2. Denied(t, x)
      BY <1>5, <2>2, <3>1, RepliesTyped DEF Denied, Read
    <3> QED BY <1>5, <2>2, <3>2, RepliesTyped, AnswerServes DEF Read, Hot, Updates
  <2> QED BY <2>1, <2>2
<1> QED BY <1>2, <1>3, <1>4, <1>5 DEF Read

(* A statement changes the rows of one table, or adds one, of its database.*)
LEMMA Executed ==
  ASSUME StoreOK(store), NEW d \in Dbs, NEW s \in Statements,
         s.kind = "create" => s.table \in Names, Accepts(d, s), NEW z, z = Execute(d, s)
  PROVE  /\ StoreOK(z)
         /\ \A e \in Dbs : z[e].status = store[e].status /\ store[e].tables \subseteq z[e].tables
         /\ \A e \in Dbs \ {d} : z[e] = store[e]
<1>1. store \in Stores /\ \A e \in Dbs : Sorted(store[e])
  BY DEF StoreOK
<1>2. s.kind \in {"insert", "update", "delete"} => s.table \in Names
  BY <1>1 DEF Accepts, Stores
<1>3. CASE s.kind = "create"
  <2>1. z = [store EXCEPT ![d].tables = @ \union {s.table}]
    BY <1>3 DEF Execute
  <2>2. z \in Stores
    BY <1>1, <1>3, <2>1 DEF Stores
  <2>3. /\ \A e \in Dbs : /\ z[e].status = store[e].status /\ z[e].rows = store[e].rows
                          /\ store[e].tables \subseteq z[e].tables
        /\ \A e \in Dbs \ {d} : z[e] = store[e]
    BY <1>1, <1>3, <2>1 DEF Stores
  <2> QED BY <1>1, <2>2, <2>3 DEF StoreOK, Sorted
<1>4. ASSUME NEW r \in Rows, Increasing(r), s.table \in Names,
             z = [store EXCEPT ![d].rows[s.table] = r]
      PROVE  /\ StoreOK(z)
             /\ \A e \in Dbs : z[e].status = store[e].status /\ z[e].tables = store[e].tables
             /\ \A e \in Dbs \ {d} : z[e] = store[e]
  <2> DEFINE w == [store[d].rows EXCEPT ![s.table] = r]
             y == [store[d] EXCEPT !.rows = w]
             State == [status : Statuses, tables : SUBSET Names, rows : [Names -> Rows]]
  <2>1. store \in [Dbs -> State]
    BY <1>1 DEF Stores
  <2>2. w \in [Names -> Rows]
    BY <1>4, <2>1
  <2>3. z = [store EXCEPT ![d] = y]
    BY <1>4
  <2> HIDE DEF w
  <2>4. y \in State
    BY <2>1, <2>2
  <2> HIDE DEF y, State
  <2>5. z \in Stores
    BY <2>1, <2>3, <2>4 DEF Stores, State
  <2>6. /\ \A e \in Dbs : /\ z[e].status = store[e].status /\ z[e].tables = store[e].tables
        /\ \A e \in Dbs \ {d} : z[e] = store[e]
        /\ \A n \in Names : z[d].rows[n] = IF n = s.table THEN r ELSE store[d].rows[n]
    BY <1>1, <1>4 DEF Stores
  <2>7. \A e \in Dbs : Sorted(z[e])
    BY <1>1, <1>4, <2>6 DEF Sorted
  <2> QED BY <2>5, <2>6, <2>7 DEF StoreOK
<1>5. CASE s.kind = "insert"
  <2> DEFINE r == store[d].rows[s.table]
             q == IF NextKey(r) \in Keys THEN Append(r, NextKey(r)) ELSE r
  <2>1. s.table \in Names /\ r \in Rows /\ Increasing(r)
    BY <1>1, <1>2, <1>5 DEF Stores, Sorted
  <2>2. q \in Rows /\ Increasing(q)
    BY <2>1, InsertedRows
  <2>3. z = [store EXCEPT ![d].rows[s.table] = q]
    BY <1>1, <1>5, <2>1 DEF Execute, Stores
  <2> HIDE DEF q
  <2> QED BY <1>4, <2>1, <2>2, <2>3
<1>6. CASE s.kind = "delete"
  <2> DEFINE r == store[d].rows[s.table]
             q == RemoveFirst(r, s.key)
  <2>1. s.table \in Names /\ r \in Rows /\ Increasing(r)
    BY <1>1, <1>2, <1>6 DEF Stores, Sorted
  <2>2. q \in Rows /\ Increasing(q)
    BY <2>1, RemainingRows
  <2>3. z = [store EXCEPT ![d].rows[s.table] = q]
    BY <1>1, <1>6, <2>1 DEF Execute, Stores
  <2> HIDE DEF q
  <2> QED BY <1>4, <2>1, <2>2, <2>3
<1>7. CASE s.kind \notin {"create", "insert", "delete"}
  <2>1. z = store
    BY <1>7 DEF Execute
  <2> QED BY <1>1, <2>1 DEF StoreOK
<1> QED BY <1>3, <1>5, <1>6, <1>7

LEMMA StatementServes ==
  ASSUME Base, NEW t \in DOMAIN tasks, WriteStatement(t)
  PROVE  \E x : Served(t, x)
<1>1. TaskOK(t) /\ t \in TaskSet /\ StoreOK(store)
  BY DEF Base, TaskOK
<1>2. t.reply = NoReply /\ t.await = "statement"
  BY DEF WriteStatement, Waiting
<1>3. /\ t.db \in Dbs /\ t.statement \in Statements
      /\ t.statement.kind = "create" => t.statement.table \in Names
  BY <1>1, <1>2 DEF TaskOK, TaskSet, Awaits
<1>4. CASE Accepts(t.db, t.statement)
  <2>1. store' = Execute(t.db, t.statement) /\ AnswerWith(t, t, Done)
    BY <1>4 DEF WriteStatement, Answer
  <2>2. Applied(t, t)
    BY <1>2, <1>4, <2>1 DEF Applied, GrantedStatement
  <2>3. StoreOK(store')
    BY <1>1, <1>3, <1>4, <2>1, Executed
  <2>4. Alike(t, t) /\ t.await # "create"
    BY <1>2 DEF Alike
  <2> QED BY <1>1, <1>2, <2>1, <2>2, <2>3, <2>4, UpdateServes
<1>5. CASE ~Accepts(t.db, t.statement)
  <2> DEFINE x == [t EXCEPT !.reply = Refused]
  <2>1. UNCHANGED store /\ Answer(t, Refused)
    BY <1>5 DEF WriteStatement
  <2>2. x.reply = Refused /\ x.db = t.db /\ x.image = t.image
    BY <1>1, ReplyOf
  <2>3. Denied(t, x)
    BY <1>2, <1>5, <2>1, <2>2, RepliesTyped DEF Denied
  <2> QED BY <1>2, <2>1, <2>3, RepliesTyped, AnswerServes
<1> QED BY <1>4, <1>5

LEMMA MovesOf ==
  /\ DOMAIN Moves = {"delete", "beginArchive", "finalizeArchive", "cancelArchive", "beginRestore"}
  /\ Moves["delete"] = <<{"hot", "archived"}, "deleted">>
  /\ Moves["beginArchive"] = <<{"hot"}, "archiving">>
  /\ Moves["finalizeArchive"] = <<{"archiving"}, "archived">>
  /\ Moves["cancelArchive"] = <<{"archiving"}, "hot">>
  /\ Moves["beginRestore"] = <<{"archived", "deleted"}, "restoring">>
BY DEF Moves

(* A new status leaves tables and rows alone.                              *)
LEMMA Moved ==
  ASSUME StoreOK(store), NEW d \in Dbs, NEW status \in Statuses,
         NEW z, z = [store EXCEPT ![d].status = status]
  PROVE  /\ StoreOK(z)
         /\ z[d].status = status
         /\ \A e \in Dbs : z[e].tables = store[e].tables /\ z[e].rows = store[e].rows
         /\ \A e \in Dbs \ {d} : z[e] = store[e]
<1>1. store \in Stores /\ \A e \in Dbs : Sorted(store[e])
  BY DEF StoreOK
<1>2. z \in Stores
  BY <1>1 DEF Stores
<1>3. /\ z[d].status = status
      /\ \A e \in Dbs : z[e].tables = store[e].tables /\ z[e].rows = store[e].rows
      /\ \A e \in Dbs \ {d} : z[e] = store[e]
  BY <1>1 DEF Stores
<1> QED BY <1>1, <1>2, <1>3 DEF StoreOK, Sorted

LEMMA ImageTyped ==
  ASSUME StoreOK(store), NEW d \in Dbs
  PROVE  ImageOf(d) \in Images /\ Sorted(ImageOf(d))
BY DEF StoreOK, Stores, ImageOf, Images, Sorted, AnyDb

LEMMA MoveServes ==
  ASSUME Base, NEW t \in DOMAIN tasks, ChangeStatus(t)
  PROVE  \E x : Served(t, x)
<1>1. TaskOK(t) /\ t \in TaskSet /\ StoreOK(store)
  BY DEF Base, TaskOK
<1>2. t.reply = NoReply /\ t.await \in DOMAIN Moves /\ t.await # "create"
  BY MovesOf DEF ChangeStatus
<1>3. t.db \in Dbs
  BY <1>1, <1>2, MovesOf DEF TaskOK, TaskSet, Awaits
<1>4. CASE store[t.db].status \in Moves[t.await][1]
  <2> DEFINE y == IF t.await = "beginArchive" THEN [t EXCEPT !.image = ImageOf(t.db)] ELSE t
  <2>1. store' = [store EXCEPT ![t.db].status = Moves[t.await][2]] /\ AnswerWith(t, y, Done)
    BY <1>4 DEF ChangeStatus
  <2>2. /\ TaskOK(y) /\ Alike(t, y) /\ y.db = t.db
        /\ y.image = IF t.await = "beginArchive" THEN ImageOf(t.db) ELSE t.image
    <3>1. CASE t.await = "beginArchive"
      <4>1. /\ y \in TaskSet /\ Alike(t, y) /\ y.db = t.db /\ y.reply = t.reply
            /\ y.image = ImageOf(t.db)
        BY <1>1, <1>3, <3>1, ImageTyped DEF TaskSet, Alike
      <4> QED BY <1>1, <1>3, <3>1, <4>1, ImageTyped DEF TaskOK, Alike
    <3>2. CASE t.await # "beginArchive"
      BY <1>1, <3>2 DEF Alike
    <3> QED BY <3>1, <3>2
  <2> HIDE DEF y
  <2>3. Applied(t, y)
    BY <1>2, <1>4, <2>1, <2>2 DEF Applied, GrantedMove
  <2>4. Moves[t.await][2] \in Statuses
    BY <1>2, MovesOf DEF Statuses
  <2>5. StoreOK(store')
    BY <1>1, <1>3, <2>1, <2>4, Moved
  <2> QED BY <1>2, <2>1, <2>2, <2>3, <2>5, UpdateServes
<1>5. CASE store[t.db].status \notin Moves[t.await][1]
  <2> DEFINE x == [t EXCEPT !.reply = Refused]
  <2>1. UNCHANGED store /\ Answer(t, Refused)
    BY <1>5 DEF ChangeStatus
  <2>2. x.reply = Refused /\ x.db = t.db /\ x.image = t.image
    BY <1>1, ReplyOf
  <2>3. Denied(t, x)
    BY <1>2, <1>5, <2>1, <2>2, RepliesTyped DEF Denied
  <2> QED BY <1>2, <2>1, <2>3, RepliesTyped, AnswerServes
<1> QED BY <1>4, <1>5

LEMMA RestoreServes ==
  ASSUME Base, NEW t \in DOMAIN tasks, FinishRestore(t)
  PROVE  \E x : Served(t, x)
<1> DEFINE image == [status |-> "hot", tables |-> t.image.tables, rows |-> t.image.rows]
<1>1. TaskOK(t) /\ t \in TaskSet /\ StoreOK(store)
  BY DEF Base, TaskOK
<1>2. t.reply = NoReply /\ t.await = "finalizeRestore"
  BY DEF FinishRestore, Waiting
<1>3. t.db \in Dbs /\ t.image \in Images /\ Sorted(t.image)
  BY <1>1, <1>2 DEF TaskOK, TaskSet, Awaits
<1>4. Alike(t, t) /\ t.await # "create"
  BY <1>2 DEF Alike
<1>5. Applied(t, t)
  BY <1>2 DEF Applied, GrantedRestore, FinishRestore
<1>6. AnswerWith(t, t, Done)
  BY DEF FinishRestore, Answer
<1>7. StoreOK(store')
  <2>1. store' = [store EXCEPT ![t.db] = image]
    BY DEF FinishRestore
  <2>2. store \in Stores /\ \A e \in Dbs : Sorted(store[e])
    BY <1>1 DEF StoreOK
  <2>3. /\ image \in [status : Statuses, tables : SUBSET Names, rows : [Names -> Rows]]
        /\ Sorted(image)
    BY <1>3 DEF Images, Sorted, Statuses
  <2> HIDE DEF image
  <2>4. store' \in Stores /\ \A e \in Dbs : store'[e] = IF e = t.db THEN image ELSE store[e]
    BY <1>3, <2>1, <2>2, <2>3 DEF Stores
  <2> QED BY <2>2, <2>3, <2>4 DEF StoreOK
<1> QED BY <1>1, <1>2, <1>4, <1>5, <1>6, <1>7, UpdateServes

LEMMA CreateServes ==
  ASSUME Base, NEW t \in DOMAIN tasks, Create(t)
  PROVE  \E x : Served(t, x)
<1>1. TaskOK(t) /\ t \in TaskSet /\ StoreOK(store)
  BY DEF Base, TaskOK
<1>2. t.reply = NoReply /\ t.await = "create"
  BY DEF Create, Waiting
<1>3. ASSUME NEW d \in Dbs, store[d].status = "none",
             store' = [store EXCEPT ![d].status = "hot"],
             AnswerWith(t, [t EXCEPT !.db = d], Done)
      PROVE  \E x : Served(t, x)
  <2> DEFINE y == [t EXCEPT !.db = d]
  <2>1. TaskOK(y) /\ Alike(t, y) /\ y.db = d /\ y.image = t.image
    <3>1. y \in TaskSet /\ Alike(t, y) /\ y.db = d /\ y.image = t.image /\ y.reply = t.reply
      BY <1>1 DEF TaskSet, Alike, AnyDb
    <3> QED BY <1>1, <3>1 DEF TaskOK, Alike
  <2>2. AnswerWith(t, y, Done)
    BY <1>3
  <2> HIDE DEF y
  <2>3. Applied(t, y)
    BY <1>2, <1>3, <2>1 DEF Applied, GrantedCreate
  <2>4. StoreOK(store')
    BY <1>1, <1>3, Moved DEF Statuses
  <2> QED BY <1>2, <2>1, <2>2, <2>3, <2>4, UpdateServes
<1>4. CASE UNCHANGED store /\ Answer(t, Refused)
  <2> DEFINE x == [t EXCEPT !.reply = Refused]
  <2>1. x.reply = Refused /\ x.db = t.db /\ x.image = t.image
    BY <1>1, ReplyOf
  <2>2. Denied(t, x)
    BY <1>2, <1>4, <2>1, RepliesTyped DEF Denied
  <2> QED BY <1>2, <1>4, <2>2, RepliesTyped, AnswerServes
<1> QED BY <1>3, <1>4 DEF Create

LEMMA FileServes ==
  ASSUME Base, NEW t \in DOMAIN tasks, ReadFile(t)
  PROVE  \E x : Served(t, x)
<1>1. TaskOK(t) /\ t.reply = NoReply /\ t.await = "file" /\ UNCHANGED store
  BY DEF Base, ReadFile, Waiting
<1>2. CASE Answer(t, Done)
  <2> DEFINE x == [t EXCEPT !.reply = Done]
  <2>1. x.reply = Done /\ x.db = t.db /\ x.image = t.image
    BY <1>1, ReplyOf
  <2>2. Granted(t, x)
    BY <1>1, <2>1, RepliesTyped DEF Granted, GrantedRead
  <2> QED BY <1>1, <1>2, <2>2, RepliesTyped, AnswerServes DEF Updates
<1>3. CASE Answer(t, Refused)
  <2> DEFINE x == [t EXCEPT !.reply = Refused]
  <2>1. x.reply = Refused /\ x.db = t.db /\ x.image = t.image
    BY <1>1, ReplyOf
  <2>2. Denied(t, x)
    BY <1>1, <2>1, RepliesTyped DEF Denied
  <2> QED BY <1>1, <1>3, <2>2, RepliesTyped, AnswerServes
<1> QED BY <1>2, <1>3 DEF ReadFile

LEMMA FailServes ==
  ASSUME Base, NEW t \in DOMAIN tasks, Fail(t)
  PROVE  \E x : Served(t, x)
<1> DEFINE x == [t EXCEPT !.reply = Refused]
<1>1. TaskOK(t)
  BY DEF Base
<1>2. x.reply = Refused /\ x.db = t.db /\ x.image = t.image
  BY <1>1, ReplyOf
<1>3. Denied(t, x)
  BY <1>2, RepliesTyped DEF Denied, Fail
<1> QED BY <1>3, RepliesTyped, AnswerServes DEF Fail

LEMMA Serving ==
  ASSUME Base, NEW op, ServeOf(op)
  PROVE  /\ UNCHANGED <<ui, edit, session, budget>>
         /\ \E t \in DOMAIN tasks : \E x : Served(t, x)
<1>1. PICK t \in DOMAIN tasks : \/ Read(t) \/ WriteStatement(t) \/ ChangeStatus(t)
                                \/ FinishRestore(t) \/ Create(t) \/ ReadFile(t) \/ Fail(t)
  BY DEF ServeOf, BagToSet
<1>2. \E x : Served(t, x)
  BY <1>1, ReadServes, StatementServes, MoveServes, RestoreServes, CreateServes, FileServes,
     FailServes
<1> QED BY <1>2 DEF ServeOf

--------------------------------------------------------------------------------
(* How a handler goes on once its answer is there: t ends, the tasks of N  *)
(* follow it, and the databases have been listed again, or not.            *)

SameChoice(u, v) ==
  /\ v.principal = u.principal /\ v.databases = u.databases /\ v.databaseId = u.databaseId
  /\ v.limit = u.limit
SameTables(u, v) ==
  /\ v.tables = u.tables /\ v.tableName = u.tableName
  /\ v.description = u.description /\ v.preview = u.preview
NoTables(v) ==
  /\ v.tables = {} /\ v.tableName = NoTable
  /\ v.description = NoDescription /\ v.preview = NoPreview

Follows(t, x, await) ==
  /\ x.await = await /\ x.reply = NoReply
  /\ x.op = t.op /\ x.db = t.db /\ x.table = t.table /\ x.limit = t.limit
  /\ x.offset = t.offset /\ x.image = t.image

(* The only task of N follows t.                                           *)
GoesTo(t, N, await) == \E x : N = {x} /\ Follows(t, x, await)
LoadsTable(t, N, await, name) == \E x : N = {x} /\ Follows(t, x, await) /\ x.target = name

Caught(t, N, relisted) ==
  /\ t.reply.is = "failed" /\ t.await # "list"
  /\ N = {} /\ ~relisted /\ Same(ui, ui')

Relisted(t, N, relisted) ==
  LET ok == t.reply.is = "ok"
  IN /\ t.await = "list" /\ t.reply # NoReply
     /\ relisted = ok
     /\ ui'.limit = ui.limit /\ ui'.snapshot = ui.snapshot
     /\ ok => ui'.principal /\ \A d \in Dbs : ui'.databases[d] = t.reply.listed[d]
     /\ ~ok => ui'.principal = ui.principal /\ ui'.databases = ui.databases
     /\ \/ /\ t.op = "refresh" /\ N = {} /\ SameTables(ui, ui')
           /\ ui.databaseId # NoDb => ui'.databaseId = ui.databaseId
        \/ /\ t.op = "create" /\ LoadsTable(t, N, "resources", NoTable) /\ NoTables(ui')
           /\ ui'.databaseId = t.db
        \/ /\ t.op = "delete" /\ N = {} /\ SameTables(ui, ui')
           /\ ui'.databaseId = NoDb
        \/ /\ t.op = "restore" /\ LoadsTable(t, N, "resources", t.table) /\ SameTables(ui, ui')
           /\ ui.databaseId # NoDb => ui'.databaseId = ui.databaseId
        \/ /\ t.op \in {"archive", "cancelArchive"} /\ GoesTo(t, N, "account")
           /\ SameTables(ui, ui')
           /\ ui.databaseId # NoDb => ui'.databaseId = ui.databaseId

AccountShown(t, N, relisted) ==
  /\ t.await = "account" /\ t.reply.is = "ok"
  /\ N = {} /\ ~relisted /\ SameChoice(ui, ui') /\ ui'.snapshot = ui.snapshot /\ NoTables(ui')

DetailsShown(t, N, relisted) ==
  /\ t.await = "resources" /\ t.reply.is = "ok"
  /\ ~relisted /\ SameChoice(ui, ui') /\ ui'.snapshot = ui.snapshot
  /\ ui'.tables = t.reply.tables
  /\ \/ t.reply.tables = {} /\ N = {} /\ NoTables(ui')
     \/ /\ ui'.tableName = ui.tableName /\ ui'.description = ui.description
        /\ ui'.preview = ui.preview
        /\ \E name \in t.reply.tables : /\ t.target \in t.reply.tables => name = t.target
                                        /\ LoadsTable(t, N, "table", name)

TableShown(t, N, relisted) ==
  /\ t.await = "table" /\ t.reply.is = "ok"
  /\ N = {} /\ ~relisted /\ SameChoice(ui, ui') /\ ui'.snapshot = ui.snapshot
  /\ ui'.tables = ui.tables /\ ui'.tableName = t.target
  /\ ui'.description = [db |-> t.db, table |-> t.target]
  /\ ui'.preview = [db |-> t.db, table |-> t.target, offset |-> t.offset, rows |-> t.reply.rows]

PreviewShown(t, N, relisted) ==
  /\ t.await = "preview" /\ t.reply.is = "ok"
  /\ N = {} /\ ~relisted /\ SameChoice(ui, ui') /\ ui'.snapshot = ui.snapshot
  /\ ui'.tables = ui.tables /\ ui'.tableName = ui.tableName
  /\ ui'.description = ui.description
  /\ ui'.preview = [db |-> t.db, table |-> t.target, offset |-> 0, rows |-> t.reply.rows]

(* After a statement of a file that is not its last the next one is sent.  *)
Reloads(t, N, relisted) ==
  /\ t.await = "statement" /\ t.reply.is = "ok"
  /\ ~relisted /\ Same(ui, ui')
  /\ GoesTo(t, N, "resources") \/ (t.op = "loadDump" /\ GoesTo(t, N, "statement"))

FileShown(t, N, relisted) ==
  /\ t.await = "file" /\ t.reply.is = "ok"
  /\ N = {} /\ ~relisted /\ SameChoice(ui, ui') /\ SameTables(ui, ui')
  /\ ui'.snapshot = t.image

CallFollowed(t, N, relisted) ==
  /\ t.reply.is = "ok" /\ ~relisted /\ SameChoice(ui, ui')
  /\ \/ /\ t.await \in {"create", "cancelArchive", "finalizeRestore"}
        /\ Same(ui, ui') /\ GoesTo(t, N, "list")
     \/ /\ t.await = "delete"
        /\ NoTables(ui') /\ ui'.snapshot = ui.snapshot /\ GoesTo(t, N, "list")
     \/ /\ t.await = "beginArchive"
        /\ Same(ui, ui') /\ GoesTo(t, N, "finalizeArchive")
     \/ /\ t.await = "finalizeArchive"
        /\ NoTables(ui') /\ ui'.snapshot = t.image /\ GoesTo(t, N, "list")
     \/ /\ t.await = "beginRestore"
        /\ Same(ui, ui') /\ GoesTo(t, N, "finalizeRestore")

Resumed(t, N, relisted) ==
  /\ UiOK(ui') /\ \A x \in N : TaskOK(x)
  /\ Turn(tasks, {t}, N, tasks', ui', Fires(ui, ui', relisted))
  /\ \/ Caught(t, N, relisted) \/ Relisted(t, N, relisted) \/ AccountShown(t, N, relisted)
     \/ DetailsShown(t, N, relisted) \/ TableShown(t, N, relisted) \/ PreviewShown(t, N, relisted)
     \/ Reloads(t, N, relisted) \/ FileShown(t, N, relisted) \/ CallFollowed(t, N, relisted)

LEMMA Followed ==
  ASSUME NEW t, TaskOK(t), t.db \in Dbs, NEW await \in Awaits[t.op], await # "create",
         NEW x, x = Await(t, await), await \in {"table", "preview"} => t.target \in Names
  PROVE  TaskOK(x) /\ Follows(t, x, await) /\ x.target = t.target
<1>1. t \in TaskSet
  BY DEF TaskOK
<1>2. await \in Requests
  BY <1>1 DEF TaskSet, Handlers, Awaits, Requests, Loads
<1>3. /\ x \in TaskSet /\ Follows(t, x, await) /\ x.target = t.target
      /\ x.statement = t.statement /\ x.rest = t.rest
  BY <1>1, <1>2, NothingIsTyped DEF TaskSet, Follows, Await
<1> QED BY <1>3 DEF TaskOK, Follows

LEMMA FollowedWith ==
  ASSUME NEW t, TaskOK(t), t.db \in Dbs, NEW await \in Awaits[t.op], await # "create",
         NEW name \in Tables, await \in {"table", "preview"} => name \in Names,
         NEW x, x = [Await(t, await) EXCEPT !.target = name]
  PROVE  TaskOK(x) /\ Follows(t, x, await) /\ x.target = name
<1>1. t \in TaskSet
  BY DEF TaskOK
<1>2. await \in Requests
  BY <1>1 DEF TaskSet, Handlers, Awaits, Requests, Loads
<1>3. /\ x \in TaskSet /\ Follows(t, x, await) /\ x.target = name
      /\ x.statement = t.statement /\ x.rest = t.rest
  BY <1>1, <1>2, NothingIsTyped DEF TaskSet, Follows, Await
<1> QED BY <1>3 DEF TaskOK, Follows

(* A handler that ends and one that goes on, by the names of the model.    *)
LEMMA RenderEnds ==
  ASSUME NEW t \in DOMAIN tasks, NEW u, NEW relisted, Render(u, relisted, Others(t))
  PROVE  ui' = u /\ Turn(tasks, {t}, {}, tasks', ui', Fires(ui, ui', relisted))
BY Ends DEF Render, Others

LEMMA RenderGoesOn ==
  ASSUME NEW t \in DOMAIN tasks, NEW u, NEW relisted, NEW x,
         Render(u, relisted, BagAdd(Others(t), x))
  PROVE  ui' = u /\ Turn(tasks, {t}, {x}, tasks', ui', Fires(ui, ui', relisted))
BY GoesOn DEF Render, Others

LEMMA CatchResumes ==
  ASSUME Base, NEW t \in DOMAIN tasks, Catch(t)
  PROVE  Resumed(t, {}, FALSE)
<1> DEFINE u == IF t.op = "effect" THEN ui ELSE [ui EXCEPT !.loadState = "error"]
<1>1. ui' = u /\ Turn(tasks, {t}, {}, tasks', ui', Fires(ui, ui', FALSE))
  BY RenderEnds DEF Catch
<1>2. UiOK(u) /\ Same(ui, u)
  BY DEF Base, UiOK, Uis, Same
<1> QED BY <1>1, <1>2 DEF Resumed, Caught, Catch

LEMMA AccountResumes ==
  ASSUME Base, NEW t \in DOMAIN tasks, refreshDatabaseAccount(t)
  PROVE  Resumed(t, {}, FALSE)
<1> DEFINE c == clearTableState(ui)
           u == Finish(t, c)
<1>1. ui' = u /\ Turn(tasks, {t}, {}, tasks', ui', Fires(ui, ui', FALSE))
  BY RenderEnds DEF refreshDatabaseAccount
<1>2. /\ UiOK(c) /\ SameChoice(ui, c) /\ c.snapshot = ui.snapshot /\ NoTables(c)
  BY Wiped DEF Base, SameChoice, NoTables
<1> HIDE DEF c
<1>3. UiOK(u) /\ Same(c, u)
  BY <1>2, Finished
<1> QED BY <1>1, <1>2, <1>3 DEF Resumed, AccountShown, refreshDatabaseAccount, Same, SameChoice,
                                NoTables

LEMMA DetailsResume ==
  ASSUME Base, NEW t \in DOMAIN tasks, refreshDatabaseDetails(t)
  PROVE  \E N : Resumed(t, N, FALSE)
<1> DEFINE v == [ui EXCEPT !.tables = t.reply.tables]
           name == selectPreferredTableName(t.reply.tables, t.target)
<1>1. TaskOK(t) /\ t \in TaskSet /\ t.await = "resources" /\ t.reply.is = "ok" /\ UiOK(ui)
  BY DEF refreshDatabaseDetails, Base, TaskOK
<1>2. t.reply.tables \in SUBSET Names /\ t.db \in Dbs
  BY <1>1 DEF TaskOK, TaskSet, Replies, Awaits
<1>3. /\ UiOK(v) /\ SameChoice(ui, v) /\ v.snapshot = ui.snapshot /\ v.tables = t.reply.tables
      /\ v.tableName = ui.tableName /\ v.description = ui.description /\ v.preview = ui.preview
  BY <1>1, <1>2 DEF UiOK, Uis, SameChoice
<1>4. /\ t.reply.tables = {} => name = NoTable
      /\ t.reply.tables # {} => name \in t.reply.tables
      /\ t.target \in t.reply.tables => name = t.target
  <2>1. MaxTable \in Nat /\ t.reply.tables \in SUBSET (0..MaxTable)
    BY <1>2, Bounds DEF Names
  <2>2. t.reply.tables # {} => Min(t.reply.tables) \in t.reply.tables
    BY <2>1, MinOfSome
  <2> QED BY <2>2 DEF selectPreferredTableName
<1>5. name = NoTable <=> t.reply.tables = {}
  BY <1>2, <1>4 DEF Names, NoTable
<1> HIDE DEF v, name
<1>6. CASE name = NoTable
  <2> DEFINE c == clearTable(v)
             u == Finish(t, c)
  <2>1. ui' = u /\ Turn(tasks, {t}, {}, tasks', ui', Fires(ui, ui', FALSE))
    BY <1>6, RenderEnds DEF refreshDatabaseDetails, v, name
  <2>2. /\ UiOK(c) /\ SameChoice(ui, c) /\ c.snapshot = ui.snapshot /\ NoTables(c)
    BY <1>3, <1>5, <1>6, Emptied DEF SameChoice, NoTables
  <2> HIDE DEF c
  <2>3. UiOK(u) /\ Same(c, u)
    BY <2>2, Finished
  <2>4. Resumed(t, {}, FALSE)
    BY <1>1, <1>5, <1>6, <2>1, <2>2, <2>3 DEF Resumed, DetailsShown, Same, SameChoice, NoTables
  <2> QED BY <2>4
<1>7. CASE name # NoTable
  <2> DEFINE x == [Await(t, "table") EXCEPT !.target = name]
  <2>1. Render(v, FALSE, BagAdd(Others(t), x))
    BY <1>7 DEF refreshDatabaseDetails, Goes, v, name
  <2>2. name \in t.reply.tables /\ name \in Names /\ name \in Tables
    BY <1>2, <1>4, <1>5, <1>7 DEF Names, Tables
  <2>3. "table" \in Awaits[t.op]
    BY <1>1 DEF TaskOK, TaskSet, Awaits, Handlers, Loads
  <2>4. TaskOK(x) /\ Follows(t, x, "table") /\ x.target = name
    BY <1>1, <1>2, <2>2, <2>3, FollowedWith
  <2> HIDE DEF x
  <2>5. ui' = v /\ Turn(tasks, {t}, {x}, tasks', ui', Fires(ui, ui', FALSE))
    BY <2>1, RenderGoesOn
  <2>6. DetailsShown(t, {x}, FALSE)
    BY <1>1, <1>3, <1>4, <2>2, <2>4, <2>5 DEF DetailsShown, LoadsTable
  <2>7. Resumed(t, {x}, FALSE)
    BY <1>3, <2>4, <2>5, <2>6 DEF Resumed
  <2> QED BY <2>7
<1> QED BY <1>6, <1>7

LEMMA TableResumes ==
  ASSUME Base, NEW t \in DOMAIN tasks, loadTable(t)
  PROVE  Resumed(t, {}, FALSE)
<1> DEFINE v == [ui EXCEPT !.tableName = t.target,
                           !.description = [db |-> t.db, table |-> t.target],
                           !.preview = [db |-> t.db, table |-> t.target, offset |-> t.offset,
                                        rows |-> t.reply.rows]]
           w == IF t.target # t.table THEN resetRowEditor(v) ELSE v
           u == Finish(t, w)
<1>1. TaskOK(t) /\ t \in TaskSet /\ t.await = "table" /\ t.reply.is = "ok" /\ UiOK(ui)
  BY DEF loadTable, Base, TaskOK
<1>2. ui' = u /\ Turn(tasks, {t}, {}, tasks', ui', Fires(ui, ui', FALSE))
  BY RenderEnds DEF loadTable
<1>3. /\ t.db \in AnyDb /\ t.target \in Tables /\ t.offset \in 0..MaxKey /\ t.reply.rows \in Rows
  BY <1>1 DEF TaskSet, Replies
<1>4. /\ [db |-> t.db, table |-> t.target] \in Descriptions
      /\ [db |-> t.db, table |-> t.target, offset |-> t.offset, rows |-> t.reply.rows] \in Pages
  BY <1>3 DEF Descriptions, Pages, AnyDb, Tables
<1>5. /\ UiOK(v) /\ SameChoice(ui, v) /\ v.snapshot = ui.snapshot /\ v.tables = ui.tables
      /\ v.tableName = t.target /\ v.description = [db |-> t.db, table |-> t.target]
      /\ v.preview = [db |-> t.db, table |-> t.target, offset |-> t.offset, rows |-> t.reply.rows]
  BY <1>1, <1>3, <1>4 DEF UiOK, Uis, SameChoice
<1> HIDE DEF v
<1>6. UiOK(w) /\ Same(v, w)
  BY <1>5, Touched DEF Same
<1> HIDE DEF w
<1>7. UiOK(u) /\ Same(w, u)
  BY <1>6, Finished
<1> HIDE DEF u
<1>8. TableShown(t, {}, FALSE)
  BY <1>1, <1>2, <1>5, <1>6, <1>7 DEF TableShown, Same, SameChoice
<1> QED BY <1>2, <1>7, <1>8 DEF Resumed

LEMMA PreviewResumes ==
  ASSUME Base, NEW t \in DOMAIN tasks, showLimitedPreview(t)
  PROVE  Resumed(t, {}, FALSE)
<1> DEFINE v == [ui EXCEPT !.preview = [db |-> t.db, table |-> t.target, offset |-> 0,
                                        rows |-> t.reply.rows]]
           w == resetRowEditor(v)
           u == Ready(w)
<1>1. TaskOK(t) /\ t \in TaskSet /\ t.await = "preview" /\ t.reply.is = "ok" /\ UiOK(ui)
  BY DEF showLimitedPreview, Base, TaskOK
<1>2. ui' = u /\ Turn(tasks, {t}, {}, tasks', ui', Fires(ui, ui', FALSE))
  BY RenderEnds DEF showLimitedPreview
<1>3. t.db \in AnyDb /\ t.target \in Tables /\ t.reply.rows \in Rows
  BY <1>1 DEF TaskSet, Replies
<1>4. [db |-> t.db, table |-> t.target, offset |-> 0, rows |-> t.reply.rows] \in Pages
  BY <1>3, NothingIsTyped DEF Pages, AnyDb, Tables
<1>5. /\ UiOK(v) /\ SameChoice(ui, v) /\ v.snapshot = ui.snapshot /\ v.tables = ui.tables
      /\ v.tableName = ui.tableName /\ v.description = ui.description
      /\ v.preview = [db |-> t.db, table |-> t.target, offset |-> 0, rows |-> t.reply.rows]
  BY <1>1, <1>4 DEF UiOK, Uis, SameChoice
<1> HIDE DEF v
<1>6. UiOK(w) /\ Same(v, w)
  BY <1>5, Touched
<1> HIDE DEF w
<1>7. UiOK(u) /\ Same(w, u)
  BY <1>6, Touched
<1> HIDE DEF u
<1>8. PreviewShown(t, {}, FALSE)
  BY <1>1, <1>2, <1>5, <1>6, <1>7 DEF PreviewShown, Same, SameChoice
<1> QED BY <1>2, <1>7, <1>8 DEF Resumed

(* The table that a handler loads anew after its requests.                 *)
LEMMA LoadFollows ==
  ASSUME NEW t, TaskOK(t), t.db \in Dbs, "resources" \in Awaits[t.op], NEW name \in Tables,
         NEW x, x = Load(t, name)
  PROVE  TaskOK(x) /\ Follows(t, x, "resources") /\ x.target = name
<1>1. x = [Await(t, "resources") EXCEPT !.target = name]
  BY DEF Load
<1> QED BY <1>1, FollowedWith

(* The next batch of a file.                                               *)
LEMMA NextBatch ==
  ASSUME NEW t, TaskOK(t), t.await = "statement", t.db \in Dbs, t.rest # <<>>,
         NEW x, x = [Await(t, "statement") EXCEPT !.statement = Head(t.rest),
                                                  !.rest = Tail(t.rest)]
  PROVE  TaskOK(x) /\ Follows(t, x, "statement")
<1>1. t \in TaskSet /\ t.rest \in Seq(Batches)
  BY DEF TaskOK, TaskSet
<1>2. Head(t.rest) \in Batches /\ Tail(t.rest) \in Seq(Batches)
  BY <1>1, HeadTailProperties
<1>3. Head(t.rest) \in Statements /\ Head(t.rest).table \in Names
  BY <1>2, NothingIsTyped DEF Batches, Statements, Names, Tables
<1>4. /\ x \in TaskSet /\ Follows(t, x, "statement") /\ x.statement = Head(t.rest)
      /\ x.op = t.op
  BY <1>1, <1>2, <1>3, NothingIsTyped DEF TaskSet, Follows, Await, Requests
<1> QED BY <1>3, <1>4 DEF TaskOK, Follows

LEMMA StatementResumes ==
  ASSUME Base, NEW t \in DOMAIN tasks, afterStatement(t)
  PROVE  \E N : Resumed(t, N, FALSE)
<1> DEFINE name == IF t.op = "createTable" THEN t.statement.table ELSE t.table
           next == [Await(t, "statement") EXCEPT !.statement = Head(t.rest),
                                                 !.rest = Tail(t.rest)]
           load == Load(t, name)
           x == IF t.rest # <<>> THEN next ELSE load
<1>1. TaskOK(t) /\ t \in TaskSet /\ t.await = "statement" /\ t.reply.is = "ok" /\ UiOK(ui)
  BY DEF afterStatement, Base, TaskOK
<1>2. t.op \in {"row", "createTable", "sql", "loadDump"} /\ t.db \in Dbs
  BY <1>1 DEF TaskOK, TaskSet, Handlers, Awaits, Loads
<1>3. "resources" \in Awaits[t.op] /\ name \in Tables
  BY <1>1, <1>2 DEF Awaits, Loads, TaskSet, Statements
<1>4. Render(ui, FALSE, BagAdd(Others(t), x))
  BY DEF afterStatement, Goes
<1> HIDE DEF name
<1>5. /\ TaskOK(x)
      /\ Follows(t, x, "resources") \/ (t.rest # <<>> /\ Follows(t, x, "statement"))
  <2>1. CASE t.rest # <<>>
    BY <1>1, <1>2, <2>1, NextBatch
  <2>2. CASE t.rest = <<>>
    BY <1>1, <1>2, <1>3, <2>2, LoadFollows
  <2> QED BY <2>1, <2>2
<1> HIDE DEF x
<1>6. ui' = ui /\ Turn(tasks, {t}, {x}, tasks', ui', Fires(ui, ui', FALSE))
  BY <1>4, RenderGoesOn
<1>7. t.rest # <<>> => t.op = "loadDump"
  BY <1>1, <1>2 DEF TaskOK
<1>8. Reloads(t, {x}, FALSE)
  BY <1>1, <1>5, <1>6, <1>7 DEF Reloads, GoesTo, Same
<1>9. Resumed(t, {x}, FALSE)
  BY <1>1, <1>5, <1>6, <1>8 DEF Resumed
<1> QED BY <1>9

LEMMA FileResumes ==
  ASSUME Base, NEW t \in DOMAIN tasks, afterFile(t)
  PROVE  Resumed(t, {}, FALSE)
<1> DEFINE v == [ui EXCEPT !.snapshot = t.image]
           u == Ready(v)
<1>1. TaskOK(t) /\ t \in TaskSet /\ t.await = "file" /\ t.reply.is = "ok" /\ UiOK(ui)
  BY DEF afterFile, Base, TaskOK
<1>2. ui' = u /\ Turn(tasks, {t}, {}, tasks', ui', Fires(ui, ui', FALSE))
  BY RenderEnds DEF afterFile
<1>3. t.image \in Images /\ Sorted(t.image)
  BY <1>1 DEF TaskOK, TaskSet
<1>4. UiOK(v) /\ SameChoice(ui, v) /\ SameTables(ui, v) /\ v.snapshot = t.image
  BY <1>1, <1>3 DEF UiOK, Uis, SameChoice, SameTables
<1> HIDE DEF v
<1>5. UiOK(u) /\ Same(v, u)
  BY <1>4, Touched
<1> HIDE DEF u
<1>6. FileShown(t, {}, FALSE)
  BY <1>1, <1>2, <1>4, <1>5 DEF FileShown, Same, SameChoice, SameTables
<1> QED BY <1>2, <1>5, <1>6 DEF Resumed

LEMMA CallResumes ==
  ASSUME Base, NEW t \in DOMAIN tasks, afterLifecycleCall(t)
  PROVE  \E N : Resumed(t, N, FALSE)
<1>1. TaskOK(t) /\ t \in TaskSet /\ t.reply.is = "ok" /\ UiOK(ui) /\ ui \in Uis
  BY DEF afterLifecycleCall, Base, TaskOK, UiOK
<1>2. ASSUME NEW u, NEW await, Goes(t, u, Await(t, await)), UiOK(u), t.db \in Dbs,
             await \in Awaits[t.op], await \in {"list", "finalizeArchive", "finalizeRestore"}
      PROVE  \E x : /\ ui' = u /\ TaskOK(x) /\ Follows(t, x, await)
                    /\ Turn(tasks, {t}, {x}, tasks', ui', Fires(ui, ui', FALSE))
  <2> DEFINE x == Await(t, await)
  <2>1. TaskOK(x) /\ Follows(t, x, await)
    BY <1>1, <1>2, Followed
  <2>2. Render(u, FALSE, BagAdd(Others(t), x))
    BY <1>2 DEF Goes
  <2> HIDE DEF x
  <2>3. ui' = u /\ Turn(tasks, {t}, {x}, tasks', ui', Fires(ui, ui', FALSE))
    BY <2>2, RenderGoesOn
  <2> QED BY <2>1, <2>3
<1>3. CASE /\ t.await \in {"create", "cancelArchive", "finalizeRestore"}
           /\ Goes(t, Loading(ui), Await(t, "list"))
  <2>1. UiOK(Loading(ui)) /\ Same(ui, Loading(ui))
    BY <1>1, Touched
  <2>2. t.db \in Dbs /\ "list" \in Awaits[t.op]
    BY <1>1, <1>3 DEF TaskOK, TaskSet, Handlers, Awaits, Loads
  <2>3. PICK x : /\ ui' = Loading(ui) /\ TaskOK(x) /\ Follows(t, x, "list")
                 /\ Turn(tasks, {t}, {x}, tasks', ui', Fires(ui, ui', FALSE))
    BY <1>2, <1>3, <2>1, <2>2
  <2>4. CallFollowed(t, {x}, FALSE)
    BY <1>1, <1>3, <2>1, <2>3 DEF CallFollowed, GoesTo, Same, SameChoice
  <2>5. Resumed(t, {x}, FALSE)
    BY <2>1, <2>3, <2>4 DEF Resumed
  <2> QED BY <2>5
<1>4. CASE t.await = "delete" /\ Goes(t, Loading(clearTableState(ui)), Await(t, "list"))
  <2> DEFINE c == clearTableState(ui)
  <2>1. UiOK(c) /\ SameChoice(ui, c) /\ c.snapshot = ui.snapshot /\ NoTables(c)
    BY <1>1, Wiped DEF SameChoice, NoTables
  <2> HIDE DEF c
  <2>2. UiOK(Loading(c)) /\ Same(c, Loading(c))
    BY <2>1, Touched
  <2>3. t.db \in Dbs /\ "list" \in Awaits[t.op]
    BY <1>1, <1>4 DEF TaskOK, TaskSet, Handlers, Awaits, Loads
  <2>4. PICK x : /\ ui' = Loading(c) /\ TaskOK(x) /\ Follows(t, x, "list")
                 /\ Turn(tasks, {t}, {x}, tasks', ui', Fires(ui, ui', FALSE))
    BY <1>2, <1>4, <2>2, <2>3 DEF c
  <2>5. CallFollowed(t, {x}, FALSE)
    BY <1>1, <1>4, <2>1, <2>2, <2>4 DEF CallFollowed, GoesTo, Same, SameChoice, NoTables
  <2>6. Resumed(t, {x}, FALSE)
    BY <2>2, <2>4, <2>5 DEF Resumed
  <2> QED BY <2>6
<1>5. CASE t.await = "beginArchive" /\ Goes(t, ui, Await(t, "finalizeArchive"))
  <2>1. t.db \in Dbs /\ "finalizeArchive" \in Awaits[t.op]
    BY <1>1, <1>5 DEF TaskOK, TaskSet, Handlers, Awaits, Loads
  <2>2. PICK x : /\ ui' = ui /\ TaskOK(x) /\ Follows(t, x, "finalizeArchive")
                 /\ Turn(tasks, {t}, {x}, tasks', ui', Fires(ui, ui', FALSE))
    BY <1>1, <1>2, <1>5, <2>1
  <2>3. CallFollowed(t, {x}, FALSE)
    BY <1>1, <1>5, <2>2 DEF CallFollowed, GoesTo, Same, SameChoice
  <2>4. Resumed(t, {x}, FALSE)
    BY <1>1, <2>2, <2>3 DEF Resumed
  <2> QED BY <2>4
<1>6. CASE /\ t.await = "finalizeArchive"
           /\ Goes(t, Loading(clearTableState([ui EXCEPT !.snapshot = t.image])), Await(t, "list"))
  <2> DEFINE v == [ui EXCEPT !.snapshot = t.image]
             c == clearTableState(v)
  <2>1. UiOK(v) /\ SameChoice(ui, v) /\ v.snapshot = t.image
    BY <1>1 DEF UiOK, Uis, SameChoice, TaskOK, TaskSet
  <2> HIDE DEF v
  <2>2. UiOK(c) /\ SameChoice(ui, c) /\ c.snapshot = t.image /\ NoTables(c)
    BY <2>1, Wiped DEF SameChoice, NoTables
  <2> HIDE DEF c
  <2>3. UiOK(Loading(c)) /\ Same(c, Loading(c))
    BY <2>2, Touched
  <2>4. t.db \in Dbs /\ "list" \in Awaits[t.op]
    BY <1>1, <1>6 DEF TaskOK, TaskSet, Handlers, Awaits, Loads
  <2>5. PICK x : /\ ui' = Loading(c) /\ TaskOK(x) /\ Follows(t, x, "list")
                 /\ Turn(tasks, {t}, {x}, tasks', ui', Fires(ui, ui', FALSE))
    BY <1>2, <1>6, <2>3, <2>4 DEF c, v
  <2>6. CallFollowed(t, {x}, FALSE)
    BY <1>1, <1>6, <2>2, <2>3, <2>5 DEF CallFollowed, GoesTo, Same, SameChoice, NoTables
  <2>7. Resumed(t, {x}, FALSE)
    BY <2>3, <2>5, <2>6 DEF Resumed
  <2> QED BY <2>7
<1>7. CASE t.await = "beginRestore" /\ Goes(t, ui, Await(t, "finalizeRestore"))
  <2>1. t.db \in Dbs /\ "finalizeRestore" \in Awaits[t.op]
    BY <1>1, <1>7 DEF TaskOK, TaskSet, Handlers, Awaits, Loads
  <2>2. PICK x : /\ ui' = ui /\ TaskOK(x) /\ Follows(t, x, "finalizeRestore")
                 /\ Turn(tasks, {t}, {x}, tasks', ui', Fires(ui, ui', FALSE))
    BY <1>1, <1>2, <1>7, <2>1
  <2>3. CallFollowed(t, {x}, FALSE)
    BY <1>1, <1>7, <2>2 DEF CallFollowed, GoesTo, Same, SameChoice
  <2>4. Resumed(t, {x}, FALSE)
    BY <1>1, <2>2, <2>3 DEF Resumed
  <2> QED BY <2>4
<1> QED BY <1>3, <1>4, <1>5, <1>6, <1>7 DEF afterLifecycleCall

(* The databases after an answer of the list.                              *)
AfterList(t) ==
  LET listed == {d \in Dbs : t.reply.listed[d] # "none"}
      first == IF listed = {} THEN NoDb ELSE CHOOSE d \in listed : TRUE
  IN IF t.reply.is = "ok"
     THEN [ui EXCEPT !.databases = [d \in Dbs \union {NoDb} |->
                        IF d = NoDb THEN "none" ELSE t.reply.listed[d]],
                     !.principal = TRUE,
                     !.databaseId = IF @ = NoDb THEN first ELSE @,
                     !.loadState = "ready"]
     ELSE [ui EXCEPT !.loadState = "error"]

LEMMA ListShown ==
  ASSUME UiOK(ui), NEW t, TaskOK(t), NEW u, u = AfterList(t)
  PROVE  /\ UiOK(u) /\ SameTables(ui, u) /\ u.limit = ui.limit /\ u.snapshot = ui.snapshot
         /\ ui.databaseId # NoDb => u.databaseId = ui.databaseId
         /\ t.reply.is = "ok" =>
              u.principal /\ \A d \in Dbs : u.databases[d] = t.reply.listed[d]
         /\ t.reply.is # "ok" => u.principal = ui.principal /\ u.databases = ui.databases
<1> DEFINE ok == t.reply.is = "ok"
           listed == {d \in Dbs : t.reply.listed[d] # "none"}
           first == IF listed = {} THEN NoDb ELSE CHOOSE d \in listed : TRUE
<1>1. t.reply.listed \in [Dbs -> Statuses] /\ ui \in Uis
  BY DEF TaskOK, TaskSet, Replies, UiOK
<1> DEFINE databases == [d \in Dbs \union {NoDb} |->
                         IF d = NoDb THEN "none" ELSE t.reply.listed[d]]
<1>2. /\ databases \in [AnyDb -> Statuses] /\ databases[NoDb] = "none"
      /\ \A d \in Dbs : databases[d] = t.reply.listed[d]
  BY <1>1, Bounds DEF AnyDb, Statuses
<1>3. first \in AnyDb
  BY DEF AnyDb
<1> HIDE DEF databases, first
<1>4. CASE ok
  <2>1. u = [ui EXCEPT !.databases = databases, !.principal = TRUE,
                       !.databaseId = IF @ = NoDb THEN first ELSE @, !.loadState = "ready"]
    BY <1>4 DEF databases, first, AfterList
  <2>2. u \in Uis
    BY <1>1, <1>2, <1>3, <2>1 DEF Uis, AnyDb
  <2>3. /\ u.databases = databases /\ u.principal = TRUE /\ SameTables(ui, u) /\ u.limit = ui.limit
        /\ u.snapshot = ui.snapshot /\ (ui.databaseId # NoDb => u.databaseId = ui.databaseId)
    BY <1>1, <2>1 DEF Uis, SameTables
  <2> QED BY <1>2, <1>4, <2>2, <2>3 DEF UiOK
<1>5. CASE ~ok
  BY <1>1, <1>5 DEF UiOK, Uis, SameTables, AfterList
<1> QED BY <1>4, <1>5

LEMMA ListResumes ==
  ASSUME Base, NEW t \in DOMAIN tasks, refreshDatabases(t)
  PROVE  \E N, relisted : relisted \in BOOLEAN /\ Resumed(t, N, relisted)
<1> DEFINE ok == t.reply.is = "ok"
           u == AfterList(t)
<1>1. TaskOK(t) /\ t \in TaskSet /\ t.await = "list" /\ t.reply # NoReply /\ UiOK(ui)
  BY DEF refreshDatabases, Base, TaskOK
<1>2. /\ UiOK(u) /\ SameTables(ui, u) /\ u.limit = ui.limit /\ u.snapshot = ui.snapshot
      /\ ui.databaseId # NoDb => u.databaseId = ui.databaseId
      /\ ok => u.principal /\ \A d \in Dbs : u.databases[d] = t.reply.listed[d]
      /\ ~ok => u.principal = ui.principal /\ u.databases = ui.databases
  BY <1>1, ListShown
<1>3. /\ t.op = "refresh" => Render(u, ok, Others(t))
      /\ t.op = "create" => Render(clearTableState([u EXCEPT !.databaseId = t.db]), ok,
                                   BagAdd(Others(t), Load(t, NoTable)))
      /\ t.op = "delete" => Render(Ready([u EXCEPT !.databaseId = NoDb]), ok, Others(t))
      /\ t.op = "restore" => Render(u, ok, BagAdd(Others(t), Load(t, t.table)))
      /\ t.op \in {"archive", "cancelArchive"} =>
           Render(u, ok, BagAdd(Others(t), Await(t, "account")))
  BY DEF refreshDatabases, AfterList
<1>4. t.op \in {"refresh", "create", "delete", "restore", "archive", "cancelArchive"}
  BY <1>1 DEF TaskOK, TaskSet, Handlers, Awaits, Loads
<1>5. ok \in BOOLEAN
  OBVIOUS
<1> HIDE DEF u
<1>6. u \in Uis
  BY <1>2 DEF UiOK
<1>7. CASE t.op = "refresh"
  <2>1. Render(u, ok, Others(t))
    BY <1>3, <1>7
  <2>2. ui' = u /\ Turn(tasks, {t}, {}, tasks', ui', Fires(ui, ui', ok))
    BY <2>1, RenderEnds
  <2>3. Relisted(t, {}, ok)
    BY <1>1, <1>2, <1>7, <2>2 DEF Relisted
  <2>4. Resumed(t, {}, ok)
    BY <1>2, <2>2, <2>3 DEF Resumed
  <2> QED BY <1>5, <2>4
<1>8. CASE t.op = "create"
  <2> DEFINE v == [u EXCEPT !.databaseId = t.db]
             w == clearTableState(v)
             x == Load(t, NoTable)
  <2>1. t.db \in Dbs /\ u.principal /\ "resources" \in Awaits[t.op] /\ NoTable \in Tables
    BY <1>1, <1>2, <1>8, NothingIsTyped DEF TaskOK, Base, Awaits, Loads
  <2>2. Render(w, ok, BagAdd(Others(t), x))
    BY <1>3, <1>8
  <2>3. /\ v.principal = u.principal /\ v.databases = u.databases /\ v.databaseId = t.db
        /\ v.limit = u.limit /\ v.snapshot = u.snapshot /\ v \in Uis
    BY <1>6, <2>1 DEF Uis, AnyDb
  <2>4. UiOK(v)
    BY <1>2, <2>1, <2>3 DEF UiOK
  <2> HIDE DEF v
  <2>5. /\ UiOK(w) /\ SameChoice(v, w) /\ w.snapshot = v.snapshot /\ NoTables(w)
    BY <2>4, Wiped DEF SameChoice, NoTables
  <2> HIDE DEF w
  <2>6. TaskOK(x) /\ Follows(t, x, "resources") /\ x.target = NoTable
    BY <1>1, <2>1, LoadFollows
  <2> HIDE DEF x
  <2>7. ui' = w /\ Turn(tasks, {t}, {x}, tasks', ui', Fires(ui, ui', ok))
    BY <2>2, RenderGoesOn
  <2>8. Relisted(t, {x}, ok)
    BY <1>1, <1>2, <1>8, <2>3, <2>5, <2>6, <2>7 DEF Relisted, LoadsTable, SameChoice
  <2>9. Resumed(t, {x}, ok)
    BY <2>5, <2>6, <2>7, <2>8 DEF Resumed
  <2> QED BY <1>5, <2>9
<1>9. CASE t.op = "delete"
  <2> DEFINE v == [u EXCEPT !.databaseId = NoDb]
             w == Ready(v)
  <2>1. Render(w, ok, Others(t))
    BY <1>3, <1>9
  <2>2. /\ v.principal = u.principal /\ v.databases = u.databases /\ v.databaseId = NoDb
        /\ v.limit = u.limit /\ v.snapshot = u.snapshot /\ v \in Uis /\ SameTables(u, v)
    BY <1>6 DEF Uis, AnyDb, SameTables
  <2>3. UiOK(v)
    BY <1>2, <2>2 DEF UiOK
  <2> HIDE DEF v
  <2>4. UiOK(w) /\ Same(v, w)
    BY <2>3, Touched
  <2> HIDE DEF w
  <2>5. ui' = w /\ Turn(tasks, {t}, {}, tasks', ui', Fires(ui, ui', ok))
    BY <2>1, RenderEnds
  <2>6. Relisted(t, {}, ok)
    BY <1>1, <1>2, <1>9, <2>2, <2>4, <2>5 DEF Relisted, Same, SameTables
  <2>7. Resumed(t, {}, ok)
    BY <2>4, <2>5, <2>6 DEF Resumed
  <2> QED BY <1>5, <2>7
<1>10. CASE t.op = "restore"
  <2> DEFINE x == Load(t, t.table)
  <2>1. t.db \in Dbs /\ "resources" \in Awaits[t.op] /\ t.table \in Tables
    BY <1>1, <1>10 DEF TaskOK, TaskSet, Awaits, Loads
  <2>2. Render(u, ok, BagAdd(Others(t), x))
    BY <1>3, <1>10
  <2>3. TaskOK(x) /\ Follows(t, x, "resources") /\ x.target = t.table
    BY <1>1, <2>1, LoadFollows
  <2> HIDE DEF x
  <2>4. ui' = u /\ Turn(tasks, {t}, {x}, tasks', ui', Fires(ui, ui', ok))
    BY <2>2, RenderGoesOn
  <2>5. Relisted(t, {x}, ok)
    BY <1>1, <1>2, <1>10, <2>3, <2>4 DEF Relisted, LoadsTable
  <2>6. Resumed(t, {x}, ok)
    BY <1>2, <2>3, <2>4, <2>5 DEF Resumed
  <2> QED BY <1>5, <2>6
<1>11. CASE t.op \in {"archive", "cancelArchive"}
  <2> DEFINE x == Await(t, "account")
  <2>1. t.db \in Dbs /\ "account" \in Awaits[t.op]
    BY <1>1, <1>11 DEF TaskOK, TaskSet, Awaits, Loads
  <2>2. Render(u, ok, BagAdd(Others(t), x))
    BY <1>3, <1>11
  <2>3. TaskOK(x) /\ Follows(t, x, "account")
    BY <1>1, <2>1, Followed
  <2> HIDE DEF x
  <2>4. ui' = u /\ Turn(tasks, {t}, {x}, tasks', ui', Fires(ui, ui', ok))
    BY <2>2, RenderGoesOn
  <2>5. Relisted(t, {x}, ok)
    BY <1>1, <1>2, <1>11, <2>3, <2>4 DEF Relisted, GoesTo
  <2>6. Resumed(t, {x}, ok)
    BY <1>2, <2>3, <2>4, <2>5 DEF Resumed
  <2> QED BY <1>5, <2>6
<1> QED BY <1>4, <1>7, <1>8, <1>9, <1>10, <1>11

LEMMA Resuming ==
  ASSUME Base, NEW op, ResumeOf(op)
  PROVE  /\ UNCHANGED <<store, edit, session, budget>>
         /\ \E t \in DOMAIN tasks : \E N : \E relisted \in BOOLEAN : Resumed(t, N, relisted)
<1>1. PICK t \in DOMAIN tasks : \/ Catch(t) \/ refreshDatabases(t) \/ refreshDatabaseAccount(t)
                                \/ refreshDatabaseDetails(t) \/ loadTable(t) \/ showLimitedPreview(t)
                                \/ afterStatement(t) \/ afterFile(t) \/ afterLifecycleCall(t)
  BY DEF ResumeOf, BagToSet
<1>2. \E N : \E relisted \in BOOLEAN : Resumed(t, N, relisted)
  BY <1>1, CatchResumes, ListResumes, AccountResumes, DetailsResume, TableResumes, PreviewResumes,
     StatementResumes, FileResumes, CallResumes
<1> QED BY <1>2 DEF ResumeOf

--------------------------------------------------------------------------------
(* What the user does: the tasks of N start.                               *)

New(x, u, op, await) ==
  /\ x.op = op /\ x.await = await /\ x.reply = NoReply
  /\ x.db = u.databaseId /\ x.table = u.tableName /\ x.limit = u.limit

Started(N) ==
  /\ Same(ui, ui')
  /\ \E x : /\ N = {x} /\ ControlOf(x.op) \in session.may
            /\ \/ New(x, ui, "refresh", "list")
               \/ New(x, ui, "create", "create")
               \/ /\ ui.databaseId # NoDb
                  /\ \/ New(x, ui, "delete", "delete")
                     \/ New(x, ui, "archive", "beginArchive")
                     \/ New(x, ui, "cancelArchive", "cancelArchive")
                     \/ New(x, ui, "restore", "beginRestore") /\ x.image = ui.snapshot
                     \/ New(x, ui, "selectTable", "table") /\ x.target \in ui.tables
                     \/ New(x, ui, "page", "table") /\ x.target = ui.tableName /\ x.target # NoTable
                     \/ New(x, ui, "loadArchive", "file")
                     \/ \E op \in {"row", "createTable", "sql", "loadDump"} :
                          New(x, ui, op, "statement")

Selected(N) ==
  /\ "select" \in session.may /\ N = {} /\ NoTables(ui')
  /\ ui'.databaseId \in Dbs /\ ui'.principal = ui.principal /\ ui'.databases = ui.databases
  /\ ui'.limit = ui.limit /\ ui'.snapshot = ui.snapshot

(* Another table is named: one that is listed, or the one described.       *)
Named(N) ==
  /\ "openSql" \in session.may /\ N = {} /\ SameChoice(ui, ui') /\ ui'.snapshot = ui.snapshot
  /\ ui'.tables = ui.tables /\ ui'.description = ui.description /\ ui'.preview = ui.preview
  /\ ui'.tableName \in (ui.tables \cup {ui.description.table}) \ {NoTable}

Resized(N) ==
  /\ "limit" \in session.may /\ ui.preview # NoPreview /\ ui'.limit # ui.limit
  /\ SameTables(ui, ui') /\ ui'.databaseId = ui.databaseId /\ ui'.principal = ui.principal
  /\ ui'.databases = ui.databases /\ ui'.snapshot = ui.snapshot
  /\ \/ N = {} /\ (ui.databaseId = NoDb \/ ui.tableName = NoTable)
     \/ /\ ui.databaseId # NoDb /\ ui.tableName # NoTable
        /\ \E x : /\ N = {x} /\ New(x, ui', "limit", "preview")
                  /\ x.target = ui.tableName /\ x.offset = 0

Acted(N) ==
  /\ UiOK(ui')
  /\ \A x \in N : TaskOK(x) /\ Allowed(x) /\ (x.op # "refresh" => ui'.principal)
  /\ Turn(tasks, {}, N, tasks', ui', Fires(ui, ui', FALSE))
  /\ session.patient => tasks = EmptyBag
  /\ budget' \in 0..session.ops
  /\ \/ Started(N) \/ Selected(N) \/ Named(N) \/ Resized(N) \/ (N = {} /\ Same(ui, ui'))

LEMMA TaskMade ==
  ASSUME NEW u, UiOK(u), NEW op \in Handlers, NEW await \in Awaits[op],
         NEW x, x = Task(u, op, await)
  PROVE  /\ x \in TaskSet /\ New(x, u, op, await) /\ x.target = u.tableName /\ x.offset = 0
         /\ x.statement = NoStatement /\ x.rest = <<>> /\ x.image = NoImage
<1>1. await \in Requests
  BY DEF Handlers, Awaits, Requests, Loads
<1>2. /\ u.databaseId \in AnyDb /\ u.tableName \in Tables /\ u.limit \in Limits
  BY DEF UiOK, Uis
<1> QED BY <1>1, <1>2, NothingIsTyped DEF TaskSet, New, Task

(* A task that starts waits for nothing that was asked before.             *)
LEMMA NewIsOK ==
  ASSUME NEW u, UiOK(u), NEW op \in Handlers, NEW await \in Awaits[op],
         NEW x \in TaskSet, New(x, u, op, await), Sorted(x.image),
         u.databaseId # NoDb \/ op = "refresh" \/ await = "create",
         await \in {"table", "preview"} => x.target \in Names,
         x.statement.kind = "create" => x.statement.table \in Names,
         op # "loadDump" => x.rest = <<>>
  PROVE  TaskOK(x)
<1>1. NoReply.is = "awaited"
  BY DEF NoReply
<1>2. u.databaseId \in Dbs \/ op = "refresh" \/ await = "create"
  BY DEF UiOK, Uis, AnyDb
<1> QED BY <1>1, <1>2 DEF TaskOK, New

LEMMA StartActs ==
  ASSUME Base, NEW name, Acts(name), NEW x, TaskOK(x), Start(x), Started({x}),
         x.op # "refresh" => ui.principal
  PROVE  Acted({x})
<1>1. ui' = Loading(ui) /\ Turn(tasks, {}, {x}, tasks', ui', Fires(ui, ui', FALSE))
  BY Starts DEF Start, Render
<1>2. UiOK(ui') /\ Same(ui, ui')
  BY <1>1, Touched DEF Base
<1>3. (session.patient => tasks = EmptyBag) /\ budget' \in 0..session.ops
  BY Bounds DEF Acts, May, Base
<1>4. Allowed(x)
  BY DEF Started, Allowed
<1> QED BY <1>1, <1>2, <1>3, <1>4 DEF Acted, Same

LEMMA SimpleStarts ==
  ASSUME Base, NEW op \in {"refresh", "create", "delete", "archive", "cancelArchive"}, Acts(op),
         NEW await \in {"list", "create", "delete", "beginArchive", "cancelArchive"},
         NEW x, x = Task(ui, op, await), Start(x),
         \/ op = "refresh" /\ await = "list"
         \/ op = "create" /\ await = "create" /\ ui.principal
         \/ /\ ui.databaseId # NoDb
            /\ \/ op = "delete" /\ await = "delete"
               \/ op = "archive" /\ await = "beginArchive"
               \/ op = "cancelArchive" /\ await = "cancelArchive"
  PROVE  Acted({x})
<1>1. op \in Handlers /\ await \in Awaits[op] /\ await \notin {"table", "preview"}
  BY DEF Handlers, Awaits
<1>2. /\ x \in TaskSet /\ New(x, ui, op, await) /\ x.statement = NoStatement /\ x.rest = <<>>
      /\ x.image = NoImage
  BY <1>1, TaskMade DEF Base
<1>3. TaskOK(x)
  BY <1>1, <1>2, NewIsOK, NothingIsTyped DEF Base, NoStatement
<1>4. UiOK(Loading(ui)) /\ Same(ui, Loading(ui)) /\ ui' = Loading(ui)
  BY Touched DEF Base, Start, Render
<1>5. op \in session.may
  BY DEF Acts, May
<1>6. Started({x})
  <2>1. ControlOf(x.op) \in session.may
    BY <1>2, <1>5 DEF ControlOf, New
  <2> QED BY <1>2, <1>4, <2>1 DEF Started
<1>7. x.op # "refresh" => ui.principal
  BY <1>2 DEF New, Base, UiOK
<1> QED BY <1>3, <1>6, <1>7, StartActs

LEMMA SyncActs ==
  ASSUME Base, Sync
  PROVE  \E N : Acted(N)
BY SimpleStarts DEF Sync

LEMMA CreateActs ==
  ASSUME Base, createDatabase
  PROVE  \E N : Acted(N)
BY SimpleStarts DEF createDatabase

LEMMA DeleteActs ==
  ASSUME Base, deleteSelectedDatabase
  PROVE  \E N : Acted(N)
BY SimpleStarts DEF deleteSelectedDatabase, canRun

LEMMA ArchiveActs ==
  ASSUME Base, archiveDatabase
  PROVE  \E N : Acted(N)
BY SimpleStarts DEF archiveDatabase, canRun

LEMMA CancelActs ==
  ASSUME Base, cancelArchive
  PROVE  \E N : Acted(N)
BY SimpleStarts DEF cancelArchive, canRun

LEMMA RestoreActs ==
  ASSUME Base, restoreArchive
  PROVE  \E N : Acted(N)
<1> DEFINE y == Task(ui, "restore", "beginRestore")
           x == [y EXCEPT !.image = ui.snapshot]
<1>1. UiOK(ui) /\ ui.snapshot \in Images /\ Sorted(ui.snapshot)
  BY DEF Base, UiOK, Uis
<1>2. "restore" \in Handlers /\ "beginRestore" \in Awaits["restore"]
  BY DEF Handlers, Awaits
<1>3. /\ y \in TaskSet /\ New(y, ui, "restore", "beginRestore") /\ y.statement = NoStatement
      /\ y.rest = <<>>
  BY <1>1, <1>2, TaskMade
<1>4. Acts("restore") /\ Start(x) /\ ui.databaseId # NoDb /\ ui.principal
  BY DEF restoreArchive, canRestore, canRun
<1> HIDE DEF y
<1>5. /\ x \in TaskSet /\ New(x, ui, "restore", "beginRestore") /\ x.image = ui.snapshot
      /\ x.statement = NoStatement /\ x.rest = <<>>
  BY <1>1, <1>3 DEF TaskSet, New
<1> HIDE DEF x
<1>6. TaskOK(x)
  BY <1>1, <1>2, <1>4, <1>5, NewIsOK DEF NoStatement
<1>7. Same(ui, ui')
  BY <1>1, <1>4, Touched DEF Start, Render
<1>8. Started({x})
  BY <1>4, <1>5, <1>7 DEF Started, ControlOf, New, Acts, May
<1> QED BY <1>4, <1>6, <1>8, StartActs

LEMMA SelectTableActs ==
  ASSUME Base, NEW n \in Names, selectTable(n)
  PROVE  \E N : Acted(N)
<1> DEFINE y == Task(ui, "selectTable", "table")
           x == [y EXCEPT !.target = n]
<1>1. UiOK(ui) /\ n \in Tables
  BY DEF Base, Names, Tables
<1>2. "selectTable" \in Handlers /\ "table" \in Awaits["selectTable"]
  BY DEF Handlers, Awaits
<1>3. /\ y \in TaskSet /\ New(y, ui, "selectTable", "table") /\ y.statement = NoStatement
      /\ y.rest = <<>> /\ y.image = NoImage
  BY <1>1, <1>2, TaskMade
<1>4. Acts("selectTable") /\ Start(x) /\ ui.databaseId # NoDb /\ ui.principal /\ n \in ui.tables
  BY <1>1 DEF selectTable, UiOK
<1> HIDE DEF y
<1>5. /\ x \in TaskSet /\ New(x, ui, "selectTable", "table") /\ x.image = NoImage
      /\ x.statement = NoStatement /\ x.rest = <<>> /\ x.target = n
  BY <1>1, <1>3 DEF TaskSet, New
<1> HIDE DEF x
<1>6. TaskOK(x)
  BY <1>1, <1>2, <1>4, <1>5, NewIsOK, NothingIsTyped DEF NoStatement
<1>7. Same(ui, ui')
  BY <1>1, <1>4, Touched DEF Start, Render
<1>8. Started({x})
  BY <1>4, <1>5, <1>7 DEF Started, ControlOf, New, Acts, May
<1> QED BY <1>4, <1>6, <1>8, StartActs

LEMMA PageActs ==
  ASSUME Base, NEW offset \in 0..MaxKey, loadTablePage(offset)
  PROVE  \E N : Acted(N)
<1> DEFINE y == Task(ui, "page", "table")
           x == [y EXCEPT !.offset = offset]
<1>1. UiOK(ui) /\ ui \in Uis
  BY DEF Base, UiOK
<1>2. "page" \in Handlers /\ "table" \in Awaits["page"]
  BY DEF Handlers, Awaits
<1>3. /\ y \in TaskSet /\ New(y, ui, "page", "table") /\ y.statement = NoStatement
      /\ y.rest = <<>> /\ y.image = NoImage /\ y.target = ui.tableName
  BY <1>1, <1>2, TaskMade
<1>4. /\ Acts("page") /\ Start(x) /\ ui.databaseId # NoDb /\ ui.principal
      /\ ui.tableName # NoTable /\ ui.tableName \in Names
  BY <1>1 DEF loadTablePage, UiOK, Uis, Tables, Names, NoTable
<1> HIDE DEF y
<1>5. /\ x \in TaskSet /\ New(x, ui, "page", "table") /\ x.image = NoImage
      /\ x.statement = NoStatement /\ x.rest = <<>> /\ x.target = ui.tableName
  BY <1>1, <1>3 DEF TaskSet, New
<1> HIDE DEF x
<1>6. TaskOK(x)
  BY <1>1, <1>2, <1>4, <1>5, NewIsOK, NothingIsTyped DEF NoStatement
<1>7. Same(ui, ui')
  BY <1>1, <1>4, Touched DEF Start, Render
<1>8. Started({x})
  BY <1>4, <1>5, <1>7 DEF Started, ControlOf, New, Acts, May
<1> QED BY <1>4, <1>6, <1>8, StartActs

(* The four handlers that send statements.                                 *)
LEMMA SendActs ==
  ASSUME Base, NEW op \in {"row", "createTable", "sql", "loadDump"}, Acts(ControlOf(op)),
         ui.databaseId # NoDb,
         NEW s \in Statements, s.kind = "create" => s.table \in Names,
         NEW rest \in Seq(Batches), op # "loadDump" => rest = <<>>,
         NEW x, x = [Task(ui, op, "statement") EXCEPT !.statement = s, !.rest = rest], Start(x)
  PROVE  Acted({x})
<1> DEFINE y == Task(ui, op, "statement")
<1>1. UiOK(ui)
  BY DEF Base
<1>2. op \in Handlers /\ "statement" \in Awaits[op]
  BY DEF Handlers, Awaits
<1>3. y \in TaskSet /\ New(y, ui, op, "statement") /\ y.image = NoImage
  BY <1>1, <1>2, TaskMade
<1> HIDE DEF y
<1>4. x = [y EXCEPT !.statement = s, !.rest = rest]
  BY DEF y
<1>5. /\ x \in TaskSet /\ New(x, ui, op, "statement") /\ x.image = NoImage /\ x.statement = s
      /\ x.rest = rest
  BY <1>3, <1>4 DEF TaskSet, New
<1>6. TaskOK(x)
  BY <1>1, <1>2, <1>5, NewIsOK, NothingIsTyped
<1>7. Same(ui, ui')
  BY <1>1, Touched DEF Start, Render
<1>8. ControlOf(x.op) \in session.may
  BY <1>5 DEF New, Acts, May
<1>9. Started({x})
  BY <1>5, <1>7, <1>8 DEF Started
<1>10. ui.principal
  BY <1>1 DEF UiOK
<1> QED BY <1>6, <1>9, <1>10, StartActs

(* A handler that sends one has no batches to send after it.               *)
LEMMA NoneAfter ==
  ASSUME NEW op, NEW s
  PROVE  [Task(ui, op, "statement") EXCEPT !.statement = s]
           = [Task(ui, op, "statement") EXCEPT !.statement = s, !.rest = <<>>]
<1> DEFINE x == [Task(ui, op, "statement") EXCEPT !.statement = s]
<1>1. x = [x EXCEPT !.rest = x.rest]
  BY DEF Task
<1>2. x.rest = <<>>
  BY DEF Task
<1> QED BY <1>1, <1>2

LEMMA RowActs ==
  ASSUME Base, NEW mutation \in {"insert", "update", "delete"}, mutateRow(mutation)
  PROVE  \E N : Acted(N)
<1> DEFINE key == IF mutation = "insert" THEN 0 ELSE selectedRow
           s == [kind |-> mutation, table |-> ui.description.table, key |-> key]
<1>1. ui \in Uis
  BY DEF Base, UiOK
<1>2. ui.description.table \in Tables
  BY <1>1 DEF Uis, Descriptions
<1>3. selectedRow \in 0..MaxKey
  <2>1. ui.preview.rows \in Seq(Keys) /\ MaxKey \in Nat
    BY <1>1, RowsAreSequences, Bounds DEF Uis, Pages
  <2>2. CASE ui.selected \in DOMAIN ui.preview.rows
    <3>1. selectedRow \in Keys
      BY <2>1, <2>2, LenProperties, ElementOfSeq DEF selectedRow
    <3> QED BY <2>1, <3>1 DEF Keys
  <2>3. CASE ui.selected \notin DOMAIN ui.preview.rows
    BY <2>1, <2>3 DEF selectedRow
  <2> QED BY <2>2, <2>3
<1>4. key \in 0..MaxKey
  BY <1>3, NothingIsTyped
<1>5. ui.databaseId # NoDb /\ Acts("edit") /\ ControlOf("row") = "edit"
  BY DEF mutateRow, canEditRows, canWriteDatabase, canRun, ControlOf
<1>6. Start([Task(ui, "row", "statement") EXCEPT !.statement = s])
  BY DEF mutateRow
<1> HIDE DEF key
<1>7. s \in Statements /\ s.kind # "create"
  BY <1>2, <1>4 DEF Statements
<1> HIDE DEF s
<1> QED BY <1>5, <1>6, <1>7, NoneAfter, NothingIsTyped, SendActs

LEMMA CreateTableActs ==
  ASSUME Base, NEW n \in Names, createTable(n)
  PROVE  \E N : Acted(N)
<1> DEFINE s == [kind |-> "create", table |-> n, key |-> 0]
<1>1. n \in Tables /\ 0 \in 0..MaxKey
  BY NothingIsTyped DEF Names, Tables
<1>2. s \in Statements /\ s.table \in Names
  BY <1>1 DEF Statements
<1>3. /\ ui.databaseId # NoDb /\ Acts("createTable") /\ ControlOf("createTable") = "createTable"
      /\ Start([Task(ui, "createTable", "statement") EXCEPT !.statement = s])
  BY DEF createTable, canWriteDatabase, canRun, ControlOf
<1> HIDE DEF s
<1> QED BY <1>2, <1>3, NoneAfter, NothingIsTyped, SendActs

LEMMA SqlActs ==
  ASSUME Base, NEW n \in Names, NEW kind \in {"query", "create"}, runSql(kind, n)
  PROVE  \E N : Acted(N)
<1> DEFINE s == [kind |-> kind, table |-> n, key |-> 0]
<1>1. n \in Tables /\ 0 \in 0..MaxKey
  BY NothingIsTyped DEF Names, Tables
<1>2. s \in Statements /\ s.table \in Names
  BY <1>1 DEF Statements
<1>3. /\ ui.databaseId # NoDb /\ Acts("sql") /\ ControlOf("sql") = "sql"
      /\ Start([Task(ui, "sql", "statement") EXCEPT !.statement = s])
  BY DEF runSql, canRun, ControlOf
<1> HIDE DEF s
<1> QED BY <1>2, <1>3, NoneAfter, NothingIsTyped, SendActs

LEMMA DumpActs ==
  ASSUME Base, NEW batches \in DumpFiles, loadSqlDumpFile(batches)
  PROVE  \E N : Acted(N)
<1>1. batches \in Seq(Batches) /\ batches # <<>>
  BY Bounds
<1>2. Head(batches) \in Batches /\ Tail(batches) \in Seq(Batches)
  BY <1>1, HeadTailProperties
<1>3. Head(batches) \in Statements /\ Head(batches).table \in Names
  BY <1>2, NothingIsTyped DEF Batches, Statements, Names, Tables
<1>4. /\ ui.databaseId # NoDb /\ Acts("loadDump") /\ ControlOf("loadDump") = "loadDump"
      /\ Start([Task(ui, "loadDump", "statement") EXCEPT !.statement = Head(batches),
                                                         !.rest = Tail(batches)])
  BY DEF loadSqlDumpFile, canWriteDatabase, canRun, ControlOf
<1> QED BY <1>2, <1>3, <1>4, SendActs

LEMMA ArchiveFileActs ==
  ASSUME Base, NEW file \in ArchiveFiles, loadArchiveFile(file)
  PROVE  \E N : Acted(N)
<1> DEFINE image == [db |-> ui.databaseId, tables |-> file.tables, rows |-> file.rows]
           y == Task(ui, "loadArchive", "file")
           x == [y EXCEPT !.image = image]
<1>1. UiOK(ui) /\ ui.databaseId \in AnyDb
  BY DEF Base, UiOK, Uis
<1>2. image \in Images /\ Sorted(image)
  BY <1>1, Bounds DEF Images, Sorted
<1>3. "loadArchive" \in Handlers /\ "file" \in Awaits["loadArchive"]
  BY DEF Handlers, Awaits
<1>4. /\ y \in TaskSet /\ New(y, ui, "loadArchive", "file") /\ y.statement = NoStatement
      /\ y.rest = <<>>
  BY <1>1, <1>3, TaskMade
<1>5. Acts("loadArchive") /\ Start(x) /\ ui.databaseId # NoDb /\ ui.principal
  BY DEF loadArchiveFile, canRun
<1> HIDE DEF y, image
<1>6. /\ x \in TaskSet /\ New(x, ui, "loadArchive", "file") /\ x.image = image
      /\ x.statement = NoStatement /\ x.rest = <<>>
  BY <1>2, <1>4 DEF TaskSet, New
<1> HIDE DEF x
<1>7. TaskOK(x)
  BY <1>1, <1>2, <1>3, <1>5, <1>6, NewIsOK DEF NoStatement
<1>8. Same(ui, ui')
  BY <1>1, <1>5, Touched DEF Start, Render
<1>9. Started({x})
  BY <1>5, <1>6, <1>8 DEF Started, ControlOf, New, Acts, May
<1> QED BY <1>5, <1>7, <1>9, StartActs

LEMMA RenderStays ==
  ASSUME NEW u, Render(u, FALSE, tasks)
  PROVE  ui' = u /\ Turn(tasks, {}, {}, tasks', ui', Fires(ui, ui', FALSE))
BY Stays DEF Render

LEMMA SelectActs ==
  ASSUME Base, NEW d \in Dbs, selectDatabase(d)
  PROVE  \E N : Acted(N)
<1> DEFINE v == [ui EXCEPT !.databaseId = d]
           c == clearTableState(v)
<1>1. UiOK(ui) /\ ui \in Uis /\ ui.principal
  BY DEF Base, UiOK, selectDatabase
<1>2. /\ UiOK(v) /\ v.databaseId = d /\ v.principal = ui.principal
      /\ v.databases = ui.databases /\ v.limit = ui.limit /\ v.snapshot = ui.snapshot
  BY <1>1 DEF UiOK, Uis, AnyDb
<1> HIDE DEF v
<1>3. /\ UiOK(c) /\ SameChoice(v, c) /\ c.snapshot = v.snapshot /\ NoTables(c)
  BY <1>2, Wiped DEF SameChoice, NoTables
<1>4. ui' = c /\ Turn(tasks, {}, {}, tasks', ui', Fires(ui, ui', FALSE))
  BY RenderStays DEF selectDatabase, v
<1> HIDE DEF c
<1>5. /\ "select" \in session.may /\ (session.patient => tasks = EmptyBag)
      /\ budget' \in 0..session.ops
  BY Bounds DEF selectDatabase, Acts, May, Base
<1>6. Selected({})
  BY <1>2, <1>3, <1>4, <1>5 DEF Selected, SameChoice
<1>7. Acted({})
  BY <1>3, <1>4, <1>5, <1>6 DEF Acted
<1> QED BY <1>7

LEMMA OpenSqlActs ==
  ASSUME Base, NEW n \in Names, openTableSql(n)
  PROVE  \E N : Acted(N)
<1> DEFINE v == [ui EXCEPT !.tableName = n]
<1>1. UiOK(ui) /\ ui \in Uis /\ n \in Tables
  BY DEF Base, UiOK, Names, Tables
<1>2. /\ UiOK(v) /\ SameChoice(ui, v) /\ v.snapshot = ui.snapshot /\ v.tableName = n
      /\ v.tables = ui.tables /\ v.description = ui.description /\ v.preview = ui.preview
  BY <1>1 DEF UiOK, Uis, SameChoice
<1>3. Render(v, FALSE, tasks)
  BY DEF openTableSql
<1> HIDE DEF v
<1>4. ui' = v /\ Turn(tasks, {}, {}, tasks', ui', Fires(ui, ui', FALSE))
  BY <1>3, RenderStays
<1>5. /\ "openSql" \in session.may /\ (session.patient => tasks = EmptyBag)
      /\ budget' \in 0..session.ops
      /\ n \in (ui.tables \cup {ui.description.table}) \ {NoTable}
  BY Bounds DEF openTableSql, Acts, May, Base
<1>6. Named({})
  BY <1>2, <1>4, <1>5 DEF Named
<1>7. Acted({})
  BY <1>2, <1>4, <1>5, <1>6 DEF Acted
<1> QED BY <1>7

LEMMA LimitActs ==
  ASSUME Base, NEW limit \in Limits, changeTableLimit(limit)
  PROVE  \E N : Acted(N)
<1> DEFINE v == [ui EXCEPT !.limit = limit]
           x == Task(v, "limit", "preview")
<1>1. UiOK(ui) /\ ui \in Uis
  BY DEF Base, UiOK
<1>2. /\ UiOK(v) /\ v.databaseId = ui.databaseId /\ v.principal = ui.principal /\ v.limit = limit
      /\ v.databases = ui.databases /\ SameTables(ui, v) /\ v.snapshot = ui.snapshot
  BY <1>1 DEF UiOK, Uis, SameTables
<1>3. /\ "limit" \in session.may /\ (session.patient => tasks = EmptyBag)
      /\ budget' \in 0..session.ops /\ ui.preview # NoPreview /\ limit # ui.limit
  BY Bounds DEF changeTableLimit, Acts, May, Base
<1>4. CASE ui.databaseId = NoDb \/ ui.tableName = NoTable
  <2>1. Render(v, FALSE, tasks)
    BY <1>4 DEF changeTableLimit
  <2> HIDE DEF v
  <2>2. ui' = v /\ Turn(tasks, {}, {}, tasks', ui', Fires(ui, ui', FALSE))
    BY <2>1, RenderStays
  <2>3. Resized({})
    BY <1>2, <1>3, <1>4, <2>2 DEF Resized
  <2>4. Acted({})
    BY <1>2, <1>3, <2>2, <2>3 DEF Acted
  <2> QED BY <2>4
<1>5. CASE ui.databaseId # NoDb /\ ui.tableName # NoTable
  <2>1. Render(Loading(v), FALSE, BagAdd(tasks, x))
    BY <1>5 DEF changeTableLimit
  <2> HIDE DEF v
  <2>2. "limit" \in Handlers /\ "preview" \in Awaits["limit"]
    BY DEF Handlers, Awaits
  <2>3. /\ x \in TaskSet /\ New(x, v, "limit", "preview") /\ x.target = v.tableName
        /\ x.offset = 0 /\ x.statement = NoStatement /\ x.rest = <<>> /\ x.image = NoImage
    BY <1>2, <2>2, TaskMade
  <2> HIDE DEF x
  <2>4. x.target = ui.tableName /\ ui.tableName \in Names
    BY <1>1, <1>2, <1>5, <2>3 DEF SameTables, Uis, Tables, Names, NoTable
  <2>5. TaskOK(x)
    BY <1>2, <1>5, <2>2, <2>3, <2>4, NewIsOK, NothingIsTyped DEF NoStatement
  <2>6. UiOK(Loading(v)) /\ Same(v, Loading(v))
    BY <1>2, Touched
  <2>7. ui' = Loading(v) /\ Turn(tasks, {}, {x}, tasks', ui', Fires(ui, ui', FALSE))
    BY <2>1, Starts DEF Render
  <2>8. ui'.principal
    BY <1>1, <1>2, <1>5, <2>6, <2>7 DEF Same, UiOK
  <2>9. Resized({x})
    <3>1. SameTables(ui, ui') /\ ui'.databaseId = ui.databaseId /\ ui'.principal = ui.principal
          /\ ui'.databases = ui.databases /\ ui'.snapshot = ui.snapshot /\ ui'.limit = limit
      BY <1>2, <2>6, <2>7 DEF Same, SameTables
    <3>2. New(x, ui', "limit", "preview")
      BY <2>3, <2>6, <2>7 DEF New, Same
    <3> QED BY <1>3, <1>5, <2>3, <2>4, <3>1, <3>2 DEF Resized
  <2>10. Allowed(x)
    BY <1>3, <2>3 DEF Allowed, New, ControlOf
  <2>11. Acted({x})
    BY <1>3, <2>5, <2>6, <2>7, <2>8, <2>9, <2>10 DEF Acted
  <2> QED BY <2>11
<1> QED BY <1>4, <1>5

LEMMA PreviewRowActs ==
  ASSUME Base, NEW i \in 1..MaxKey, selectPreviewRow(i)
  PROVE  \E N : Acted(N)
<1> DEFINE draft == [db |-> ui.preview.db, table |-> ui.preview.table, key |-> ui.preview.rows[i]]
           v == [ui EXCEPT !.selected = i, !.draft = draft]
<1>1. UiOK(ui) /\ ui \in Uis /\ i \in DOMAIN ui.preview.rows
  BY DEF Base, UiOK, selectPreviewRow
<1>2. draft \in Drafts
  <2>1. ui.preview.rows \in Seq(Keys) /\ MaxKey \in Nat
    BY <1>1, RowsAreSequences, Bounds DEF Uis, Pages
  <2>2. ui.preview.rows[i] \in Keys
    BY <1>1, <2>1, LenProperties, ElementOfSeq
  <2>3. ui.preview.rows[i] \in 0..MaxKey
    BY <2>1, <2>2 DEF Keys
  <2> QED BY <1>1, <2>3 DEF Drafts, Uis, Pages, AnyDb, Tables
<1>3. Render(v, FALSE, tasks)
  BY DEF selectPreviewRow
<1> HIDE DEF draft
<1>4. i \in 0..MaxKey
  BY Bounds
<1>5. UiOK(v) /\ Same(ui, v)
  BY <1>1, <1>2, <1>4 DEF UiOK, Uis, Same
<1> HIDE DEF v
<1>6. ui' = v /\ Turn(tasks, {}, {}, tasks', ui', Fires(ui, ui', FALSE))
  BY <1>3, RenderStays
<1>7. (session.patient => tasks = EmptyBag) /\ budget' \in 0..session.ops
  BY DEF selectPreviewRow, May, Base
<1>8. Acted({})
  BY <1>5, <1>6, <1>7 DEF Acted
<1> QED BY <1>8

LEMMA NewRowActs ==
  ASSUME Base, startNewRow
  PROVE  \E N : Acted(N)
<1> DEFINE v == [ui EXCEPT !.selected = 0, !.draft = NoRow]
<1>1. UiOK(ui) /\ ui \in Uis
  BY DEF Base, UiOK
<1>2. Render(v, FALSE, tasks)
  BY DEF startNewRow
<1>3. UiOK(v) /\ Same(ui, v)
  BY <1>1, NothingIsTyped DEF UiOK, Uis, Same
<1> HIDE DEF v
<1>4. ui' = v /\ Turn(tasks, {}, {}, tasks', ui', Fires(ui, ui', FALSE))
  BY <1>2, RenderStays
<1>5. (session.patient => tasks = EmptyBag) /\ budget' \in 0..session.ops
  BY DEF startNewRow, May, Base
<1>6. Acted({})
  BY <1>3, <1>4, <1>5 DEF Acted
<1> QED BY <1>6

LEMMA Acting ==
  ASSUME Base, User
  PROVE  /\ UNCHANGED <<store, session>>
         /\ \E N : Acted(N)
<1>1. UNCHANGED <<store, session>>
  BY DEF User, Sync, createDatabase, deleteSelectedDatabase, archiveDatabase, cancelArchive,
         restoreArchive, startNewRow, selectDatabase, selectTable, openTableSql, createTable,
         runSql, loadTablePage, changeTableLimit, selectPreviewRow, mutateRow, loadSqlDumpFile,
         loadArchiveFile, Acts
<1>2. \E N : Acted(N)
  BY SyncActs, CreateActs, DeleteActs, ArchiveActs, CancelActs, RestoreActs, NewRowActs, SelectActs,
     SelectTableActs, OpenSqlActs, CreateTableActs, SqlActs, PageActs, LimitActs, PreviewRowActs,
     RowActs, DumpActs, ArchiveFileActs
  DEF User
<1> QED BY <1>1, <1>2

--------------------------------------------------------------------------------
(* Types.                                                                  *)

LEMMA EffectIsOK ==
  ASSUME NEW u, UiOK(u), u.databaseId # NoDb
  PROVE  TaskOK(EffectOf(u)) /\ Allowed(EffectOf(u))
<1> DEFINE await == IF u.databases[u.databaseId] = "hot" THEN "resources" ELSE "account"
           x == Task(u, "effect", await)
<1>1. "effect" \in Handlers /\ await \in Awaits["effect"] /\ await \notin {"table", "preview"}
  BY DEF Handlers, Awaits, Loads
<1> HIDE DEF await
<1>2. /\ x \in TaskSet /\ New(x, u, "effect", await) /\ x.statement = NoStatement /\ x.rest = <<>>
      /\ x.image = NoImage
  BY <1>1, TaskMade
<1>3. x = EffectOf(u)
  BY DEF EffectOf, await
<1> HIDE DEF x
<1>4. TaskOK(x)
  BY <1>1, <1>2, NewIsOK, NothingIsTyped DEF NoStatement
<1> QED BY <1>3, <1>4, EffectIsEffect DEF Allowed

(* The tasks after a step are well formed if those that it starts are.     *)
LEMMA TurnTyped ==
  ASSUME Base, NEW u, UiOK(u), NEW R, NEW N, NEW C, NEW fire \in BOOLEAN, Turn(tasks, R, N, C, u,
         fire),
         fire => u.principal /\ u.databaseId # NoDb, ui.principal => u.principal,
         \A x \in N : TaskOK(x) /\ Allowed(x) /\ (x.op # "refresh" => u.principal)
  PROVE  \A t \in DOMAIN C : TaskOK(t) /\ Allowed(t) /\ (t.op # "refresh" => u.principal)
BY EffectIsOK DEF Turn, Base

LEMMA StepTyped ==
  ASSUME Base, [Next]_vars
  PROVE  Base'
<1>1. CASE UNCHANGED vars
  BY <1>1 DEF vars, Base, Allowed, StoreOK, UiOK, Sorted
<1>2. ASSUME NEW op \in Handlers, ServeOf(op)
      PROVE  Base'
  <2>1. PICK t \in DOMAIN tasks : \E x : Served(t, x)
    BY <1>2, Serving
  <2>2. PICK x : Served(t, x)
    BY <2>1
  <2>3. UNCHANGED <<ui, edit, session, budget>>
    BY <1>2, Serving
  <2> DEFINE fire == FALSE
  <2>4. TaskOK(x) /\ x.op = t.op /\ Turn(tasks, {t}, {x}, tasks', ui, fire) /\ StoreOK(store')
    BY <2>2 DEF Served, Alike
  <2>5. UiOK(ui) /\ \A y \in {x} : TaskOK(y) /\ Allowed(y) /\ (y.op # "refresh" => ui.principal)
    BY <2>4 DEF Base, Allowed
  <2>6. fire \in BOOLEAN /\ ~fire
    OBVIOUS
  <2> HIDE DEF fire
  <2>7. \A e \in DOMAIN tasks' : TaskOK(e) /\ Allowed(e) /\ (e.op # "refresh" => ui.principal)
    BY <2>4, <2>5, <2>6, TurnTyped
  <2> QED BY <1>2, <2>3, <2>4, <2>7 DEF Base, Allowed
<1>3. ASSUME NEW op \in Handlers, ResumeOf(op)
      PROVE  Base'
  <2>1. PICK t \in DOMAIN tasks : \E N : \E relisted \in BOOLEAN : Resumed(t, N, relisted)
    BY <1>3, Resuming
  <2>2. PICK N : \E relisted \in BOOLEAN : Resumed(t, N, relisted)
    BY <2>1
  <2>3. PICK relisted \in BOOLEAN : Resumed(t, N, relisted)
    BY <2>2
  <2>4. UNCHANGED <<store, edit, session, budget>>
    BY <1>3, Resuming
  <2> DEFINE fire == Fires(ui, ui', relisted)
  <2>5. /\ UiOK(ui') /\ Turn(tasks, {t}, N, tasks', ui', fire) /\ \A x \in N : TaskOK(x)
    BY <2>3 DEF Resumed
  <2>6. fire \in BOOLEAN /\ (fire => ui'.principal /\ ui'.databaseId # NoDb)
    BY DEF Fires
  <2>7. ui.principal => ui'.principal
    BY <2>3, <2>5 DEF Resumed, Caught, Relisted, AccountShown, DetailsShown, TableShown,
                      PreviewShown, Reloads, FileShown, CallFollowed, Same, SameChoice, UiOK, Uis
  <2>8. \A x \in N : x.op = t.op
    BY <2>3 DEF Resumed, Caught, Relisted, AccountShown, DetailsShown, TableShown,
                PreviewShown, Reloads, FileShown, CallFollowed, GoesTo, LoadsTable, Follows
  <2>9. \A x \in N : Allowed(x) /\ (x.op # "refresh" => ui'.principal)
    BY <2>7, <2>8 DEF Base, Allowed
  <2> HIDE DEF fire
  <2>10. \A e \in DOMAIN tasks' : TaskOK(e) /\ Allowed(e) /\ (e.op # "refresh" => ui'.principal)
    BY <2>5, <2>6, <2>7, <2>9, TurnTyped
  <2> QED BY <2>4, <2>5, <2>10 DEF Base, Allowed
<1>4. CASE User
  <2>1. PICK N : Acted(N)
    BY <1>4, Acting
  <2>2. UNCHANGED <<store, session>>
    BY <1>4, Acting
  <2> DEFINE fire == Fires(ui, ui', FALSE)
  <2>3. /\ UiOK(ui') /\ Turn(tasks, {}, N, tasks', ui', fire) /\ budget' \in 0..session.ops
        /\ \A x \in N : TaskOK(x) /\ Allowed(x) /\ (x.op # "refresh" => ui'.principal)
    BY <2>1 DEF Acted
  <2>4. fire \in BOOLEAN /\ (fire => ui'.principal /\ ui'.databaseId # NoDb)
    BY DEF Fires
  <2>5. ui.principal => ui'.principal
    BY <2>1 DEF Acted, Started, Selected, Named, Resized, Same, SameChoice
  <2> HIDE DEF fire
  <2>6. \A e \in DOMAIN tasks' : TaskOK(e) /\ Allowed(e) /\ (e.op # "refresh" => ui'.principal)
    BY <2>3, <2>4, <2>5, TurnTyped
  <2> QED BY <2>2, <2>3, <2>6 DEF Base, Allowed
<1> QED BY <1>1, <1>2, <1>3, <1>4 DEF Next

LEMMA InitTyped ==
  ASSUME Init
  PROVE  Base
<1>1. StoreOK(store)
  BY Bounds DEF Init, StoreOK, Sorted
<1>2. UiOK(ui)
  <2> DEFINE databases == [d \in Dbs \union {NoDb} |-> "none"]
  <2>1. Min(Limits) \in Limits
    BY LeastNumber, Bounds
  <2>2. databases \in [AnyDb -> Statuses] /\ databases[NoDb] = "none"
    BY DEF AnyDb, Statuses
  <2>3. ui = [principal |-> FALSE, databases |-> databases, databaseId |-> NoDb, tables |-> {},
              tableName |-> NoTable, limit |-> Min(Limits), description |-> NoDescription,
              preview |-> NoPreview, selected |-> 0, draft |-> NoRow, snapshot |-> NoImage,
              loadState |-> "loading"]
    BY DEF Init
  <2> HIDE DEF databases
  <2> QED BY <2>1, <2>2, <2>3, NothingIsTyped DEF UiOK, Uis, AnyDb
<1>3. \A t \in DOMAIN tasks : TaskOK(t) /\ t.op = "refresh"
  <2> DEFINE x == Task(ui, "refresh", "list")
  <2>1. DOMAIN tasks = {x}
    BY DEF Init, SetToBag
  <2>2. "refresh" \in Handlers /\ "list" \in Awaits["refresh"]
    BY DEF Handlers, Awaits
  <2>3. /\ x \in TaskSet /\ New(x, ui, "refresh", "list") /\ x.statement = NoStatement
        /\ x.rest = <<>> /\ x.image = NoImage
    BY <1>2, <2>2, TaskMade
  <2> HIDE DEF x
  <2>4. TaskOK(x) /\ x.op = "refresh"
    BY <1>2, <2>2, <2>3, NewIsOK, NothingIsTyped DEF NoStatement, New
  <2> QED BY <2>1, <2>4
<1>4. session \in Sessions /\ budget \in 0..session.ops
  BY Bounds DEF Init
<1> QED BY <1>1, <1>2, <1>3, <1>4 DEF Base, Allowed

LEMMA BaseGivesTypes ==
  ASSUME Base
  PROVE  TypeOK
BY DEF Base, TypeOK, StoreOK, Sorted, UiOK, Uis, AnyDb, Tables, TaskOK, TaskSet, BagToSet

LEMMA BaseInvariance == Spec => []Base
<1>1. Init => Base
  BY InitTyped
<1>2. Base /\ [Next]_vars => Base'
  BY StepTyped
<1> QED BY <1>1, <1>2, PTL DEF Spec

(* Whatever the user does and in whatever order requests are answered, the *)
(* state is well formed, and the keys of every table keep their order.     *)
THEOREM TypeCorrectness == Spec => []TypeOK
<1>1. Base => TypeOK
  BY BaseGivesTypes
<1> QED BY <1>1, BaseInvariance, PTL

--------------------------------------------------------------------------------
(* Every step is one of these.                                             *)

Serves == UNCHANGED <<ui, session>> /\ \E t \in DOMAIN tasks : \E x : Served(t, x)
Resumes == /\ UNCHANGED <<store, session>>
           /\ \E t \in DOMAIN tasks : \E N : \E relisted \in BOOLEAN : Resumed(t, N, relisted)
Begins == UNCHANGED <<store, session>> /\ \E N : Acted(N)

LEMMA Steps ==
  ASSUME Base, [Next]_vars
  PROVE  UNCHANGED vars \/ Serves \/ Resumes \/ Begins
<1>1. ASSUME NEW op \in Handlers, ServeOf(op)
      PROVE  Serves
  BY <1>1, Serving DEF Serves
<1>2. ASSUME NEW op \in Handlers, ResumeOf(op)
      PROVE  Resumes
  BY <1>2, Resuming DEF Resumes
<1>3. ASSUME User
      PROVE  Begins
  BY <1>3, Acting DEF Begins
<1> QED BY <1>1, <1>2, <1>3 DEF Next

LEMMA NoTasks ==
  ASSUME tasks = EmptyBag
  PROVE  Only(tasks, {})
BY DEF EmptyBag, SetToBag, Only

--------------------------------------------------------------------------------
(* A user who waits for the console starts a handler alone, and it remains *)
(* alone until it has listed the databases or goes on to load.             *)

Early(t) ==
  \/ t.await \in {"create", "delete", "beginArchive", "finalizeArchive", "cancelArchive",
                  "beginRestore", "finalizeRestore", "statement"}
  \/ t.await = "list" /\ t.op \notin {"delete", "archive"}

Lone == session.patient => \A t \in DOMAIN tasks : Early(t) => Single(tasks, t)

LEMMA EffectIsLate ==
  ASSUME NEW u
  PROVE  ~Early(EffectOf(u)) /\ EffectOf(u).op = "effect"
BY DEF EffectOf, Task, Early

(* No effect starts beside an early task.                                  *)
LEMMA TurnLone ==
  ASSUME NEW B, \A e \in DOMAIN B : Early(e) => Single(B, e),
         NEW R, NEW N, NEW C, NEW u, NEW fire \in BOOLEAN, Turn(B, R, N, C, u, fire),
         NEW r, R \subseteq {r}, R = {} => Only(B, {}),
         \A x \in N : Early(x) => N = {x} /\ ~fire /\ (R = {} \/ Early(r)), r \in DOMAIN B \/ R = {}
  PROVE  \A e \in DOMAIN C : Early(e) => Single(C, e)
<1> SUFFICES ASSUME NEW e \in DOMAIN C, Early(e)
             PROVE  Single(C, e)
  OBVIOUS
<1>1. CASE e \in N
  <2>1. Only(B, R)
    BY <1>1 DEF Single
  <2> QED BY <1>1, <2>1 DEF Turn, Single
<1>2. CASE e \in DOMAIN B /\ e \notin N
  <2>1. Only(B, {e})
    BY <1>2 DEF Single
  <2>2. e \in R
    BY <2>1 DEF Only
  <2>3. Only(B, R)
    BY <2>1, <2>2
  <2> QED BY <1>2, <2>3, EffectIsLate DEF Turn
<1> QED BY <1>1, <1>2, EffectIsLate DEF Turn

LEMMA LoneStep ==
  ASSUME Base, Lone, [Next]_vars
  PROVE  Lone'
<1> SUFFICES ASSUME session.patient, UNCHANGED session
             PROVE  \A e \in DOMAIN tasks' : Early(e) => Single(tasks', e)
  BY Steps DEF Lone, Serves, Resumes, Begins, vars
<1>1. \A e \in DOMAIN tasks : Early(e) => Single(tasks, e)
  BY DEF Lone
<1>2. CASE UNCHANGED vars
  BY <1>1, <1>2 DEF vars
<1>3. CASE Serves
  <2>1. PICK t \in DOMAIN tasks : \E x : Served(t, x)
    BY <1>3 DEF Serves
  <2>2. PICK x : Served(t, x)
    BY <2>1
  <2> DEFINE fire == FALSE
  <2>3. Turn(tasks, {t}, {x}, tasks', ui, fire)
    BY <2>2 DEF Served
  <2>4. fire \in BOOLEAN /\ ~fire /\ (Early(x) => Early(t))
    BY <2>2 DEF Served, Alike, Early
  <2> HIDE DEF fire
  <2> QED BY <1>1, <2>3, <2>4, TurnLone
<1>4. CASE Resumes
  <2>1. PICK t \in DOMAIN tasks : \E N : \E relisted \in BOOLEAN : Resumed(t, N, relisted)
    BY <1>4 DEF Resumes
  <2>2. PICK N : \E relisted \in BOOLEAN : Resumed(t, N, relisted)
    BY <2>1
  <2>3. PICK relisted \in BOOLEAN : Resumed(t, N, relisted)
    BY <2>2
  <2> DEFINE fire == Fires(ui, ui', relisted)
  <2>4. Turn(tasks, {t}, N, tasks', ui', fire) /\ fire \in BOOLEAN
    BY <2>3 DEF Resumed, Fires
  <2>5. ASSUME NEW x \in N, Early(x)
        PROVE  N = {x} /\ ~fire /\ Early(t)
    <3>1. TaskOK(t)
      BY DEF Base
    <3>2. /\ CallFollowed(t, N, relisted) \/ Reloads(t, N, relisted)
          /\ Early(t) /\ Same(ui, ui')
      BY <2>3, <2>5, <3>1
         DEF Resumed, Caught, Relisted, AccountShown, DetailsShown, TableShown, PreviewShown,
             Reloads, FileShown, CallFollowed, GoesTo, LoadsTable, Follows, Early, TaskOK,
             Awaits, Loads, TaskSet, Handlers, Requests
    <3> QED BY <2>5, <3>2 DEF CallFollowed, Reloads, GoesTo, Fires, Same, SameChoice
  <2> HIDE DEF fire
  <2> QED BY <1>1, <2>4, <2>5, TurnLone
<1>5. CASE Begins
  <2>1. PICK N : Acted(N)
    BY <1>5 DEF Begins
  <2> DEFINE fire == Fires(ui, ui', FALSE)
  <2>2. Turn(tasks, {}, N, tasks', ui', fire) /\ fire \in BOOLEAN /\ Only(tasks, {})
    BY <2>1, NoTasks DEF Acted, Fires
  <2>3. ASSUME NEW x \in N, Early(x)
        PROVE  N = {x} /\ ~fire
    <3>1. Started(N)
      BY <2>1, <2>3 DEF Acted, Selected, Named, Resized, New, Early
    <3> QED BY <2>3, <3>1 DEF Started, Fires, Same
  <2> HIDE DEF fire
  <2> QED BY <1>1, <2>2, <2>3, TurnLone
<1> QED BY <1>2, <1>3, <1>4, <1>5, Steps

--------------------------------------------------------------------------------
(* What an answer does to the store: only the database asked about is      *)
(* changed, and by an early request only.                                  *)

LEMMA Stored ==
  ASSUME Base, NEW t \in DOMAIN tasks, NEW x, Served(t, x)
  PROVE  /\ \/ UNCHANGED store
            \/ /\ t.await \in DOMAIN Moves \cup {"statement", "finalizeRestore", "create"}
               /\ Told(t, x) /\ x.db \in Dbs
         /\ t.await # "create" => x.db = t.db
         /\ t.await = "beginArchive" /\ x.reply.is = "ok" => x.image = ImageOf(t.db)
         /\ t.await # "beginArchive" => x.image = t.image
         /\ \A e \in Dbs : e # x.db => store'[e] = store[e]
         /\ t.await \notin {"statement", "finalizeRestore"} =>
              \A e \in Dbs : store'[e].tables = store[e].tables /\ store'[e].rows = store[e].rows
         /\ t.await = "statement" => \A e \in Dbs : /\ store'[e].status = store[e].status
                                                    /\ store[e].tables \subseteq store'[e].tables
         /\ x.reply.is = "ok" \/ store' # store =>
              /\ t.await \in DOMAIN Moves => /\ store[t.db].status \in Moves[t.await][1]
                                             /\ store'[t.db].status = Moves[t.await][2]
              /\ t.await = "finalizeRestore" => store'[t.db].status = "hot"
              /\ t.await = "create" => store[x.db].status = "none" /\ store'[x.db].status = "hot"
              /\ t.await = "statement" => Accepts(t.db, t.statement)
<1>1. StoreOK(store) /\ TaskOK(t) /\ t \in TaskSet
  BY DEF Base, TaskOK
<1>2. t.reply.is = "awaited"
  BY DEF Served, NoReply
<1>3. t.op # "refresh" /\ t.await # "create" => t.db \in Dbs
  BY <1>1 DEF TaskOK
<1>4. t.op = "refresh" => t.await = "list"
  BY <1>1 DEF TaskOK, Awaits
<1>5. CASE Denied(t, x)
  BY <1>5 DEF Denied
<1>6. CASE x.reply.is = "ok" /\ GrantedRead(t, x)
  BY <1>6, MovesOf DEF GrantedRead
<1>7. CASE Told(t, x) /\ GrantedStatement(t, x)
  <2>1. t.db \in Dbs /\ t.statement \in Statements
    BY <1>1, <1>3, <1>4, <1>7 DEF GrantedStatement, TaskSet
  <2>2. /\ \A e \in Dbs : /\ store'[e].status = store[e].status
                          /\ store[e].tables \subseteq store'[e].tables
        /\ \A e \in Dbs \ {t.db} : store'[e] = store[e]
    BY <1>1, <1>7, <2>1, Executed DEF GrantedStatement, TaskOK
  <2> QED BY <1>7, <2>1, <2>2, MovesOf DEF GrantedStatement
<1>8. CASE Told(t, x) /\ GrantedMove(t, x)
  <2>1. t.db \in Dbs /\ Moves[t.await][2] \in Statuses
    BY <1>3, <1>4, <1>8, MovesOf DEF GrantedMove, Statuses
  <2>2. /\ store'[t.db].status = Moves[t.await][2]
        /\ \A e \in Dbs : store'[e].tables = store[e].tables /\ store'[e].rows = store[e].rows
        /\ \A e \in Dbs \ {t.db} : store'[e] = store[e]
    <3> DEFINE status == Moves[t.await][2]
    <3>1. store' = [store EXCEPT ![t.db].status = status] /\ status \in Statuses
      BY <1>8, <2>1 DEF GrantedMove
    <3> HIDE DEF status
    <3>2. /\ store'[t.db].status = status
          /\ \A e \in Dbs : store'[e].tables = store[e].tables /\ store'[e].rows = store[e].rows
          /\ \A e \in Dbs \ {t.db} : store'[e] = store[e]
      BY <1>1, <2>1, <3>1 DEF StoreOK, Stores
    <3> QED BY <3>2 DEF status
  <2> QED BY <1>8, <2>1, <2>2, MovesOf DEF GrantedMove
<1>9. CASE Told(t, x) /\ GrantedRestore(t, x)
  <2>1. t.db \in Dbs
    BY <1>3, <1>4, <1>9 DEF GrantedRestore
  <2>2. store'[t.db].status = "hot" /\ \A e \in Dbs \ {t.db} : store'[e] = store[e]
    BY <1>1, <1>9, <2>1 DEF GrantedRestore, StoreOK, Stores
  <2> QED BY <1>9, <2>1, <2>2, MovesOf DEF GrantedRestore
<1>10. CASE Told(t, x) /\ GrantedCreate(t, x)
  <2>1. x.db \in Dbs /\ "hot" \in Statuses
    BY <1>10 DEF GrantedCreate, Statuses
  <2>2. /\ store'[x.db].status = "hot"
        /\ \A e \in Dbs : store'[e].tables = store[e].tables /\ store'[e].rows = store[e].rows
        /\ \A e \in Dbs \ {x.db} : store'[e] = store[e]
    <3>1. store' = [store EXCEPT ![x.db].status = "hot"]
      BY <1>10 DEF GrantedCreate
    <3> QED BY <1>1, <2>1, <3>1 DEF StoreOK, Stores
  <2> QED BY <1>10, <2>1, <2>2, MovesOf DEF GrantedCreate
<1> QED BY <1>5, <1>6, <1>7, <1>8, <1>9, <1>10 DEF Served, Granted, Applied

--------------------------------------------------------------------------------
(* The snapshot.  It is the image of an archived database, except while    *)
(* the answer that the archive is final waits to be shown: an answer that  *)
(* is lost is never shown, and a file may hold any image.                  *)

Final(t) == t.await = "finalizeArchive" /\ t.reply.is = "ok"
Holds(t) == t.await = "finalizeArchive" \/ (t.await = "beginArchive" /\ t.reply.is = "ok")

Keeping == /\ session.patient
           /\ "finalizeArchive" \notin session.loses /\ "loadArchive" \notin session.may

Kept == Keeping =>
  /\ \A t \in DOMAIN tasks : Holds(t) => t.image = ImageOf(t.db)
  /\ \A d \in Dbs : ui.snapshot.db = d /\ store[d].status = "archived" =>
       ui.snapshot = ImageOf(d) \/ \E t \in DOMAIN tasks : Final(t) /\ t.db = d

LEMMA EffectHoldsNothing ==
  ASSUME NEW u
  PROVE  ~Holds(EffectOf(u))
BY DEF EffectOf, Task, Holds

(* A task that is served while another holds an image leaves it its image. *)
LEMMA KeptServes ==
  ASSUME Base, Lone, Kept, Keeping, NEW t \in DOMAIN tasks, NEW x, Served(t, x)
  PROVE  /\ \A e \in DOMAIN tasks' : Holds(e) => e.image = ImageOf(e.db)'
         /\ \A d \in Dbs : ui.snapshot.db = d /\ store'[d].status = "archived" =>
              ui.snapshot = ImageOf(d)' \/ \E e \in DOMAIN tasks' : Final(e) /\ e.db = d
<1>1. /\ Alike(t, x) /\ t.reply.is = "awaited"
      /\ x \in DOMAIN tasks' /\ \A e \in DOMAIN tasks' : e \in DOMAIN tasks \/ e = x
      /\ Only(tasks, {t}) => \A e \in DOMAIN tasks' : e = x
  <2>1. t.reply.is = "awaited"
    BY DEF Served, NoReply
  <2> QED BY <2>1 DEF Served, Turn
<1>2. /\ \/ UNCHANGED store
         \/ /\ t.await \in DOMAIN Moves \cup {"statement", "finalizeRestore", "create"}
            /\ Told(t, x) /\ x.db \in Dbs
      /\ t.await # "create" => x.db = t.db
      /\ t.await = "beginArchive" /\ x.reply.is = "ok" => x.image = ImageOf(t.db)
      /\ t.await # "beginArchive" => x.image = t.image
  BY Stored
<1>3. Early(t) => \A e \in DOMAIN tasks' : e = x
  BY <1>1 DEF Keeping, Lone, Single
<1>4. UNCHANGED store \/ \A e \in DOMAIN tasks' : e = x
  BY <1>2, <1>3, MovesOf DEF Early
<1>5. ~\E e \in DOMAIN tasks : Final(e)
  <2> SUFFICES ASSUME NEW e \in DOMAIN tasks, Final(e)
               PROVE  FALSE
    OBVIOUS
  <2>1. Single(tasks, e)
    BY DEF Keeping, Lone, Final, Early
  <2> QED BY <1>1, <2>1 DEF Single, Only, Final
<1>6. ASSUME Holds(x)
      PROVE  x.image = ImageOf(x.db)'
  <2>1. x.await = t.await /\ t.await \in {"beginArchive", "finalizeArchive"}
    BY <1>1, <1>6 DEF Holds, Alike
  <2>2. x.image = ImageOf(x.db) /\ x.db = t.db
    BY <1>1, <1>2, <1>6, <2>1 DEF Holds, Kept
  <2>3. x.db \in Dbs
    BY <1>2, <2>1, <2>2 DEF Base, TaskOK, TaskSet, Awaits, Handlers
  <2>4. store'[x.db].tables = store[x.db].tables /\ store'[x.db].rows = store[x.db].rows
    BY <2>1, <2>3, Stored
  <2> QED BY <2>2, <2>4 DEF ImageOf
<1>7. \A e \in DOMAIN tasks' : Holds(e) => e.image = ImageOf(e.db)'
  <2> SUFFICES ASSUME NEW e \in DOMAIN tasks', Holds(e), e # x
               PROVE  e.image = ImageOf(e.db)'
    BY <1>6
  <2>1. e \in DOMAIN tasks /\ UNCHANGED store
    BY <1>1, <1>4
  <2> QED BY <2>1 DEF Kept, ImageOf
<1>8. ASSUME NEW d \in Dbs, ui.snapshot.db = d, store'[d].status = "archived"
      PROVE  ui.snapshot = ImageOf(d)' \/ \E e \in DOMAIN tasks' : Final(e) /\ e.db = d
  <2>1. CASE store[d].status = "archived"
    <3>1. ui.snapshot = ImageOf(d)
      BY <1>5, <1>8, <2>1 DEF Kept
    <3>2. store'[d].tables = store[d].tables /\ store'[d].rows = store[d].rows
      BY <1>2, <1>8, <2>1, Stored DEF Accepts
    <3> QED BY <3>1, <3>2 DEF ImageOf
  <2>2. CASE store[d].status # "archived"
    <3>1. Told(t, x) /\ d = x.db /\ store' # store
      BY <1>2, <1>8, <2>2, Stored
    <3>2. t.await \in DOMAIN Moves
      BY <1>2, <1>8, <2>2, <3>1, Stored, MovesOf
    <3>3. d = t.db /\ Moves[t.await][2] = "archived"
      BY <1>2, <1>8, <3>1, <3>2, MovesOf, Stored
    <3>4. t.await = "finalizeArchive"
      BY <3>2, <3>3, MovesOf
    <3>5. Final(x)
      BY <1>1, <3>1, <3>4 DEF Final, Alike, Told, Keeping
    <3> QED BY <1>1, <3>1, <3>5
  <2> QED BY <2>1, <2>2
<1> QED BY <1>7, <1>8

LEMMA KeptResumes ==
  ASSUME Base, Lone, Kept, Keeping, UNCHANGED store,
         NEW t \in DOMAIN tasks, NEW N, NEW relisted \in BOOLEAN, Resumed(t, N, relisted)
  PROVE  /\ \A e \in DOMAIN tasks' : Holds(e) => e.image = ImageOf(e.db)
         /\ \A d \in Dbs : ui'.snapshot.db = d /\ store[d].status = "archived" =>
              ui'.snapshot = ImageOf(d) \/ \E e \in DOMAIN tasks' : Final(e) /\ e.db = d
<1>1. \A e \in DOMAIN tasks' : e \in DOMAIN tasks \/ e \in N \/ e = EffectOf(ui')
  BY DEF Resumed, Turn
<1>2. TaskOK(t)
  BY DEF Base
<1>3. ASSUME NEW e \in N, Holds(e)
      PROVE  Holds(t) /\ e.image = t.image /\ e.db = t.db
  BY <1>2, <1>3 DEF Resumed, Caught, Relisted, AccountShown, DetailsShown, TableShown, PreviewShown,
              Reloads, FileShown, CallFollowed, GoesTo, LoadsTable, Follows, Holds, NoReply
<1>4. \A e \in DOMAIN tasks' : Holds(e) => e.image = ImageOf(e.db)
  BY <1>1, <1>3, EffectHoldsNothing DEF Kept
<1>5. ui'.snapshot = IF Final(t) THEN t.image ELSE ui.snapshot
  <2>1. ~FileShown(t, N, relisted)
    <3>1. t.await = "file" => t.op = "loadArchive"
      BY <1>2 DEF TaskOK, TaskSet, Awaits, Handlers, Loads
    <3> QED BY <3>1 DEF FileShown, Keeping, Base, Allowed, ControlOf
  <2> QED BY <1>2, <2>1
          DEF Resumed, Caught, Relisted, AccountShown, DetailsShown, TableShown, PreviewShown,
              Reloads, CallFollowed, Same, Final
<1>6. CASE Final(t)
  <2>1. ui'.snapshot = ImageOf(t.db)
    BY <1>5, <1>6 DEF Kept, Holds, Final
  <2>2. ImageOf(t.db).db = t.db
    BY DEF ImageOf
  <2> QED BY <1>4, <2>1, <2>2
<1>7. CASE ~Final(t)
  <2>1. ~\E e \in DOMAIN tasks : Final(e)
    <3> SUFFICES ASSUME NEW e \in DOMAIN tasks, Final(e)
                 PROVE  FALSE
      OBVIOUS
    <3>1. Single(tasks, e)
      BY DEF Keeping, Lone, Final, Early
    <3> QED BY <1>7, <3>1 DEF Single, Only
  <2> QED BY <1>4, <1>5, <1>7, <2>1 DEF Kept
<1> QED BY <1>4, <1>6, <1>7

LEMMA KeptBegins ==
  ASSUME Base, Kept, Keeping, UNCHANGED store, NEW N, Acted(N)
  PROVE  /\ \A e \in DOMAIN tasks' : Holds(e) => e.image = ImageOf(e.db)
         /\ \A d \in Dbs : ui'.snapshot.db = d /\ store[d].status = "archived" =>
              ui'.snapshot = ImageOf(d)
<1>1. DOMAIN tasks = {} /\ \A e \in DOMAIN tasks' : e \in N \/ e = EffectOf(ui')
  BY NoTasks DEF Keeping, Acted, Turn, Only
<1>2. ui'.snapshot = ui.snapshot /\ \A e \in N : ~Holds(e)
  BY DEF Acted, Started, Selected, Named, Resized, Same, New, Holds, NoReply
<1> QED BY <1>1, <1>2, EffectHoldsNothing DEF Kept

LEMMA KeptStep ==
  ASSUME Base, Lone, Kept, [Next]_vars
  PROVE  Kept'
<1> SUFFICES ASSUME Keeping, session' = session
             PROVE  Kept'
  BY Steps DEF Keeping, Kept, Serves, Resumes, Begins, vars
<1>1. CASE UNCHANGED vars
  BY <1>1 DEF vars, Kept, ImageOf
<1>2. CASE Serves
  BY <1>2, KeptServes DEF Serves, Kept
<1>3. CASE Resumes
  BY <1>3, KeptResumes DEF Resumes, Kept, ImageOf
<1>4. CASE Begins
  BY <1>4, KeptBegins DEF Begins, Kept, ImageOf
<1> QED BY <1>1, <1>2, <1>3, <1>4, Steps

LEMMA LoneInit ==
  ASSUME Init
  PROVE  Lone
<1> DEFINE x == Task(ui, "refresh", "list")
<1>1. tasks = SetToBag({x})
  BY DEF Init
<1> HIDE DEF x
<1>2. Single(tasks, x)
  BY <1>1 DEF SetToBag, Single, Only
<1> QED BY <1>2 DEF Lone, Single, Only

LEMMA LoneInvariance == Spec => [](Base /\ Lone)
<1>1. Init => Base /\ Lone
  BY InitTyped, LoneInit
<1>2. Base /\ Lone /\ [Next]_vars => (Base /\ Lone)'
  BY StepTyped, LoneStep
<1> QED BY <1>1, <1>2, PTL DEF Spec

LEMMA KeptInit ==
  ASSUME Init
  PROVE  Kept
<1>1. \A t \in DOMAIN tasks : ~Holds(t)
  BY DEF Init, SetToBag, Task, Holds
<1>2. ui.snapshot.db \notin Dbs
  BY Bounds DEF Init, NoImage
<1> QED BY <1>1, <1>2 DEF Kept

(* While no answer to the end of an archive is lost and no file is loaded, *)
(* what a settled console offers to restore an archived database from is   *)
(* the tables and rows it was archived with, also when requests fail, the  *)
(* answers to other updates are lost, an archive is cancelled and begun    *)
(* anew, or another one was archived since.                                *)
THEOREM SnapshotOfArchive == Spec => []SnapshotIsArchive
<1>1. Init => Kept
  BY KeptInit
<1>2. (Base /\ Lone) /\ Kept /\ [Next]_vars => Kept'
  BY KeptStep
<1>3. Base /\ Kept => SnapshotIsArchive
  <2> SUFFICES ASSUME Base, Kept, Settled, Keeping, ui.snapshot.db # NoDb,
                      store[ui.snapshot.db].status = "archived"
               PROVE  ui.snapshot = ImageOf(ui.snapshot.db)
    BY DEF SnapshotIsArchive, ImageOf, Keeping, Settled
  <2>1. DOMAIN tasks = {}
    BY NoTasks DEF Settled, Quiet, Only
  <2>2. ui.snapshot.db \in Dbs
    BY DEF Base, UiOK, Uis, Images, AnyDb
  <2> QED BY <2>1, <2>2 DEF Kept
<1> QED BY <1>1, <1>2, <1>3, LoneInvariance, PTL DEF Spec

--------------------------------------------------------------------------------
(* A user who only looks and adds.  The console may name a table that the  *)
(* selected database lacks, or whose page it does not show, only while an  *)
(* effect for that database is under way, which cannot fail.               *)

Lookers == {"effect", "refresh", "selectTable", "page", "row", "createTable", "sql", "loadDump"}

Known(t) ==
  /\ t.op \in Lookers
  /\ t.reply.is = "ok" =>
       /\ t.await = "list" => \A d \in Dbs : t.reply.listed[d] = "hot" => Hot(d)
       /\ t.await = "resources" => t.reply.tables \subseteq store[t.db].tables
       /\ t.await = "table" => t.target \in store[t.db].tables
  /\ t.op = "effect" =>
       /\ t.reply.is # "failed"
       /\ t.await \in Loads => Hot(t.db)
       /\ t.await = "table" => t.target \in store[t.db].tables

Astray ==
  /\ ui.tableName # NoTable
  /\ ui.preview.table # ui.tableName \/ ui.tableName \notin store[ui.databaseId].tables

Looked == Browsing =>
  /\ \A t \in DOMAIN tasks : Known(t)
  /\ \A d \in Dbs : ui.databases[d] = "hot" => Hot(d)
  /\ ui.tableName = NoTable => ui.preview = NoPreview
  /\ ui.databaseId = NoDb => NoTables(ui) /\ \A t \in DOMAIN tasks : t.op = "refresh"
  /\ Astray => \E e \in DOMAIN tasks : e.op = "effect" /\ e.db = ui.databaseId

LEMMA LookersAwait ==
  ASSUME NEW t, TaskOK(t), t.op \in Lookers
  PROVE  /\ t.await \in {"list", "account", "resources", "table", "statement"}
         /\ t.op # "refresh" => t.db \in Dbs
         /\ t.await = "list" <=> t.op = "refresh"
         /\ t.op = "effect" => t.await \in {"account", "resources", "table"}
BY DEF TaskOK, Awaits, Loads, Lookers

(* Only statements change the store, which add tables.                     *)
LEMMA LookServes ==
  ASSUME Base, Looked, Browsing, NEW t \in DOMAIN tasks, NEW x, Served(t, x), UNCHANGED <<ui,
         session>>
  PROVE  Looked'
<1>1. /\ t.reply = NoReply /\ t.reply.is = "awaited" /\ Alike(t, x)
      /\ TaskOK(x) /\ x \in DOMAIN tasks'
      /\ \A e \in DOMAIN tasks' : e \in DOMAIN tasks \/ e = x
      /\ \A e \in DOMAIN tasks : e \in DOMAIN tasks' \/ e = t
  <2>1. t.reply.is = "awaited"
    BY DEF Served, NoReply
  <2> QED BY <2>1 DEF Served, Turn
<1>2. TaskOK(t) /\ Known(t)
  BY DEF Base, Looked
<1>3. /\ t.await \in {"list", "account", "resources", "table", "statement"}
      /\ t.op # "refresh" => t.db \in Dbs
      /\ t.await = "list" <=> t.op = "refresh"
      /\ t.op = "effect" => t.await \in {"account", "resources", "table"}
  BY <1>2, LookersAwait DEF Known
<1>4. x.db = t.db /\ \A d \in Dbs : /\ store'[d].status = store[d].status
                                    /\ store[d].tables \subseteq store'[d].tables
  BY <1>3, Stored, MovesOf
<1>5. \A e \in DOMAIN tasks : Known(e) => Known(e)'
  <2> SUFFICES ASSUME NEW e \in DOMAIN tasks, Known(e)
               PROVE  Known(e)'
    OBVIOUS
  <2>1. TaskOK(e)
    BY DEF Base
  <2>2. e.op # "refresh" => e.db \in Dbs
    BY <2>1, LookersAwait DEF Known
  <2> QED BY <1>4, <2>1, <2>2, LookersAwait DEF Known, Hot, Loads
<1>6. Known(x)'
  <2>1. CASE Denied(t, x)
    BY <1>1, <1>2, <1>3, <1>4, <2>1, MovesOf
       DEF Denied, Known, Alike, Browsing, Reliable, Loads, Hot
  <2>2. CASE Granted(t, x)
    BY <1>1, <1>2, <1>3, <1>4, <2>2, MovesOf
       DEF Granted, Told, Applied, GrantedRead, GrantedStatement, GrantedMove, GrantedRestore,
           GrantedCreate, Known, Alike, Loads, Hot
  <2> QED BY <2>1, <2>2 DEF Served
<1>7. Astray' => \E e \in DOMAIN tasks' : e.op = "effect" /\ e.db = ui.databaseId
  <2> SUFFICES ASSUME Astray'
               PROVE  \E e \in DOMAIN tasks' : e.op = "effect" /\ e.db = ui.databaseId
    OBVIOUS
  <2>1. ui.databaseId \in Dbs
    BY DEF Astray, Looked, NoTables, Base, UiOK, Uis, AnyDb
  <2>2. Astray
    BY <1>4, <2>1 DEF Astray
  <2>3. PICK e \in DOMAIN tasks : e.op = "effect" /\ e.db = ui.databaseId
    BY <2>2 DEF Looked
  <2>4. x.op = t.op
    BY <1>1 DEF Alike
  <2> QED BY <1>1, <1>4, <2>2, <2>3, <2>4
<1>8. x.op = t.op
  BY <1>1 DEF Alike
<1>9. \A e \in DOMAIN tasks' : Known(e)'
  BY <1>1, <1>5, <1>6 DEF Looked
<1> QED BY <1>1, <1>4, <1>7, <1>8, <1>9 DEF Looked, Hot

LEMMA EffectKnown ==
  ASSUME NEW u, UiOK(u), u.databaseId # NoDb, \A d \in Dbs : u.databases[d] = "hot" => Hot(d)
  PROVE  Known(EffectOf(u)) /\ EffectOf(u).op = "effect" /\ EffectOf(u).db = u.databaseId
<1>1. u.databaseId \in Dbs
  BY DEF UiOK, Uis, AnyDb
<1> QED BY <1>1 DEF EffectOf, Task, Known, NoReply, Loads, Lookers

LEMMA LookResumes ==
  ASSUME Base, Looked, Browsing, NEW t \in DOMAIN tasks, NEW N, NEW relisted \in BOOLEAN,
         Resumed(t, N, relisted), UNCHANGED <<store, session>>
  PROVE  Looked'
<1> DEFINE fire == Fires(ui, ui', relisted)
<1>1. /\ \A e \in DOMAIN tasks' : e \in DOMAIN tasks \/ e \in N \/ (fire /\ e = EffectOf(ui'))
      /\ \A e \in DOMAIN tasks : e \in DOMAIN tasks' \/ e = t
      /\ \A e \in N : e \in DOMAIN tasks'
      /\ fire => EffectOf(ui') \in DOMAIN tasks'
  BY DEF Resumed, Turn
<1>2. TaskOK(t) /\ Known(t) /\ UiOK(ui) /\ UiOK(ui')
  BY DEF Base, Looked, Resumed
<1>3. /\ t.await \in {"list", "account", "resources", "table", "statement"}
      /\ t.op # "refresh" => t.db \in Dbs
      /\ t.await = "list" <=> t.op = "refresh"
      /\ t.op = "effect" => t.await \in {"account", "resources", "table"}
  BY <1>2, LookersAwait DEF Known
<1>4. \/ Caught(t, N, relisted) \/ Relisted(t, N, relisted) \/ AccountShown(t, N, relisted)
      \/ DetailsShown(t, N, relisted) \/ TableShown(t, N, relisted) \/ Reloads(t, N, relisted)
  BY <1>3 DEF Resumed, PreviewShown, FileShown, CallFollowed
<1>5. \A x \in N : /\ Known(x) /\ x.op = t.op /\ x.db = t.db
                   /\ t.op # "refresh"
  BY <1>2, <1>3, <1>4
     DEF Caught, Relisted, AccountShown, DetailsShown, TableShown, Reloads, GoesTo, LoadsTable,
         Follows, Known, NoReply, Loads
<1>6. \A d \in Dbs : ui'.databases[d] = "hot" => Hot(d)
  BY <1>2, <1>4 DEF Caught, Relisted, AccountShown, DetailsShown, TableShown, Reloads, Same,
                    SameChoice,
              Known, Looked
<1>7. /\ ui'.databaseId = ui.databaseId \/ (ui.databaseId = NoDb /\ t.op = "refresh")
      /\ ui.principal => ui'.principal
  BY <1>3, <1>4 DEF Caught, Relisted, AccountShown, DetailsShown, TableShown, Reloads, Same,
                    SameChoice
<1>8. ui'.tableName = NoTable => ui'.preview = NoPreview
  BY <1>2, <1>3, <1>4
     DEF Caught, Relisted, AccountShown, DetailsShown, TableShown, Reloads, Same, SameTables,
         NoTables, TaskOK, Names, NoTable, Looked
<1>9. fire => /\ Known(EffectOf(ui'))
              /\ EffectOf(ui').op = "effect" /\ EffectOf(ui').db = ui'.databaseId
  BY <1>2, <1>6, EffectKnown DEF Fires
<1>10. ASSUME ui.databaseId = NoDb
       PROVE  NoTables(ui') /\ (ui'.databaseId = NoDb => \A e \in DOMAIN tasks' : e.op = "refresh")
  <2>1. t.op = "refresh" /\ NoTables(ui) /\ \A e \in DOMAIN tasks : e.op = "refresh"
    BY <1>10 DEF Looked
  <2>2. NoTables(ui')
    BY <1>3, <1>4, <2>1
       DEF Caught, Relisted, AccountShown, DetailsShown, TableShown, Reloads, Same, SameTables,
           NoTables
  <2> QED BY <1>1, <1>5, <2>1, <2>2 DEF Fires
<1>11. ASSUME Astray', ui.databaseId # NoDb
       PROVE  \E e \in DOMAIN tasks' : e.op = "effect" /\ e.db = ui'.databaseId
  <2>1. ui'.databaseId = ui.databaseId
    BY <1>7, <1>11
  <2>2. CASE fire
    BY <1>1, <1>9, <2>2
  <2>3. CASE ~fire
    <3>1. ui'.tableName = ui.tableName
      BY <1>2, <1>7, <1>11, <2>1, <2>3 DEF Fires, UiOK
    <3>2. Astray
      <4>1. CASE TableShown(t, N, relisted)
        <5>1. ui'.tableName = t.target /\ ui'.preview.table = t.target /\ t.target # NoTable
          BY <1>2, <1>11, <4>1 DEF TableShown, Astray
        <5> QED BY <1>11, <2>1, <3>1, <5>1 DEF Astray
      <4>2. CASE ui'.preview = ui.preview
        BY <1>11, <2>1, <3>1, <4>2 DEF Astray
      <4> QED BY <1>4, <1>11, <4>1, <4>2
              DEF Caught, Relisted, AccountShown, DetailsShown, Reloads, Same, SameTables,
                  NoTables, Astray
    <3>3. PICK e \in DOMAIN tasks : e.op = "effect" /\ e.db = ui.databaseId
      BY <3>2 DEF Looked
    <3>4. CASE e # t
      BY <1>1, <2>1, <3>3, <3>4
    <3>5. CASE e = t
      <4>1. t.db = ui.databaseId /\ t.op = "effect"
        BY <3>3, <3>5
      <4>2. ~TableShown(t, N, relisted)
        BY <1>2, <1>11, <2>1, <4>1 DEF TableShown, Astray, Known
      <4>3. N # {}
        BY <1>2, <1>3, <1>4, <1>11, <4>1, <4>2
           DEF Caught, Relisted, AccountShown, DetailsShown, Reloads, NoTables, Known,
               GoesTo, LoadsTable, Astray
      <4> QED BY <1>1, <1>5, <2>1, <4>1, <4>3
    <3> QED BY <3>4, <3>5
  <2> QED BY <2>2, <2>3
<1>12. \A e \in DOMAIN tasks' : Known(e)
  BY <1>1, <1>5, <1>9 DEF Looked
<1>13. ui'.databaseId = NoDb => ui.databaseId = NoDb
  BY <1>7
<1>14. Astray' => ui.databaseId # NoDb
  BY <1>10 DEF Astray, NoTables
<1> QED BY <1>6, <1>8, <1>10, <1>11, <1>12, <1>13, <1>14 DEF Looked, Known, Hot, NoTables

LEMMA LookBegins ==
  ASSUME Base, Looked, Browsing, NEW N, Acted(N), UNCHANGED <<store, session>>
  PROVE  Looked'
<1> DEFINE fire == Fires(ui, ui', FALSE)
<1>1. /\ \A e \in DOMAIN tasks' : e \in DOMAIN tasks \/ e \in N \/ (fire /\ e = EffectOf(ui'))
      /\ \A e \in DOMAIN tasks : e \in DOMAIN tasks'
      /\ fire => EffectOf(ui') \in DOMAIN tasks'
      /\ UiOK(ui') /\ \A e \in N : TaskOK(e)
  BY DEF Acted, Turn
<1>2. Started(N) \/ Selected(N) \/ Named(N) \/ (N = {} /\ Same(ui, ui'))
  BY DEF Acted, Resized, Browsing
<1>3. \A d \in Dbs : ui'.databases[d] = "hot" => Hot(d)
  BY <1>2 DEF Started, Selected, Named, Same, SameChoice, Looked
<1>4. \A e \in N : Known(e) /\ (ui.databaseId = NoDb => e.op = "refresh")
  BY <1>2 DEF Started, Selected, Named, New, ControlOf, Browsing, Known, Lookers, NoReply
<1>5. fire => /\ Known(EffectOf(ui'))
              /\ EffectOf(ui').op = "effect" /\ EffectOf(ui').db = ui'.databaseId
  BY <1>1, <1>3, EffectKnown DEF Fires
<1>6. \A e \in DOMAIN tasks' : Known(e)
  BY <1>1, <1>4, <1>5 DEF Looked
<1>7. CASE Selected(N)
  BY <1>3, <1>6, <1>7, Bounds DEF Looked, Selected, NoTables, Known, Hot, Astray
<1>8. CASE Same(ui, ui')
  BY <1>1, <1>3, <1>4, <1>6, <1>8 DEF Looked, Same, NoTables, Known, Hot, Astray, Fires
<1>9. CASE Named(N)
  <2>1. /\ ui'.tableName # NoTable /\ ui'.databaseId = ui.databaseId
        /\ ui'.preview = ui.preview /\ ui'.principal = ui.principal
    BY <1>9 DEF Named, SameChoice
  <2>2. ui.databaseId # NoDb
    <3>1. NoDescription.table = NoTable
      BY DEF NoDescription
    <3> QED BY <1>9, <3>1 DEF Named, Looked, NoTables
  <2>3. Astray' => \E e \in DOMAIN tasks' : e.op = "effect" /\ e.db = ui'.databaseId
    <3>1. CASE ui'.tableName = ui.tableName
      BY <1>1, <2>1, <3>1 DEF Looked, Astray
    <3>2. CASE ui'.tableName # ui.tableName
      <4>1. fire
        BY <1>1, <2>1, <2>2, <3>2 DEF Fires, UiOK
      <4> QED BY <1>1, <1>5, <4>1
    <3> QED BY <3>1, <3>2
  <2> QED BY <1>3, <1>6, <2>1, <2>2, <2>3 DEF Looked, Known, Hot
<1> QED BY <1>2, <1>7, <1>8, <1>9 DEF Started

LEMMA LookInit ==
  ASSUME Init
  PROVE  Looked
<1>1. \A t \in DOMAIN tasks : Known(t) /\ t.op = "refresh"
  BY DEF Init, SetToBag, Task, NoReply, Known, Lookers
<1>2. NoTables(ui) /\ \A d \in Dbs : ui.databases[d] # "hot"
  BY DEF Init, NoTables
<1> QED BY <1>1, <1>2 DEF Looked, Astray, NoTables

LEMMA LookStep ==
  ASSUME Base, Looked, [Next]_vars
  PROVE  Looked'
<1> SUFFICES ASSUME Browsing, session' = session
             PROVE  Looked'
  BY Steps DEF Looked, Browsing, Reliable, Serves, Resumes, Begins, vars
<1>1. CASE UNCHANGED vars
  BY <1>1 DEF vars, Looked, Known, Hot, Astray, NoTables
<1>2. CASE Serves
  BY <1>2, LookServes DEF Serves
<1>3. CASE Resumes
  BY <1>3, LookResumes DEF Resumes
<1>4. CASE Begins
  BY <1>4, LookBegins DEF Begins
<1> QED BY <1>1, <1>2, <1>3, <1>4, Steps

(* However fast a user clicks who only looks and adds, also by SQL buttons *)
(* and dump files, and in whatever order the answers arrive, the console   *)
(* comes to rest on a page of the table it names, and the selected         *)
(* database has a table of that name.                                      *)
THEOREM HastyNamesake == Spec => []HastyShowsNamesake
<1>1. Init => Looked
  BY LookInit
<1>2. Base /\ Looked /\ [Next]_vars => Looked'
  BY LookStep
<1>3. Looked => HastyShowsNamesake
  <2> SUFFICES ASSUME Looked, Quiet, Browsing, ui.preview # NoPreview
               PROVE  /\ ui.preview.table = ui.tableName
                      /\ ui.tableName \in store[ui.databaseId].tables
    BY DEF HastyShowsNamesake
  <2>1. DOMAIN tasks = {}
    BY NoTasks DEF Quiet, Only
  <2> QED BY <2>1 DEF Looked, Astray
<1> QED BY <1>1, <1>2, <1>3, BaseInvariance, PTL DEF Spec

--------------------------------------------------------------------------------
(* A user who waits has one handler under way at most.                     *)

Sole == session.patient =>
  \A t \in DOMAIN tasks : t.op # "effect" =>
    Once(tasks, t) /\ \A e \in DOMAIN tasks : e.op = "effect" \/ e = t

LEMMA TurnSole ==
  ASSUME NEW B, \A t \in DOMAIN B : t.op # "effect" =>
                  Once(B, t) /\ \A e \in DOMAIN B : e.op = "effect" \/ e = t,
         NEW R, NEW N, NEW C, NEW u, NEW fire \in BOOLEAN, Turn(B, R, N, C, u, fire),
         NEW r, (R = {r} /\ r \in DOMAIN B) \/ (R = {} /\ DOMAIN B = {}),
         \A x \in N : N = {x} /\ (R = {} \/ (x.op = r.op /\ x # r))
  PROVE  \A t \in DOMAIN C : t.op # "effect" =>
           Once(C, t) /\ \A e \in DOMAIN C : e.op = "effect" \/ e = t
<1> SUFFICES ASSUME NEW t \in DOMAIN C, t.op # "effect"
             PROVE  Once(C, t) /\ \A e \in DOMAIN C : e.op = "effect" \/ e = t
  OBVIOUS
<1>1. \A e \in DOMAIN C : e.op # "effect" =>
        /\ e \in DOMAIN B \/ e \in N
        /\ e \notin N /\ Once(B, e) => Once(C, e) /\ e \notin R
        /\ e \in N /\ e \notin DOMAIN B => Once(C, e)
  BY EffectIsEffect DEF Turn
<1>2. CASE t \in N
  <2>1. t \notin DOMAIN B
    BY <1>2
  <2>2. ASSUME NEW e \in DOMAIN C, e.op # "effect", e \notin N
        PROVE  FALSE
    <3>1. e \in DOMAIN B /\ Once(B, e) /\ R = {r}
      BY <1>1, <2>2
    <3> QED BY <1>1, <1>2, <2>2, <3>1
  <2> QED BY <1>1, <1>2, <2>1, <2>2
<1>3. CASE t \notin N
  <2>1. t \in DOMAIN B /\ Once(C, t) /\ t \notin R
    BY <1>1, <1>3
  <2> QED BY <1>1, <1>3, <2>1
<1> QED BY <1>2, <1>3

LEMMA SoleStep ==
  ASSUME Base, Sole, [Next]_vars
  PROVE  Sole'
<1> SUFFICES ASSUME session.patient, UNCHANGED session
             PROVE  \A t \in DOMAIN tasks' : t.op # "effect" =>
                      Once(tasks', t) /\ \A e \in DOMAIN tasks' : e.op = "effect" \/ e = t
  BY Steps DEF Sole, Serves, Resumes, Begins, vars
<1>1. \A t \in DOMAIN tasks : t.op # "effect" =>
        Once(tasks, t) /\ \A e \in DOMAIN tasks : e.op = "effect" \/ e = t
  BY DEF Sole
<1>2. CASE UNCHANGED vars
  BY <1>1, <1>2 DEF vars
<1>3. CASE Serves
  <2>1. PICK t \in DOMAIN tasks : \E x : Served(t, x)
    BY <1>3 DEF Serves
  <2>2. PICK x : Served(t, x)
    BY <2>1
  <2> DEFINE fire == FALSE
  <2>3. Turn(tasks, {t}, {x}, tasks', ui, fire) /\ fire \in BOOLEAN
    BY <2>2 DEF Served
  <2>4. t.reply.is = "awaited" /\ x.reply.is # "awaited" /\ x.op = t.op
    BY <2>2 DEF Served, Alike, NoReply, Denied, Granted, Told
  <2> HIDE DEF fire
  <2> QED BY <1>1, <2>3, <2>4, TurnSole
<1>4. CASE Resumes
  <2>1. PICK t \in DOMAIN tasks : \E N : \E relisted \in BOOLEAN : Resumed(t, N, relisted)
    BY <1>4 DEF Resumes
  <2>2. PICK N : \E relisted \in BOOLEAN : Resumed(t, N, relisted)
    BY <2>1
  <2>3. PICK relisted \in BOOLEAN : Resumed(t, N, relisted)
    BY <2>2
  <2> DEFINE fire == Fires(ui, ui', relisted)
  <2>4. Turn(tasks, {t}, N, tasks', ui', fire) /\ fire \in BOOLEAN
    BY <2>3 DEF Resumed, Fires
  <2>5. ASSUME NEW x \in N
        PROVE  N = {x} /\ x.op = t.op /\ x # t
    <3>1. NoReply.is = "awaited"
      BY DEF NoReply
    <3> QED BY <2>3, <2>5, <3>1
            DEF Resumed, Caught, Relisted, AccountShown, DetailsShown, TableShown, PreviewShown,
                Reloads, FileShown, CallFollowed, GoesTo, LoadsTable, Follows
  <2> HIDE DEF fire
  <2> QED BY <1>1, <2>4, <2>5, TurnSole
<1>5. CASE Begins
  <2>1. PICK N : Acted(N)
    BY <1>5 DEF Begins
  <2> DEFINE fire == Fires(ui, ui', FALSE)
  <2>2. Turn(tasks, {}, N, tasks', ui', fire) /\ fire \in BOOLEAN /\ DOMAIN tasks = {}
    BY <2>1, NoTasks DEF Acted, Fires, Only
  <2>3. \A x \in N : N = {x}
    BY <2>1 DEF Acted, Started, Selected, Named, Resized
  <2> HIDE DEF fire
  <2> QED BY <1>1, <2>2, <2>3, TurnSole
<1> QED BY <1>2, <1>3, <1>4, <1>5, Steps

--------------------------------------------------------------------------------
(* What a user who waits is shown.  Handlers and effects are about the     *)
(* selected database, or idle when none is left: they will show no table.  *)
(* While a database is deleted, nothing is shown; while the page size      *)
(* changes, no other table can be shown.                                   *)

Idles(t) ==
  /\ t.op = "effect"
  /\ t.await = "account" \/ (t.await = "resources" /\ t.reply.is # "ok" /\ ~Hot(t.db))

Belongs(t) ==
  \/ t.db = ui.databaseId \/ t.op = "refresh"
  \/ t.op = "create" /\ t.await \in {"create", "list"}
  \/ Idles(t) /\ ui.databaseId = NoDb

Bare == NoTables(ui)

(* An effect that leaves table n, or none, on the console.                 *)
Suits(t, n) == IF t.await = "account" THEN ui.databases[ui.databaseId] # "hot" ELSE t.target = n

Right(t) ==
  /\ Belongs(t)
  /\ t.await = "resources" /\ t.reply.is = "ok" => t.reply.tables = store[t.db].tables
  /\ t.await = "delete" /\ t.reply.is = "ok" => ~Hot(t.db)
  /\ t.await = "list" /\ t.op = "delete" =>
       Bare /\ ~Hot(t.db) /\ \A e \in DOMAIN tasks : e.op = "effect" => Idles(e)
  /\ t.await = "preview" =>
       /\ t.reply.is = "ok" => t.target \in store[t.db].tables
       /\ t.target \in store[t.db].tables =>
            /\ ui.tableName \in {t.target, NoTable}
            /\ \A e \in DOMAIN tasks : e.op = "effect" => Suits(e, t.target)

Consistent ==
  /\ ui.preview # NoPreview => ui.preview.db = ui.databaseId
  /\ ui.description # NoDescription => ui.description.db = ui.databaseId
  /\ ui.databaseId = NoDb => Bare

Shown == session.patient => Consistent /\ \A t \in DOMAIN tasks : Right(t)

(* The handlers and effects that show tables are about the selected one.   *)
LEMMA LoadsSelected ==
  ASSUME NEW t, TaskOK(t), Right(t),
         \/ t.await \in {"table", "preview"}
         \/ t.await = "resources" /\ (t.reply.is = "ok" \/ ui.databaseId # NoDb)
  PROVE  t.db = ui.databaseId /\ t.db \in Dbs
<1>1. t.op # "refresh" /\ t.await \notin {"create", "list"}
  BY DEF TaskOK, Awaits
<1> QED BY <1>1 DEF TaskOK, Right, Belongs, Idles

LEMMA EffectsAwait ==
  ASSUME NEW t, TaskOK(t), t.op = "effect"
  PROVE  t.await \in {"account", "resources", "table"} /\ t.db \in Dbs
BY DEF TaskOK, Awaits, Loads

LEMMA ShownServes ==
  ASSUME Base, Lone, Shown, session.patient, NEW t \in DOMAIN tasks, NEW x, Served(t, x),
         UNCHANGED ui
  PROVE  Consistent' /\ \A e \in DOMAIN tasks' : Right(e)'
<1>1. /\ Alike(t, x) /\ x \in DOMAIN tasks' /\ TaskOK(x)
      /\ \A e \in DOMAIN tasks' : e \in DOMAIN tasks \/ e = x
      /\ Only(tasks, {t}) => \A e \in DOMAIN tasks' : e = x
  BY DEF Served, Turn
<1>2. TaskOK(t) /\ Right(t)
  BY DEF Base, Shown
<1>3. /\ \/ UNCHANGED store
         \/ /\ t.await \in DOMAIN Moves \cup {"statement", "finalizeRestore", "create"}
            /\ Told(t, x) /\ x.db \in Dbs
      /\ t.await # "create" => x.db = t.db
  BY Stored
<1>4. UNCHANGED store \/ \A e \in DOMAIN tasks' : e = x
  <2>1. Early(t) => \A e \in DOMAIN tasks' : e = x
    BY <1>1 DEF Lone, Single
  <2> QED BY <1>3, <2>1, MovesOf DEF Early
<1>5. t.op = "effect" => UNCHANGED store /\ x.db = t.db
  BY <1>2, <1>3, EffectsAwait, MovesOf
<1>6. Idles(t) => Idles(x)'
  <2> SUFFICES ASSUME Idles(t)
               PROVE  Idles(x)'
    OBVIOUS
  <2>1. t.op = "effect"
    BY DEF Idles
  <2>2. t.await = "resources" => x.reply.is # "ok"
    BY MovesOf DEF Idles, Served, Denied, Granted, Told, Applied, GrantedRead, GrantedStatement,
                   GrantedMove, GrantedRestore, GrantedCreate
  <2> QED BY <1>1, <1>5, <2>1, <2>2 DEF Idles, Alike, Hot
<1>7. Belongs(x)'
  <2>1. t.await = "create" => t.op = "create"
    BY <1>2 DEF TaskOK, TaskSet, Awaits, Handlers, Loads
  <2>2. x.op = t.op /\ x.await = t.await
    BY <1>1 DEF Alike
  <2> QED BY <1>2, <1>3, <1>6, <2>1, <2>2 DEF Right, Belongs
<1>8. x.await = "resources" /\ x.reply.is = "ok" => x.reply.tables = store'[x.db].tables
  BY <1>1, <1>3, MovesOf
     DEF Alike, Served, Denied, Granted, Applied, GrantedRead, GrantedStatement, GrantedMove,
         GrantedRestore, GrantedCreate
<1>9. x.await = "delete" /\ x.reply.is = "ok" => ~Hot(x.db)'
  <2> SUFFICES ASSUME t.await = "delete", x.reply.is = "ok"
               PROVE  ~Hot(x.db)'
    BY <1>1 DEF Alike
  <2>1. store'[t.db].status = "deleted"
    BY Stored, MovesOf
  <2> QED BY <1>3, <2>1 DEF Hot
<1>10. x.await = "preview" /\ x.reply.is = "ok" => x.target \in store'[x.db].tables
  BY <1>1, <1>3, MovesOf
     DEF Alike, Served, Denied, Granted, Applied, GrantedRead, GrantedStatement, GrantedMove,
         GrantedRestore, GrantedCreate
<1>11. ASSUME UNCHANGED store, NEW e \in DOMAIN tasks'
       PROVE  Right(e)'
  <2>1. \A f \in DOMAIN tasks' : f.op = "effect" =>
          \E g \in DOMAIN tasks : /\ g.op = "effect" /\ (Idles(g) => Idles(f)')
                                  /\ g.await = f.await /\ g.target = f.target
    BY <1>1, <1>6, <1>11 DEF Alike, Idles, Hot
  <2>2. CASE e = x
    <3>1. /\ x.op = t.op /\ x.await = t.await /\ x.target = t.target
          /\ t.await # "create" => x.db = t.db
      BY <1>1, <1>3 DEF Alike
    <3> QED BY <1>2, <1>7, <1>8, <1>9, <1>10, <1>11, <2>1, <2>2, <3>1
            DEF Right, Suits, Bare, NoTables, Hot
  <2>3. CASE e \in DOMAIN tasks
    <3>1. Right(e)
      BY <2>3 DEF Shown
    <3> QED BY <1>11, <2>1, <3>1 DEF Right, Suits, Bare, NoTables, Hot, Belongs, Idles
  <2> QED BY <1>1, <2>2, <2>3
<1>12. ASSUME ~UNCHANGED store
       PROVE  \A e \in DOMAIN tasks' : Right(e)'
  <2>1. x.await \notin {"list", "preview"}
    BY <1>1, <1>3, <1>12, MovesOf DEF Alike
  <2> QED BY <1>4, <1>7, <1>8, <1>9, <1>12, <2>1 DEF Right
<1>13. Consistent'
  BY DEF Shown, Consistent, Bare, NoTables
<1> QED BY <1>11, <1>12, <1>13

LEMMA NewEffect ==
  ASSUME NEW u, NEW e, e = EffectOf(u)
  PROVE  /\ e.op = "effect" /\ e.db = u.databaseId /\ e.target = u.tableName /\ e.limit = u.limit
         /\ e.reply.is = "awaited"
         /\ e.await = IF u.databases[u.databaseId] = "hot" THEN "resources" ELSE "account"
BY DEF EffectOf, Task, NoReply

(* An effect ends or loads a table of the selected database.               *)
LEMMA ShownEffect ==
  ASSUME Base, Shown, session.patient, UNCHANGED store, NEW t \in DOMAIN tasks, t.op = "effect",
         NEW N, NEW relisted \in BOOLEAN, Resumed(t, N, relisted)
  PROVE  Consistent' /\ \A e \in DOMAIN tasks' : Right(e)'
<1> DEFINE fire == Fires(ui, ui', relisted)
<1>1. /\ \A e \in DOMAIN tasks' : e \in DOMAIN tasks \/ e \in N \/ (fire /\ e = EffectOf(ui'))
      /\ UiOK(ui')
  BY DEF Resumed, Turn
<1>2. TaskOK(t) /\ Right(t) /\ t.await \in {"account", "resources", "table"} /\ t.db \in Dbs
  BY EffectsAwait DEF Base, Shown
<1>3. t.await = "table" \/ (t.reply.is = "ok" /\ t.await = "resources") => t.db = ui.databaseId
  BY <1>2 DEF Right, Belongs, Idles
<1>4. \/ Caught(t, N, relisted) \/ AccountShown(t, N, relisted)
      \/ DetailsShown(t, N, relisted) \/ TableShown(t, N, relisted)
  BY <1>2 DEF Resumed, Relisted, PreviewShown, Reloads, FileShown, CallFollowed
<1>5. /\ ui'.databaseId = ui.databaseId /\ ui'.databases = ui.databases /\ ui'.limit = ui.limit
      /\ ui'.principal = ui.principal /\ ~relisted
  BY <1>4 DEF Caught, AccountShown, DetailsShown, TableShown, Same, SameChoice
<1>6. fire => ui'.tableName # ui.tableName
  BY <1>5 DEF Fires
<1>7. \/ SameTables(ui, ui') \/ NoTables(ui')
      \/ /\ t.await = "resources" /\ t.reply.is = "ok"
         /\ ui'.tableName = ui.tableName /\ ui'.description = ui.description
         /\ ui'.preview = ui.preview
      \/ /\ t.await = "table" /\ ui'.tableName = t.target
         /\ ui'.description = [db |-> t.db, table |-> t.target]
         /\ ui'.preview.db = t.db /\ ui'.preview.table = t.target
  BY <1>4 DEF Caught, AccountShown, DetailsShown, TableShown, Same, SameTables
<1>8. Consistent'
  <2>1. Consistent
    BY DEF Shown
  <2>2. CASE SameTables(ui, ui') \/ NoTables(ui')
    BY <1>5, <2>1, <2>2 DEF Consistent, SameTables, NoTables, Bare
  <2>3. CASE /\ t.await = "resources" /\ t.reply.is = "ok"
             /\ ui'.tableName = ui.tableName /\ ui'.description = ui.description
             /\ ui'.preview = ui.preview
    <3>1. ui.databaseId # NoDb
      BY <1>2, <1>3, <2>3, Bounds
    <3> QED BY <1>5, <2>1, <2>3, <3>1 DEF Consistent
  <2>4. CASE /\ t.await = "table" /\ ui'.tableName = t.target
             /\ ui'.description = [db |-> t.db, table |-> t.target]
             /\ ui'.preview.db = t.db /\ ui'.preview.table = t.target
    <3>1. t.target # NoTable /\ t.db = ui'.databaseId /\ t.db # NoDb
      <4>1. t.target # NoTable
        BY <1>2, <2>4, Bounds DEF TaskOK, Names, NoTable
      <4> QED BY <1>2, <1>3, <1>5, <2>4, <4>1, Bounds
    <3> QED BY <2>4, <3>1 DEF Consistent
  <2> QED BY <1>7, <2>2, <2>3, <2>4
<1>9. \A x \in N : /\ x.op = "effect" /\ x.await = "table" /\ x.db = ui.databaseId
                   /\ t.await = "resources" /\ t.reply.is = "ok"
                   /\ t.target \in t.reply.tables => x.target = t.target
  BY <1>3, <1>4 DEF Caught, AccountShown, DetailsShown, TableShown, LoadsTable, Follows
<1>10. \A e \in DOMAIN tasks' : e \in DOMAIN tasks \/ (e.op = "effect" /\ e.db = ui'.databaseId
                                                      /\ e.await \in {"table", "resources", "account"}
                                                      /\ (e.await = "resources" => e.reply.is # "ok"))
  BY <1>1, <1>5, <1>9, NewEffect
<1>11. ASSUME NEW l \in DOMAIN tasks, l.await = "list", l.op = "delete"
       PROVE  Bare' /\ ~Hot(l.db)' /\ \A e \in DOMAIN tasks' : e.op = "effect" => Idles(e)'
  <2>1. /\ Bare /\ ~Hot(l.db) /\ \A e \in DOMAIN tasks : e.op = "effect" => Idles(e)
    BY <1>11 DEF Shown, Right
  <2>2. Idles(t)
    BY <2>1
  <2>3. SameTables(ui, ui') \/ NoTables(ui')
    BY <1>2, <1>4, <2>2 DEF Caught, AccountShown, DetailsShown, TableShown, Same, SameTables, Idles
  <2>4. N = {} /\ ui'.tableName = ui.tableName
    BY <1>9, <2>1, <2>2, <2>3 DEF Idles, SameTables, NoTables, Bare
  <2> QED BY <1>1, <1>6, <2>1, <2>3, <2>4 DEF Bare, SameTables, NoTables, Hot, Idles
<1>12. ASSUME NEW l \in DOMAIN tasks, l.await = "preview", l.target \in store[l.db].tables
       PROVE  /\ ui'.tableName \in {l.target, NoTable}
              /\ \A e \in DOMAIN tasks' : e.op = "effect" => Suits(e, l.target)'
  <2>1. /\ ui.tableName \in {l.target, NoTable} /\ Belongs(l)
        /\ \A e \in DOMAIN tasks : e.op = "effect" => Suits(e, l.target)
    BY <1>12 DEF Shown, Right
  <2>2. l.db = ui.databaseId
    BY <1>12, LoadsSelected DEF Base, Shown
  <2>3. Suits(t, l.target)
    BY <2>1
  <2>4. t.await # "account" => t.target = l.target
    BY <2>3 DEF Suits
  <2>5. t.await = "resources" /\ t.reply.is = "ok" => t.reply.tables = store[l.db].tables
    BY <1>2, <1>3, <2>2 DEF Right
  <2>6. ui'.tableName \in {l.target, NoTable}
    BY <1>7, <2>1, <2>4 DEF SameTables, NoTables
  <2>7. \A x \in N : x.await = "table" /\ x.target = l.target
    BY <1>9, <1>12, <2>4, <2>5
  <2>8. CASE t.await = "account"
    BY <1>1, <1>5, <2>1, <2>3, <2>6, <2>7, <2>8, NewEffect DEF Suits
  <2>9. CASE t.await # "account"
    <3>1. ui'.tableName \in {ui.tableName, l.target}
      BY <1>2, <1>4, <1>7, <1>12, <2>2, <2>4, <2>5, <2>9
         DEF Caught, AccountShown, DetailsShown, TableShown, Same
    <3> QED BY <1>1, <1>5, <1>6, <2>1, <2>7, <3>1, NewEffect DEF Suits
  <2> QED BY <2>6, <2>8, <2>9
<1>13. ASSUME NEW e \in DOMAIN tasks'
       PROVE  Right(e)'
  <2>1. CASE e \in DOMAIN tasks
    <3>1. Right(e)
      BY <2>1 DEF Shown
    <3> QED BY <1>5, <1>11, <1>12, <2>1, <3>1 DEF Right, Belongs, Idles, Hot
  <2>2. CASE e \notin DOMAIN tasks
    BY <1>10, <2>2 DEF Right, Belongs
  <2> QED BY <2>1, <2>2
<1> QED BY <1>8, <1>13

(* A handler may move the selection: then nothing of the old one is left.  *)
LEMMA ShownHandler ==
  ASSUME Base, Lone, Sole, Shown, session.patient, UNCHANGED store, NEW t \in DOMAIN tasks,
         t.op # "effect", NEW N, NEW relisted \in BOOLEAN, Resumed(t, N, relisted)
  PROVE  Consistent' /\ \A e \in DOMAIN tasks' : Right(e)'
<1>1. TaskOK(t) /\ Right(t) /\ Consistent /\ UiOK(ui')
  BY DEF Base, Shown, Resumed
<1>2. \A x \in N : /\ x.op = t.op /\ x.db = t.db /\ x.reply.is = "awaited" /\ x.await # "preview"
                   /\ x.await = "list" => t.await # "list"
                   /\ x.await = "list" /\ x.op = "delete" => /\ t.await = "delete" /\ t.reply.is = "ok"
                                                             /\ NoTables(ui')
  <2>1. NoReply.is = "awaited"
    BY DEF NoReply
  <2>2. t.op = "delete" => t.await \in {"delete", "list"}
    BY <1>1 DEF TaskOK, Awaits
  <2> QED BY <2>1, <2>2
          DEF Resumed, Caught, Relisted, AccountShown, DetailsShown, TableShown, PreviewShown,
              Reloads, FileShown, CallFollowed, GoesTo, LoadsTable, Follows
<1>3. \A e \in DOMAIN tasks' : \/ e \in DOMAIN tasks /\ e.op = "effect" /\ ~Early(t)
                               \/ e \in N
                               \/ e = EffectOf(ui')
  <2>1. ASSUME NEW e \in DOMAIN tasks', e \in DOMAIN tasks, e.op # "effect", e \notin N
        PROVE  FALSE
    <3>1. e = t /\ Once(tasks, t)
      BY <2>1 DEF Sole
    <3> QED BY <2>1, <3>1 DEF Resumed, Turn
  <2>2. Early(t) => Only(tasks, {t})
    BY DEF Lone, Single
  <2> QED BY <2>1, <2>2 DEF Resumed, Turn
<1>4. \/ t.op \in {"refresh", "create"} \/ t.db = ui.databaseId
  BY <1>1 DEF Right, Belongs, Idles
<1>5. t.op # "refresh" /\ t.await # "create" => t.db \in Dbs
  BY <1>1 DEF TaskOK
<1>6. \/ ui'.databaseId = ui.databaseId
      \/ t.await = "list" /\ t.op = "refresh" /\ ui.databaseId = NoDb /\ N = {} /\ SameTables(ui, ui')
      \/ t.await = "list" /\ t.op = "create" /\ ui'.databaseId = t.db /\ NoTables(ui')
      \/ t.await = "list" /\ t.op = "delete" /\ ui'.databaseId = NoDb /\ N = {} /\ SameTables(ui, ui')
  BY <1>4, <1>5, Bounds
     DEF Resumed, Caught, Relisted, AccountShown, DetailsShown, TableShown, PreviewShown,
         Reloads, FileShown, CallFollowed, Same, SameChoice
<1>9. Consistent'
  <2>1. CASE ui'.databaseId # ui.databaseId
    <3>1. t.op = "delete" /\ t.await = "list" => Bare
      BY <1>1 DEF Right
    <3> QED BY <1>1, <1>5, <1>6, <2>1, <3>1, Bounds
            DEF Consistent, SameTables, NoTables, Bare
  <2>2. CASE ui'.databaseId = ui.databaseId /\ (SameTables(ui, ui') \/ NoTables(ui'))
    BY <1>1, <2>2 DEF Consistent, SameTables, NoTables, Bare
  <2>3. CASE \/ DetailsShown(t, N, relisted) \/ TableShown(t, N, relisted)
             \/ PreviewShown(t, N, relisted)
    <3>1. t.db = ui'.databaseId /\ t.db # NoDb /\ ui'.databaseId = ui.databaseId
      BY <1>1, <2>3, LoadsSelected, Bounds DEF DetailsShown, TableShown, PreviewShown, SameChoice
    <3> QED BY <1>1, <2>3, <3>1
            DEF Consistent, DetailsShown, TableShown, PreviewShown, NoTables
  <2> QED BY <2>1, <2>2, <2>3
          DEF Resumed, Caught, Relisted, AccountShown, Reloads, FileShown, CallFollowed, Same,
              SameTables
<1>10. ASSUME NEW e \in DOMAIN tasks', e \in DOMAIN tasks, e.op = "effect", ~Early(t)
       PROVE  Right(e)'
  <2>1. Right(e) /\ e.await \in {"account", "resources", "table"}
    BY <1>10, EffectsAwait DEF Shown, Base
  <2>2. Belongs(e)'
    <3>1. CASE ui'.databaseId = ui.databaseId
      BY <1>10, <2>1, <3>1 DEF Right, Belongs, Idles, Hot
    <3>2. CASE ui'.databaseId # ui.databaseId
      <4>1. Idles(e) /\ ui'.databaseId = NoDb
        BY <1>1, <1>6, <1>10, <3>2 DEF Early, Right
      <4> QED BY <4>1 DEF Belongs, Idles, Hot
    <3> QED BY <3>1, <3>2
  <2> QED BY <1>10, <2>1, <2>2 DEF Right
<1>11. ASSUME NEW e \in DOMAIN tasks', e = EffectOf(ui')
       PROVE  Right(e)'
  BY <1>11, NewEffect DEF Right, Belongs
<1>12. ASSUME NEW x \in N
       PROVE  Right(x)'
  <2>1. x.op = t.op /\ x.db = t.db /\ x.reply.is = "awaited" /\ x.await # "preview"
    BY <1>2
  <2>2. Belongs(x)'
    <3>1. t.op = "create" => /\ t.await = "create" => x.await = "list"
                             /\ t.await = "list" => ui'.databaseId = t.db
      BY <1>1, <1>12
         DEF Resumed, Caught, Relisted, AccountShown, DetailsShown, TableShown, PreviewShown,
             Reloads, FileShown, CallFollowed, GoesTo, LoadsTable, Follows
    <3> QED BY <1>1, <1>4, <1>6, <1>12, <2>1, <3>1
            DEF Right, Belongs, Idles
  <2>3. ASSUME x.await = "list", x.op = "delete"
        PROVE  Bare' /\ ~Hot(x.db)' /\ \A e \in DOMAIN tasks' : e.op = "effect" => Idles(e)'
    <3>1. t.await = "delete" /\ t.reply.is = "ok" /\ NoTables(ui')
      BY <1>2, <2>3
    <3>2. ~Hot(t.db) /\ ui'.databaseId = t.db
      BY <1>1, <1>4, <1>6, <2>1, <2>3, <3>1 DEF Right
    <3>3. \A e \in DOMAIN tasks' : e.op = "effect" => e = EffectOf(ui')
      BY <1>2, <1>3, <3>1 DEF Early
    <3> QED BY <2>1, <3>1, <3>2, <3>3, NewEffect DEF Bare, NoTables, Idles, Hot
  <2> QED BY <2>1, <2>2, <2>3 DEF Right
<1> QED BY <1>3, <1>9, <1>10, <1>11, <1>12

LEMMA ShownBegins ==
  ASSUME Base, Shown, session.patient, UNCHANGED store, NEW N, Acted(N)
  PROVE  Consistent' /\ \A e \in DOMAIN tasks' : Right(e)'
<1>1. /\ \A e \in DOMAIN tasks' : e \in N \/ (Fires(ui, ui', FALSE) /\ e = EffectOf(ui'))
      /\ UiOK(ui')
  BY NoTasks DEF Acted, Turn, Only
<1>2. Started(N) \/ Selected(N) \/ Named(N) \/ Resized(N) \/ (N = {} /\ Same(ui, ui'))
  BY DEF Acted
<1>3. Consistent /\ NoReply.is = "awaited"
  BY DEF Shown, NoReply
<1>4. Consistent'
  <2>1. CASE Named(N)
    <3>1. ui.databaseId # NoDb
      BY <1>3, <2>1 DEF Named, Consistent, Bare, NoTables, NoDescription
    <3> QED BY <1>3, <2>1, <3>1 DEF Named, SameChoice, Consistent
  <2> QED BY <1>2, <1>3, <2>1, Bounds
          DEF Started, Selected, Resized, Same, SameTables, NoTables, Consistent, Bare
<1>5. \A x \in N : /\ \/ x.db = ui'.databaseId \/ x.op = "refresh"
                      \/ x.op = "create" /\ x.await = "create"
                   /\ x.reply.is = "awaited"
                   /\ x.await = "list" => x.op = "refresh"
                   /\ x.await = "preview" => ui'.tableName = x.target
                   /\ x.op # "effect"
  BY <1>2, <1>3 DEF Started, Selected, Named, Resized, Same, SameTables, New
<1>6. ASSUME NEW x \in N
      PROVE  Right(x)'
  <2>1. Belongs(x)'
    BY <1>5 DEF Belongs
  <2>2. \A e \in DOMAIN tasks' : e.op = "effect" => e = EffectOf(ui')
    BY <1>1, <1>5
  <2>3. x.await = "preview" => \A e \in DOMAIN tasks' : e.op = "effect" => Suits(e, x.target)'
    BY <1>5, <2>2, NewEffect DEF Suits
  <2> QED BY <1>5, <2>1, <2>3 DEF Right
<1>7. ASSUME NEW e \in DOMAIN tasks', e = EffectOf(ui')
      PROVE  Right(e)'
  BY <1>7, NewEffect DEF Right, Belongs
<1> QED BY <1>1, <1>4, <1>6, <1>7

LEMMA ShownStep ==
  ASSUME Base, Lone, Sole, Shown, [Next]_vars
  PROVE  Shown'
<1> SUFFICES ASSUME session.patient, session' = session
             PROVE  Shown'
  BY Steps DEF Shown, Serves, Resumes, Begins, vars
<1>1. CASE UNCHANGED vars
  BY <1>1 DEF vars, Shown, Consistent, Right, Belongs, Idles, Bare, NoTables, Suits, Hot
<1>2. CASE Serves
  BY <1>2, ShownServes DEF Serves, Shown
<1>3. CASE Resumes
  <2>1. PICK t \in DOMAIN tasks : \E N : \E relisted \in BOOLEAN : Resumed(t, N, relisted)
    BY <1>3 DEF Resumes
  <2> QED BY <1>3, <2>1, ShownEffect, ShownHandler DEF Resumes, Shown
<1>4. CASE Begins
  BY <1>4, ShownBegins DEF Begins, Shown
<1> QED BY <1>1, <1>2, <1>3, <1>4, Steps

LEMMA PatientInit ==
  ASSUME Init
  PROVE  Sole /\ Shown
<1> DEFINE x == Task(ui, "refresh", "list")
<1>1. tasks = SetToBag({x})
  BY DEF Init
<1>2. x.op = "refresh" /\ x.await = "list" /\ x.reply.is = "awaited"
  BY DEF Task, NoReply
<1> HIDE DEF x
<1>3. Single(tasks, x)
  BY <1>1 DEF SetToBag, Single, Only
<1>4. Sole
  BY <1>3 DEF Sole, Single, Only, Once
<1>5. Right(x)
  BY <1>2 DEF Right, Belongs
<1>6. Consistent
  BY DEF Init, Consistent, Bare, NoTables
<1> QED BY <1>3, <1>4, <1>5, <1>6 DEF Shown, Single, Only

--------------------------------------------------------------------------------
(* What he is shown when no request fails for a reason of its own and no   *)
(* answer is lost: the store, except for what a task under way will still  *)
(* show.  After a dump file it may be out of date: the batches before one  *)
(* that was refused remain.                                                *)

(* The list of databases shown is about to be fetched anew.                *)
Changing(t) ==
  \/ t.await \in {"list", "finalizeArchive", "finalizeRestore"}
  \/ /\ t.await \in {"create", "delete", "beginArchive", "cancelArchive", "beginRestore"}
     /\ t.reply.is = "ok"
(* The tables shown are about to be taken away.                            *)
Leaving(t) ==
  \/ t.await = "finalizeArchive"
  \/ t.await \in {"delete", "beginArchive"} /\ t.reply.is = "ok"
Written(t) == t.await = "statement" /\ t.reply.is = "ok"

Sound(t) ==
  /\ t.await \in {"list", "account", "preview", "table", "finalizeArchive", "finalizeRestore"} =>
       t.reply.is # "failed"
  /\ t.await \in {"table", "preview"} =>
       /\ Hot(t.db) /\ t.target \in store[t.db].tables
       /\ t.reply.is = "ok" => t.reply.rows = Page(t.db, t.target, t.offset, t.limit)
  /\ t.await = "list" /\ t.reply.is = "ok" => \A d \in Dbs : t.reply.listed[d] = store[d].status
  /\ \/ t.await = "beginArchive" /\ t.reply.is = "ok"
     \/ t.await = "finalizeArchive" /\ t.reply.is = "awaited"
     => store[t.db].status = "archiving"
  /\ \/ t.await = "beginRestore" /\ t.reply.is = "ok"
     \/ t.await = "finalizeRestore" /\ t.reply.is = "awaited"
     => store[t.db].status = "restoring"
  /\ t.await = "resources" => IF Hot(t.db) THEN t.reply.is # "failed" ELSE t.reply.is # "ok"
  /\ t.limit = ui.limit /\ (t.await = "preview" => t.offset = 0)

PageShown ==
  /\ ui.tableName \in store[ui.databaseId].tables
  /\ ui.preview.rows = Page(ui.databaseId, ui.tableName, ui.preview.offset, ui.limit)

(* Every table listed, named or described exists.                          *)
Within ==
  LET tables == store[ui.databaseId].tables
  IN /\ ui.tables \subseteq tables
     /\ {ui.tableName, ui.description.table} \subseteq tables \cup {NoTable}

Agreeing ==
  \/ Bare /\ store[ui.databaseId].tables = {}
  \/ /\ \/ ui.tables = store[ui.databaseId].tables
        \/ \E e \in DOMAIN tasks : e.await = "resources"
        \/ ui.tableName = NoTable /\ \E e \in DOMAIN tasks : e.await = "table"
     /\ PageShown \/ \E e \in DOMAIN tasks : e.await \in Loads

Current == session.patient /\ Reliable =>
  /\ \A t \in DOMAIN tasks : Sound(t)
  /\ (\A t \in DOMAIN tasks : ~Changing(t)) => \A d \in Dbs : ui.databases[d] = store[d].status
  /\ (\A t \in DOMAIN tasks : ~Leaving(t)) /\ (ui.databaseId = NoDb \/ ~Hot(ui.databaseId))
     => Bare
  /\ ui.databaseId # NoDb /\ Hot(ui.databaseId) => Within
  /\ /\ \A t \in DOMAIN tasks : ~Changing(t) /\ ~Written(t)
     /\ ui.databaseId # NoDb /\ Hot(ui.databaseId) /\ "loadDump" \notin session.may
     => Agreeing

LEMMA CurrentServes ==
  ASSUME Base, Lone, Current, session.patient, Reliable, UNCHANGED <<ui, session>>,
         NEW t \in DOMAIN tasks, NEW x, Served(t, x)
  PROVE  Current'
<1>1. /\ Alike(t, x) /\ x \in DOMAIN tasks' /\ TaskOK(x) /\ t.reply.is = "awaited"
      /\ \A e \in DOMAIN tasks' : e \in DOMAIN tasks \/ e = x
      /\ \A e \in DOMAIN tasks : e \in DOMAIN tasks' \/ e = t
      /\ Only(tasks, {t}) => \A e \in DOMAIN tasks' : e = x
  <2>1. t.reply.is = "awaited"
    BY DEF Served, NoReply
  <2> QED BY <2>1 DEF Served, Turn
<1>2. TaskOK(t) /\ Sound(t)
  BY DEF Base, Current
<1>3. /\ \/ UNCHANGED store
         \/ /\ t.await \in DOMAIN Moves \cup {"statement", "finalizeRestore", "create"}
            /\ x.reply.is = "ok" /\ x.db \in Dbs
      /\ t.await # "create" => x.db = t.db
      /\ \A e \in Dbs : e # x.db => store'[e] = store[e]
      /\ t.await = "statement" => \A e \in Dbs : /\ store'[e].status = store[e].status
                                                 /\ store[e].tables \subseteq store'[e].tables
      /\ t.await \notin {"statement", "finalizeRestore"} =>
           \A e \in Dbs : store'[e].tables = store[e].tables
      /\ x.reply.is = "ok" =>
           /\ t.await \in DOMAIN Moves => /\ store[t.db].status \in Moves[t.await][1]
                                          /\ store'[t.db].status = Moves[t.await][2]
           /\ t.await = "finalizeRestore" => store'[t.db].status = "hot"
           /\ t.await = "create" => /\ store[x.db].status = "none"
                                    /\ store'[x.db].status = "hot"
  BY Stored DEF Told, Reliable
<1>4. UNCHANGED store \/ \A e \in DOMAIN tasks' : e = x
  <2>1. Early(t) => \A e \in DOMAIN tasks' : e = x
    BY <1>1 DEF Lone, Single
  <2> QED BY <1>3, <2>1, MovesOf DEF Early
<1>5. /\ x.op = t.op /\ x.await = t.await /\ x.target = t.target /\ x.offset = t.offset
      /\ x.limit = t.limit
  BY <1>1 DEF Alike
<1>6. (Changing(t) => Changing(x)) /\ (Leaving(t) => Leaving(x)) /\ ~Written(t)
  BY <1>1, <1>5 DEF Changing, Leaving, Written
<1>7. ASSUME UNCHANGED store
      PROVE  Sound(x)'
  <2>1. CASE Denied(t, x)
    <3>1. Sound(x)
      BY <1>1, <1>2, <1>3, <1>5, <2>1, MovesOf DEF Denied, Reliable, Sound, Hot
    <3> QED BY <1>7, <3>1 DEF Sound, Hot, Page
  <2>2. CASE Granted(t, x)
    <3>1. /\ x.reply.is = "ok"
          /\ t.await = "beginArchive" => store[t.db].status = "archiving"
          /\ t.await = "beginRestore" => store[t.db].status = "restoring"
      BY <1>3, <1>7, <2>2, MovesOf DEF Granted, Told, Reliable
    <3>2. Sound(x)
      BY <1>2, <1>3, <1>5, <2>2, <3>1, MovesOf
         DEF Granted, Applied, GrantedRead, GrantedStatement, GrantedMove, GrantedRestore,
             GrantedCreate, Sound, Hot
    <3> QED BY <1>7, <3>2 DEF Sound, Hot, Page
  <2> QED BY <2>1, <2>2 DEF Served
<1>8. ASSUME ~UNCHANGED store
      PROVE  Sound(x)'
  BY <1>2, <1>3, <1>5, <1>8, MovesOf DEF Sound
<1>9. \A e \in DOMAIN tasks' : Sound(e)'
  <2> SUFFICES ASSUME NEW e \in DOMAIN tasks', e # x
               PROVE  Sound(e)'
    BY <1>7, <1>8
  <2>1. UNCHANGED store /\ Sound(e)
    BY <1>1, <1>4 DEF Current
  <2> QED BY <2>1 DEF Sound, Hot, Page
<1>10. ASSUME \A e \in DOMAIN tasks' : ~Changing(e)
       PROVE  \A d \in Dbs : ui'.databases[d] = store'[d].status
  <2>1. \A e \in DOMAIN tasks : ~Changing(e)
    BY <1>1, <1>6, <1>10
  <2>2. ~Changing(x)
    BY <1>1, <1>10
  <2>3. \A d \in Dbs : store'[d].status = store[d].status
    BY <1>3, <1>5, <2>2, MovesOf DEF Changing
  <2> QED BY <2>1, <2>3 DEF Current
<1>11. ASSUME \A e \in DOMAIN tasks' : ~Leaving(e), ui.databaseId = NoDb \/ ~Hot(ui.databaseId)'
       PROVE  Bare
  <2>1. \A e \in DOMAIN tasks : ~Leaving(e)
    BY <1>1, <1>6, <1>11
  <2>2. ~Leaving(x) /\ (ui.databaseId = NoDb \/ ui.databaseId \in Dbs)
    BY <1>1, <1>11 DEF Base, UiOK, Uis, AnyDb
  <2>3. ui.databaseId = NoDb \/ ~Hot(ui.databaseId)
    BY <1>3, <1>5, <1>11, <2>2, MovesOf DEF Leaving, Hot
  <2> QED BY <2>1, <2>3 DEF Current
<1>12. ASSUME \A e \in DOMAIN tasks' : ~Changing(e) /\ ~Written(e), ui.databaseId # NoDb,
              Hot(ui.databaseId)', "loadDump" \notin session.may
       PROVE  Agreeing'
  <2>1. \A e \in DOMAIN tasks : ~Changing(e) /\ ~Written(e)
    BY <1>1, <1>6, <1>12
  <2>2. UNCHANGED store
    BY <1>1, <1>3, <1>5, <1>12, MovesOf DEF Changing, Written
  <2>3. Agreeing
    BY <1>12, <2>1, <2>2 DEF Current, Hot
  <2>4. \A e \in DOMAIN tasks : \E f \in DOMAIN tasks' : f.await = e.await
    BY <1>1, <1>5
  <2> QED BY <2>2, <2>3, <2>4 DEF Agreeing, Bare, NoTables, PageShown, Page
<1>13. ASSUME ui.databaseId # NoDb, Hot(ui.databaseId)'
       PROVE  Within'
  <2>1. ui.databaseId \in Dbs
    BY <1>13 DEF Base, UiOK, Uis, AnyDb
  <2>2. CASE Hot(ui.databaseId)
    <3>1. t.await = "finalizeRestore" => t.db # ui.databaseId
      BY <1>1, <1>2, <2>2 DEF Sound, Hot
    <3>2. store[ui.databaseId].tables \subseteq store'[ui.databaseId].tables
      BY <1>3, <2>1, <3>1
    <3>3. Within
      BY <1>13, <2>2 DEF Current
    <3> QED BY <3>2, <3>3 DEF Within
  <2>3. CASE ~Hot(ui.databaseId)
    <3>1. ~UNCHANGED store /\ Early(t)
      BY <1>3, <1>13, <2>3, MovesOf DEF Hot, Early
    <3>2. \A e \in DOMAIN tasks : e = t
      BY <3>1 DEF Lone, Single, Only
    <3>3. x.reply.is = "ok" /\ x.db = ui.databaseId
      BY <1>3, <1>13, <2>1, <2>3, <3>1 DEF Hot
    <3>4. t.await \in {"cancelArchive", "finalizeRestore", "create"}
      BY <1>3, <1>13, <2>3, <3>1, <3>3, MovesOf DEF Hot
    <3>5. Bare
      BY <2>3, <3>2, <3>4 DEF Current, Leaving
    <3>6. NoDescription.table = NoTable
      BY DEF NoDescription
    <3> QED BY <3>5, <3>6 DEF Bare, NoTables, Within
  <2> QED BY <2>2, <2>3
<1> QED BY <1>9, <1>10, <1>11, <1>12, <1>13 DEF Current, Bare, NoTables

(* The tables shown agree with the store, or a load is under way.          *)
LEMMA AgreeingResumes ==
  ASSUME Base, Shown, Current, session.patient, Reliable, UNCHANGED <<store, session>>,
         NEW t \in DOMAIN tasks, NEW N, NEW relisted \in BOOLEAN, Resumed(t, N, relisted),
         \A e \in DOMAIN tasks : ~Changing(e) /\ ~Written(e),
         ui.databaseId # NoDb, Hot(ui.databaseId), "loadDump" \notin session.may
  PROVE  Agreeing'
<1>1. /\ \A e \in DOMAIN tasks : e \in DOMAIN tasks' \/ e = t
      /\ \A e \in N : e \in DOMAIN tasks'
      /\ Fires(ui, ui', relisted) => EffectOf(ui') \in DOMAIN tasks'
      /\ UiOK(ui') /\ UiOK(ui)
  BY DEF Resumed, Turn, Base
<1>2. TaskOK(t) /\ Right(t) /\ Sound(t) /\ Consistent /\ Agreeing /\ ui.databaseId \in Dbs
  BY DEF Base, Shown, Current, UiOK, Uis, AnyDb
<1>3. \/ Caught(t, N, relisted) \/ AccountShown(t, N, relisted) \/ DetailsShown(t, N, relisted)
      \/ TableShown(t, N, relisted) \/ PreviewShown(t, N, relisted) \/ FileShown(t, N, relisted)
  BY DEF Resumed, Relisted, Reloads, CallFollowed, Changing, Written
<1>4. /\ ui'.databaseId = ui.databaseId /\ ui'.databases = ui.databases /\ ui'.limit = ui.limit
  BY <1>3 DEF Caught, AccountShown, DetailsShown, TableShown, PreviewShown, FileShown, Same,
              SameChoice
<1>5. ui'.tableName # ui.tableName => \E e \in DOMAIN tasks' : e.await = "resources"
  <2> SUFFICES ASSUME ui'.tableName # ui.tableName
               PROVE  EffectOf(ui') \in DOMAIN tasks' /\ EffectOf(ui').await = "resources"
    OBVIOUS
  <2>1. ui.databases[ui.databaseId] = "hot"
    BY <1>2 DEF Current, Hot
  <2> QED BY <1>1, <1>4, <2>1, NewEffect DEF Fires, UiOK
<1>6. store[ui.databaseId].tables \subseteq Names /\ NoTable \notin Names
  BY <1>2, Bounds DEF Base, StoreOK, Stores, Names, NoTable
<1>7. ASSUME t.await \notin Loads, SameTables(ui, ui')
      PROVE  Agreeing'
  <2>1. \A e \in DOMAIN tasks : e.await \in Loads => e \in DOMAIN tasks'
    BY <1>1, <1>7
  <2> QED BY <1>2, <1>4, <1>7, <2>1
          DEF Agreeing, SameTables, Bare, NoTables, PageShown, Page, Loads
<1>8. CASE Caught(t, N, relisted)
  <2>1. t.await \notin Loads
    BY <1>2, <1>8, LoadsSelected DEF Caught, Sound, Loads
  <2> QED BY <1>7, <1>8, <2>1 DEF Caught, Same, SameTables
<1>9. CASE AccountShown(t, N, relisted)
  <2>1. CASE ui.tableName # NoTable
    <3>1. \E e \in DOMAIN tasks' : e.await = "resources"
      BY <1>5, <1>9, <2>1 DEF AccountShown, NoTables
    <3> QED BY <3>1 DEF Agreeing, Loads
  <2>2. CASE ui.tableName = NoTable /\ store[ui.databaseId].tables = {}
    BY <1>4, <1>9, <2>2 DEF AccountShown, NoTables, Agreeing, Bare, NoTables
  <2>3. CASE ui.tableName = NoTable /\ store[ui.databaseId].tables # {}
    <3>1. \E e \in DOMAIN tasks : e.await \in Loads
      BY <1>2, <1>6, <2>3 DEF Agreeing, PageShown
    <3>2. \E e \in DOMAIN tasks' : e.await \in Loads
      BY <1>1, <1>9, <3>1 DEF AccountShown, Loads
    <3> QED BY <1>9, <3>2 DEF AccountShown, NoTables, Agreeing, Loads
  <2> QED BY <2>1, <2>2, <2>3
<1>10. CASE DetailsShown(t, N, relisted)
  <2>1. t.db = ui.databaseId /\ t.reply.tables = store[ui.databaseId].tables
    BY <1>2, <1>10, LoadsSelected DEF DetailsShown, Right
  <2>2. CASE NoTables(ui') /\ t.reply.tables = {}
    BY <1>4, <2>1, <2>2 DEF Agreeing, Bare, NoTables, NoTables
  <2>3. CASE \E name \in t.reply.tables : LoadsTable(t, N, "table", name)
    <3>1. \E e \in DOMAIN tasks' : e.await = "table"
      BY <1>1, <2>3 DEF LoadsTable, Follows
    <3> QED BY <1>4, <1>10, <2>1, <3>1 DEF DetailsShown, Agreeing, Loads
  <2> QED BY <1>10, <2>2, <2>3 DEF DetailsShown
<1>11. CASE TableShown(t, N, relisted)
  <2>1. /\ t.db = ui.databaseId /\ t.target \in store[ui.databaseId].tables
        /\ t.reply.rows = Page(t.db, t.target, t.offset, ui.limit)
    BY <1>2, <1>11, LoadsSelected DEF TableShown, Sound
  <2>2. PageShown'
    <3>1. /\ ui'.tableName = t.target /\ ui'.preview.offset = t.offset
          /\ ui'.preview.rows = t.reply.rows
      BY <1>11 DEF TableShown
    <3> QED BY <1>4, <2>1, <3>1 DEF PageShown, Page
  <2>3. CASE ui.tableName = t.target
    <3>1. \/ ui'.tables = store[ui.databaseId].tables
          \/ \E e \in DOMAIN tasks : e.await = "resources"
      BY <1>2, <1>6, <1>11, <2>1, <2>3 DEF Agreeing, Bare, NoTables, TableShown
    <3>2. \/ ui'.tables = store[ui.databaseId].tables
          \/ \E e \in DOMAIN tasks' : e.await = "resources"
      BY <1>1, <1>11, <3>1 DEF TableShown
    <3> QED BY <1>4, <2>2, <3>2 DEF Agreeing
  <2>4. CASE ui.tableName # t.target
    <3>1. \E e \in DOMAIN tasks' : e.await = "resources"
      BY <1>5, <1>11, <2>4 DEF TableShown
    <3> QED BY <2>2, <3>1 DEF Agreeing
  <2> QED BY <2>3, <2>4
<1>12. CASE PreviewShown(t, N, relisted)
  <2>1. /\ t.db = ui.databaseId /\ t.target \in store[ui.databaseId].tables
        /\ t.reply.rows = Page(t.db, t.target, t.offset, ui.limit)
    BY <1>2, <1>12, LoadsSelected DEF PreviewShown, Sound
  <2>2. ui.tableName \in {t.target, NoTable}
    BY <1>2, <1>12, <2>1 DEF PreviewShown, Right
  <2>3. \A e \in DOMAIN tasks : e.await \in Loads => e \in DOMAIN tasks'
    BY <1>1, <1>12 DEF PreviewShown, Loads
  <2>4. \/ ui.tables = store[ui.databaseId].tables
        \/ \E e \in DOMAIN tasks' : e.await = "resources"
        \/ ui.tableName = NoTable /\ \E e \in DOMAIN tasks' : e.await = "table"
    BY <1>2, <2>1, <2>3 DEF Agreeing, Loads
  <2>5. PageShown' \/ \E e \in DOMAIN tasks' : e.await \in Loads
    <3>1. CASE ui.tableName = t.target
      <4>1. /\ ui'.tableName = t.target /\ ui'.preview.offset = t.offset
            /\ ui'.preview.rows = t.reply.rows
        BY <1>2, <1>12, <3>1 DEF PreviewShown, Sound
      <4> QED BY <1>4, <2>1, <4>1 DEF PageShown, Page
    <3>2. CASE ui.tableName = NoTable
      <4>1. \E e \in DOMAIN tasks : e.await \in Loads
        BY <1>2, <1>6, <2>1, <3>2 DEF Agreeing, PageShown
      <4> QED BY <2>3, <4>1
    <3> QED BY <2>2, <3>1, <3>2
  <2> QED BY <1>4, <1>12, <2>4, <2>5 DEF Agreeing, PreviewShown
<1>13. CASE FileShown(t, N, relisted)
  BY <1>7, <1>13 DEF FileShown, Loads
<1> QED BY <1>3, <1>8, <1>9, <1>10, <1>11, <1>12, <1>13

LEMMA CurrentResumes ==
  ASSUME Base, Shown, Current, session.patient, Reliable, UNCHANGED <<store, session>>,
         NEW t \in DOMAIN tasks, NEW N, NEW relisted \in BOOLEAN, Resumed(t, N, relisted)
  PROVE  Current'
<1> DEFINE fire == Fires(ui, ui', relisted)
<1>1. /\ \A e \in DOMAIN tasks' : e \in DOMAIN tasks \/ e \in N \/ e = EffectOf(ui')
      /\ \A e \in DOMAIN tasks : e \in DOMAIN tasks' \/ e = t
      /\ \A e \in N : e \in DOMAIN tasks'
      /\ fire => EffectOf(ui') \in DOMAIN tasks'
      /\ UiOK(ui')
  BY DEF Resumed, Turn
<1>2. TaskOK(t) /\ Right(t) /\ Sound(t) /\ Consistent
  BY DEF Base, Shown, Current
<1>3. NoReply.is = "awaited" /\ ui'.limit = ui.limit
  BY DEF NoReply, Resumed, Caught, Relisted, AccountShown, DetailsShown, TableShown, PreviewShown,
         Reloads, FileShown, CallFollowed, Same, SameChoice
<1>4. t.await = "list" => /\ Relisted(t, N, relisted) /\ t.reply.is = "ok"
  <2>1. t.reply.is \in {"awaited", "ok", "failed"} /\ (t.reply.is = "awaited" => t.reply = NoReply)
    BY <1>2 DEF TaskOK, TaskSet, Replies
  <2> QED BY <1>2, <2>1
          DEF Sound, Resumed, Caught, Relisted, AccountShown, DetailsShown, TableShown,
              PreviewShown,
              Reloads, FileShown, CallFollowed
<1>5. t.await # "list" => ui'.databaseId = ui.databaseId /\ ui'.databases = ui.databases
  BY DEF Resumed, Caught, Relisted, AccountShown, DetailsShown, TableShown, PreviewShown,
         Reloads, FileShown, CallFollowed, Same, SameChoice
<1>6. \A x \in N : Sound(x)
  <2> SUFFICES ASSUME NEW x \in N
               PROVE  Sound(x)
    OBVIOUS
  <2>1. x.limit = t.limit /\ x.db = t.db /\ x.reply.is = "awaited" /\ x.await # "preview"
    BY <1>3 DEF Resumed, Caught, Relisted, AccountShown, DetailsShown, TableShown, PreviewShown,
                Reloads, FileShown, CallFollowed, GoesTo, LoadsTable, Follows
  <2>2. x.await = "table" => Hot(t.db) /\ x.target \in store[t.db].tables
    BY <1>2 DEF Resumed, Caught, Relisted, AccountShown, DetailsShown, TableShown, PreviewShown,
                Reloads, FileShown, CallFollowed, GoesTo, LoadsTable, Follows, Right, Sound
  <2>3. /\ x.await = "finalizeArchive" => store[t.db].status = "archiving"
        /\ x.await = "finalizeRestore" => store[t.db].status = "restoring"
    BY <1>2 DEF Resumed, Caught, Relisted, AccountShown, DetailsShown, TableShown, PreviewShown,
                Reloads, FileShown, CallFollowed, GoesTo, LoadsTable, Follows, Sound
  <2> QED BY <1>2, <2>1, <2>2, <2>3 DEF Sound
<1>7. ASSUME NEW e \in DOMAIN tasks'
      PROVE  Sound(e)'
  <2>1. CASE e = EffectOf(ui')
    BY <2>1, NewEffect DEF Sound
  <2>2. CASE e \in DOMAIN tasks \/ e \in N
    <3>1. Sound(e)
      BY <1>6, <2>2 DEF Current
    <3> QED BY <1>3, <3>1 DEF Sound, Hot, Page
  <2> QED BY <1>1, <2>1, <2>2
<1>8. /\ Changing(t) => t.await = "list" \/ \E x \in N : Changing(x)
      /\ Leaving(t) => NoTables(ui') \/ \E x \in N : Leaving(x)
  <2>1. t.await \in {"finalizeArchive", "finalizeRestore"} => t.reply.is = "ok"
    BY <1>2 DEF Sound, Resumed, Caught, Relisted, AccountShown, DetailsShown, TableShown,
                PreviewShown, Reloads, FileShown, CallFollowed
  <2> QED BY <2>1 DEF Changing, Leaving, Resumed, Caught, Relisted, AccountShown, DetailsShown,
                      TableShown,
                      PreviewShown, Reloads, FileShown, CallFollowed, GoesTo, Follows
<1>9. ASSUME \A e \in DOMAIN tasks' : ~Changing(e)
      PROVE  \A d \in Dbs : ui'.databases[d] = store[d].status
  <2>1. CASE t.await = "list"
    BY <1>2, <1>4, <2>1 DEF Relisted, Sound
  <2>2. CASE t.await # "list"
    <3>1. \A e \in DOMAIN tasks : ~Changing(e)
      BY <1>1, <1>8, <1>9, <2>2
    <3> QED BY <1>5, <2>2, <3>1 DEF Current
  <2> QED BY <2>1, <2>2
<1>10. ASSUME \A e \in DOMAIN tasks' : ~Leaving(e), ui'.databaseId = NoDb \/ ~Hot(ui'.databaseId)
       PROVE  Bare'
  <2>1. CASE NoTables(ui')
    BY <2>1 DEF Bare, NoTables
  <2>2. CASE ~NoTables(ui')
    <3>1. \A e \in DOMAIN tasks : ~Leaving(e)
      BY <1>1, <1>8, <1>10, <2>2
    <3>2. CASE t.await = "list"
      <4>1. SameTables(ui, ui')
        BY <1>4, <2>2, <3>2 DEF Relisted
      <4>2. t.op = "delete" => t.db = ui.databaseId /\ ~Hot(t.db)
        BY <1>2, <3>2 DEF Right, Belongs, Idles
      <4>3. ui.databaseId = NoDb \/ ~Hot(ui.databaseId)
        BY <1>4, <1>10, <2>2, <3>2, <4>2 DEF Relisted
      <4> QED BY <3>1, <4>1, <4>3 DEF Current, Bare, NoTables, SameTables
    <3>3. CASE t.await # "list"
      <4>1. Bare
        BY <1>5, <1>10, <3>1, <3>3 DEF Current
      <4>2. /\ t.await \in {"table", "preview"} => t.db = ui.databaseId /\ Hot(t.db) /\ t.db \in Dbs
            /\ t.await = "resources" /\ t.reply.is = "ok" =>
                 t.db = ui.databaseId /\ Hot(t.db) /\ t.db \in Dbs
        BY <1>2, LoadsSelected DEF Sound
      <4>3. SameTables(ui, ui')
        BY <1>5, <1>10, <2>2, <3>3, <4>2, Bounds
           DEF Resumed, Caught, Relisted, AccountShown, DetailsShown, TableShown, PreviewShown,
               Reloads, FileShown, CallFollowed, Same, SameTables
      <4> QED BY <4>1, <4>3 DEF Bare, NoTables, SameTables
    <3> QED BY <3>2, <3>3
  <2> QED BY <2>1, <2>2
<1>11. ASSUME \A e \in DOMAIN tasks' : ~Changing(e) /\ ~Written(e),
              ui'.databaseId # NoDb, Hot(ui'.databaseId), "loadDump" \notin session.may
       PROVE  Agreeing'
  <2>1. CASE t.await = "list"
    <3>1. relisted /\ ui'.principal /\ ui'.databaseId \in Dbs
      BY <1>1, <1>4, <1>11, <2>1 DEF Relisted, UiOK, Uis, AnyDb
    <3>2. fire
      BY <1>11, <3>1 DEF Fires
    <3>3. ui'.databases[ui'.databaseId] = "hot"
      BY <1>9, <1>11, <3>1 DEF Hot
    <3>4. EffectOf(ui') \in DOMAIN tasks' /\ EffectOf(ui').await = "resources"
      BY <1>1, <3>2, <3>3, NewEffect
    <3> QED BY <3>4 DEF Agreeing, Loads
  <2>2. CASE Written(t)
    <3>1. t.op # "loadDump"
      BY <1>11 DEF Base, Allowed, ControlOf
    <3>2. \E e \in DOMAIN tasks' : e.await = "resources"
      BY <1>1, <2>2, <3>1
         DEF Written, Resumed, Caught, Relisted, AccountShown, DetailsShown, TableShown,
             PreviewShown, Reloads, FileShown, CallFollowed, GoesTo, Follows
    <3> QED BY <3>2 DEF Agreeing, Loads
  <2>3. CASE t.await # "list" /\ ~Written(t)
    <3>1. \A e \in DOMAIN tasks : ~Changing(e) /\ ~Written(e)
      BY <1>1, <1>8, <1>11, <2>3
    <3> QED BY <1>5, <1>11, <2>3, <3>1, AgreeingResumes
  <2> QED BY <2>1, <2>2, <2>3
<1>12. ASSUME ui'.databaseId # NoDb, Hot(ui'.databaseId)
       PROVE  Within'
  <2>1. CASE NoTables(ui')
    BY <2>1 DEF NoTables, NoDescription, Within
  <2>2. CASE SameTables(ui, ui')
    <3>1. ASSUME ui'.databaseId # ui.databaseId
          PROVE  Bare
      <4>1. Relisted(t, N, relisted)
        BY <1>4, <1>5, <3>1
      <4>2. ui.databaseId = NoDb \/ NoTables(ui')
        BY <1>12, <3>1, <4>1 DEF Relisted
      <4> QED BY <1>2, <2>2, <4>2 DEF Consistent, SameTables, NoTables, Bare
    <3>2. CASE Bare
      BY <2>1, <2>2, <3>2 DEF Bare, SameTables, NoTables
    <3>3. CASE ui'.databaseId = ui.databaseId
      BY <1>12, <2>2, <3>3 DEF Current, Within, SameTables
    <3> QED BY <3>1, <3>2, <3>3
  <2>3. CASE \/ DetailsShown(t, N, relisted) \/ TableShown(t, N, relisted)
             \/ PreviewShown(t, N, relisted)
    <3>1. t.db = ui.databaseId /\ ui'.databaseId = ui.databaseId
      BY <1>2, <1>5, <2>3, LoadsSelected DEF DetailsShown, TableShown, PreviewShown
    <3>2. Within
      BY <1>12, <3>1 DEF Current
    <3>3. /\ t.await = "resources" => t.reply.tables = store[t.db].tables
          /\ t.await = "table" => t.target \in store[t.db].tables
      BY <1>2, <2>3 DEF DetailsShown, TableShown, PreviewShown, Right, Sound
    <3> QED BY <2>1, <2>3, <3>1, <3>2, <3>3 DEF DetailsShown, TableShown, PreviewShown, Within
  <2> QED BY <2>1, <2>2, <2>3
          DEF Resumed, Caught, Relisted, AccountShown, Reloads, FileShown, CallFollowed, Same,
              SameTables
<1> QED BY <1>7, <1>9, <1>10, <1>11, <1>12 DEF Current, Hot

LEMMA CurrentBegins ==
  ASSUME Base, Shown, Current, session.patient, Reliable, UNCHANGED <<store, session>>,
         NEW N, Acted(N)
  PROVE  Current'
<1> DEFINE fire == Fires(ui, ui', FALSE)
<1>1. /\ DOMAIN tasks = {} /\ \A e \in DOMAIN tasks' : e \in N \/ e = EffectOf(ui')
      /\ fire => EffectOf(ui') \in DOMAIN tasks'
      /\ UiOK(ui') /\ UiOK(ui)
  BY NoTasks DEF Acted, Turn, Only, Base
<1>2. Started(N) \/ Selected(N) \/ Named(N) \/ Resized(N) \/ (N = {} /\ Same(ui, ui'))
  BY DEF Acted
<1>3. Consistent /\ NoReply.is = "awaited" /\ \A x \in N : TaskOK(x)
  BY DEF Shown, NoReply, Acted
<1>4. /\ \A d \in Dbs : ui.databases[d] = store[d].status
      /\ ui.databaseId = NoDb \/ ~Hot(ui.databaseId) => Bare
      /\ ui.databaseId # NoDb /\ Hot(ui.databaseId) =>
           /\ Within
           /\ "loadDump" \notin session.may =>
                \/ Bare /\ store[ui.databaseId].tables = {}
                \/ ui.tables = store[ui.databaseId].tables /\ PageShown
  BY <1>1 DEF Current, Agreeing
<1>5. ui'.databases = ui.databases
  BY <1>2 DEF Started, Selected, Named, Resized, Same, SameChoice
<1>6. \A x \in N : /\ x.reply.is = "awaited" /\ x.limit = ui'.limit
                   /\ x.await \notin {"finalizeArchive", "finalizeRestore"}
                   /\ x.await = "preview" => x.offset = 0
  BY <1>2, <1>3 DEF Started, Selected, Named, Resized, Same, New
<1>7. ASSUME NEW x \in N, x.await \in {"table", "preview"}
      PROVE  Hot(x.db) /\ x.target \in store[x.db].tables
  <2>1. /\ x.db = ui.databaseId /\ ui.databaseId # NoDb
        /\ x.target \in ui.tables \/ (x.target = ui.tableName /\ x.target # NoTable)
    BY <1>2, <1>7 DEF Started, Selected, Named, Resized, New
  <2> QED BY <1>4, <2>1 DEF Bare, NoTables, Within, Hot
<1>8. ASSUME NEW e \in DOMAIN tasks'
      PROVE  Sound(e)'
  <2>1. CASE e \in N
    BY <1>6, <1>7, <2>1 DEF Sound, Hot
  <2>2. CASE e = EffectOf(ui')
    BY <2>2, NewEffect DEF Sound
  <2> QED BY <1>1, <2>1, <2>2
<1>9. CASE Started(N) \/ (N = {} /\ Same(ui, ui'))
  <2>1. Same(ui, ui')
    BY <1>9 DEF Started
  <2> QED BY <1>4, <1>8, <2>1
          DEF Current, Agreeing, Within, Same, Bare, NoTables, PageShown, Page, Hot
<1>10. ASSUME fire, ui'.databaseId # NoDb, Hot(ui'.databaseId)
       PROVE  Agreeing'
  <2>1. ui'.databases[ui'.databaseId] = "hot"
    BY <1>1, <1>4, <1>5, <1>10 DEF UiOK, Uis, AnyDb, Hot
  <2>2. EffectOf(ui') \in DOMAIN tasks' /\ EffectOf(ui').await = "resources"
    BY <1>1, <1>10, <2>1, NewEffect
  <2> QED BY <2>2 DEF Agreeing, Loads
<1>11. CASE Selected(N)
  <2>1. Bare'
    BY <1>11 DEF Selected, NoTables, Bare
  <2>2. ASSUME ui'.databaseId # NoDb, Hot(ui'.databaseId), ~fire, "loadDump" \notin session.may
        PROVE  Agreeing'
    <3>1. ui.tableName = NoTable /\ ui'.databaseId = ui.databaseId
      BY <1>1, <1>11, <2>2 DEF Fires, UiOK, Selected, NoTables
    <3>2. NoTable \notin store[ui.databaseId].tables
      BY <1>11, <3>1, Bounds DEF Selected, Base, StoreOK, Stores, Names, NoTable
    <3>3. store[ui.databaseId].tables = {}
      BY <1>4, <2>2, <3>1, <3>2 DEF PageShown
    <3> QED BY <2>1, <3>1, <3>3 DEF Agreeing
  <2>3. Within'
    BY <2>1 DEF Bare, NoTables, NoDescription, Within
  <2> QED BY <1>4, <1>5, <1>8, <1>10, <2>1, <2>2, <2>3 DEF Current, Hot
<1>12. CASE Resized(N)
  <2>1. /\ ui'.tables = ui.tables /\ ui'.tableName = ui.tableName /\ ui'.preview = ui.preview
        /\ ui'.databaseId = ui.databaseId
        /\ ui'.databaseId # NoDb => fire
    BY <1>1, <1>12 DEF Resized, SameTables, Fires, UiOK
  <2>2. ui'.description = ui.description
    BY <1>12 DEF Resized, SameTables
  <2> QED BY <1>4, <1>5, <1>8, <1>10, <2>1, <2>2 DEF Current, Hot, Bare, NoTables, Within
<1>13. CASE Named(N)
  <2>1. /\ ui'.tables = ui.tables /\ ui'.preview = ui.preview /\ ui'.databaseId = ui.databaseId
        /\ ui'.description = ui.description /\ ui'.limit = ui.limit
        /\ ui'.tableName \in (ui.tables \cup {ui.description.table}) \ {NoTable}
        /\ ui'.principal = ui.principal
    BY <1>13 DEF Named, SameChoice
  <2>2. ui.databaseId # NoDb /\ Hot(ui.databaseId)
    BY <1>4, <2>1 DEF Bare, NoTables, NoDescription
  <2>3. Within'
    BY <1>4, <2>1, <2>2 DEF Within
  <2>4. ASSUME "loadDump" \notin session.may
        PROVE  Agreeing'
    <3>1. CASE ui'.tableName = ui.tableName
      BY <1>4, <2>1, <2>2, <2>4, <3>1 DEF Agreeing, Bare, NoTables, NoDescription, PageShown, Page
    <3>2. CASE ui'.tableName # ui.tableName
      <4>1. fire
        BY <1>1, <2>1, <2>2, <3>2 DEF Fires, UiOK
      <4> QED BY <1>10, <2>1, <2>2, <4>1 DEF Hot
    <3> QED BY <3>1, <3>2
  <2> QED BY <1>4, <1>5, <1>8, <2>1, <2>2, <2>3, <2>4 DEF Current, Hot
<1> QED BY <1>2, <1>9, <1>11, <1>12, <1>13

LEMMA CurrentStep ==
  ASSUME Base, Lone, Shown, Current, [Next]_vars
  PROVE  Current'
<1> SUFFICES ASSUME session.patient, Reliable, session' = session
             PROVE  Current'
  BY Steps DEF Current, Reliable, Serves, Resumes, Begins, vars
<1>1. CASE UNCHANGED vars
  BY <1>1 DEF vars, Current, Sound, Agreeing, Within, PageShown, Page, Bare, NoTables, Hot
<1>2. CASE Serves
  BY <1>2, CurrentServes DEF Serves
<1>3. CASE Resumes
  <2>1. PICK t \in DOMAIN tasks : \E N : \E relisted \in BOOLEAN : Resumed(t, N, relisted)
    BY <1>3 DEF Resumes
  <2> QED BY <1>3, <2>1, CurrentResumes DEF Resumes
<1>4. CASE Begins
  BY <1>4, CurrentBegins DEF Begins
<1> QED BY <1>1, <1>2, <1>3, <1>4, Steps

LEMMA CurrentInit ==
  ASSUME Init
  PROVE  Current
<1> DEFINE x == Task(ui, "refresh", "list")
<1>1. tasks = SetToBag({x})
  BY DEF Init
<1>2. x.await = "list" /\ x.reply.is = "awaited" /\ x.limit = ui.limit
  BY DEF Task, NoReply
<1> HIDE DEF x
<1>3. DOMAIN tasks = {x}
  BY <1>1 DEF SetToBag
<1>4. Sound(x) /\ Changing(x)
  BY <1>2 DEF Sound, Changing
<1>5. Bare
  BY DEF Init, Bare, NoTables
<1>6. ui.databaseId = NoDb
  BY DEF Init
<1> QED BY <1>3, <1>4, <1>5, <1>6 DEF Current

--------------------------------------------------------------------------------
(* The table that is named is the one described, and its page is shown.  A *)
(* SQL button names another one: then its refresh is under way, alone, and *)
(* cannot fail.  When it can, the buttons are left out.                    *)

Matched ==
  /\ ui.description = IF ui.tableName = NoTable THEN NoDescription
                      ELSE [db |-> ui.databaseId, table |-> ui.tableName]
  /\ ui.tableName # NoTable => ui.preview.table = ui.tableName

Renamed ==
  /\ Reliable /\ \A t \in DOMAIN tasks : t.op = "effect"
  /\ \E t \in DOMAIN tasks : t.await \in Loads

Described ==
  session.patient /\ (Reliable \/ "openSql" \notin session.may) => Matched \/ Renamed

LEMMA MatchedResumes ==
  ASSUME Base, Shown, session.patient, Matched, NEW t \in DOMAIN tasks, NEW N,
         NEW relisted \in BOOLEAN, Resumed(t, N, relisted)
  PROVE  Matched'
<1>1. TaskOK(t) /\ Right(t) /\ Consistent
  BY DEF Base, Shown
<1>2. CASE NoTables(ui')
  BY <1>2 DEF NoTables, Matched
<1>3. CASE SameTables(ui, ui')
  <2>1. CASE ui'.databaseId = ui.databaseId
    BY <1>3, <2>1 DEF SameTables, Matched
  <2>2. CASE ui'.databaseId # ui.databaseId
    <3>1. ui.databaseId = NoDb \/ NoTables(ui') \/ (t.await = "list" /\ t.op = "delete")
      BY <1>3, <2>2
         DEF Resumed, Caught, Relisted, AccountShown, DetailsShown, TableShown, PreviewShown,
             Reloads, FileShown, CallFollowed, Same, SameChoice
    <3>2. Bare
      BY <1>1, <1>3, <3>1 DEF Consistent, Right, SameTables, NoTables, Bare
    <3> QED BY <1>3, <3>2 DEF Bare, NoTables, SameTables, Matched
  <2> QED BY <2>1, <2>2
<1>4. CASE DetailsShown(t, N, relisted)
  BY <1>2, <1>4 DEF DetailsShown, SameChoice, Matched
<1>5. CASE TableShown(t, N, relisted)
  <2>1. t.db = ui.databaseId /\ t.target # NoTable
    BY <1>1, <1>5, LoadsSelected DEF TableShown, TaskOK, Names, NoTable
  <2> QED BY <1>5, <2>1 DEF TableShown, SameChoice, Matched
<1>6. CASE PreviewShown(t, N, relisted)
  <2>1. ui.tableName \in {t.target, NoTable}
    BY <1>1, <1>6 DEF PreviewShown, Right
  <2> QED BY <1>6, <2>1 DEF PreviewShown, SameChoice, Matched
<1> QED BY <1>2, <1>3, <1>4, <1>5, <1>6
        DEF Resumed, Caught, Relisted, AccountShown, Reloads, FileShown, CallFollowed, Same,
            SameTables

LEMMA RenamedResumes ==
  ASSUME Base, Shown, Current, session.patient, Renamed, ~Matched, UNCHANGED <<store, session>>,
         NEW t \in DOMAIN tasks, NEW N, NEW relisted \in BOOLEAN, Resumed(t, N, relisted)
  PROVE  Matched' \/ Renamed'
<1>1. /\ TaskOK(t) /\ Right(t) /\ Sound(t) /\ Consistent /\ t.op = "effect"
      /\ t.await \in {"account", "resources", "table"}
  BY EffectsAwait DEF Base, Shown, Current, Renamed
<1>2. /\ \A e \in DOMAIN tasks' : e \in DOMAIN tasks \/ e \in N \/ e = EffectOf(ui')
      /\ \A e \in DOMAIN tasks : e \in DOMAIN tasks' \/ e = t
      /\ \A e \in N : e \in DOMAIN tasks'
  BY DEF Resumed, Turn
<1>3. \/ Caught(t, N, relisted) \/ AccountShown(t, N, relisted)
      \/ DetailsShown(t, N, relisted) \/ TableShown(t, N, relisted)
  BY <1>1 DEF Resumed, Relisted, PreviewShown, Reloads, FileShown, CallFollowed
<1>4. \A e \in DOMAIN tasks' : e.op = "effect"
  BY <1>1, <1>2, <1>3, EffectIsEffect
     DEF Renamed, Caught, AccountShown, DetailsShown, TableShown, LoadsTable, Follows
<1>5. ui.databaseId # NoDb /\ Hot(ui.databaseId)
  <2> SUFFICES ASSUME ~(ui.databaseId # NoDb /\ Hot(ui.databaseId))
               PROVE  FALSE
    OBVIOUS
  <2>1. \A e \in DOMAIN tasks : ~Leaving(e)
    <3> SUFFICES ASSUME NEW e \in DOMAIN tasks
                 PROVE  ~Leaving(e)
      OBVIOUS
    <3>1. e.await \in {"account", "resources", "table"}
      BY EffectsAwait DEF Base, Renamed
    <3> QED BY <3>1 DEF Leaving
  <2>2. Bare
    BY <2>1 DEF Current, Renamed
  <2> QED BY <2>2 DEF Bare, NoTables, Matched
<1>6. CASE Caught(t, N, relisted)
  <2>1. t.await \notin {"resources", "table"}
    BY <1>1, <1>5, <1>6, LoadsSelected DEF Caught, Sound
  <2> QED BY <1>2, <1>4, <2>1 DEF Renamed, Reliable, Loads
<1>7. CASE NoTables(ui')
  BY <1>7 DEF NoTables, Matched
<1>8. CASE DetailsShown(t, N, relisted)
  <2>1. CASE \E name : LoadsTable(t, N, "table", name)
    <3>1. \E e \in DOMAIN tasks' : e.await = "table"
      BY <1>2, <2>1 DEF LoadsTable, Follows
    <3> QED BY <1>4, <3>1 DEF Renamed, Reliable, Loads
  <2> QED BY <1>7, <1>8, <2>1 DEF DetailsShown
<1>9. CASE TableShown(t, N, relisted)
  <2>1. t.db = ui.databaseId /\ t.target # NoTable
    BY <1>1, <1>9, LoadsSelected DEF TableShown, TaskOK, Names, NoTable
  <2> QED BY <1>9, <2>1 DEF TableShown, SameChoice, Matched
<1> QED BY <1>3, <1>6, <1>7, <1>8, <1>9 DEF AccountShown

LEMMA DescribedBegins ==
  ASSUME Base, Shown, Current, session.patient, Matched, Reliable \/ "openSql" \notin session.may,
         UNCHANGED <<store, session>>, NEW N, Acted(N)
  PROVE  Matched' \/ Renamed'
<1>1. CASE Named(N)
  <2>1. /\ ui'.tableName \in (ui.tables \cup {ui.description.table}) \ {NoTable}
        /\ ui'.databaseId = ui.databaseId /\ ui'.databases = ui.databases
        /\ ui'.preview = ui.preview /\ ui'.description = ui.description
        /\ ui'.principal = ui.principal /\ Reliable /\ N = {}
    BY <1>1 DEF Named, SameChoice
  <2>2. CASE ui'.tableName = ui.tableName
    BY <2>1, <2>2 DEF Matched
  <2>3. CASE ui'.tableName # ui.tableName
    <3>1. DOMAIN tasks = {} /\ UiOK(ui)
      BY NoTasks DEF Acted, Only, Base
    <3>2. ui.databaseId # NoDb /\ Hot(ui.databaseId)
      BY <2>1, <3>1 DEF Current, Bare, NoTables, NoDescription
    <3>3. ui.databases[ui.databaseId] = "hot"
      BY <2>1, <3>1, <3>2 DEF Current, Hot, UiOK, Uis, AnyDb
    <3>4. Fires(ui, ui', FALSE)
      BY <2>1, <2>3, <3>1, <3>2 DEF Fires, UiOK
    <3>5. /\ EffectOf(ui') \in DOMAIN tasks' /\ EffectOf(ui').await = "resources"
          /\ \A e \in DOMAIN tasks' : e = EffectOf(ui')
      BY <2>1, <3>1, <3>3, <3>4, NewEffect DEF Acted, Turn
    <3> QED BY <2>1, <3>5, EffectIsEffect DEF Renamed, Reliable, Loads
  <2> QED BY <2>2, <2>3
<1>2. CASE Selected(N)
  BY <1>2 DEF Selected, NoTables, Matched
<1>3. CASE Started(N) \/ Resized(N) \/ Same(ui, ui')
  BY <1>3 DEF Started, Resized, Same, SameTables, Matched
<1> QED BY <1>1, <1>2, <1>3 DEF Acted

LEMMA DescribedStep ==
  ASSUME Base, Shown, Current, Described, [Next]_vars
  PROVE  Described'
<1> SUFFICES ASSUME session.patient, Reliable \/ "openSql" \notin session.may, session' = session
             PROVE  Matched' \/ Renamed'
  BY Steps DEF Described, Reliable, Serves, Resumes, Begins, vars
<1>1. Matched \/ Renamed
  BY DEF Described
<1>2. CASE UNCHANGED vars
  BY <1>1, <1>2 DEF vars, Matched, Renamed, Reliable
<1>3. CASE Serves
  <2>1. PICK t \in DOMAIN tasks : \E x : Served(t, x)
    BY <1>3 DEF Serves
  <2>2. PICK x : Served(t, x)
    BY <2>1
  <2>3. /\ x.op = t.op /\ x.await = t.await /\ x \in DOMAIN tasks'
        /\ \A e \in DOMAIN tasks' : e \in DOMAIN tasks \/ e = x
        /\ \A e \in DOMAIN tasks : e \in DOMAIN tasks' \/ e = t
    BY <2>2 DEF Served, Alike, Turn
  <2>4. Renamed => Renamed'
    BY <2>3 DEF Renamed, Reliable
  <2> QED BY <1>1, <1>3, <2>4 DEF Serves, Matched
<1>4. CASE Resumes
  <2>1. PICK t \in DOMAIN tasks : \E N : \E relisted \in BOOLEAN : Resumed(t, N, relisted)
    BY <1>4 DEF Resumes
  <2> QED BY <1>1, <1>4, <2>1, MatchedResumes, RenamedResumes DEF Resumes
<1>5. CASE Begins
  <2>1. PICK N : Acted(N)
    BY <1>5 DEF Begins
  <2>2. ~Renamed
    BY <2>1, NoTasks DEF Acted, Renamed, Only
  <2> QED BY <1>1, <1>5, <2>1, <2>2, DescribedBegins DEF Begins
<1> QED BY <1>2, <1>3, <1>4, <1>5, Steps

Patient == Base /\ Lone /\ Sole /\ Shown /\ Current /\ Described

LEMMA PatientInvariance == Spec => []Patient
<1>1. Init => Patient
  <2>1. Init => Described
    BY DEF Init, Described, Matched
  <2> QED BY <2>1, InitTyped, LoneInit, PatientInit, CurrentInit DEF Patient
<1>2. Patient /\ [Next]_vars => Patient'
  BY StepTyped, LoneStep, SoleStep, ShownStep, CurrentStep, DescribedStep DEF Patient
<1> QED BY <1>1, <1>2, PTL DEF Spec

LEMMA AtRest ==
  ASSUME tasks = EmptyBag, Described, session.patient, Reliable \/ "openSql" \notin session.may
  PROVE  Matched
BY NoTasks DEF Described, Renamed, Only

(* Whatever requests fail, before or after they take effect, a console at  *)
(* rest shows a page of the selected database and describes a table of it. *)
(* The table described is the one named, whose page is shown, unless SQL   *)
(* buttons name tables while requests may fail.                            *)
THEOREM SelectionShown == Spec => []SettledShowsSelection
<1>1. ASSUME Patient
      PROVE  SettledShowsSelection
  <2> SUFFICES ASSUME Settled, ui.preview # NoPreview
               PROVE  /\ ui.preview.db = ui.databaseId
                      /\ ui.description # NoDescription =>
                           /\ ui.description.db = ui.databaseId
                           /\ Reliable \/ "openSql" \notin session.may =>
                                /\ ui.description.table = ui.tableName
                                /\ ui.preview.table = ui.tableName
    BY DEF SettledShowsSelection
  <2>1. Consistent
    BY <1>1 DEF Patient, Shown, Settled
  <2>2. Reliable \/ "openSql" \notin session.may => Matched
    BY <1>1, AtRest DEF Patient, Settled, Quiet
  <2> QED BY <2>1, <2>2 DEF Consistent, Matched
<1> QED BY <1>1, PatientInvariance, PTL

(* Unless a request failed for a reason of its own or an answer was lost,  *)
(* a console at rest shows nothing of a database that is not hot, and of a *)
(* hot one the tables it has, a page of the table it names, if it has any, *)
(* and that page as it is stored, whatever statements and archives came    *)
(* before.  Dump files are left out: their batches are not atomic.         *)
THEOREM StoreShown == Spec => []SettledShowsStore
<1>1. ASSUME Patient
      PROVE  SettledShowsStore
  <2> SUFFICES ASSUME tasks = EmptyBag, session.patient, Reliable, "loadDump" \notin session.may
               PROVE  /\ selectedDatabase # "hot" => ui.tables = {} /\ ui.preview = NoPreview
                      /\ selectedDatabase = "hot" =>
                           /\ ui.tables = store[ui.databaseId].tables
                           /\ ui.tables # {} =>
                                /\ ui.preview # NoPreview /\ ui.description # NoDescription
                                /\ ui.preview.rows = Page(ui.databaseId, ui.tableName,
                                                          ui.preview.offset, ui.limit)
    BY DEF SettledShowsStore, Settled, Quiet
  <2>1. DOMAIN tasks = {} /\ Base /\ Matched
    BY <1>1, NoTasks, AtRest DEF Only, Patient
  <2>2. /\ \A d \in Dbs : ui.databases[d] = store[d].status
        /\ ui.databaseId = NoDb \/ ~Hot(ui.databaseId) => Bare
        /\ ui.databaseId # NoDb /\ Hot(ui.databaseId) =>
             \/ Bare /\ store[ui.databaseId].tables = {}
             \/ ui.tables = store[ui.databaseId].tables /\ PageShown
    BY <1>1, <2>1 DEF Patient, Current, Agreeing
  <2>3. ui.databaseId = NoDb \/ ui.databaseId \in Dbs
    BY <2>1 DEF Base, UiOK, Uis, AnyDb
  <2>4. CASE selectedDatabase # "hot"
    <3>1. Bare
      BY <2>2, <2>3, <2>4 DEF selectedDatabase, Hot
    <3> QED BY <2>4, <3>1 DEF Bare, NoTables
  <2>5. CASE selectedDatabase = "hot"
    <3>1. ui.databaseId \in Dbs /\ ui.databaseId # NoDb /\ Hot(ui.databaseId)
      BY <2>2, <2>3, <2>5, Bounds DEF selectedDatabase, Hot
    <3>2. CASE Bare /\ store[ui.databaseId].tables = {}
      BY <2>5, <3>2 DEF Bare, NoTables
    <3>3. CASE ui.tables = store[ui.databaseId].tables /\ PageShown
      <4>1. ui.tableName # NoTable
        BY <2>1, <3>1, <3>3, Bounds DEF PageShown, Base, StoreOK, Stores, Names, NoTable
      <4>2. ui.preview # NoPreview /\ ui.description # NoDescription
        BY <2>1, <3>1, <4>1 DEF Matched, NoPreview, NoDescription
      <4> QED BY <2>5, <3>3, <4>2 DEF PageShown
    <3> QED BY <2>2, <3>1, <3>2, <3>3
  <2> QED BY <2>4, <2>5
<1> QED BY <1>1, PatientInvariance, PTL
================================================================================
