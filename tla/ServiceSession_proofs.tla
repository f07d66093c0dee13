------------------------- MODULE ServiceSession_proofs -------------------------
(***************************************************************************)
(* Proofs about ServiceSession, for any clients, databases, batches,       *)
(* migrations and sessions.                                                *)
(*                                                                         *)
(* Base, types and what refers to what, is inductive and gives             *)
(* TypeCorrectness; with it SingleFlight is inductive as it stands,        *)
(* FileNamesReady with what CreationsOK says of creations under way,       *)
(* ScriptIsPrefix with what ScriptOK says of the calls that run scripts,   *)
(* MigrationsInOrder with the connections that calls share (ShareOK) and   *)
(* the versions that calls have seen (VersionsOK), NothingIsLeft with the  *)
(* connections that have databases (OwnersOK), and CreatesOnce with where  *)
(* a single client keeps its database (OnceOK).                            *)
(***************************************************************************)
EXTENDS ServiceSession, SequenceFacts

-----------------------------------------------------------------------------
(* The inductive invariant.                                                *)

CallStages == Operations \union {"table", "versions", "apply"} \union Ended

DbRows == [status : {"free", "hot", "deleted", "undone"}, ready : BOOLEAN, chunks : Seq(Nat),
           table : BOOLEAN, versions : Seq(1..MaxVersion)]
CellRows == [promise : Nat, deleted : BOOLEAN, known : 0..MaxDb]
AttemptRows == [stage : Stages, env : Envs, id : 0..MaxDb, closed : BOOLEAN, lazy : BOOLEAN]
CallRows == [stage : CallStages, at : Nat, step : Nat, seen : SUBSET (1..MaxVersion)]

Types ==
  /\ file \in Envs
  /\ remote \in [Ids -> DbRows]
  /\ cell \in [Clients -> CellRows]
  /\ attempts \in [Clients -> Seq(AttemptRows)]
  /\ calls \in [Clients -> Seq(CallRows)]
  /\ session \in Sessions

(* An attempt that is beyond its creation has a database.                  *)
Identified(a) == a.stage \notin {"failed", "load", "create"} => a.id \in Ids

(* A call belongs to one of n attempts, and applies one of the migrations. *)
Attached(call, n) == /\ call.at \in 1..n
                     /\ call.stage = "apply" => call.step \in 1..MaxVersion

Links ==
  \A c \in Clients :
    /\ cell[c].promise \in 0..Len(attempts[c])
    /\ \A i \in DOMAIN attempts[c] : Identified(attempts[c][i])
    /\ \A k \in DOMAIN calls[c] : Attached(calls[c][k], Len(attempts[c]))

Base == Types /\ Links

-----------------------------------------------------------------------------
(* Numbers and sequences.                                                  *)

(* The first free database is free.                                        *)
LEMMA MinOfIds ==
  ASSUME NEW S \in SUBSET Ids, S # {}
  PROVE  Min(S) \in S
<1>1. MaxDb \in Nat /\ S \in SUBSET (0..MaxDb)
  BY Bounds DEF Ids
<1> QED BY <1>1, MinOfSome

(* So is the first missing migration missing, and none before it is.       *)
LEMMA MinOfVersions ==
  ASSUME NEW S \in SUBSET (1..MaxVersion), S # {}
  PROVE  Min(S) \in S /\ \A v \in S : Min(S) <= v
<1>1. MaxVersion \in Nat /\ S \in SUBSET (0..MaxVersion)
  BY Bounds
<1> QED BY <1>1, MinOfSome

LEMMA ElementsOf ==
  ASSUME NEW S, NEW s \in Seq(S)
  PROVE  ToSet(s) \subseteq S
BY DEF ToSet

LEMMA LastOf ==
  ASSUME NEW S, NEW s \in Seq(S), NEW e \in S
  PROVE  e \in ToSet(Append(s, e))
<1>1. Len(s) \in Nat
  BY LenProperties
<1>2. /\ Append(s, e) \in Seq(S) /\ Len(Append(s, e)) = Len(s) + 1
      /\ Append(s, e)[Len(s) + 1] = e
  BY AppendProperties
<1>3. Len(s) + 1 \in DOMAIN Append(s, e)
  BY <1>1, <1>2, LenProperties
<1> QED BY <1>2, <1>3 DEF ToSet

(* A client's sequence of rows with one row replaced.                      *)
LEMMA Replaced ==
  ASSUME NEW S, NEW f \in [Clients -> Seq(S)], NEW c \in Clients, NEW i \in DOMAIN f[c],
         NEW a \in S, NEW g, g = [f EXCEPT ![c] = [f[c] EXCEPT ![i] = a]]
  PROVE  /\ g \in [Clients -> Seq(S)]
         /\ \A e \in Clients : Len(g[e]) = Len(f[e]) /\ DOMAIN g[e] = DOMAIN f[e]
         /\ \A e \in Clients : \A j \in DOMAIN f[e] : g[e][j] = IF e = c /\ j = i THEN a ELSE f[e][j]
<1> DEFINE s == f[c]
           t == [s EXCEPT ![i] = a]
<1>1. s \in Seq(S) /\ DOMAIN s = 1..Len(s) /\ i \in 1..Len(s)
  BY LenProperties
<1>2. t \in Seq(S) /\ Len(t) = Len(s)
  <2> HIDE DEF s
  <2> QED BY <1>1, ExceptSeq
<1>3. DOMAIN t = DOMAIN s /\ \A j \in DOMAIN s : t[j] = IF j = i THEN a ELSE s[j]
  OBVIOUS
<1>4. g = [f EXCEPT ![c] = t]
  OBVIOUS
<1> HIDE DEF t
<1>5. g \in [Clients -> Seq(S)] /\ \A e \in Clients : g[e] = IF e = c THEN t ELSE f[e]
  BY <1>2, <1>4
<1> QED BY <1>2, <1>3, <1>5

(* A client's sequence of rows with one row more.                          *)
LEMMA Extended ==
  ASSUME NEW S, NEW f \in [Clients -> Seq(S)], NEW c \in Clients, NEW a \in S,
         NEW g, g = [f EXCEPT ![c] = Append(f[c], a)]
  PROVE  /\ g \in [Clients -> Seq(S)]
         /\ \A e \in Clients : Len(g[e]) = IF e = c THEN Len(f[e]) + 1 ELSE Len(f[e])
         /\ \A e \in Clients : \A j \in DOMAIN g[e] :
              \/ j \in DOMAIN f[e] /\ g[e][j] = f[e][j]
              \/ e = c /\ j = Len(f[c]) + 1 /\ g[e][j] = a
         /\ \A e \in Clients : \A j \in DOMAIN f[e] : j \in DOMAIN g[e] /\ g[e][j] = f[e][j]
<1> DEFINE s == f[c]
           t == Append(s, a)
<1>1. s \in Seq(S) /\ Len(s) \in Nat
  BY LenProperties
<1>2. /\ t \in Seq(S) /\ Len(t) = Len(s) + 1
      /\ \A j \in 1..Len(s) : t[j] = s[j]
      /\ t[Len(s) + 1] = a
  <2> HIDE DEF s
  <2> QED BY <1>1, AppendProperties
<1>3. DOMAIN s = 1..Len(s) /\ DOMAIN t = 1..Len(t)
  <2> HIDE DEF s, t
  <2> QED BY <1>1, <1>2, LenProperties
<1>4. g = [f EXCEPT ![c] = t]
  OBVIOUS
<1> HIDE DEF t
<1>5. g \in [Clients -> Seq(S)] /\ \A e \in Clients : g[e] = IF e = c THEN t ELSE f[e]
  BY <1>2, <1>4
<1>6. \A j \in DOMAIN t : j \in DOMAIN s \/ j = Len(s) + 1
  BY <1>1, <1>2, <1>3
<1>7. \A j \in DOMAIN s : j \in DOMAIN t
  BY <1>1, <1>2, <1>3
<1> QED BY <1>1, <1>2, <1>3, <1>5, <1>6, <1>7

-----------------------------------------------------------------------------
(* The shapes of the steps.                                                *)

(* A connection comes to its next stage, and is forgotten if it fails.     *)
Progress(c, i, a) ==
  LET old == attempts[c][i]
  IN /\ i \in DOMAIN attempts[c] /\ old.stage \notin Settled
     /\ a \in AttemptRows /\ Identified(a) /\ a.lazy = old.lazy /\ a.closed = old.closed
     /\ attempts' = [attempts EXCEPT ![c] = [attempts[c] EXCEPT ![i] = a]]
     /\ cell' \in [Clients -> CellRows]
     /\ \A e \in Clients :
          /\ cell'[e].deleted = cell[e].deleted
          /\ \/ cell'[e].promise = cell[e].promise
             \/ e = c /\ cell[c].promise = i /\ cell'[c].promise = 0 /\ a.stage = "failed"

(* A call shares the cached connection, starts one, or deletes and drops it.*)
Shares(c) ==
  \/ attempts' = attempts /\ cell' = cell
  \/ ~cell[c].deleted /\ Connect(c)
  \/ /\ attempts' = attempts
     /\ cell' = [cell EXCEPT ![c] = [cell[c] EXCEPT !.promise = 0, !.deleted = TRUE]]

(* A batch of a script is done, and the call goes on with the next.        *)
NextBatch(c, k, call) ==
  LET old == calls[c][k]
  IN /\ old.stage = "script" /\ HandleOf(c, k).stage = "done"
     /\ call.at = old.at /\ call.step = old.step + 1
     /\ old.step \in ToSet(remote'[HandleOf(c, k).id].chunks)

(* A call comes to its next stage, and shares what the next call will.     *)
Advances(c) ==
  /\ Shares(c)
  /\ \E k \in DOMAIN calls[c], call \in CallRows :
       /\ calls' = [calls EXCEPT ![c] = [calls[c] EXCEPT ![k] = call]]
       /\ Attached(call, Len(attempts'[c]))
       /\ call.stage \in Ended \union {"script"} \/ call.at = cell'[c].promise
       /\ call.stage = "script" => NextBatch(c, k, call)

(* Calls delete databases and change what they hold, nothing else.         *)
Mild == /\ remote' \in [Ids -> DbRows]
        /\ \A d \in Ids : /\ remote'[d].ready = remote[d].ready
                          /\ \/ remote'[d].status = remote[d].status
                             \/ remote[d].status = "hot" /\ remote'[d].status = "deleted"

LEMMA BecomesProgress ==
  ASSUME Types, NEW c \in Clients, NEW i \in DOMAIN attempts[c], NEW a \in AttemptRows,
         attempts[c][i].stage \notin Settled, Identified(a),
         a.lazy = attempts[c][i].lazy, a.closed = attempts[c][i].closed,
         Becomes(c, i, a)
  PROVE  Progress(c, i, a)
<1>1. attempts' = [attempts EXCEPT ![c] = [attempts[c] EXCEPT ![i] = a]]
  BY DEF Becomes
<1>2. cell \in [Clients -> CellRows]
  BY DEF Types
<1>3. CASE cell' = cell
  BY <1>1, <1>2, <1>3 DEF Progress
<1>4. CASE cell' # cell
  <2>1. /\ a.stage = "failed" /\ cell[c].promise = i
        /\ cell' = [cell EXCEPT ![c] = [cell[c] EXCEPT !.promise = 0]]
    BY <1>4 DEF Becomes, Forget
  <2>2. [cell[c] EXCEPT !.promise = 0] \in CellRows
    BY <1>2 DEF CellRows
  <2>3. /\ [cell[c] EXCEPT !.promise = 0].promise = 0
        /\ [cell[c] EXCEPT !.promise = 0].deleted = cell[c].deleted
    BY <1>2 DEF CellRows
  <2> DEFINE x == [cell[c] EXCEPT !.promise = 0]
  <2> HIDE DEF x
  <2>4. cell' = [cell EXCEPT ![c] = x] /\ x \in CellRows /\ x.promise = 0 /\ x.deleted = cell[c].deleted
    BY <2>1, <2>2, <2>3 DEF x
  <2> QED BY <1>1, <1>2, <2>1, <2>4 DEF Progress
<1> QED BY <1>3, <1>4

(* What connecting adds, and how the client finds it.                      *)
LEMMA Connected ==
  ASSUME Base, NEW c \in Clients, Connect(c)
  PROVE  /\ NewAttempt(c) \in AttemptRows /\ Identified(NewAttempt(c))
         /\ NewAttempt(c).stage \in {"load", "create", "done"} /\ ~NewAttempt(c).closed
         /\ cell' \in [Clients -> CellRows]
         /\ database(c).at = cell'[c].promise
         /\ \A e \in Clients : /\ cell'[e].deleted = cell[e].deleted
                               /\ e # c => cell'[e] = cell[e]
         /\ \/ cell[c].promise # 0 /\ attempts' = attempts /\ cell' = cell
            \/ /\ cell[c].promise = 0 /\ cell'[c].promise = Len(attempts[c]) + 1
               /\ attempts' = [attempts EXCEPT ![c] = Append(attempts[c], NewAttempt(c))]
<1> DEFINE a == NewAttempt(c)
           x == [cell[c] EXCEPT !.promise = database(c).at]
<1>1. cell \in [Clients -> CellRows] /\ attempts \in [Clients -> Seq(AttemptRows)]
  BY DEF Base, Types
<1>2. cell[c].known \in Ids \union {NoDb} /\ cell[c].promise \in 0..Len(attempts[c])
  BY <1>1, Bounds DEF Base, Links, CellRows, Ids, NoDb
<1>3. Torn \in Envs
  BY Bounds DEF Torn, Envs, NoDb
<1>4. a \in AttemptRows /\ Identified(a) /\ a.stage \in {"load", "create", "done"} /\ ~a.closed
  BY <1>2, <1>3, Bounds DEF NewAttempt, AttemptRows, Identified, Stages, Settled, Ids, NoDb
<1>5. Len(attempts[c]) \in Nat
  BY <1>1, LenProperties
<1>6. /\ database(c).at \in Nat
      /\ database(c).at = IF cell[c].promise # 0 THEN cell[c].promise ELSE Len(attempts[c]) + 1
      /\ database(c).attempts = IF cell[c].promise # 0 THEN attempts[c]
                                ELSE Append(attempts[c], NewAttempt(c))
  BY <1>2, <1>5 DEF database
<1>7. x \in CellRows /\ x.promise = database(c).at /\ x.deleted = cell[c].deleted
  BY <1>1, <1>6 DEF CellRows
<1>8. cell' = [cell EXCEPT ![c] = x] /\ attempts' = [attempts EXCEPT ![c] = database(c).attempts]
  BY DEF Connect
<1>9. cell[c].promise # 0 => x = cell[c]
  BY <1>1, <1>6 DEF CellRows
<1> HIDE DEF x
<1>10. /\ cell' \in [Clients -> CellRows] /\ cell'[c] = x
       /\ \A e \in Clients : cell'[e].deleted = cell[e].deleted /\ (e # c => cell'[e] = cell[e])
  BY <1>1, <1>7, <1>8
<1>11. CASE cell[c].promise # 0
  BY <1>1, <1>4, <1>6, <1>7, <1>8, <1>9, <1>10, <1>11
<1>12. CASE cell[c].promise = 0
  BY <1>1, <1>4, <1>6, <1>7, <1>8, <1>10, <1>12
<1> QED BY <1>11, <1>12

-----------------------------------------------------------------------------
(* What the shapes preserve.                                               *)

(* Connections that were not there before are at their beginning, or done. *)
OnlyNewer ==
  \A e \in Clients : \A j \in DOMAIN attempts'[e] :
    \/ j \in DOMAIN attempts[e] /\ attempts'[e][j] = attempts[e][j]
    \/ attempts'[e][j].stage \in {"load", "create", "done"}

LEMMA ProgressKeeps ==
  ASSUME Base, NEW c \in Clients, NEW i, NEW a, Progress(c, i, a), UNCHANGED calls
  PROVE  /\ attempts' \in [Clients -> Seq(AttemptRows)]
         /\ Links'
         /\ SingleFlight => SingleFlight'
<1>1. /\ attempts \in [Clients -> Seq(AttemptRows)] /\ cell \in [Clients -> CellRows]
      /\ i \in DOMAIN attempts[c] /\ a \in AttemptRows
      /\ attempts' = [attempts EXCEPT ![c] = [attempts[c] EXCEPT ![i] = a]]
  BY DEF Base, Types, Progress
<1>2. /\ attempts' \in [Clients -> Seq(AttemptRows)]
      /\ \A e \in Clients : Len(attempts'[e]) = Len(attempts[e]) /\ DOMAIN attempts'[e] = DOMAIN attempts[e]
      /\ \A e \in Clients : \A j \in DOMAIN attempts[e] :
           attempts'[e][j] = IF e = c /\ j = i THEN a ELSE attempts[e][j]
  BY <1>1, Replaced
<1>3. /\ Identified(a) /\ attempts[c][i].stage \notin Settled
      /\ a.lazy = attempts[c][i].lazy /\ a.closed = attempts[c][i].closed
      /\ \A e \in Clients :
           /\ cell'[e].deleted = cell[e].deleted
           /\ \/ cell'[e].promise = cell[e].promise
              \/ e = c /\ cell[c].promise = i /\ cell'[c].promise = 0 /\ a.stage = "failed"
  BY DEF Progress
<1>4. Links'
  <2> SUFFICES ASSUME NEW e \in Clients
               PROVE  /\ cell'[e].promise \in 0..Len(attempts'[e])
                      /\ \A j \in DOMAIN attempts'[e] : Identified(attempts'[e][j])
                      /\ \A k \in DOMAIN calls'[e] : Attached(calls'[e][k], Len(attempts'[e]))
    BY DEF Links, Identified, Attached
  <2>1. cell'[e].promise \in 0..Len(attempts'[e])
    <3>1. cell[e].promise \in 0..Len(attempts[e]) /\ Len(attempts[e]) \in Nat
      BY <1>1, LenProperties DEF Base, Links
    <3> QED BY <1>2, <1>3, <3>1
  <2>2. \A j \in DOMAIN attempts'[e] : Identified(attempts'[e][j])
    BY <1>2, <1>3 DEF Base, Links
  <2>3. \A k \in DOMAIN calls'[e] : Attached(calls'[e][k], Len(attempts'[e]))
    BY <1>2 DEF Base, Links
  <2> QED BY <2>1, <2>2, <2>3
<1>5. ASSUME SingleFlight, NEW e \in Clients, NEW j \in DOMAIN attempts'[e],
             attempts'[e][j].lazy, ~attempts'[e][j].closed, attempts'[e][j].stage \notin Settled,
             ~cell'[e].deleted
      PROVE  cell'[e].promise = j
  <2>1. j \in DOMAIN attempts[e]
    BY <1>2
  <2>2. /\ attempts[e][j].lazy /\ ~attempts[e][j].closed /\ attempts[e][j].stage \notin Settled
        /\ ~cell[e].deleted
    BY <1>2, <1>3, <1>5, <2>1
  <2>3. cell[e].promise = j
    BY <1>5, <2>1, <2>2 DEF SingleFlight
  <2>4. CASE e = c /\ j = i
    BY <1>2, <1>3, <1>5, <2>1, <2>3, <2>4 DEF Settled
  <2>5. CASE ~(e = c /\ j = i)
    BY <1>3, <2>3, <2>5
  <2> QED BY <2>4, <2>5
<1>6. SingleFlight => SingleFlight'
  BY <1>5 DEF SingleFlight
<1> QED BY <1>2, <1>4, <1>6

LEMMA SharesKeeps ==
  ASSUME Base, NEW c \in Clients, Shares(c)
  PROVE  /\ attempts' \in [Clients -> Seq(AttemptRows)] /\ cell' \in [Clients -> CellRows]
         /\ \A e \in Clients : /\ cell'[e].promise \in 0..Len(attempts'[e])
                               /\ Len(attempts[e]) <= Len(attempts'[e])
                               /\ \A j \in DOMAIN attempts'[e] : Identified(attempts'[e][j])
         /\ OnlyNewer
         /\ SingleFlight => SingleFlight'
<1>1. /\ attempts \in [Clients -> Seq(AttemptRows)] /\ cell \in [Clients -> CellRows]
      /\ \A e \in Clients : /\ cell[e].promise \in 0..Len(attempts[e])
                            /\ Len(attempts[e]) \in Nat
                            /\ DOMAIN attempts[e] = 1..Len(attempts[e])
                            /\ \A j \in DOMAIN attempts[e] : Identified(attempts[e][j])
  BY LenProperties DEF Base, Types, Links
<1>2. CASE attempts' = attempts /\ cell' = cell
  BY <1>1, <1>2 DEF OnlyNewer, SingleFlight
<1>3. CASE /\ attempts' = attempts
           /\ cell' = [cell EXCEPT ![c] = [cell[c] EXCEPT !.promise = 0, !.deleted = TRUE]]
  <2> DEFINE x == [cell[c] EXCEPT !.promise = 0, !.deleted = TRUE]
  <2>1. x \in CellRows /\ x.promise = 0 /\ x.deleted
    BY <1>1 DEF CellRows
  <2>2. cell' = [cell EXCEPT ![c] = x]
    BY <1>3
  <2> HIDE DEF x
  <2>3. cell' \in [Clients -> CellRows] /\ \A e \in Clients : cell'[e] = IF e = c THEN x ELSE cell[e]
    BY <1>1, <2>1, <2>2
  <2> QED BY <1>1, <1>3, <2>1, <2>3 DEF OnlyNewer, SingleFlight
<1>4. CASE ~cell[c].deleted /\ Connect(c)
  <2> DEFINE a == NewAttempt(c)
  <2>1. /\ a \in AttemptRows /\ Identified(a) /\ a.stage \in {"load", "create", "done"}
        /\ cell' \in [Clients -> CellRows]
        /\ \A e \in Clients : /\ cell'[e].deleted = cell[e].deleted
                              /\ e # c => cell'[e] = cell[e]
    BY <1>4, Connected
  <2>2. CASE cell[c].promise # 0
    <3>1. attempts' = attempts /\ cell' = cell
      BY <1>4, <2>2, Connected
    <3> QED BY <1>2, <3>1
  <2>3. CASE cell[c].promise = 0
    <3> HIDE DEF a
    <3>1. /\ cell'[c].promise = Len(attempts[c]) + 1
          /\ attempts' = [attempts EXCEPT ![c] = Append(attempts[c], a)]
      BY <1>4, <2>3, Connected DEF a
    <3>2. /\ attempts' \in [Clients -> Seq(AttemptRows)]
          /\ \A e \in Clients : Len(attempts'[e]) = IF e = c THEN Len(attempts[e]) + 1 ELSE Len(attempts[e])
          /\ \A e \in Clients : \A j \in DOMAIN attempts'[e] :
               \/ j \in DOMAIN attempts[e] /\ attempts'[e][j] = attempts[e][j]
               \/ e = c /\ j = Len(attempts[c]) + 1 /\ attempts'[e][j] = a
      BY <1>1, <2>1, <3>1, Extended
    <3>3. \A e \in Clients : cell'[e].promise \in 0..Len(attempts'[e]) /\ Len(attempts[e]) <= Len(attempts'[e])
      BY <1>1, <2>1, <3>1, <3>2
    <3>4. \A e \in Clients : \A j \in DOMAIN attempts'[e] : Identified(attempts'[e][j])
      BY <1>1, <2>1, <3>2
    <3>5. OnlyNewer
      BY <2>1, <3>2 DEF OnlyNewer
    <3>6. ASSUME SingleFlight, NEW e \in Clients, NEW j \in DOMAIN attempts'[e],
                 attempts'[e][j].lazy, ~attempts'[e][j].closed, attempts'[e][j].stage \notin Settled,
                 ~cell'[e].deleted
          PROVE  cell'[e].promise = j
      <4>1. CASE j \in DOMAIN attempts[e] /\ attempts'[e][j] = attempts[e][j]
        <5>1. cell[e].promise = j
          BY <2>1, <3>6, <4>1 DEF SingleFlight
        <5>2. e # c
          BY <1>1, <2>3, <4>1, <5>1
        <5> QED BY <2>1, <5>1, <5>2
      <4>2. CASE e = c /\ j = Len(attempts[c]) + 1
        BY <3>1, <4>2
      <4> QED BY <3>2, <4>1, <4>2
    <3>7. SingleFlight => SingleFlight'
      BY <3>6 DEF SingleFlight
    <3> QED BY <2>1, <3>2, <3>3, <3>4, <3>5, <3>7
  <2> QED BY <2>2, <2>3
<1> QED BY <1>2, <1>3, <1>4 DEF Shares

LEMMA AdvancesKeeps ==
  ASSUME Base, NEW c \in Clients, Advances(c), Mild, UNCHANGED <<file, session>>
  PROVE  Base'
<1>1. /\ attempts' \in [Clients -> Seq(AttemptRows)] /\ cell' \in [Clients -> CellRows]
      /\ \A e \in Clients : /\ cell'[e].promise \in 0..Len(attempts'[e])
                            /\ Len(attempts[e]) <= Len(attempts'[e])
                            /\ \A j \in DOMAIN attempts'[e] : Identified(attempts'[e][j])
  <2>1. Shares(c)
    BY DEF Advances
  <2> QED BY <2>1, SharesKeeps
<1>2. PICK k \in DOMAIN calls[c], call \in CallRows :
        /\ calls' = [calls EXCEPT ![c] = [calls[c] EXCEPT ![k] = call]]
        /\ Attached(call, Len(attempts'[c]))
  BY DEF Advances
<1>3. calls \in [Clients -> Seq(CallRows)] /\ attempts \in [Clients -> Seq(AttemptRows)]
  BY DEF Base, Types
<1>4. /\ calls' \in [Clients -> Seq(CallRows)]
      /\ \A e \in Clients : DOMAIN calls'[e] = DOMAIN calls[e]
      /\ \A e \in Clients : \A j \in DOMAIN calls[e] :
           calls'[e][j] = IF e = c /\ j = k THEN call ELSE calls[e][j]
  BY <1>2, <1>3, Replaced
<1>5. \A e \in Clients : \A j \in DOMAIN calls'[e] : Attached(calls'[e][j], Len(attempts'[e]))
  <2> SUFFICES ASSUME NEW e \in Clients, NEW j \in DOMAIN calls'[e]
               PROVE  Attached(calls'[e][j], Len(attempts'[e]))
    OBVIOUS
  <2>1. CASE e = c /\ j = k
    BY <1>2, <1>4, <2>1
  <2>2. CASE ~(e = c /\ j = k)
    <3>1. calls'[e][j] = calls[e][j] /\ j \in DOMAIN calls[e]
      BY <1>4, <2>2
    <3>2. Len(attempts[e]) \in Nat /\ Len(attempts'[e]) \in Nat /\ Len(attempts[e]) <= Len(attempts'[e])
      BY <1>1, <1>3, LenProperties
    <3>3. Attached(calls[e][j], Len(attempts[e]))
      BY <3>1 DEF Base, Links
    <3>4. \A n, m \in Nat : n <= m => \A x \in 1..n : x \in 1..m
      OBVIOUS
    <3> QED BY <3>1, <3>2, <3>3, <3>4 DEF Attached
  <2> QED BY <2>1, <2>2
<1>6. Links'
  BY <1>1, <1>5 DEF Links, Identified, Attached
<1>7. Types'
  BY <1>1, <1>4 DEF Base, Types, Mild
<1> QED BY <1>6, <1>7 DEF Base

-----------------------------------------------------------------------------
(* The calls.                                                              *)

LEMMA CallRow ==
  ASSUME Base, NEW c \in Clients, NEW k \in DOMAIN calls[c]
  PROVE  /\ calls[c][k] \in CallRows
         /\ Attached(calls[c][k], Len(attempts[c]))
         /\ HandleOf(c, k) \in AttemptRows
         /\ Identified(HandleOf(c, k))
<1>1. /\ calls[c] \in Seq(CallRows) /\ attempts[c] \in Seq(AttemptRows)
      /\ Attached(calls[c][k], Len(attempts[c]))
  BY DEF Base, Types, Links
<1>2. DOMAIN calls[c] = 1..Len(calls[c]) /\ DOMAIN attempts[c] = 1..Len(attempts[c])
  BY <1>1, LenProperties
<1>3. calls[c][k] \in CallRows
  BY <1>1, <1>2, ElementOfSeq
<1>4. calls[c][k].at \in DOMAIN attempts[c]
  BY <1>1, <1>2 DEF Attached
<1>5. HandleOf(c, k) \in AttemptRows
  BY <1>1, <1>2, <1>4, ElementOfSeq DEF HandleOf
<1>6. Identified(HandleOf(c, k))
  BY <1>4 DEF HandleOf, Base, Links
<1> QED BY <1>1, <1>3, <1>5, <1>6

(* The database of a connected call exists.                                *)
LEMMA HandleDb ==
  ASSUME Base, NEW c \in Clients, NEW k, NEW stage, Handle(c, k, stage)
  PROVE  /\ k \in DOMAIN calls[c] /\ calls[c][k].stage = stage
         /\ HandleOf(c, k).id \in Ids
<1>1. k \in DOMAIN calls[c] /\ calls[c][k].stage = stage /\ HandleOf(c, k).stage = "done"
  BY DEF Handle, Pending
<1> QED BY <1>1, CallRow DEF Identified

LEMMA ReturnAdvances ==
  ASSUME Base, NEW c \in Clients, NEW k \in DOMAIN calls[c], NEW call \in CallRows,
         Attached(call, Len(attempts[c])), Return(c, k, call),
         call.stage \in Ended \union {"script"}, call.stage = "script" => NextBatch(c, k, call)
  PROVE  Advances(c)
<1>1. attempts' = attempts /\ cell' = cell /\ calls' = [calls EXCEPT ![c] = [calls[c] EXCEPT ![k] = call]]
  BY DEF Return
<1>2. Attached(call, Len(attempts'[c]))
  BY <1>1
<1> QED BY <1>1, <1>2 DEF Advances, Shares

LEMMA EndAdvances ==
  ASSUME Base, NEW c \in Clients, NEW k \in DOMAIN calls[c], NEW stage \in Ended, End(c, k, stage)
  PROVE  Advances(c)
<1> DEFINE call == [calls[c][k] EXCEPT !.stage = stage]
<1>1. calls[c][k] \in CallRows /\ Attached(calls[c][k], Len(attempts[c]))
  BY CallRow
<1>2. stage \in CallStages /\ stage # "apply" /\ stage # "script"
  BY DEF CallStages, Ended
<1>3. call \in CallRows /\ call.at = calls[c][k].at /\ call.stage = stage
  BY <1>1, <1>2 DEF CallRows
<1>4. Return(c, k, call)
  BY DEF End
<1> HIDE DEF call
<1>5. Attached(call, Len(attempts[c]))
  BY <1>1, <1>2, <1>3 DEF Attached
<1> QED BY <1>2, <1>3, <1>4, <1>5, ReturnAdvances

LEMMA AskAgainAdvances ==
  ASSUME Base, NEW c \in Clients, NEW k \in DOMAIN calls[c], NEW call \in CallRows,
         call.stage = "apply" => call.step \in 1..MaxVersion, call.stage # "script",
         AskAgain(c, k, call)
  PROVE  Advances(c)
<1>1. CASE cell[c].deleted
  <2>1. End(c, k, "failed") /\ "failed" \in Ended
    BY <1>1 DEF AskAgain, Ended
  <2> QED BY <2>1, EndAdvances
<1>2. CASE ~cell[c].deleted
  <2> DEFINE new == [call EXCEPT !.at = database(c).at]
  <2>1. Connect(c) /\ calls' = [calls EXCEPT ![c] = [calls[c] EXCEPT ![k] = new]]
    BY <1>2 DEF AskAgain
  <2>2. Shares(c)
    BY <1>2, <2>1 DEF Shares
  <2>3. /\ database(c).at = cell'[c].promise /\ cell' \in [Clients -> CellRows]
        /\ cell'[c].promise # 0
    <3>1. Len(attempts[c]) \in Nat
      BY LenProperties DEF Base, Types
    <3> QED BY <2>1, <3>1, Connected
  <2>4. cell'[c].promise \in 0..Len(attempts'[c]) /\ Len(attempts'[c]) \in Nat
    BY <2>2, SharesKeeps, LenProperties
  <2>5. database(c).at \in 1..Len(attempts'[c])
    BY <2>3, <2>4
  <2>6. new \in CallRows /\ new.at = database(c).at /\ new.stage = call.stage /\ new.step = call.step
    BY <2>4, <2>5 DEF CallRows
  <2> HIDE DEF new
  <2>7. Attached(new, Len(attempts'[c]))
    BY <2>5, <2>6 DEF Attached
  <2> QED BY <2>1, <2>2, <2>3, <2>6, <2>7 DEF Advances
<1> QED BY <1>1, <1>2

LEMMA ProceedAdvances ==
  ASSUME Base, NEW c \in Clients, NEW k \in DOMAIN calls[c], NEW seen \in SUBSET (1..MaxVersion),
         Proceed(c, k, seen)
  PROVE  Advances(c)
<1> DEFINE missing == 1..MaxVersion \ seen
           call == [calls[c][k] EXCEPT !.seen = seen]
<1>1. calls[c][k] \in CallRows /\ Attached(calls[c][k], Len(attempts[c]))
  BY CallRow
<1>2. call \in CallRows /\ call.at = calls[c][k].at
  BY <1>1 DEF CallRows
<1>3. CASE missing = {}
  <2> DEFINE new == [call EXCEPT !.stage = "ok"]
  <2>1. Return(c, k, new)
    BY <1>3 DEF Proceed
  <2> HIDE DEF call
  <2>2. new \in CallRows /\ new.at = call.at /\ new.stage = "ok"
    BY <1>2 DEF CallRows, CallStages, Ended
  <2> HIDE DEF new
  <2>3. Attached(new, Len(attempts[c]))
    BY <1>1, <1>2, <2>2 DEF Attached
  <2>4. new.stage \in Ended
    BY <2>2 DEF Ended
  <2> QED BY <2>1, <2>2, <2>3, <2>4, ReturnAdvances
<1>4. CASE missing # {}
  <2> DEFINE new == [call EXCEPT !.stage = "apply", !.step = Min(missing)]
  <2>1. AskAgain(c, k, new)
    BY <1>4 DEF Proceed
  <2>2. Min(missing) \in 1..MaxVersion
    <3>1. missing \in SUBSET (1..MaxVersion)
      OBVIOUS
    <3> HIDE DEF missing
    <3> QED BY <1>4, <3>1, MinOfVersions
  <2> HIDE DEF call, missing
  <2>3. Min(missing) \in Nat
    BY <2>2, Bounds
  <2>4. new \in CallRows /\ new.step = Min(missing) /\ new.stage = "apply"
    BY <1>2, <2>3 DEF CallRows, CallStages
  <2> HIDE DEF new
  <2> QED BY <2>1, <2>2, <2>4, AskAgainAdvances
<1> QED BY <1>3, <1>4

LEMMA ChangeMild ==
  ASSUME Base, NEW d \in Ids, NEW r \in DbRows, r.ready = remote[d].ready,
         r.status = remote[d].status \/ (remote[d].status = "hot" /\ r.status = "deleted"),
         remote' = [remote EXCEPT ![d] = r]
  PROVE  Mild
<1>1. remote \in [Ids -> DbRows]
  BY DEF Base, Types
<1>2. remote' \in [Ids -> DbRows] /\ \A e \in Ids : remote'[e] = IF e = d THEN r ELSE remote[e]
  BY <1>1
<1> QED BY <1>2 DEF Mild

LEMMA SameMild ==
  ASSUME Base, UNCHANGED remote
  PROVE  Mild
BY DEF Base, Types, Mild

LEMMA RejectedStep ==
  ASSUME Base, NEW c \in Clients, NEW k, Rejected(c, k)
  PROVE  Advances(c) /\ Mild
<1>1. k \in DOMAIN calls[c] /\ End(c, k, "failed") /\ UNCHANGED remote /\ "failed" \in Ended
  BY DEF Rejected, Ended
<1> QED BY <1>1, EndAdvances, SameMild

LEMMA BatchStep ==
  ASSUME Base, NEW c \in Clients, NEW k, executeStatementBatches(c, k)
  PROVE  Advances(c) /\ Mild
<1> DEFINE call == calls[c][k]
           d == HandleOf(c, k).id
           n == call.step
           longer == [remote[d] EXCEPT !.chunks = Append(remote[d].chunks, n)]
           next == IF n = Chunks THEN [call EXCEPT !.stage = "ok"] ELSE [call EXCEPT !.step = n + 1]
<1>1. /\ Handle(c, k, "script")
      /\ \/ /\ Hot(d) /\ Return(c, k, next)
            /\ \/ remote' = remote /\ n \in ToSet(remote[d].chunks)
               \/ remote' = [remote EXCEPT ![d] = longer]
         \/ /\ End(c, k, "failed")
            /\ remote' = remote \/ remote' = [remote EXCEPT ![d] = longer]
  BY DEF executeStatementBatches, Batch, Request
<1>2. /\ k \in DOMAIN calls[c] /\ call.stage = "script" /\ d \in Ids
      /\ HandleOf(c, k).stage = "done"
  BY <1>1, HandleDb DEF Handle
<1>3. call \in CallRows /\ Attached(call, Len(attempts[c]))
  BY <1>2, CallRow
<1>4. n \in Nat
  BY <1>3 DEF CallRows
<1>5. /\ next \in CallRows /\ next.at = call.at /\ next.stage \in {"ok", "script"}
      /\ next.stage = "script" => next.step = n + 1
  BY <1>2, <1>3, <1>4 DEF CallRows, CallStages, Ended, Operations
<1>6. Attached(next, Len(attempts[c]))
  <2> HIDE DEF next
  <2> QED BY <1>3, <1>5 DEF Attached
<1>7. remote[d] \in DbRows
  BY <1>2 DEF Base, Types
<1>8. Append(remote[d].chunks, n) \in Seq(Nat)
  <2>1. remote[d].chunks \in Seq(Nat)
    BY <1>7 DEF DbRows
  <2> QED BY <1>4, <2>1, AppendProperties
<1>9. /\ longer \in DbRows /\ longer.ready = remote[d].ready /\ longer.status = remote[d].status
      /\ longer.chunks = Append(remote[d].chunks, n)
  BY <1>7, <1>8 DEF DbRows
<1> HIDE DEF longer, next
<1>10. ASSUME \/ remote' = remote /\ n \in ToSet(remote[d].chunks)
              \/ remote' = [remote EXCEPT ![d] = longer],
              next.stage = "script"
       PROVE  NextBatch(c, k, next)
  <2>1. CASE remote' = remote /\ n \in ToSet(remote[d].chunks)
    BY <1>2, <1>5, <1>10, <2>1 DEF NextBatch
  <2>2. CASE remote' = [remote EXCEPT ![d] = longer]
    <3>1. n \in ToSet(Append(remote[d].chunks, n))
      BY <1>4, <1>7, LastOf DEF DbRows
    <3>2. remote'[d] = longer
      BY <1>2, <2>2 DEF Base, Types
    <3> QED BY <1>2, <1>5, <1>9, <1>10, <3>1, <3>2 DEF NextBatch
  <2> QED BY <1>10, <2>1, <2>2
<1>11. Mild
  BY <1>1, <1>2, <1>9, ChangeMild, SameMild
<1>12. Advances(c)
  <2>1. CASE End(c, k, "failed")
    <3>1. "failed" \in Ended
      BY DEF Ended
    <3> QED BY <1>2, <2>1, <3>1, EndAdvances
  <2>2. CASE ~End(c, k, "failed")
    <3>1. next.stage \in Ended \union {"script"}
      BY <1>5 DEF Ended
    <3> QED BY <1>1, <1>2, <1>5, <1>6, <1>10, <2>2, <3>1, ReturnAdvances
  <2> QED BY <2>1, <2>2
<1> QED BY <1>11, <1>12

LEMMA TableStep ==
  ASSUME Base, NEW c \in Clients, NEW k, ensureMigrationTable(c, k)
  PROVE  Advances(c) /\ Mild
<1> DEFINE call == calls[c][k]
           d == HandleOf(c, k).id
           made == [remote[d] EXCEPT !.table = TRUE]
           asks(stage) == [call EXCEPT !.stage = stage]
<1>1. /\ Handle(c, k, "migrate") \/ Handle(c, k, "table")
      /\ \/ AskAgain(c, k, asks("versions")) \/ AskAgain(c, k, asks("table")) \/ End(c, k, "failed")
      /\ remote' = remote \/ remote' = [remote EXCEPT ![d] = made]
  BY DEF ensureMigrationTable, Request
<1>2. k \in DOMAIN calls[c] /\ d \in Ids
  BY <1>1, HandleDb
<1>3. call \in CallRows
  BY <1>2, CallRow
<1>4. \A stage \in {"versions", "table"} :
        /\ asks(stage) \in CallRows
        /\ asks(stage).stage # "apply" /\ asks(stage).stage # "script"
  BY <1>3 DEF CallRows, CallStages
<1>5. Advances(c)
  <2>1. "failed" \in Ended
    BY DEF Ended
  <2> HIDE DEF asks
  <2> QED BY <1>1, <1>2, <1>4, <2>1, AskAgainAdvances, EndAdvances
<1>6. remote[d] \in DbRows
  BY <1>2 DEF Base, Types
<1>7. made \in DbRows /\ made.ready = remote[d].ready /\ made.status = remote[d].status
  BY <1>6 DEF DbRows
<1> HIDE DEF made
<1>8. Mild
  BY <1>1, <1>2, <1>7, ChangeMild, SameMild
<1> QED BY <1>5, <1>8

LEMMA VersionsStep ==
  ASSUME Base, NEW c \in Clients, NEW k, readVersions(c, k)
  PROVE  Advances(c) /\ Mild
<1> DEFINE d == HandleOf(c, k).id
           seen == ToSet(remote[d].versions)
<1>1. /\ Handle(c, k, "versions") /\ UNCHANGED remote
      /\ Proceed(c, k, seen) \/ End(c, k, "failed")
  BY DEF readVersions
<1>2. k \in DOMAIN calls[c] /\ d \in Ids
  BY <1>1, HandleDb
<1>3. seen \in SUBSET (1..MaxVersion)
  <2>1. remote[d].versions \in Seq(1..MaxVersion)
    BY <1>2 DEF Base, Types, DbRows
  <2> QED BY <2>1, ElementsOf
<1> HIDE DEF seen
<1>4. "failed" \in Ended
  BY DEF Ended
<1> QED BY <1>1, <1>2, <1>3, <1>4, ProceedAdvances, EndAdvances, SameMild

LEMMA MigrateStep ==
  ASSUME Base, NEW c \in Clients, NEW k, migrate(c, k)
  PROVE  Advances(c) /\ Mild
<1> DEFINE call == calls[c][k]
           d == HandleOf(c, k).id
           n == call.step
           longer == [remote[d] EXCEPT !.versions = Append(remote[d].versions, n)]
           seen == call.seen \union {n}
<1>1. /\ Handle(c, k, "apply")
      /\ Proceed(c, k, seen) \/ End(c, k, "failed")
      /\ remote' = remote \/ remote' = [remote EXCEPT ![d] = longer]
  BY DEF migrate, Request
<1>2. k \in DOMAIN calls[c] /\ call.stage = "apply" /\ d \in Ids
  BY <1>1, HandleDb
<1>3. call \in CallRows /\ n \in 1..MaxVersion
  BY <1>2, CallRow DEF Attached
<1>4. seen \in SUBSET (1..MaxVersion)
  BY <1>3 DEF CallRows
<1>5. Advances(c)
  <2>1. "failed" \in Ended
    BY DEF Ended
  <2> HIDE DEF seen
  <2> QED BY <1>1, <1>2, <1>4, <2>1, ProceedAdvances, EndAdvances
<1>6. remote[d] \in DbRows
  BY <1>2 DEF Base, Types
<1>7. Append(remote[d].versions, n) \in Seq(1..MaxVersion)
  <2>1. remote[d].versions \in Seq(1..MaxVersion)
    BY <1>6 DEF DbRows
  <2> QED BY <1>3, <2>1, AppendProperties
<1>8. longer \in DbRows /\ longer.ready = remote[d].ready /\ longer.status = remote[d].status
  BY <1>6, <1>7 DEF DbRows
<1> HIDE DEF longer
<1>9. Mild
  BY <1>1, <1>2, <1>8, ChangeMild, SameMild
<1> QED BY <1>5, <1>9

LEMMA DeleteStep ==
  ASSUME Base, NEW c \in Clients, NEW k, deleteDatabase(c, k)
  PROVE  Advances(c) /\ Mild
<1> DEFINE call == calls[c][k]
           d == HandleOf(c, k).id
           gone == [remote[d] EXCEPT !.status = "deleted"]
           done == [call EXCEPT !.stage = "ok"]
<1>1. /\ Handle(c, k, "delete")
      /\ remote' = remote \/ (remote[d].status = "hot" /\ remote' = [remote EXCEPT ![d] = gone])
      /\ \/ /\ calls' = [calls EXCEPT ![c] = [calls[c] EXCEPT ![k] = done]]
            /\ cell' = [cell EXCEPT ![c].promise = 0, ![c].deleted = TRUE]
            /\ attempts' = attempts
         \/ End(c, k, "failed")
  BY DEF deleteDatabase, Hot
<1>2. k \in DOMAIN calls[c] /\ d \in Ids
  BY <1>1, HandleDb
<1>3. call \in CallRows /\ Attached(call, Len(attempts[c]))
  BY <1>2, CallRow
<1>4. /\ done \in CallRows /\ done.at = call.at
      /\ done.stage # "apply" /\ done.stage # "script"
  BY <1>3 DEF CallRows, CallStages, Ended
<1>5. Attached(done, Len(attempts[c]))
  <2> HIDE DEF done
  <2> QED BY <1>3, <1>4 DEF Attached
<1>6. remote[d] \in DbRows
  BY <1>2 DEF Base, Types
<1>7. gone \in DbRows /\ gone.ready = remote[d].ready /\ gone.status = "deleted"
  BY <1>6 DEF DbRows
<1>8. Mild
  <2> HIDE DEF gone
  <2> QED BY <1>1, <1>2, <1>7, ChangeMild, SameMild
<1>9. CASE End(c, k, "failed")
  <2>1. "failed" \in Ended
    BY DEF Ended
  <2> QED BY <1>2, <1>8, <1>9, <2>1, EndAdvances
<1>10. CASE /\ calls' = [calls EXCEPT ![c] = [calls[c] EXCEPT ![k] = done]]
            /\ cell' = [cell EXCEPT ![c].promise = 0, ![c].deleted = TRUE]
            /\ attempts' = attempts
  <2>1. Shares(c)
    <3>1. cell \in [Clients -> CellRows]
      BY DEF Base, Types
    <3>2. cell' = [cell EXCEPT ![c] = [cell[c] EXCEPT !.promise = 0, !.deleted = TRUE]]
      BY <1>10, <3>1
    <3> QED BY <1>10, <3>2 DEF Shares
  <2>2. done.stage \in Ended
    BY <1>3 DEF CallRows, Ended
  <2> HIDE DEF done
  <2>3. Attached(done, Len(attempts'[c]))
    BY <1>5, <1>10
  <2> QED BY <1>2, <1>4, <1>8, <1>10, <2>1, <2>2, <2>3 DEF Advances
<1> QED BY <1>1, <1>9, <1>10

LEMMA CreateDbStep ==
  ASSUME Base, NEW c \in Clients, NEW k, createDatabaseFromCreateDbOptions(c, k)
  PROVE  Advances(c) /\ Mild
<1>1. Handle(c, k, "createDb") /\ End(c, k, "ok") /\ UNCHANGED remote /\ "ok" \in Ended
  BY DEF createDatabaseFromCreateDbOptions, Ended
<1>2. k \in DOMAIN calls[c]
  BY <1>1, HandleDb
<1> QED BY <1>1, <1>2, EndAdvances, SameMild

LEMMA CallStep ==
  ASSUME Base, NEW c \in Clients, Call(c)
  PROVE  Advances(c) /\ Mild /\ UNCHANGED <<file, session>>
<1>1. PICK k : \/ Rejected(c, k) \/ executeStatementBatches(c, k) \/ ensureMigrationTable(c, k)
               \/ readVersions(c, k) \/ migrate(c, k) \/ deleteDatabase(c, k)
               \/ createDatabaseFromCreateDbOptions(c, k)
  BY DEF Call
<1>2. UNCHANGED <<file, session>>
  BY DEF Call
<1> QED BY <1>1, <1>2, RejectedStep, BatchStep, TableStep, VersionsStep, MigrateStep, DeleteStep,
           CreateDbStep

-----------------------------------------------------------------------------
(* The connections.                                                        *)

Persisting == {"persist", "truncate", "fill"}
Underway == {"setup", "undo"} \union Persisting

(* What the database of a creation under way is.                           *)
Sound(stage, row) ==
  /\ stage \in {"setup"} \union Persisting => row.status \in {"hot", "deleted"}
  /\ stage \in Persisting => row.ready
  /\ stage \in {"setup", "undo"} => ~row.ready /\ row.status # "free"

(* The env file names a database that is ready; a database that is about to*)
(* be deleted is not; and no two creations have the same one.              *)
CreationsOK ==
  /\ file.db # NoDb => remote[file.db].ready /\ remote[file.db].status \in {"hot", "deleted"}
  /\ \A d \in Ids : remote[d].status = "free" => ~remote[d].ready
  /\ \A c \in Clients : \A i \in DOMAIN attempts[c] :
       attempts[c][i].stage \in Underway => Sound(attempts[c][i].stage, remote[attempts[c][i].id])
  /\ \A c, e \in Clients : \A i \in DOMAIN attempts[c], j \in DOMAIN attempts[e] :
       /\ attempts[c][i].stage \in Underway /\ attempts[e][j].stage \in Underway
       /\ attempts[c][i].id = attempts[e][j].id
       => c = e /\ i = j

(* A connection that makes progress changes at most the row r of one       *)
(* database, its own or a free one that is not ready.                      *)
Creates(c, i, a, d, r) ==
  LET old == attempts[c][i]
  IN /\ remote' = [remote EXCEPT ![d] = r]
     /\ \/ r = remote[d]
        \/ /\ ~remote[d].ready
           /\ remote[d].status = "free" \/ (old.stage \in Underway /\ old.id = d)
     /\ r.status = "free" => ~r.ready
     /\ a.stage \in Underway =>
          /\ \/ old.stage \in Underway /\ a.id = old.id
             \/ remote[a.id].status = "free"
          /\ Sound(a.stage, IF a.id = d THEN r ELSE remote[a.id])
     /\ \/ file' = file \/ file'.db = NoDb
        \/ old.stage = "fill" /\ file'.db = old.id

LEMMA CreatesKeeps ==
  ASSUME Base, CreationsOK, NEW c \in Clients, NEW i, NEW a, NEW d \in Ids, NEW r \in DbRows,
         Progress(c, i, a), Creates(c, i, a, d, r)
  PROVE  CreationsOK'
<1> DEFINE old == attempts[c][i]
<1>1. /\ attempts \in [Clients -> Seq(AttemptRows)]
      /\ i \in DOMAIN attempts[c] /\ a \in AttemptRows /\ Identified(a)
      /\ attempts' = [attempts EXCEPT ![c] = [attempts[c] EXCEPT ![i] = a]]
  BY DEF Base, Types, Progress
<1>2. /\ \A e \in Clients : DOMAIN attempts'[e] = DOMAIN attempts[e]
      /\ \A e \in Clients : \A j \in DOMAIN attempts[e] :
           attempts'[e][j] = IF e = c /\ j = i THEN a ELSE attempts[e][j]
  BY <1>1, Replaced
<1>3. \A e \in Clients : \A j \in DOMAIN attempts[e] :
        attempts[e][j].stage \in Underway => attempts[e][j].id \in Ids
  BY DEF Base, Links, Identified, Underway, Persisting
<1>4. a.stage \in Underway => a.id \in Ids
  BY <1>1 DEF Identified, Underway, Persisting
<1>5. \A e \in Ids : remote'[e] = IF e = d THEN r ELSE remote[e]
  BY DEF Base, Types, Creates
<1>6. /\ r = remote[d] \/ /\ ~remote[d].ready
                          /\ remote[d].status = "free" \/ (old.stage \in Underway /\ old.id = d)
      /\ r.status = "free" => ~r.ready
      /\ a.stage \in Underway =>
           /\ \/ old.stage \in Underway /\ a.id = old.id
              \/ remote[a.id].status = "free"
           /\ Sound(a.stage, IF a.id = d THEN r ELSE remote[a.id])
      /\ \/ file' = file \/ file'.db = NoDb
         \/ old.stage = "fill" /\ file'.db = old.id
  BY DEF Creates
<1>7. file'.db # NoDb => remote'[file'.db].ready /\ remote'[file'.db].status \in {"hot", "deleted"}
  <2>1. CASE file' = file
    <3>1. file.db # NoDb => file.db \in Ids
      BY Bounds DEF Base, Types, Envs, Ids, NoDb
    <3> QED BY <1>5, <1>6, <2>1, <3>1 DEF CreationsOK
  <2>2. CASE old.stage = "fill" /\ file'.db = old.id
    <3>1. old.id \in Ids /\ Sound("fill", remote[old.id])
      BY <1>1, <1>3, <2>2 DEF CreationsOK, Underway, Persisting
    <3> QED BY <1>5, <1>6, <2>2, <3>1 DEF Sound, Persisting
  <2> QED BY <1>6, <2>1, <2>2
<1>8. \A e \in Ids : remote'[e].status = "free" => ~remote'[e].ready
  BY <1>5, <1>6 DEF CreationsOK
(* No other creation has the database that changes, or a's.                *)
<1>9. ASSUME NEW e \in Clients, NEW j \in DOMAIN attempts[e], attempts[e][j].stage \in Underway,
             ~(e = c /\ j = i)
      PROVE  /\ remote'[attempts[e][j].id] = remote[attempts[e][j].id]
             /\ a.stage \in Underway => a.id # attempts[e][j].id
  <2>1. attempts[e][j].id \in Ids /\ Sound(attempts[e][j].stage, remote[attempts[e][j].id])
    BY <1>3, <1>9 DEF CreationsOK
  <2>2. remote[attempts[e][j].id].status # "free"
    BY <1>9, <2>1 DEF Sound, Underway, Persisting
  <2>3. old.stage \in Underway => old.id # attempts[e][j].id
    BY <1>1, <1>9 DEF CreationsOK
  <2> QED BY <1>5, <1>6, <2>1, <2>2, <2>3
<1>10. ASSUME NEW e \in Clients, NEW j \in DOMAIN attempts'[e], attempts'[e][j].stage \in Underway
       PROVE  Sound(attempts'[e][j].stage, remote'[attempts'[e][j].id])
  <2>1. CASE e = c /\ j = i
    BY <1>1, <1>2, <1>4, <1>5, <1>6, <1>10, <2>1
  <2>2. CASE ~(e = c /\ j = i)
    BY <1>2, <1>9, <1>10, <2>2 DEF CreationsOK
  <2> QED BY <2>1, <2>2
<1>11. ASSUME NEW e \in Clients, NEW f \in Clients,
              NEW j \in DOMAIN attempts'[e], NEW k \in DOMAIN attempts'[f],
              attempts'[e][j].stage \in Underway, attempts'[f][k].stage \in Underway,
              attempts'[e][j].id = attempts'[f][k].id
       PROVE  e = f /\ j = k
  <2>1. CASE e = c /\ j = i
    BY <1>1, <1>2, <1>9, <1>11, <2>1
  <2>2. CASE f = c /\ k = i
    BY <1>1, <1>2, <1>9, <1>11, <2>2
  <2>3. CASE ~(e = c /\ j = i) /\ ~(f = c /\ k = i)
    BY <1>2, <1>11, <2>3 DEF CreationsOK
  <2> QED BY <2>1, <2>2, <2>3
<1> QED BY <1>7, <1>8, <1>10, <1>11 DEF CreationsOK, Sound

(* Nothing that calls and users do disturbs a creation.                    *)
LEMMA CreationsKept ==
  ASSUME Base, CreationsOK, Mild, UNCHANGED file,
         \A e \in Clients : \A j \in DOMAIN attempts'[e] :
           attempts'[e][j].stage \in Underway =>
             /\ j \in DOMAIN attempts[e] /\ attempts'[e][j].stage = attempts[e][j].stage
             /\ attempts'[e][j].id = attempts[e][j].id
  PROVE  CreationsOK'
<1>1. \A e \in Clients : \A j \in DOMAIN attempts[e] :
        attempts[e][j].stage \in Underway => attempts[e][j].id \in Ids
  BY DEF Base, Links, Identified, Underway, Persisting
<1>2. \A d \in Ids : /\ remote'[d].ready = remote[d].ready
                     /\ \/ remote'[d].status = remote[d].status
                        \/ remote[d].status = "hot" /\ remote'[d].status = "deleted"
  BY DEF Mild
<1>3. file'.db # NoDb => remote'[file'.db].ready /\ remote'[file'.db].status \in {"hot", "deleted"}
  <2>1. file.db # NoDb => file.db \in Ids
    BY Bounds DEF Base, Types, Envs, Ids, NoDb
  <2> QED BY <1>2, <2>1 DEF CreationsOK
<1>4. \A d \in Ids : remote'[d].status = "free" => ~remote'[d].ready
  BY <1>2 DEF CreationsOK
<1>5. \A d \in Ids : \A stage : Sound(stage, remote[d]) => Sound(stage, remote'[d])
  BY <1>2 DEF Sound
<1>6. ASSUME NEW e \in Clients, NEW j \in DOMAIN attempts'[e], attempts'[e][j].stage \in Underway
      PROVE  Sound(attempts'[e][j].stage, remote'[attempts'[e][j].id])
  BY <1>1, <1>5, <1>6 DEF CreationsOK
<1>7. ASSUME NEW e \in Clients, NEW f \in Clients,
             NEW j \in DOMAIN attempts'[e], NEW k \in DOMAIN attempts'[f],
             attempts'[e][j].stage \in Underway, attempts'[f][k].stage \in Underway,
             attempts'[e][j].id = attempts'[f][k].id
      PROVE  e = f /\ j = k
  BY <1>7 DEF CreationsOK
<1> QED BY <1>3, <1>4, <1>6, <1>7 DEF CreationsOK, Sound

(* A connection makes progress, and its creation with it.                  *)
GoesOn(c, i, a) ==
  /\ Progress(c, i, a)
  /\ file' \in Envs /\ remote' \in [Ids -> DbRows]
  /\ CreationsOK /\ ~Breaks("write") => \E d \in Ids, r \in DbRows : Creates(c, i, a, d, r)

LEMMA AttemptRow ==
  ASSUME Base, NEW c \in Clients, NEW i \in DOMAIN attempts[c]
  PROVE  attempts[c][i] \in AttemptRows /\ Identified(attempts[c][i])
<1>1. attempts[c] \in Seq(AttemptRows)
  BY DEF Base, Types
<1>2. i \in 1..Len(attempts[c])
  BY <1>1, LenProperties
<1> QED BY <1>1, <1>2, ElementOfSeq DEF Base, Links

LEMMA NothingCreated ==
  ASSUME Base, NEW c \in Clients, NEW i, NEW a, UNCHANGED remote,
         a.stage \in Underway => /\ attempts[c][i].stage \in Underway /\ a.id = attempts[c][i].id
                                 /\ Sound(a.stage, remote[a.id]),
         \/ file' = file \/ file'.db = NoDb
         \/ attempts[c][i].stage = "fill" /\ file'.db = attempts[c][i].id,
         CreationsOK
  PROVE  \E d \in Ids, r \in DbRows : Creates(c, i, a, d, r)
<1>1. 1 \in Ids
  BY Bounds DEF Ids
<1>2. remote[1] \in DbRows /\ remote' = [remote EXCEPT ![1] = remote[1]]
  BY <1>1 DEF Base, Types
<1>3. Creates(c, i, a, 1, remote[1])
  BY <1>1, <1>2 DEF Creates, CreationsOK
<1> QED BY <1>1, <1>2, <1>3

(* The next stage of a connection, its database the same.                  *)
LEMMA NextRow ==
  ASSUME Base, NEW c \in Clients, NEW i \in DOMAIN attempts[c], NEW stage \in Stages,
         stage \in {"failed", "load", "create"} \/ attempts[c][i].stage \notin {"failed", "load", "create"}
  PROVE  LET a == [attempts[c][i] EXCEPT !.stage = stage]
         IN /\ a \in AttemptRows /\ Identified(a) /\ a.stage = stage
            /\ a.id = attempts[c][i].id /\ a.lazy = attempts[c][i].lazy
            /\ a.closed = attempts[c][i].closed /\ a.env = attempts[c][i].env
<1>1. attempts[c][i] \in AttemptRows /\ Identified(attempts[c][i])
  BY AttemptRow
<1> QED BY <1>1 DEF AttemptRows, Identified

LEMMA LoadStep ==
  ASSUME Base, NEW c \in Clients, NEW i, LoadEnv(c, i)
  PROVE  \E a : GoesOn(c, i, a)
<1> DEFINE old == attempts[c][i]
           a == [old EXCEPT !.env = file]
           new == IF ~file.key \/ (file.db # NoDb /\ (file.setup \/ ~a.lazy)) \/ (~a.lazy /\ file.setup)
                  THEN [a EXCEPT !.stage = "failed"]
                  ELSE IF file.db # NoDb THEN [a EXCEPT !.stage = "done", !.id = file.db]
                  ELSE [a EXCEPT !.stage = "create"]
<1>1. /\ i \in DOMAIN attempts[c] /\ old.stage = "load"
      /\ Becomes(c, i, new) /\ UNCHANGED <<file, remote>>
  BY DEF LoadEnv, At
<1>2. old \in AttemptRows
  BY <1>1, AttemptRow
<1>3. file \in Envs /\ file.db \in 0..MaxDb
  BY DEF Base, Types, Envs
<1>4. a \in AttemptRows /\ a.lazy = old.lazy /\ a.closed = old.closed
  BY <1>2, <1>3 DEF AttemptRows
<1> HIDE DEF a
<1>5. /\ new \in AttemptRows /\ new.lazy = a.lazy /\ new.closed = a.closed
      /\ new.stage \in {"failed", "create", "done"}
      /\ new.stage = "done" => new.id \in Ids
  <2>1. \/ new = [a EXCEPT !.stage = "failed"]
        \/ file.db # NoDb /\ new = [[a EXCEPT !.stage = "done"] EXCEPT !.id = file.db]
        \/ new = [a EXCEPT !.stage = "create"]
    OBVIOUS
  <2> HIDE DEF new
  <2>2. CASE new = [a EXCEPT !.stage = "failed"]
    BY <1>4, <2>2 DEF AttemptRows, Stages, Settled
  <2>3. CASE file.db # NoDb /\ new = [[a EXCEPT !.stage = "done"] EXCEPT !.id = file.db]
    <3> DEFINE x == [a EXCEPT !.stage = "done"]
    <3>1. /\ x \in AttemptRows /\ x.stage = "done"
          /\ x.lazy = a.lazy /\ x.closed = a.closed
      BY <1>4 DEF AttemptRows, Stages, Settled
    <3>2. new = [x EXCEPT !.id = file.db]
      BY <2>3
    <3>3. file.db \in Ids
      BY <1>3, <2>3, Bounds DEF NoDb, Ids
    <3> HIDE DEF x
    <3> QED BY <1>3, <3>1, <3>2, <3>3 DEF AttemptRows
  <2>4. CASE new = [a EXCEPT !.stage = "create"]
    BY <1>4, <2>4 DEF AttemptRows, Stages
  <2> QED BY <2>1, <2>2, <2>3, <2>4
<1> HIDE DEF new
<1>6. Identified(new) /\ old.stage \notin Settled /\ new.stage \notin Underway
  BY <1>1, <1>5 DEF Identified, Settled, Underway, Persisting
<1>7. Progress(c, i, new)
  BY <1>1, <1>4, <1>5, <1>6, BecomesProgress DEF Base
<1>8. CreationsOK => \E d \in Ids, r \in DbRows : Creates(c, i, new, d, r)
  BY <1>1, <1>6, NothingCreated
<1> QED BY <1>1, <1>3, <1>7, <1>8 DEF GoesOn, Base, Types

LEMMA CreateStep ==
  ASSUME Base, NEW c \in Clients, NEW i, CreateDatabase(c, i)
  PROVE  \E a : GoesOn(c, i, a)
<1> DEFINE old == attempts[c][i]
           free == {d \in Ids : remote[d].status = "free"}
           d == Min(free)
           r == [remote[d] EXCEPT !.status = "hot"]
           made == [old EXCEPT !.stage = "setup", !.id = d]
           failed == [old EXCEPT !.stage = "failed"]
<1>1. /\ i \in DOMAIN attempts[c] /\ old.stage = "create" /\ UNCHANGED file
      /\ \/ free # {} /\ remote' = [remote EXCEPT ![d] = r] /\ Becomes(c, i, made)
         \/ UNCHANGED remote /\ Becomes(c, i, failed)
         \/ free # {} /\ remote' = [remote EXCEPT ![d] = r] /\ Becomes(c, i, failed)
  BY DEF CreateDatabase, At, Goes
<1>2. old \in AttemptRows /\ file \in Envs /\ remote \in [Ids -> DbRows]
  BY <1>1, AttemptRow DEF Base, Types
<1>3. free # {} => d \in Ids /\ remote[d].status = "free"
  <2>1. free # {} => d \in free
    <3>1. free \in SUBSET Ids
      OBVIOUS
    <3> HIDE DEF free
    <3> QED BY <3>1, MinOfIds
  <2> QED BY <2>1
<1> HIDE DEF free
<1>4. free # {} => r \in DbRows /\ r.status = "hot" /\ r.ready = remote[d].ready
  BY <1>2, <1>3 DEF DbRows
<1>5. /\ failed \in AttemptRows /\ failed.lazy = old.lazy /\ failed.closed = old.closed
      /\ failed.stage = "failed" /\ Identified(failed) /\ failed.stage \notin Underway
  BY <1>2 DEF AttemptRows, Stages, Settled, Identified, Underway, Persisting
<1>6. free # {} => /\ made \in AttemptRows /\ made.lazy = old.lazy /\ made.closed = old.closed
                   /\ made.stage = "setup" /\ made.id = d /\ Identified(made)
  <2>1. d \in Ids => d \in 0..MaxDb
    BY Bounds DEF Ids
  <2> HIDE DEF d
  <2> QED BY <1>2, <1>3, <2>1 DEF AttemptRows, Stages, Identified
<1>7. old.stage \notin Settled
  BY <1>1 DEF Settled
<1> HIDE DEF d, r, made, failed
<1>8. CASE free # {} /\ remote' = [remote EXCEPT ![d] = r] /\ Becomes(c, i, made)
  <2>1. Progress(c, i, made)
    BY <1>1, <1>6, <1>7, <1>8, BecomesProgress DEF Base
  <2>2. CreationsOK => Creates(c, i, made, d, r)
    BY <1>1, <1>3, <1>4, <1>6, <1>8 DEF Creates, CreationsOK, Sound, Persisting
  <2> QED BY <1>1, <1>2, <1>3, <1>4, <1>8, <2>1, <2>2 DEF GoesOn
<1>9. CASE UNCHANGED remote /\ Becomes(c, i, failed)
  <2>1. Progress(c, i, failed)
    BY <1>1, <1>5, <1>7, <1>9, BecomesProgress DEF Base
  <2>2. CreationsOK => \E e \in Ids, x \in DbRows : Creates(c, i, failed, e, x)
    BY <1>1, <1>5, <1>9, NothingCreated
  <2> QED BY <1>1, <1>2, <1>9, <2>1, <2>2 DEF GoesOn
<1>10. CASE free # {} /\ remote' = [remote EXCEPT ![d] = r] /\ Becomes(c, i, failed)
  <2>1. Progress(c, i, failed)
    BY <1>1, <1>5, <1>7, <1>10, BecomesProgress DEF Base
  <2>2. CreationsOK => Creates(c, i, failed, d, r)
    BY <1>1, <1>3, <1>4, <1>5, <1>10 DEF Creates, CreationsOK
  <2> QED BY <1>1, <1>2, <1>3, <1>4, <1>10, <2>1, <2>2 DEF GoesOn
<1> QED BY <1>1, <1>8, <1>9, <1>10

LEMMA SetupStep ==
  ASSUME Base, NEW c \in Clients, NEW i, applyCreateSetup(c, i)
  PROVE  \E a : GoesOn(c, i, a)
<1> DEFINE old == attempts[c][i]
           r == [remote[old.id] EXCEPT !.ready = TRUE]
           next(stage) == [old EXCEPT !.stage = stage]
           known == [cell[c] EXCEPT !.known = old.id]
<1>1. /\ i \in DOMAIN attempts[c] /\ old.stage = "setup" /\ UNCHANGED file
      /\ \/ /\ remote' = [remote EXCEPT ![old.id].ready = TRUE]
            /\ \E stage \in {"persist", "done"} : attempts' = [attempts EXCEPT ![c][i].stage = stage]
            /\ cell' = cell \/ cell' = [cell EXCEPT ![c].known = old.id]
         \/ Goes(c, i, "undo") /\ UNCHANGED remote
  BY DEF applyCreateSetup, Setup, At
<1>2. /\ old \in AttemptRows /\ old.id \in Ids /\ old.stage \notin Settled
      /\ file \in Envs /\ remote \in [Ids -> DbRows]
      /\ cell \in [Clients -> CellRows] /\ attempts \in [Clients -> Seq(AttemptRows)]
  BY <1>1, AttemptRow DEF Base, Types, Identified, Settled
<1>3. \A stage \in {"persist", "done", "undo"} :
        /\ next(stage) \in AttemptRows /\ Identified(next(stage)) /\ next(stage).stage = stage
        /\ next(stage).id = old.id /\ next(stage).lazy = old.lazy /\ next(stage).closed = old.closed
  BY <1>2 DEF AttemptRows, Identified, Stages, Settled
<1>4. r \in DbRows /\ r.ready /\ r.status = remote[old.id].status
  BY <1>2 DEF DbRows
<1>5. ASSUME remote' = [remote EXCEPT ![old.id].ready = TRUE],
             NEW stage \in {"persist", "done"}, attempts' = [attempts EXCEPT ![c][i].stage = stage],
             cell' = cell \/ cell' = [cell EXCEPT ![c].known = old.id]
      PROVE  GoesOn(c, i, next(stage))
  <2>1. remote' = [remote EXCEPT ![old.id] = r]
    BY <1>2, <1>5
  <2>2. attempts' = [attempts EXCEPT ![c] = [attempts[c] EXCEPT ![i] = next(stage)]]
    BY <1>1, <1>2, <1>5
  <2>3. known \in CellRows /\ known.promise = cell[c].promise /\ known.deleted = cell[c].deleted
    BY <1>2 DEF CellRows, AttemptRows
  <2>4. cell' = cell \/ cell' = [cell EXCEPT ![c] = known]
    BY <1>2, <1>5
  <2> HIDE DEF r, known, next
  <2>5. /\ cell' \in [Clients -> CellRows]
        /\ \A e \in Clients : cell'[e].deleted = cell[e].deleted /\ cell'[e].promise = cell[e].promise
    BY <1>2, <2>3, <2>4
  <2>6. Progress(c, i, next(stage))
    BY <1>1, <1>2, <1>3, <2>2, <2>5 DEF Progress
  <2>7. CreationsOK => Creates(c, i, next(stage), old.id, r)
    <3>1. CreationsOK => Sound("setup", remote[old.id])
      BY <1>1 DEF CreationsOK, Underway
    <3>2. stage = "persist" \/ stage \notin Underway
      BY DEF Underway, Persisting
    <3>3. stage = "persist" /\ CreationsOK => Sound("persist", r)
      BY <1>4, <3>1 DEF Sound, Persisting
    <3>4. CreationsOK => /\ ~remote[old.id].ready /\ old.stage \in Underway
                         /\ remote[old.id].status # "free"
      BY <1>1, <3>1 DEF Sound, Underway
    <3> QED BY <1>1, <1>3, <1>4, <2>1, <3>2, <3>3, <3>4 DEF Creates
  <2> QED BY <1>1, <1>2, <1>4, <2>1, <2>6, <2>7 DEF GoesOn
<1>6. ASSUME Goes(c, i, "undo"), UNCHANGED remote
      PROVE  GoesOn(c, i, next("undo"))
  <2>1. Becomes(c, i, next("undo"))
    BY <1>6 DEF Goes
  <2> HIDE DEF next
  <2>2. Progress(c, i, next("undo"))
    BY <1>1, <1>2, <1>3, <2>1, BecomesProgress, SMTT(30) DEF Base
  <2>3. CreationsOK => Sound("undo", remote[old.id])
    BY <1>1 DEF CreationsOK, Underway, Sound, Persisting
  <2>4. CreationsOK => \E d \in Ids, x \in DbRows : Creates(c, i, next("undo"), d, x)
    BY <1>1, <1>3, <1>6, <2>3, NothingCreated DEF Underway
  <2> QED BY <1>1, <1>2, <1>6, <2>2, <2>4 DEF GoesOn
<1> HIDE DEF next
<1> QED BY <1>1, <1>5, <1>6

(* The steps that write the file.                                          *)
LEMMA PersistStep ==
  ASSUME Base, NEW c \in Clients, NEW i,
         persistReads(c, i) \/ persistTruncates(c, i) \/ persistFills(c, i)
  PROVE  \E a : GoesOn(c, i, a)
<1> DEFINE old == attempts[c][i]
           next(stage) == [old EXCEPT !.stage = stage]
           read == [old EXCEPT !.stage = "truncate", !.env = file]
           filled == [key |-> old.env.key, db |-> old.id, setup |-> FALSE]
<1>1. /\ i \in DOMAIN attempts[c] /\ old.stage \in Persisting /\ UNCHANGED remote
      /\ \/ old.stage = "persist" /\ Becomes(c, i, read) /\ file' = file
         \/ old.stage = "truncate" /\ Becomes(c, i, next("fill")) /\ file' = Torn
         \/ old.stage = "fill" /\ Becomes(c, i, next("done")) /\ file' = filled
         \/ Breaks("write") /\ Becomes(c, i, next("undo")) /\ file' \in {file, Torn, filled}
  BY DEF persistReads, persistTruncates, persistFills, At, Goes, Persisting
<1>2. /\ old \in AttemptRows /\ old.id \in Ids /\ old.stage \notin Settled
      /\ old.stage \in Underway /\ file \in Envs /\ remote' \in [Ids -> DbRows]
  BY <1>1, AttemptRow DEF Base, Types, Identified, Settled, Persisting, Underway
<1>3. \A stage \in {"fill", "done", "undo"} :
        /\ next(stage) \in AttemptRows /\ Identified(next(stage)) /\ next(stage).stage = stage
        /\ next(stage).id = old.id /\ next(stage).lazy = old.lazy /\ next(stage).closed = old.closed
  BY <1>2 DEF AttemptRows, Identified, Stages, Settled
<1>4. /\ read \in AttemptRows /\ Identified(read) /\ read.stage = "truncate" /\ read.id = old.id
      /\ read.lazy = old.lazy /\ read.closed = old.closed
  BY <1>2 DEF AttemptRows, Identified, Stages
<1>5. Torn \in Envs /\ Torn.db = NoDb /\ filled \in Envs /\ filled.db = old.id
  BY <1>2, Bounds DEF AttemptRows, Envs, Torn, NoDb
<1>6. CreationsOK => \A stage \in Persisting : Sound(stage, remote[old.id])
  <2>1. CreationsOK => Sound(old.stage, remote[old.id])
    BY <1>1, <1>2 DEF CreationsOK
  <2> QED BY <1>1, <2>1 DEF Sound, Persisting
<1> HIDE DEF next, read, filled
<1>7. CASE old.stage = "persist" /\ Becomes(c, i, read) /\ file' = file
  <2>1. Progress(c, i, read)
    BY <1>1, <1>2, <1>4, <1>7, BecomesProgress DEF Base
  <2>2. CreationsOK => \E d \in Ids, x \in DbRows : Creates(c, i, read, d, x)
    <3>1. CreationsOK => Sound("truncate", remote[old.id])
      BY <1>6 DEF Persisting
    <3> QED BY <1>1, <1>2, <1>4, <1>7, <3>1, NothingCreated
  <2> QED BY <1>2, <1>7, <2>1, <2>2 DEF GoesOn
<1>8. CASE old.stage = "truncate" /\ Becomes(c, i, next("fill")) /\ file' = Torn
  <2>1. Progress(c, i, next("fill"))
    BY <1>1, <1>2, <1>3, <1>8, BecomesProgress DEF Base
  <2>2. CreationsOK => \E d \in Ids, x \in DbRows : Creates(c, i, next("fill"), d, x)
    <3>1. CreationsOK => Sound("fill", remote[old.id])
      BY <1>6 DEF Persisting
    <3> QED BY <1>1, <1>2, <1>3, <1>5, <1>8, <3>1, NothingCreated
  <2> QED BY <1>2, <1>5, <1>8, <2>1, <2>2 DEF GoesOn
<1>9. CASE old.stage = "fill" /\ Becomes(c, i, next("done")) /\ file' = filled
  <2>1. Progress(c, i, next("done"))
    BY <1>1, <1>2, <1>3, <1>9, BecomesProgress DEF Base
  <2>2. next("done").stage \notin Underway
    BY <1>3 DEF Underway, Persisting
  <2>3. CreationsOK => \E d \in Ids, x \in DbRows : Creates(c, i, next("done"), d, x)
    BY <1>1, <1>2, <1>5, <1>9, <2>2, NothingCreated
  <2> QED BY <1>2, <1>5, <1>9, <2>1, <2>3 DEF GoesOn
<1>10. CASE Breaks("write") /\ Becomes(c, i, next("undo")) /\ file' \in {file, Torn, filled}
  <2>1. Progress(c, i, next("undo"))
    BY <1>1, <1>2, <1>3, <1>10, BecomesProgress DEF Base
  <2> QED BY <1>2, <1>5, <1>10, <2>1 DEF GoesOn
<1> QED BY <1>1, <1>7, <1>8, <1>9, <1>10

LEMMA UndoStep ==
  ASSUME Base, NEW c \in Clients, NEW i, deleteCreated(c, i)
  PROVE  \E a : GoesOn(c, i, a)
<1> DEFINE old == attempts[c][i]
           r == [remote[old.id] EXCEPT !.status = "undone"]
           failed == [old EXCEPT !.stage = "failed"]
<1>1. /\ i \in DOMAIN attempts[c] /\ old.stage = "undo" /\ UNCHANGED file
      /\ Becomes(c, i, failed)
      /\ remote' = remote \/ remote' = [remote EXCEPT ![old.id] = r]
  BY DEF deleteCreated, At, Goes
<1>2. /\ old \in AttemptRows /\ old.id \in Ids /\ old.stage \notin Settled
      /\ file \in Envs /\ remote \in [Ids -> DbRows]
  BY <1>1, AttemptRow DEF Base, Types, Identified, Settled
<1>3. /\ failed \in AttemptRows /\ failed.lazy = old.lazy /\ failed.closed = old.closed
      /\ failed.stage = "failed" /\ Identified(failed) /\ failed.stage \notin Underway
  BY <1>2 DEF AttemptRows, Stages, Settled, Identified, Underway, Persisting
<1>4. r \in DbRows /\ r.status = "undone" /\ r.ready = remote[old.id].ready
  BY <1>2 DEF DbRows
<1> HIDE DEF r, failed
<1>5. Progress(c, i, failed)
  BY <1>1, <1>2, <1>3, BecomesProgress DEF Base
<1>6. remote' \in [Ids -> DbRows]
  BY <1>1, <1>2, <1>4
<1>7. CreationsOK => \E d \in Ids, x \in DbRows : Creates(c, i, failed, d, x)
  <2>1. CASE remote' = remote
    BY <1>1, <1>3, <2>1, NothingCreated
  <2>2. CASE remote' = [remote EXCEPT ![old.id] = r]
    <3>1. old.stage \in Underway /\ (CreationsOK => ~remote[old.id].ready)
      BY <1>1 DEF CreationsOK, Underway, Sound
    <3>2. CreationsOK => Creates(c, i, failed, old.id, r)
      BY <1>1, <1>3, <1>4, <2>2, <3>1 DEF Creates
    <3> QED BY <1>2, <1>4, <3>2
  <2> QED BY <1>1, <2>1, <2>2
<1> QED BY <1>1, <1>2, <1>5, <1>6, <1>7 DEF GoesOn

LEMMA AttemptStep ==
  ASSUME Base, NEW c \in Clients, Attempt(c)
  PROVE  /\ UNCHANGED <<calls, session>>
         /\ \E i, a : GoesOn(c, i, a)
<1>1. PICK i : \/ LoadEnv(c, i) \/ CreateDatabase(c, i) \/ applyCreateSetup(c, i)
               \/ persistReads(c, i) \/ persistTruncates(c, i) \/ persistFills(c, i)
               \/ deleteCreated(c, i)
  BY DEF Attempt
<1>2. \E a : GoesOn(c, i, a)
  BY <1>1, LoadStep, CreateStep, SetupStep, PersistStep, UndoStep
<1> QED BY <1>2 DEF Attempt

-----------------------------------------------------------------------------
(* The user.                                                               *)

(* A call is added that belongs to one of the client's connections.        *)
LEMMA CallAdded ==
  ASSUME Base, NEW c \in Clients, NEW op \in Operations, NEW at,
         calls' = [calls EXCEPT ![c] = Append(@, NewCall(op, at))],
         attempts' \in [Clients -> Seq(AttemptRows)], cell' \in [Clients -> CellRows],
         \A e \in Clients : /\ cell'[e].promise \in 0..Len(attempts'[e])
                            /\ Len(attempts[e]) <= Len(attempts'[e])
                            /\ \A j \in DOMAIN attempts'[e] : Identified(attempts'[e][j]),
         at \in 1..Len(attempts'[c]), UNCHANGED <<file, remote, session>>
  PROVE  Base'
<1> DEFINE new == NewCall(op, at)
<1>1. calls \in [Clients -> Seq(CallRows)] /\ attempts \in [Clients -> Seq(AttemptRows)]
  BY DEF Base, Types
<1>2. \A e \in Clients : Len(attempts[e]) \in Nat /\ Len(attempts'[e]) \in Nat
  BY <1>1, LenProperties
<1>3. new \in CallRows /\ new.at = at /\ new.stage # "apply"
  <2>1. at \in Nat
    BY <1>2
  <2> QED BY <2>1 DEF NewCall, CallRows, CallStages, Operations
<1>4. calls' = [calls EXCEPT ![c] = Append(calls[c], new)]
  BY <1>1
<1> HIDE DEF new
<1>5. /\ calls' \in [Clients -> Seq(CallRows)]
      /\ \A e \in Clients : \A j \in DOMAIN calls'[e] :
           \/ j \in DOMAIN calls[e] /\ calls'[e][j] = calls[e][j]
           \/ e = c /\ j = Len(calls[c]) + 1 /\ calls'[e][j] = new
  BY <1>1, <1>3, <1>4, Extended
<1>6. \A e \in Clients : \A j \in DOMAIN calls'[e] : Attached(calls'[e][j], Len(attempts'[e]))
  <2> SUFFICES ASSUME NEW e \in Clients, NEW j \in DOMAIN calls'[e]
               PROVE  Attached(calls'[e][j], Len(attempts'[e]))
    OBVIOUS
  <2>1. CASE e = c /\ calls'[e][j] = new
    BY <1>3, <2>1 DEF Attached
  <2>2. CASE j \in DOMAIN calls[e] /\ calls'[e][j] = calls[e][j]
    <3>1. Attached(calls[e][j], Len(attempts[e]))
      BY <2>2 DEF Base, Links
    <3>2. \A n, m \in Nat : n <= m => \A x \in 1..n : x \in 1..m
      OBVIOUS
    <3> QED BY <1>2, <2>2, <3>1, <3>2 DEF Attached
  <2> QED BY <1>5, <2>1, <2>2
<1>7. Links'
  BY <1>6 DEF Links, Identified, Attached
<1>8. Types'
  BY <1>5 DEF Base, Types
<1> QED BY <1>7, <1>8 DEF Base

LEMMA BeginStep ==
  ASSUME Base, NEW c \in Clients, NEW op \in Operations, Begin(c, op)
  PROVE  /\ Base'
         /\ SingleFlight => SingleFlight'
         /\ CreationsOK => CreationsOK'
<1>1. /\ Connect(c) /\ ~cell[c].deleted /\ UNCHANGED <<file, remote, session>>
      /\ calls' = [calls EXCEPT ![c] = Append(@, NewCall(op, database(c).at))]
  BY DEF Begin, Acts
<1>2. Shares(c)
  BY <1>1 DEF Shares
<1>3. /\ attempts' \in [Clients -> Seq(AttemptRows)] /\ cell' \in [Clients -> CellRows]
      /\ \A e \in Clients : /\ cell'[e].promise \in 0..Len(attempts'[e])
                            /\ Len(attempts[e]) <= Len(attempts'[e])
                            /\ \A j \in DOMAIN attempts'[e] : Identified(attempts'[e][j])
      /\ OnlyNewer
      /\ SingleFlight => SingleFlight'
  BY <1>2, SharesKeeps
<1>4. database(c).at \in 1..Len(attempts'[c])
  <2>1. Len(attempts[c]) \in Nat /\ Len(attempts'[c]) \in Nat
    BY <1>3, LenProperties DEF Base, Types
  <2>2. database(c).at = cell'[c].promise /\ cell'[c].promise # 0
    BY <1>1, <2>1, Connected
  <2> QED BY <1>3, <2>1, <2>2
<1>5. Base'
  BY <1>1, <1>3, <1>4, CallAdded
<1>6. CreationsOK => CreationsOK'
  BY <1>1, <1>3, SameMild, CreationsKept DEF OnlyNewer, Underway, Persisting
<1> QED BY <1>3, <1>5, <1>6

LEMMA BeginCreateDbStep ==
  ASSUME Base, NEW c \in Clients, BeginCreateDb(c)
  PROVE  /\ Base'
         /\ SingleFlight => SingleFlight'
         /\ CreationsOK => CreationsOK'
<1> DEFINE a == [stage |-> "load", env |-> Torn, id |-> NoDb, closed |-> FALSE, lazy |-> FALSE]
<1>1. /\ attempts' = [attempts EXCEPT ![c] = Append(@, a)]
      /\ calls' = [calls EXCEPT ![c] = Append(@, NewCall("createDb", Len(attempts[c]) + 1))]
      /\ UNCHANGED <<file, remote, session, cell>>
  BY DEF BeginCreateDb, Acts
<1>2. /\ attempts \in [Clients -> Seq(AttemptRows)] /\ cell \in [Clients -> CellRows]
      /\ \A e \in Clients : Len(attempts[e]) \in Nat
  BY LenProperties DEF Base, Types
<1>3. /\ a \in AttemptRows /\ Identified(a) /\ a.stage \notin Underway /\ ~a.lazy
  BY Bounds DEF AttemptRows, Identified, Stages, Torn, Envs, NoDb, Underway, Persisting
<1>4. attempts' = [attempts EXCEPT ![c] = Append(attempts[c], a)]
  BY <1>1, <1>2
<1> HIDE DEF a
<1>5. /\ attempts' \in [Clients -> Seq(AttemptRows)]
      /\ \A e \in Clients : Len(attempts'[e]) = IF e = c THEN Len(attempts[e]) + 1 ELSE Len(attempts[e])
      /\ \A e \in Clients : \A j \in DOMAIN attempts'[e] :
           \/ j \in DOMAIN attempts[e] /\ attempts'[e][j] = attempts[e][j]
           \/ e = c /\ j = Len(attempts[c]) + 1 /\ attempts'[e][j] = a
  BY <1>2, <1>3, <1>4, Extended
<1>6. \A e \in Clients : /\ cell'[e].promise \in 0..Len(attempts'[e])
                         /\ Len(attempts[e]) <= Len(attempts'[e])
                         /\ \A j \in DOMAIN attempts'[e] : Identified(attempts'[e][j])
  <2>1. \A e \in Clients : cell[e].promise \in 0..Len(attempts[e])
    BY DEF Base, Links
  <2>2. \A e \in Clients : \A j \in DOMAIN attempts'[e] : Identified(attempts'[e][j])
    BY <1>3, <1>5 DEF Base, Links
  <2> QED BY <1>1, <1>2, <1>5, <2>1, <2>2
<1>7. Len(attempts[c]) + 1 \in 1..Len(attempts'[c])
  BY <1>2, <1>5
<1>8. Base'
  <2>1. "createDb" \in Operations
    BY DEF Operations
  <2> QED BY <1>1, <1>2, <1>5, <1>6, <1>7, <2>1, CallAdded
<1>9. SingleFlight => SingleFlight'
  BY <1>1, <1>3, <1>5 DEF SingleFlight
<1>10. CreationsOK => CreationsOK'
  BY <1>1, <1>3, <1>5, SameMild, CreationsKept
<1> QED BY <1>8, <1>9, <1>10

LEMMA CloseStep ==
  ASSUME Base, NEW c \in Clients, closeCachedDatabase(c)
  PROVE  /\ Base'
         /\ SingleFlight => SingleFlight'
         /\ CreationsOK => CreationsOK'
<1> DEFINE i == cell[c].promise
           x == [cell[c] EXCEPT !.promise = 0]
           a == [attempts[c][i] EXCEPT !.closed = TRUE]
<1>1. /\ i # 0 /\ cell' = [cell EXCEPT ![c].promise = 0]
      /\ attempts' = [attempts EXCEPT ![c][cell[c].promise].closed = TRUE]
      /\ UNCHANGED <<file, remote, session, calls>>
  BY DEF closeCachedDatabase, Acts
<1>2. attempts \in [Clients -> Seq(AttemptRows)] /\ cell \in [Clients -> CellRows]
  BY DEF Base, Types
<1>3. i \in DOMAIN attempts[c]
  <2>1. i \in 0..Len(attempts[c]) /\ Len(attempts[c]) \in Nat /\ DOMAIN attempts[c] = 1..Len(attempts[c])
    BY <1>2, LenProperties DEF Base, Links
  <2> QED BY <1>1, <2>1
<1>4. x \in CellRows /\ x.promise = 0 /\ x.deleted = cell[c].deleted /\ cell' = [cell EXCEPT ![c] = x]
  BY <1>1, <1>2 DEF CellRows
<1>5. attempts[c][i] \in AttemptRows /\ Identified(attempts[c][i])
  BY <1>3, AttemptRow
<1>6. /\ a \in AttemptRows /\ a.closed /\ Identified(a)
      /\ a.stage = attempts[c][i].stage /\ a.id = attempts[c][i].id
  BY <1>5 DEF AttemptRows, Identified
<1>7. attempts' = [attempts EXCEPT ![c] = [attempts[c] EXCEPT ![i] = a]]
  BY <1>1, <1>2, <1>3
<1>8. /\ cell' \in [Clients -> CellRows]
      /\ \A e \in Clients : cell'[e] = IF e = c THEN x ELSE cell[e]
  <2> HIDE DEF x
  <2> QED BY <1>2, <1>4
<1> HIDE DEF i, x, a
<1>9. /\ attempts' \in [Clients -> Seq(AttemptRows)]
      /\ \A e \in Clients : Len(attempts'[e]) = Len(attempts[e]) /\ DOMAIN attempts'[e] = DOMAIN attempts[e]
      /\ \A e \in Clients : \A j \in DOMAIN attempts[e] :
           attempts'[e][j] = IF e = c /\ j = i THEN a ELSE attempts[e][j]
  BY <1>2, <1>3, <1>6, <1>7, Replaced
<1>10. Links'
  <2>1. \A e \in Clients : Len(attempts[e]) \in Nat /\ cell[e].promise \in 0..Len(attempts[e])
    BY <1>2, LenProperties DEF Base, Links
  <2>2. \A e \in Clients : cell'[e].promise \in 0..Len(attempts'[e])
    BY <1>4, <1>8, <1>9, <2>1
  <2>3. \A e \in Clients : \A j \in DOMAIN attempts'[e] : Identified(attempts'[e][j])
    BY <1>6, <1>9 DEF Base, Links
  <2>4. \A e \in Clients : \A k \in DOMAIN calls'[e] : Attached(calls'[e][k], Len(attempts'[e]))
    BY <1>1, <1>9 DEF Base, Links
  <2> QED BY <2>2, <2>3, <2>4 DEF Links, Identified, Attached
<1>11. Base'
  BY <1>1, <1>8, <1>9, <1>10 DEF Base, Types
<1>12. ASSUME SingleFlight, NEW e \in Clients, NEW j \in DOMAIN attempts'[e],
              attempts'[e][j].lazy, ~attempts'[e][j].closed, attempts'[e][j].stage \notin Settled,
              ~cell'[e].deleted
       PROVE  cell'[e].promise = j
  <2>1. ~(e = c /\ j = i) /\ j \in DOMAIN attempts[e] /\ attempts'[e][j] = attempts[e][j]
    BY <1>6, <1>9, <1>12
  <2>2. cell[e].promise = j
    BY <1>4, <1>8, <1>12, <2>1 DEF SingleFlight
  <2>3. e # c
    BY <2>1, <2>2 DEF i
  <2> QED BY <1>8, <2>2, <2>3
<1>13. SingleFlight => SingleFlight'
  BY <1>12 DEF SingleFlight
<1>14. CreationsOK => CreationsOK'
  BY <1>1, <1>6, <1>9, SameMild, CreationsKept
<1> QED BY <1>11, <1>13, <1>14

LEMMA CrashStep ==
  ASSUME Base, NEW c \in Clients, Crash(c)
  PROVE  /\ Base'
         /\ SingleFlight => SingleFlight'
         /\ CreationsOK => CreationsOK'
<1>1. /\ cell' = [cell EXCEPT ![c] = Unconnected] /\ attempts' = [attempts EXCEPT ![c] = <<>>]
      /\ calls' = [calls EXCEPT ![c] = <<>>] /\ UNCHANGED <<file, remote, session>>
  BY DEF Crash
<1>2. /\ attempts \in [Clients -> Seq(AttemptRows)] /\ cell \in [Clients -> CellRows]
      /\ calls \in [Clients -> Seq(CallRows)]
  BY DEF Base, Types
<1>3. Unconnected \in CellRows /\ Unconnected.promise = 0
  BY Bounds DEF Unconnected, CellRows, NoDb
<1>4. /\ cell' \in [Clients -> CellRows] /\ attempts' \in [Clients -> Seq(AttemptRows)]
      /\ calls' \in [Clients -> Seq(CallRows)]
      /\ \A e \in Clients : /\ cell'[e] = IF e = c THEN Unconnected ELSE cell[e]
                            /\ attempts'[e] = IF e = c THEN <<>> ELSE attempts[e]
                            /\ calls'[e] = IF e = c THEN <<>> ELSE calls[e]
  BY <1>1, <1>2, <1>3, EmptySeq
<1>5. DOMAIN <<>> = {} /\ Len(<<>>) = 0
  OBVIOUS
<1>6. Links'
  <2> SUFFICES ASSUME NEW e \in Clients
               PROVE  /\ cell'[e].promise \in 0..Len(attempts'[e])
                      /\ \A j \in DOMAIN attempts'[e] : Identified(attempts'[e][j])
                      /\ \A k \in DOMAIN calls'[e] : Attached(calls'[e][k], Len(attempts'[e]))
    BY DEF Links, Identified, Attached
  <2>1. CASE e = c
    BY <1>3, <1>4, <1>5, <2>1
  <2>2. CASE e # c
    BY <1>4, <2>2 DEF Base, Links
  <2> QED BY <2>1, <2>2
<1>7. Base'
  BY <1>1, <1>4, <1>6 DEF Base, Types
<1>8. \A e \in Clients : \A j \in DOMAIN attempts'[e] :
        e # c /\ j \in DOMAIN attempts[e] /\ attempts'[e][j] = attempts[e][j]
  BY <1>4, <1>5
<1>9. SingleFlight => SingleFlight'
  BY <1>4, <1>8 DEF SingleFlight
<1>10. CreationsOK => CreationsOK'
  BY <1>1, <1>8, SameMild, CreationsKept
<1> QED BY <1>7, <1>9, <1>10

-----------------------------------------------------------------------------
(* Every step.                                                             *)

LEMMA InitBase ==
  Init => Base /\ SingleFlight /\ CreationsOK
<1> SUFFICES ASSUME Init PROVE Base /\ SingleFlight /\ CreationsOK
  OBVIOUS
<1>1. /\ file \in {[key |-> TRUE, db |-> NoDb, setup |-> s] : s \in BOOLEAN}
      /\ remote = [d \in Ids |-> Fresh] /\ cell = [c \in Clients |-> Unconnected]
      /\ attempts = [c \in Clients |-> <<>>] /\ calls = [c \in Clients |-> <<>>]
      /\ session \in Sessions
  BY DEF Init
<1>2. file \in Envs /\ file.db = NoDb
  <2>1. PICK s \in BOOLEAN : file = [key |-> TRUE, db |-> NoDb, setup |-> s]
    BY <1>1
  <2>2. NoDb \in 0..MaxDb
    BY Bounds DEF NoDb
  <2> QED BY <2>1, <2>2 DEF Envs
<1>3. Fresh \in DbRows /\ ~Fresh.ready
  BY EmptySeq DEF Fresh, DbRows
<1>4. Unconnected \in CellRows /\ Unconnected.promise = 0
  BY Bounds DEF Unconnected, CellRows, NoDb
<1>5. DOMAIN <<>> = {} /\ Len(<<>>) = 0
  OBVIOUS
<1>6. Types
  BY <1>1, <1>2, <1>3, <1>4, EmptySeq DEF Types
<1>7. Links
  BY <1>1, <1>4, <1>5 DEF Links
<1>8. SingleFlight
  BY <1>1, <1>5 DEF SingleFlight
<1>9. CreationsOK
  BY <1>1, <1>2, <1>3, <1>5 DEF CreationsOK
<1> QED BY <1>6, <1>7, <1>8, <1>9 DEF Base

(* Connections and calls.                                                  *)
LEMMA ClientStep ==
  ASSUME Base, NEW c \in Clients, Attempt(c) \/ Call(c)
  PROVE  /\ Base' /\ UNCHANGED session
         /\ SingleFlight => SingleFlight'
         /\ CreationsOK /\ ~Breaks("write") => CreationsOK'
<1>1. CASE Attempt(c)
  <2>1. PICK i, a : GoesOn(c, i, a)
    BY <1>1, AttemptStep
  <2>2. UNCHANGED <<calls, session>> /\ Progress(c, i, a)
    BY <1>1, <2>1, AttemptStep DEF GoesOn
  <2>3. /\ attempts' \in [Clients -> Seq(AttemptRows)] /\ Links'
        /\ SingleFlight => SingleFlight'
    BY <2>2, ProgressKeeps
  <2>4. Types'
    BY <2>1, <2>2, <2>3 DEF GoesOn, Progress, Base, Types
  <2>5. CreationsOK /\ ~Breaks("write") => CreationsOK'
    BY <2>1, <2>2, CreatesKeeps DEF GoesOn
  <2> QED BY <2>2, <2>3, <2>4, <2>5 DEF Base
<1>2. CASE Call(c)
  <2>1. Advances(c) /\ Mild /\ UNCHANGED <<file, session>>
    BY <1>2, CallStep
  <2>2. Base'
    BY <2>1, AdvancesKeeps
  <2>3. OnlyNewer /\ (SingleFlight => SingleFlight')
    BY <2>1, SharesKeeps DEF Advances
  <2>4. CreationsOK => CreationsOK'
    BY <2>1, <2>3, CreationsKept DEF OnlyNewer, Underway, Persisting
  <2> QED BY <2>1, <2>2, <2>3, <2>4
<1> QED BY <1>1, <1>2

LEMMA StepBase ==
  ASSUME Base, [Next]_vars
  PROVE  /\ Base' /\ UNCHANGED session
         /\ SingleFlight => SingleFlight'
         /\ CreationsOK /\ ~Breaks("write") => CreationsOK'
<1>1. ASSUME NEW c \in Clients, Attempt(c) \/ Call(c)
      PROVE  /\ Base' /\ UNCHANGED session
             /\ SingleFlight => SingleFlight'
             /\ CreationsOK /\ ~Breaks("write") => CreationsOK'
  BY <1>1, ClientStep
<1>2. ASSUME NEW c \in Clients, NEW op \in Operations, Begin(c, op)
      PROVE  Base' /\ UNCHANGED session /\ (SingleFlight => SingleFlight') /\ (CreationsOK => CreationsOK')
  BY <1>2, BeginStep DEF Begin, Acts
<1>3. ASSUME NEW c \in Clients, BeginCreateDb(c)
      PROVE  Base' /\ UNCHANGED session /\ (SingleFlight => SingleFlight') /\ (CreationsOK => CreationsOK')
  BY <1>3, BeginCreateDbStep DEF BeginCreateDb, Acts
<1>4. ASSUME NEW c \in Clients, closeCachedDatabase(c)
      PROVE  Base' /\ UNCHANGED session /\ (SingleFlight => SingleFlight') /\ (CreationsOK => CreationsOK')
  BY <1>4, CloseStep DEF closeCachedDatabase, Acts
<1>5. ASSUME NEW c \in Clients, Crash(c)
      PROVE  Base' /\ UNCHANGED session /\ (SingleFlight => SingleFlight') /\ (CreationsOK => CreationsOK')
  BY <1>5, CrashStep DEF Crash
<1>6. CASE UNCHANGED vars
  BY <1>6 DEF vars, Base, Types, Links, SingleFlight, CreationsOK, Identified, Attached, Sound
<1> QED BY <1>1, <1>2, <1>3, <1>4, <1>5, <1>6 DEF Next

-----------------------------------------------------------------------------
(* Scripts.                                                                *)

(* Each database has a prefix of the script, and a call is not ahead of it.*)
ScriptOK ==
  /\ \A d \in Ids : \A n \in DOMAIN remote[d].chunks : remote[d].chunks[n] = n
  /\ \A c \in Clients : \A k \in DOMAIN calls[c] : calls[c][k].stage = "script" =>
       /\ calls[c][k].step >= 1
       /\ calls[c][k].step > 1 =>
            /\ HandleOf(c, k).stage = "done"
            /\ Len(remote[HandleOf(c, k).id].chunks) >= calls[c][k].step - 1

(* What a database holds stays, or grows by the next batch.                *)
Grows == \A d \in Ids : \/ remote'[d].chunks = remote[d].chunks
                        \/ remote'[d].chunks = Append(remote[d].chunks, Len(remote[d].chunks) + 1)

(* The connections of a process that goes on stay connected.               *)
StaysDone(e) ==
  \A j \in DOMAIN attempts[e] : attempts[e][j].stage = "done" =>
    /\ j \in DOMAIN attempts'[e] /\ attempts'[e][j].stage = "done"
    /\ attempts'[e][j].id = attempts[e][j].id

(* A call that runs a script is at its beginning, where it was, or at the  *)
(* next batch.                                                             *)
Repeats(e, k) ==
  calls'[e][k].stage = "script" =>
    \/ calls'[e][k].step = 1
    \/ k \in DOMAIN calls[e] /\ calls'[e][k] = calls[e][k]
    \/ k \in DOMAIN calls[e] /\ NextBatch(e, k, calls'[e][k])

(* A prefix of the script that has a batch has the batches before it.      *)
LEMMA PrefixLength ==
  ASSUME NEW s \in Seq(Nat), \A n \in DOMAIN s : s[n] = n, NEW m \in Nat
  PROVE  /\ m \in ToSet(s) => m <= Len(s)
         /\ m >= 1 /\ m <= Len(s) => m \in ToSet(s)
<1>1. Len(s) \in Nat /\ DOMAIN s = 1..Len(s)
  BY LenProperties
<1> QED BY <1>1 DEF ToSet

LEMMA ScriptKept ==
  ASSUME Base, Base', ScriptOK, Grows,
         \A e \in Clients : StaysDone(e) \/ calls'[e] = <<>>,
         \A e \in Clients : \A k \in DOMAIN calls'[e] : Repeats(e, k)
  PROVE  ScriptOK'
<1>1. \A d \in Ids : /\ remote[d].chunks \in Seq(Nat) /\ Len(remote[d].chunks) \in Nat
                     /\ \A n \in DOMAIN remote[d].chunks : remote[d].chunks[n] = n
  BY LenProperties DEF Base, Types, DbRows, ScriptOK
<1>2. ASSUME NEW d \in Ids
      PROVE  /\ \A n \in DOMAIN remote'[d].chunks : remote'[d].chunks[n] = n
             /\ remote'[d].chunks \in Seq(Nat)
             /\ Len(remote'[d].chunks) \in Nat /\ Len(remote'[d].chunks) >= Len(remote[d].chunks)
  <2> DEFINE s == remote[d].chunks
             t == Append(s, Len(s) + 1)
  <2>1. CASE remote'[d].chunks = s
    BY <1>1, <2>1
  <2>2. CASE remote'[d].chunks = t
    <3>1. s \in Seq(Nat) /\ Len(s) \in Nat /\ Len(s) + 1 \in Nat /\ \A n \in DOMAIN s : s[n] = n
      BY <1>1
    <3> HIDE DEF s
    <3>2. /\ t \in Seq(Nat) /\ Len(t) = Len(s) + 1
          /\ \A n \in 1..Len(s) : t[n] = s[n]
          /\ t[Len(s) + 1] = Len(s) + 1
      BY <3>1, AppendProperties
    <3>3. DOMAIN s = 1..Len(s) /\ DOMAIN t = 1..Len(t)
      <4> HIDE DEF t
      <4> QED BY <3>1, <3>2, LenProperties
    <3> HIDE DEF t
    <3>4. \A n \in DOMAIN t : t[n] = n
      <4>1. \A n \in 1..(Len(s) + 1) : n \in 1..Len(s) \/ n = Len(s) + 1
        BY <3>1
      <4> QED BY <3>1, <3>2, <3>3, <4>1
    <3> QED BY <2>2, <3>1, <3>2, <3>4 DEF s
  <2> QED BY <2>1, <2>2 DEF Grows
<1>3. ASSUME NEW c \in Clients, NEW k \in DOMAIN calls'[c], calls'[c][k].stage = "script"
      PROVE  /\ calls'[c][k].step >= 1
             /\ calls'[c][k].step > 1 =>
                  /\ HandleOf(c, k)'.stage = "done"
                  /\ Len(remote'[HandleOf(c, k)'.id].chunks) >= calls'[c][k].step - 1
  <2>1. StaysDone(c)
    <3>1. DOMAIN <<>> = {}
      OBVIOUS
    <3> QED BY <1>3, <3>1
  <2>2. HandleOf(c, k)' = attempts'[c][calls'[c][k].at]
    BY DEF HandleOf
  <2>3. CASE calls'[c][k].step = 1
    BY <2>3
  <2>4. ASSUME k \in DOMAIN calls[c], HandleOf(c, k).stage = "done", calls'[c][k].at = calls[c][k].at
        PROVE  /\ HandleOf(c, k)'.stage = "done" /\ HandleOf(c, k)'.id = HandleOf(c, k).id
               /\ HandleOf(c, k).id \in Ids
    <3>1. calls[c][k].at \in DOMAIN attempts[c]
      BY <2>4, LenProperties DEF Base, Types, Links, Attached
    <3>2. HandleOf(c, k).id \in Ids
      BY <2>4, CallRow DEF Identified
    <3> QED BY <2>1, <2>2, <2>4, <3>1, <3>2 DEF HandleOf, StaysDone
  <2>5. CASE k \in DOMAIN calls[c] /\ calls'[c][k] = calls[c][k]
    <3>1. calls[c][k].step \in Nat
      BY <2>5, CallRow DEF CallRows
    <3>2. /\ calls[c][k].step >= 1
          /\ calls[c][k].step > 1 =>
               /\ HandleOf(c, k).stage = "done"
               /\ Len(remote[HandleOf(c, k).id].chunks) >= calls[c][k].step - 1
      BY <1>3, <2>5 DEF ScriptOK
    <3>3. CASE calls[c][k].step > 1
      <4> DEFINE d == HandleOf(c, k).id
                 before == Len(remote[d].chunks)
                 after == Len(remote'[d].chunks)
                 step == calls[c][k].step
      <4>1. HandleOf(c, k)'.stage = "done" /\ HandleOf(c, k)'.id = d /\ d \in Ids
        BY <2>4, <2>5, <3>2, <3>3
      <4>2. before \in Nat /\ after \in Nat /\ after >= before
        BY <1>1, <1>2, <4>1
      <4>3. step \in Nat /\ step >= 1 /\ before >= step - 1
        BY <3>1, <3>2, <3>3
      <4>4. after >= step - 1
        <5> HIDE DEF before, after, step
        <5> QED BY <4>2, <4>3
      <4>5. Len(remote'[HandleOf(c, k)'.id].chunks) = after
        BY <4>1
      <4>6. calls'[c][k].step = step
        BY <2>5
      <4> HIDE DEF d, before, after, step
      <4> QED BY <4>1, <4>3, <4>4, <4>5, <4>6
    <3> QED BY <2>5, <3>2, <3>3
  <2>6. CASE k \in DOMAIN calls[c] /\ NextBatch(c, k, calls'[c][k])
    <3> DEFINE n == calls[c][k].step
               d == HandleOf(c, k).id
    <3>1. /\ calls[c][k].stage = "script" /\ HandleOf(c, k).stage = "done"
          /\ calls'[c][k].at = calls[c][k].at /\ calls'[c][k].step = n + 1
          /\ n \in ToSet(remote'[d].chunks)
      BY <2>6 DEF NextBatch
    <3>2. n \in Nat /\ n >= 1
      BY <2>6, <3>1, CallRow DEF CallRows, ScriptOK
    <3>3. HandleOf(c, k)'.stage = "done" /\ HandleOf(c, k)'.id = d /\ d \in Ids
      BY <2>4, <2>6, <3>1
    <3>4. n <= Len(remote'[d].chunks)
      <4> HIDE DEF n, d
      <4> QED BY <1>2, <3>1, <3>2, <3>3, PrefixLength
    <3> QED BY <1>2, <3>1, <3>2, <3>3, <3>4
  <2> QED BY <1>3, <2>3, <2>5, <2>6 DEF Repeats
<1> QED BY <1>2, <1>3 DEF ScriptOK

(* A change of another field leaves what a database holds.                 *)
LEMMA OtherField ==
  ASSUME Base, NEW d, NEW v,
         \/ remote' = [remote EXCEPT ![d].status = v]
         \/ remote' = [remote EXCEPT ![d].ready = v]
         \/ remote' = [remote EXCEPT ![d].table = v]
         \/ remote' = [remote EXCEPT ![d].versions = v]
  PROVE  Grows
<1> SUFFICES ASSUME NEW e \in Ids PROVE remote'[e].chunks = remote[e].chunks
  BY DEF Grows
<1>1. remote \in [Ids -> DbRows] /\ remote[e] \in DbRows
  BY DEF Base, Types
<1>2. /\ [remote[e] EXCEPT !.status = v].chunks = remote[e].chunks
      /\ [remote[e] EXCEPT !.ready = v].chunks = remote[e].chunks
      /\ [remote[e] EXCEPT !.table = v].chunks = remote[e].chunks
      /\ [remote[e] EXCEPT !.versions = v].chunks = remote[e].chunks
  BY <1>1 DEF DbRows
<1>3. CASE remote' = [remote EXCEPT ![d].status = v]
  BY <1>1, <1>2, <1>3
<1>4. CASE remote' = [remote EXCEPT ![d].ready = v]
  BY <1>1, <1>2, <1>4
<1>5. CASE remote' = [remote EXCEPT ![d].table = v]
  BY <1>1, <1>2, <1>5
<1>6. CASE remote' = [remote EXCEPT ![d].versions = v]
  BY <1>1, <1>2, <1>6
<1> QED BY <1>3, <1>4, <1>5, <1>6

(* Connections set databases up.                                           *)
LEMMA AttemptChanges ==
  ASSUME NEW c \in Clients, Attempt(c)
  PROVE  \E d, v : \/ UNCHANGED remote
                   \/ remote' = [remote EXCEPT ![d].status = v]
                   \/ remote' = [remote EXCEPT ![d].ready = v]
<1>1. PICK i : \/ LoadEnv(c, i) \/ CreateDatabase(c, i) \/ applyCreateSetup(c, i)
               \/ persistReads(c, i) \/ persistTruncates(c, i) \/ persistFills(c, i)
               \/ deleteCreated(c, i)
  BY DEF Attempt
<1>2. CASE LoadEnv(c, i) \/ persistReads(c, i) \/ persistTruncates(c, i) \/ persistFills(c, i)
  BY <1>2 DEF LoadEnv, persistReads, persistTruncates, persistFills
<1>3. CASE CreateDatabase(c, i)
  BY <1>3 DEF CreateDatabase
<1>4. CASE applyCreateSetup(c, i)
  BY <1>4 DEF applyCreateSetup, Setup
<1>5. CASE deleteCreated(c, i)
  BY <1>5 DEF deleteCreated
<1> QED BY <1>1, <1>2, <1>3, <1>4, <1>5

LEMMA AttemptGrows ==
  ASSUME Base, NEW c \in Clients, Attempt(c)
  PROVE  Grows
<1>1. UNCHANGED remote => Grows
  BY DEF Grows
<1> QED BY <1>1, AttemptChanges, OtherField

LEMMA BatchGrows ==
  ASSUME Base, ScriptOK, NEW c \in Clients, NEW k, executeStatementBatches(c, k)
  PROVE  Grows
<1> DEFINE d == HandleOf(c, k).id
           n == calls[c][k].step
           s == remote[d].chunks
<1>1. /\ Handle(c, k, "script")
      /\ \/ UNCHANGED remote
         \/ n \notin ToSet(s) /\ remote' = [remote EXCEPT ![d].chunks = Append(@, n)]
  BY DEF executeStatementBatches, Batch, Request
<1>2. k \in DOMAIN calls[c] /\ calls[c][k].stage = "script" /\ d \in Ids
  BY <1>1, HandleDb
<1>3. CASE UNCHANGED remote
  BY <1>3 DEF Grows
<1>4. CASE n \notin ToSet(s) /\ remote' = [remote EXCEPT ![d].chunks = Append(@, n)]
  <2>1. s \in Seq(Nat) /\ Len(s) \in Nat /\ \A m \in DOMAIN s : s[m] = m
    BY <1>2, LenProperties DEF Base, Types, DbRows, ScriptOK
  <2>2. n \in Nat /\ n >= 1 /\ (n > 1 => Len(s) >= n - 1)
    BY <1>2, CallRow DEF CallRows, ScriptOK
  <2> HIDE DEF s, n
  <2>3. ~(n <= Len(s))
    BY <1>4, <2>1, <2>2, PrefixLength
  <2>4. n = Len(s) + 1
    BY <2>1, <2>2, <2>3
  <2>5. remote'[d].chunks = Append(s, n) /\ \A e \in Ids \ {d} : remote'[e] = remote[e]
    BY <1>2, <1>4 DEF s, Base, Types, DbRows
  <2> QED BY <1>2, <2>4, <2>5 DEF Grows, s
<1> QED BY <1>1, <1>3, <1>4

LEMMA CallGrows ==
  ASSUME Base, ScriptOK, NEW c \in Clients, Call(c)
  PROVE  Grows
<1>1. PICK k : \/ Rejected(c, k) \/ executeStatementBatches(c, k) \/ ensureMigrationTable(c, k)
               \/ readVersions(c, k) \/ migrate(c, k) \/ deleteDatabase(c, k)
               \/ createDatabaseFromCreateDbOptions(c, k)
  BY DEF Call
<1>2. UNCHANGED remote => Grows
  BY DEF Grows
<1>3. CASE Rejected(c, k) \/ readVersions(c, k) \/ createDatabaseFromCreateDbOptions(c, k)
  BY <1>3 DEF Rejected, readVersions, createDatabaseFromCreateDbOptions, Grows
<1>4. CASE executeStatementBatches(c, k)
  BY <1>4, BatchGrows
<1>5. CASE ensureMigrationTable(c, k)
  <2>1. \/ UNCHANGED remote
        \/ remote' = [remote EXCEPT ![HandleOf(c, k).id].table = TRUE]
    BY <1>5 DEF ensureMigrationTable, Request
  <2> QED BY <1>2, <2>1, OtherField
<1>6. CASE migrate(c, k)
  <2>1. \/ UNCHANGED remote
        \/ \E v : remote' = [remote EXCEPT ![HandleOf(c, k).id].versions = v]
    <3>1. Handle(c, k, "apply")
      BY <1>6 DEF migrate
    <3>2. HandleOf(c, k).id \in Ids
      BY <3>1, HandleDb
    <3> QED BY <1>6, <3>2 DEF migrate, Request, Base, Types
  <2> QED BY <1>2, <2>1, OtherField
<1>7. CASE deleteDatabase(c, k)
  <2>1. \/ UNCHANGED remote
        \/ remote' = [remote EXCEPT ![HandleOf(c, k).id].status = "deleted"]
    BY <1>7 DEF deleteDatabase
  <2> QED BY <1>2, <2>1, OtherField
<1> QED BY <1>1, <1>3, <1>4, <1>5, <1>6, <1>7

LEMMA SharesStaysDone ==
  ASSUME Base, NEW c \in Clients, Shares(c)
  PROVE  \A e \in Clients : StaysDone(e)
<1>1. CASE attempts' = attempts
  BY <1>1 DEF StaysDone
<1>2. CASE attempts' # attempts
  <2>1. Connect(c)
    BY <1>2 DEF Shares
  <2>2. /\ NewAttempt(c) \in AttemptRows
        /\ attempts' = [attempts EXCEPT ![c] = Append(attempts[c], NewAttempt(c))]
    BY <1>2, <2>1, Connected
  <2>3. attempts \in [Clients -> Seq(AttemptRows)]
    BY DEF Base, Types
  <2>4. \A e \in Clients : \A j \in DOMAIN attempts[e] :
          j \in DOMAIN attempts'[e] /\ attempts'[e][j] = attempts[e][j]
    BY <2>2, <2>3, Extended
  <2> QED BY <2>4 DEF StaysDone
<1> QED BY <1>1, <1>2

LEMMA AttemptStaysDone ==
  ASSUME Base, NEW c \in Clients, Attempt(c)
  PROVE  \A e \in Clients : StaysDone(e)
<1>1. PICK i, a : GoesOn(c, i, a)
  BY AttemptStep
<1>2. /\ i \in DOMAIN attempts[c] /\ attempts[c][i].stage \notin Settled /\ a \in AttemptRows
      /\ attempts' = [attempts EXCEPT ![c] = [attempts[c] EXCEPT ![i] = a]]
      /\ attempts \in [Clients -> Seq(AttemptRows)]
  BY <1>1 DEF GoesOn, Progress, Base, Types
<1>3. /\ \A e \in Clients : DOMAIN attempts'[e] = DOMAIN attempts[e]
      /\ \A e \in Clients : \A j \in DOMAIN attempts[e] :
           attempts'[e][j] = IF e = c /\ j = i THEN a ELSE attempts[e][j]
  BY <1>2, Replaced
<1> QED BY <1>2, <1>3 DEF StaysDone, Settled

LEMMA CreateDbStaysDone ==
  ASSUME Base, NEW c \in Clients, BeginCreateDb(c)
  PROVE  \A e \in Clients : StaysDone(e)
<1> DEFINE a == [stage |-> "load", env |-> Torn, id |-> NoDb, closed |-> FALSE, lazy |-> FALSE]
<1>1. attempts \in [Clients -> Seq(AttemptRows)]
  BY DEF Base, Types
<1>2. attempts' = [attempts EXCEPT ![c] = Append(attempts[c], a)]
  BY <1>1 DEF BeginCreateDb
<1>3. a \in AttemptRows
  BY Bounds DEF AttemptRows, Stages, Torn, Envs, NoDb
<1> HIDE DEF a
<1>4. \A e \in Clients : \A j \in DOMAIN attempts[e] :
        j \in DOMAIN attempts'[e] /\ attempts'[e][j] = attempts[e][j]
  BY <1>1, <1>2, <1>3, Extended
<1> QED BY <1>4 DEF StaysDone

(* A connection that is closed comes to no other stage.                    *)
LEMMA CloseRows ==
  ASSUME Base, NEW c \in Clients, closeCachedDatabase(c)
  PROVE  /\ \A e \in Clients : DOMAIN attempts'[e] = DOMAIN attempts[e]
         /\ \A e \in Clients : \A j \in DOMAIN attempts[e] :
              /\ j \in DOMAIN attempts'[e] /\ attempts'[e][j].stage = attempts[e][j].stage
              /\ attempts'[e][j].id = attempts[e][j].id /\ attempts'[e][j].lazy = attempts[e][j].lazy
              /\ attempts'[e][j].closed = IF e = c /\ j = cell[c].promise THEN TRUE
                                          ELSE attempts[e][j].closed
<1>1. attempts' = [attempts EXCEPT ![c][cell[c].promise].closed = TRUE]
  BY DEF closeCachedDatabase
<1>2. attempts \in [Clients -> Seq(AttemptRows)]
  BY DEF Base, Types
<1>3. \A e \in Clients : DOMAIN attempts'[e] = DOMAIN attempts[e]
  BY <1>1, <1>2
<1>4. ASSUME NEW e \in Clients, NEW j \in DOMAIN attempts[e]
      PROVE  /\ j \in DOMAIN attempts'[e] /\ attempts'[e][j].stage = attempts[e][j].stage
             /\ attempts'[e][j].id = attempts[e][j].id /\ attempts'[e][j].lazy = attempts[e][j].lazy
             /\ attempts'[e][j].closed = IF e = c /\ j = cell[c].promise THEN TRUE
                                         ELSE attempts[e][j].closed
  <2>1. attempts[e][j] \in AttemptRows
    BY AttemptRow
  <2> QED BY <1>1, <1>2, <1>3, <2>1 DEF AttemptRows
<1> QED BY <1>3, <1>4

LEMMA CloseStaysDone ==
  ASSUME Base, NEW c \in Clients, closeCachedDatabase(c)
  PROVE  \A e \in Clients : StaysDone(e)
BY CloseRows DEF StaysDone

LEMMA CrashStaysDone ==
  ASSUME Base, NEW c \in Clients, Crash(c)
  PROVE  \A e \in Clients : StaysDone(e) \/ calls'[e] = <<>>
<1>1. attempts' = [attempts EXCEPT ![c] = <<>>] /\ calls' = [calls EXCEPT ![c] = <<>>]
  BY DEF Crash
<1> QED BY <1>1 DEF StaysDone, Base, Types

LEMMA ScriptStep ==
  ASSUME Base, Base', ScriptOK, [Next]_vars
  PROVE  ScriptOK'
<1>1. /\ calls \in [Clients -> Seq(CallRows)] /\ attempts \in [Clients -> Seq(AttemptRows)]
      /\ remote \in [Ids -> DbRows]
  BY DEF Base, Types
<1>2. (UNCHANGED remote => Grows) /\ (UNCHANGED calls => \A e \in Clients : \A k \in DOMAIN calls'[e] : Repeats(e, k))
  BY DEF Grows, Repeats
<1>3. ASSUME NEW c \in Clients, Attempt(c) PROVE ScriptOK'
  <2>1. Grows /\ UNCHANGED calls
    BY <1>3, AttemptGrows, AttemptStep
  <2> QED BY <1>2, <1>3, <2>1, AttemptStaysDone, ScriptKept
<1>4. ASSUME NEW c \in Clients, Call(c) PROVE ScriptOK'
  <2>1. Advances(c)
    BY <1>4, CallStep
  <2>2. PICK k \in DOMAIN calls[c], call \in CallRows :
          /\ calls' = [calls EXCEPT ![c] = [calls[c] EXCEPT ![k] = call]]
          /\ call.stage = "script" => NextBatch(c, k, call)
    BY <2>1 DEF Advances
  <2>3. /\ \A e \in Clients : DOMAIN calls'[e] = DOMAIN calls[e]
        /\ \A e \in Clients : \A j \in DOMAIN calls[e] :
             calls'[e][j] = IF e = c /\ j = k THEN call ELSE calls[e][j]
    BY <1>1, <2>2, Replaced
  <2>4. \A e \in Clients : \A j \in DOMAIN calls'[e] : Repeats(e, j)
    BY <2>2, <2>3 DEF Repeats
  <2>5. \A e \in Clients : StaysDone(e)
    BY <2>1, SharesStaysDone DEF Advances
  <2> QED BY <1>4, <2>4, <2>5, CallGrows, ScriptKept
<1>5. ASSUME NEW c \in Clients, NEW op \in Operations, NEW at, UNCHANGED remote,
             calls' = [calls EXCEPT ![c] = Append(@, NewCall(op, at))],
             \A e \in Clients : StaysDone(e), at \in Nat
      PROVE  ScriptOK'
  <2> DEFINE new == NewCall(op, at)
  <2>1. new \in CallRows /\ new.step = 1
    BY <1>5 DEF NewCall, CallRows, CallStages, Operations
  <2>2. calls' = [calls EXCEPT ![c] = Append(calls[c], new)]
    BY <1>1, <1>5
  <2> HIDE DEF new
  <2>3. \A e \in Clients : \A j \in DOMAIN calls'[e] :
          \/ j \in DOMAIN calls[e] /\ calls'[e][j] = calls[e][j]
          \/ e = c /\ j = Len(calls[c]) + 1 /\ calls'[e][j] = new
    BY <1>1, <2>1, <2>2, Extended
  <2>4. \A e \in Clients : \A j \in DOMAIN calls'[e] : Repeats(e, j)
    BY <2>1, <2>3 DEF Repeats
  <2> QED BY <1>2, <1>5, <2>4, ScriptKept
<1>6. ASSUME NEW c \in Clients, NEW op \in Operations, Begin(c, op) PROVE ScriptOK'
  <2>1. /\ Connect(c) /\ ~cell[c].deleted /\ UNCHANGED remote
        /\ calls' = [calls EXCEPT ![c] = Append(@, NewCall(op, database(c).at))]
    BY <1>6 DEF Begin, Acts
  <2>2. \A e \in Clients : StaysDone(e)
    BY <2>1, SharesStaysDone DEF Shares
  <2>3. database(c).at \in Nat
    BY <2>1, Connected DEF CellRows
  <2> QED BY <1>5, <2>1, <2>2, <2>3
<1>7. ASSUME NEW c \in Clients, BeginCreateDb(c) PROVE ScriptOK'
  <2>1. /\ calls' = [calls EXCEPT ![c] = Append(@, NewCall("createDb", Len(attempts[c]) + 1))]
        /\ UNCHANGED remote
    BY <1>7 DEF BeginCreateDb, Acts
  <2>2. Len(attempts[c]) + 1 \in Nat /\ "createDb" \in Operations
    BY <1>1, LenProperties DEF Operations
  <2> QED BY <1>5, <1>7, <2>1, <2>2, CreateDbStaysDone
<1>8. ASSUME NEW c \in Clients, closeCachedDatabase(c) PROVE ScriptOK'
  <2>1. UNCHANGED <<remote, calls>>
    BY <1>8 DEF closeCachedDatabase, Acts
  <2> QED BY <1>2, <1>8, <2>1, CloseStaysDone, ScriptKept
<1>9. ASSUME NEW c \in Clients, Crash(c) PROVE ScriptOK'
  <2>1. calls' = [calls EXCEPT ![c] = <<>>] /\ UNCHANGED remote
    BY <1>9 DEF Crash
  <2>2. DOMAIN <<>> = {}
    OBVIOUS
  <2>3. \A e \in Clients : \A k \in DOMAIN calls'[e] : Repeats(e, k)
    BY <1>1, <2>1, <2>2, SMTT(30) DEF Repeats
  <2> QED BY <1>2, <1>9, <2>1, <2>3, CrashStaysDone, ScriptKept
<1>10. CASE UNCHANGED vars
  BY <1>10 DEF vars, ScriptOK, HandleOf
<1> QED BY <1>3, <1>4, <1>6, <1>7, <1>8, <1>9, <1>10 DEF Next

-----------------------------------------------------------------------------
(* Shared connections.                                                     *)

(* As long as the user closes nothing, a call has the connection that the  *)
(* next call will share, or a failed one.                                  *)
Open(call) == call.stage \notin Ended \union {"createDb"}
ShareOK ==
  \A c \in Clients : \A k \in DOMAIN calls[c] :
    Open(calls[c][k]) /\ ~cell[c].deleted =>
      HandleOf(c, k).stage = "failed" \/ cell[c].promise = calls[c][k].at

LEMMA SharesKeepsShared ==
  ASSUME Base, NEW c \in Clients, Shares(c), NEW e \in Clients, NEW at \in DOMAIN attempts[e],
         ~cell'[e].deleted,
         ~cell[e].deleted => attempts[e][at].stage = "failed" \/ cell[e].promise = at
  PROVE  attempts'[e][at].stage = "failed" \/ cell'[e].promise = at
<1>1. /\ attempts \in [Clients -> Seq(AttemptRows)] /\ cell \in [Clients -> CellRows]
      /\ at >= 1
  <2>1. attempts \in [Clients -> Seq(AttemptRows)] /\ cell \in [Clients -> CellRows]
    BY DEF Base, Types
  <2> QED BY <2>1, LenProperties
<1>2. CASE attempts' = attempts /\ cell' = cell
  BY <1>2
<1>3. CASE ~cell[c].deleted /\ Connect(c)
  <2>1. /\ NewAttempt(c) \in AttemptRows
        /\ cell'[e].deleted = cell[e].deleted
        /\ e # c => cell'[e] = cell[e]
        /\ \/ cell[c].promise # 0 /\ attempts' = attempts /\ cell' = cell
           \/ /\ cell[c].promise = 0
              /\ attempts' = [attempts EXCEPT ![c] = Append(attempts[c], NewAttempt(c))]
    BY <1>3, Connected
  <2>2. CASE cell[c].promise # 0 /\ attempts' = attempts /\ cell' = cell
    BY <1>2, <2>2
  <2>3. CASE /\ cell[c].promise = 0
             /\ attempts' = [attempts EXCEPT ![c] = Append(attempts[c], NewAttempt(c))]
    <3>1. attempts'[e][at] = attempts[e][at]
      BY <1>1, <2>1, <2>3, Extended
    <3> QED BY <1>1, <2>1, <2>3, <3>1
  <2> QED BY <2>1, <2>2, <2>3
<1>4. CASE /\ attempts' = attempts
           /\ cell' = [cell EXCEPT ![c] = [cell[c] EXCEPT !.promise = 0, !.deleted = TRUE]]
  <2>1. e # c
    <3>1. [cell[c] EXCEPT !.promise = 0, !.deleted = TRUE].deleted
      BY <1>1 DEF CellRows
    <3> QED BY <1>1, <1>4, <3>1
  <2> QED BY <1>1, <1>4, <2>1
<1> QED BY <1>2, <1>3, <1>4 DEF Shares

LEMMA ShareStep ==
  ASSUME Base, Base', ShareOK, ~May("close"), [Next]_vars
  PROVE  ShareOK'
<1> USE DEF Open
<1>1. /\ calls \in [Clients -> Seq(CallRows)] /\ attempts \in [Clients -> Seq(AttemptRows)]
      /\ \A e \in Clients : \A j \in DOMAIN calls[e] : calls[e][j].at \in DOMAIN attempts[e]
  <2>1. calls \in [Clients -> Seq(CallRows)] /\ attempts \in [Clients -> Seq(AttemptRows)]
    BY DEF Base, Types
  <2> QED BY <2>1, LenProperties DEF Base, Links, Attached
<1>2. ASSUME NEW c \in Clients, Attempt(c) PROVE ShareOK'
  <2>1. PICK i, a : GoesOn(c, i, a)
    BY <1>2, AttemptStep
  <2>2. /\ i \in DOMAIN attempts[c] /\ attempts[c][i].stage \notin Settled /\ a \in AttemptRows
        /\ attempts' = [attempts EXCEPT ![c] = [attempts[c] EXCEPT ![i] = a]]
        /\ \A e \in Clients :
             /\ cell'[e].deleted = cell[e].deleted
             /\ \/ cell'[e].promise = cell[e].promise
                \/ e = c /\ cell[c].promise = i /\ cell'[c].promise = 0 /\ a.stage = "failed"
    BY <2>1 DEF GoesOn, Progress
  <2>3. \A e \in Clients : \A j \in DOMAIN attempts[e] :
          attempts'[e][j] = IF e = c /\ j = i THEN a ELSE attempts[e][j]
    BY <1>1, <2>2, Replaced
  <2>4. UNCHANGED calls
    BY <1>2, AttemptStep
  <2>5. ASSUME NEW e \in Clients, NEW k \in DOMAIN calls[e], Open(calls[e][k]), ~cell'[e].deleted
        PROVE  attempts'[e][calls[e][k].at].stage = "failed" \/ cell'[e].promise = calls[e][k].at
    <3> DEFINE at == calls[e][k].at
    <3>1. at \in DOMAIN attempts[e] /\ (attempts[e][at].stage = "failed" \/ cell[e].promise = at)
      BY <1>1, <2>2, <2>5 DEF ShareOK, HandleOf
    <3>2. attempts'[e][at] = IF e = c /\ at = i THEN a ELSE attempts[e][at]
      BY <2>3, <3>1
    <3> HIDE DEF at
    <3> QED BY <2>2, <3>1, <3>2 DEF Settled, at
  <2> QED BY <2>4, <2>5 DEF ShareOK, HandleOf
<1>3. ASSUME NEW c \in Clients, Call(c) PROVE ShareOK'
  <2>1. Shares(c) /\ Advances(c)
    BY <1>3, CallStep DEF Advances
  <2>2. PICK k \in DOMAIN calls[c], call \in CallRows :
          /\ calls' = [calls EXCEPT ![c] = [calls[c] EXCEPT ![k] = call]]
          /\ call.stage \in Ended \union {"script"} \/ call.at = cell'[c].promise
          /\ call.stage = "script" => NextBatch(c, k, call)
    BY <2>1 DEF Advances
  <2>3. /\ \A e \in Clients : DOMAIN calls'[e] = DOMAIN calls[e]
        /\ \A e \in Clients : \A j \in DOMAIN calls[e] :
             calls'[e][j] = IF e = c /\ j = k THEN call ELSE calls[e][j]
    BY <1>1, <2>2, Replaced
  <2>4. ASSUME NEW e \in Clients, NEW j \in DOMAIN calls[e], Open(calls[e][j]), ~cell'[e].deleted
        PROVE  attempts'[e][calls[e][j].at].stage = "failed" \/ cell'[e].promise = calls[e][j].at
    BY <1>1, <2>1, <2>4, SharesKeepsShared DEF ShareOK, HandleOf
  <2>5. ASSUME NEW e \in Clients, NEW j \in DOMAIN calls'[e], Open(calls'[e][j]), ~cell'[e].deleted
        PROVE  attempts'[e][calls'[e][j].at].stage = "failed" \/ cell'[e].promise = calls'[e][j].at
    <3>1. CASE e = c /\ j = k /\ call.stage = "script"
      <4>1. calls[c][k].stage = "script" /\ call.at = calls[c][k].at
        BY <2>2, <3>1 DEF NextBatch
      <4>2. Open(calls[c][k])
        BY <4>1 DEF Ended
      <4>3. attempts'[c][calls[c][k].at].stage = "failed" \/ cell'[c].promise = calls[c][k].at
        BY <2>4, <2>5, <3>1, <4>2
      <4> QED BY <2>3, <3>1, <4>1, <4>3
    <3>2. CASE ~(e = c /\ j = k /\ call.stage = "script")
      <4>1. CASE e = c /\ j = k
        BY <2>2, <2>3, <2>5, <3>2, <4>1
      <4>2. CASE ~(e = c /\ j = k)
        BY <2>3, <2>4, <2>5, <4>2
      <4> QED BY <4>1, <4>2
    <3> QED BY <3>1, <3>2
  <2> QED BY <2>5 DEF ShareOK, HandleOf
<1>4. ASSUME NEW c \in Clients, NEW op \in Operations, NEW at \in Nat,
             calls' = [calls EXCEPT ![c] = Append(@, NewCall(op, at))],
             op = "createDb" \/ at = cell'[c].promise,
             \A e \in Clients : \A j \in DOMAIN calls[e] : Open(calls[e][j]) /\ ~cell'[e].deleted =>
               attempts'[e][calls[e][j].at].stage = "failed" \/ cell'[e].promise = calls[e][j].at
      PROVE  ShareOK'
  <2> DEFINE new == NewCall(op, at)
  <2>1. new \in CallRows /\ new.stage = op /\ new.at = at
    BY DEF NewCall, CallRows, CallStages, Operations
  <2>2. calls' = [calls EXCEPT ![c] = Append(calls[c], new)]
    BY <1>1, <1>4
  <2> HIDE DEF new
  <2>3. \A e \in Clients : \A j \in DOMAIN calls'[e] :
          \/ j \in DOMAIN calls[e] /\ calls'[e][j] = calls[e][j]
          \/ e = c /\ j = Len(calls[c]) + 1 /\ calls'[e][j] = new
    BY <1>1, <2>1, <2>2, Extended
  <2> QED BY <1>4, <2>1, <2>3 DEF ShareOK, HandleOf
<1>5. ASSUME NEW c \in Clients, NEW op \in Operations, Begin(c, op) PROVE ShareOK'
  <2>1. /\ Connect(c) /\ ~cell[c].deleted
        /\ calls' = [calls EXCEPT ![c] = Append(@, NewCall(op, database(c).at))]
    BY <1>5 DEF Begin, Acts
  <2>2. database(c).at = cell'[c].promise /\ database(c).at \in Nat
    BY <2>1, Connected DEF CellRows
  <2>3. Shares(c)
    BY <2>1 DEF Shares
  <2>4. ASSUME NEW e \in Clients, NEW j \in DOMAIN calls[e], Open(calls[e][j]), ~cell'[e].deleted
        PROVE  attempts'[e][calls[e][j].at].stage = "failed" \/ cell'[e].promise = calls[e][j].at
    BY <1>1, <2>3, <2>4, SharesKeepsShared DEF ShareOK, HandleOf
  <2> QED BY <1>4, <2>1, <2>2, <2>4
<1>6. ASSUME NEW c \in Clients, BeginCreateDb(c) PROVE ShareOK'
  <2> DEFINE a == [stage |-> "load", env |-> Torn, id |-> NoDb, closed |-> FALSE, lazy |-> FALSE]
  <2>1. /\ attempts' = [attempts EXCEPT ![c] = Append(attempts[c], a)] /\ UNCHANGED cell
        /\ calls' = [calls EXCEPT ![c] = Append(@, NewCall("createDb", Len(attempts[c]) + 1))]
    BY <1>1, <1>6 DEF BeginCreateDb, Acts
  <2>2. a \in AttemptRows
    BY Bounds DEF AttemptRows, Stages, Torn, Envs, NoDb
  <2> HIDE DEF a
  <2>3. \A e \in Clients : \A j \in DOMAIN attempts[e] : attempts'[e][j] = attempts[e][j]
    BY <1>1, <2>1, <2>2, Extended
  <2>4. Len(attempts[c]) + 1 \in Nat /\ "createDb" \in Operations
    BY <1>1, LenProperties DEF Operations
  <2>5. \A e \in Clients : \A j \in DOMAIN calls[e] : Open(calls[e][j]) /\ ~cell'[e].deleted =>
          attempts'[e][calls[e][j].at].stage = "failed" \/ cell'[e].promise = calls[e][j].at
    BY <1>1, <2>1, <2>3 DEF ShareOK, HandleOf
  <2> HIDE DEF Open
  <2> QED BY <1>4, <2>1, <2>4, <2>5
<1>7. ASSUME NEW c \in Clients, Crash(c) PROVE ShareOK'
  <2>1. /\ attempts' = [attempts EXCEPT ![c] = <<>>] /\ calls' = [calls EXCEPT ![c] = <<>>]
        /\ cell' = [cell EXCEPT ![c] = Unconnected]
    BY <1>7 DEF Crash
  <2>2. DOMAIN <<>> = {}
    OBVIOUS
  <2>3. \A e \in Clients : e # c => attempts'[e] = attempts[e] /\ calls'[e] = calls[e] /\ cell'[e] = cell[e]
    BY <1>1, <2>1 DEF Base, Types
  <2>4. calls'[c] = <<>>
    BY <1>1, <2>1
  <2> QED BY <2>2, <2>3, <2>4 DEF ShareOK, HandleOf
<1>8. ASSUME NEW c \in Clients, closeCachedDatabase(c) PROVE FALSE
  BY <1>8 DEF closeCachedDatabase, Acts
<1>9. CASE UNCHANGED vars
  BY <1>9 DEF vars, ShareOK, HandleOf
<1> QED BY <1>2, <1>3, <1>5, <1>6, <1>7, <1>8, <1>9 DEF Next

-----------------------------------------------------------------------------
(* Migrations.                                                             *)

(* The versions of each database are a prefix of the migrations, and a call*)
(* that applies one has seen all before it in its database.                *)
Applying(call, versions) ==
  call.seen \subseteq ToSet(versions) /\ 1..(call.step - 1) \subseteq call.seen
VersionsOK ==
  /\ \A d \in Ids : \A n \in DOMAIN remote[d].versions : remote[d].versions[n] = n
  /\ \A c \in Clients : \A k \in DOMAIN calls[c] : calls[c][k].stage = "apply" =>
       /\ HandleOf(c, k).stage = "done"
       /\ Applying(calls[c][k], remote[HandleOf(c, k).id].versions)

(* The versions of a database stay, or grow by the next.                   *)
MovesOn == \A d \in Ids : \/ remote'[d].versions = remote[d].versions
                          \/ remote'[d].versions = Append(remote[d].versions, Len(remote[d].versions) + 1)

(* A call that applies a migration is where it was, or at the next missing.*)
Applies(e, k) ==
  calls'[e][k].stage = "apply" =>
    /\ k \in DOMAIN calls[e] /\ calls'[e][k].at = calls[e][k].at
    /\ \/ calls'[e][k] = calls[e][k]
       \/ /\ HandleOf(e, k).stage = "done"
          /\ Applying(calls'[e][k], remote'[HandleOf(e, k).id].versions)

LEMMA VersionsKept ==
  ASSUME Base, Base', VersionsOK, MovesOn,
         \A e \in Clients : StaysDone(e) \/ calls'[e] = <<>>,
         \A e \in Clients : \A k \in DOMAIN calls'[e] : Applies(e, k)
  PROVE  VersionsOK'
<1>1. \A d \in Ids : /\ remote[d].versions \in Seq(1..MaxVersion) /\ Len(remote[d].versions) \in Nat
                     /\ \A n \in DOMAIN remote[d].versions : remote[d].versions[n] = n
  BY LenProperties DEF Base, Types, DbRows, VersionsOK
<1>2. ASSUME NEW d \in Ids
      PROVE  /\ \A n \in DOMAIN remote'[d].versions : remote'[d].versions[n] = n
             /\ ToSet(remote[d].versions) \subseteq ToSet(remote'[d].versions)
  <2> DEFINE s == remote[d].versions
             t == Append(s, Len(s) + 1)
  <2>1. CASE remote'[d].versions = s
    BY <1>1, <2>1
  <2>2. CASE remote'[d].versions = t
    <3>1. s \in Seq(Nat) /\ Len(s) \in Nat /\ Len(s) + 1 \in Nat /\ \A n \in DOMAIN s : s[n] = n
      <4>1. s \in Seq(1..MaxVersion) /\ 1..MaxVersion \subseteq Nat
        BY <1>1
      <4> QED BY <1>1, <4>1, SeqMonotonic
    <3> HIDE DEF s
    <3>2. /\ t \in Seq(Nat) /\ Len(t) = Len(s) + 1
          /\ \A n \in 1..Len(s) : t[n] = s[n]
          /\ t[Len(s) + 1] = Len(s) + 1
      BY <3>1, AppendProperties
    <3>3. DOMAIN s = 1..Len(s) /\ DOMAIN t = 1..Len(t)
      <4> HIDE DEF t
      <4> QED BY <3>1, <3>2, LenProperties
    <3> HIDE DEF t
    <3>4. \A n \in 1..(Len(s) + 1) : n \in 1..Len(s) \/ n = Len(s) + 1
      BY <3>1
    <3>5. \A n \in 1..Len(s) : n \in 1..(Len(s) + 1)
      BY <3>1
    <3>6. \A n \in DOMAIN t : t[n] = n
      BY <3>1, <3>2, <3>3, <3>4
    <3>7. ToSet(s) \subseteq ToSet(t)
      BY <3>2, <3>3, <3>5 DEF ToSet
    <3> QED BY <2>2, <3>6, <3>7 DEF s
  <2> QED BY <2>1, <2>2 DEF MovesOn
<1>3. ASSUME NEW c \in Clients, NEW k \in DOMAIN calls'[c], calls'[c][k].stage = "apply"
      PROVE  /\ HandleOf(c, k)'.stage = "done"
             /\ Applying(calls'[c][k], remote'[HandleOf(c, k)'.id].versions)
  <2>1. StaysDone(c)
    <3>1. DOMAIN <<>> = {}
      OBVIOUS
    <3> QED BY <1>3, <3>1
  <2>2. /\ k \in DOMAIN calls[c] /\ calls'[c][k].at = calls[c][k].at
        /\ HandleOf(c, k).stage = "done"
        /\ \/ calls'[c][k] = calls[c][k]
           \/ Applying(calls'[c][k], remote'[HandleOf(c, k).id].versions)
    BY <1>3 DEF Applies, VersionsOK
  <2>3. calls[c][k].at \in DOMAIN attempts[c]
    BY <2>2, LenProperties DEF Base, Types, Links, Attached
  <2>4. HandleOf(c, k).id \in Ids
    BY <2>2, CallRow DEF Identified
  <2>5. /\ HandleOf(c, k)'.stage = "done" /\ HandleOf(c, k)'.id = HandleOf(c, k).id
    BY <2>1, <2>2, <2>3 DEF HandleOf, StaysDone
  <2>6. CASE calls'[c][k] = calls[c][k]
    <3>1. Applying(calls[c][k], remote[HandleOf(c, k).id].versions)
      BY <1>3, <2>2, <2>6 DEF VersionsOK
    <3> QED BY <1>2, <2>4, <2>5, <2>6, <3>1 DEF Applying
  <2> QED BY <2>2, <2>5, <2>6
<1> QED BY <1>2, <1>3 DEF VersionsOK, Applying

(* A change of another field leaves the versions.                          *)
LEMMA OtherThanVersions ==
  ASSUME Base, NEW d, NEW v,
         \/ remote' = [remote EXCEPT ![d].status = v]
         \/ remote' = [remote EXCEPT ![d].ready = v]
         \/ remote' = [remote EXCEPT ![d].table = v]
         \/ remote' = [remote EXCEPT ![d].chunks = v]
  PROVE  MovesOn
<1> SUFFICES ASSUME NEW e \in Ids PROVE remote'[e].versions = remote[e].versions
  BY DEF MovesOn
<1>1. remote \in [Ids -> DbRows] /\ remote[e] \in DbRows
  BY DEF Base, Types
<1>2. /\ [remote[e] EXCEPT !.status = v].versions = remote[e].versions
      /\ [remote[e] EXCEPT !.ready = v].versions = remote[e].versions
      /\ [remote[e] EXCEPT !.table = v].versions = remote[e].versions
      /\ [remote[e] EXCEPT !.chunks = v].versions = remote[e].versions
  BY <1>1 DEF DbRows
<1>3. CASE remote' = [remote EXCEPT ![d].status = v]
  BY <1>1, <1>2, <1>3
<1>4. CASE remote' = [remote EXCEPT ![d].ready = v]
  BY <1>1, <1>2, <1>4
<1>5. CASE remote' = [remote EXCEPT ![d].table = v]
  BY <1>1, <1>2, <1>5
<1>6. CASE remote' = [remote EXCEPT ![d].chunks = v]
  BY <1>1, <1>2, <1>6
<1> QED BY <1>3, <1>4, <1>5, <1>6

(* A call takes a stage in which no migration is applied.                  *)
Leaves(c, k) ==
  \E call : calls' = [calls EXCEPT ![c] = [calls[c] EXCEPT ![k] = call]] /\ call.stage # "apply"

LEMMA AskLeaves ==
  ASSUME Base, NEW c \in Clients, NEW k \in DOMAIN calls[c], NEW call \in CallRows,
         \/ Return(c, k, call) \/ AskAgain(c, k, call), call.stage # "apply"
  PROVE  Leaves(c, k)
<1>1. [calls[c][k] EXCEPT !.stage = "failed"].stage # "apply"
  BY CallRow DEF CallRows
<1>2. [call EXCEPT !.at = database(c).at].stage = call.stage
  BY DEF CallRows
<1> QED BY <1>1, <1>2 DEF Return, AskAgain, End, Leaves

LEMMA EndLeaves ==
  ASSUME Base, NEW c \in Clients, NEW k \in DOMAIN calls[c], NEW stage, End(c, k, stage), stage # "apply"
  PROVE  Leaves(c, k)
<1>1. [calls[c][k] EXCEPT !.stage = stage].stage # "apply"
  BY CallRow DEF CallRows
<1> QED BY <1>1 DEF End, Return, Leaves

(* A migration goes on in the database whose versions it has seen.         *)
LEMMA ProceedApplies ==
  ASSUME Base, ShareOK, NEW c \in Clients, NEW k \in DOMAIN calls[c],
         HandleOf(c, k).stage = "done", Open(calls[c][k]),
         NEW seen \in SUBSET (1..MaxVersion), Proceed(c, k, seen)
  PROVE  \E call : /\ calls' = [calls EXCEPT ![c] = [calls[c] EXCEPT ![k] = call]]
                   /\ call.stage = "apply" => /\ call.at = calls[c][k].at /\ call.seen = seen
                                             /\ 1..(call.step - 1) \subseteq seen
<1> DEFINE missing == 1..MaxVersion \ seen
           call == [calls[c][k] EXCEPT !.seen = seen]
           last == [call EXCEPT !.stage = "ok"]
           next == [call EXCEPT !.stage = "apply", !.step = Min(missing)]
           again == [next EXCEPT !.at = database(c).at]
           failed == [calls[c][k] EXCEPT !.stage = "failed"]
<1>1. calls[c][k] \in CallRows /\ Attached(calls[c][k], Len(attempts[c]))
  BY CallRow
<1>2. call \in CallRows /\ call.at = calls[c][k].at /\ call.seen = seen
  BY <1>1 DEF CallRows
<1>3. \/ calls' = [calls EXCEPT ![c] = [calls[c] EXCEPT ![k] = failed]]
      \/ calls' = [calls EXCEPT ![c] = [calls[c] EXCEPT ![k] = last]]
      \/ /\ missing # {} /\ ~cell[c].deleted
         /\ calls' = [calls EXCEPT ![c] = [calls[c] EXCEPT ![k] = again]]
  BY DEF Proceed, AskAgain, Return, End
<1>4. failed.stage # "apply" /\ last.stage # "apply"
  <2>1. failed.stage # "apply"
    BY <1>1 DEF CallRows
  <2> HIDE DEF call
  <2>2. last.stage # "apply"
    BY <1>2 DEF CallRows
  <2> QED BY <2>1, <2>2
<1>5. CASE missing # {} /\ ~cell[c].deleted
  <2>1. cell[c].promise = calls[c][k].at /\ calls[c][k].at # 0
    <3>1. cell[c].promise = calls[c][k].at
      BY <1>5 DEF ShareOK
    <3>2. Len(attempts[c]) \in Nat
      BY LenProperties DEF Base, Types
    <3> QED BY <1>1, <3>1, <3>2 DEF Attached
  <2>2. database(c).at = calls[c][k].at
    BY <2>1 DEF database
  <2>3. Min(missing) \in 1..MaxVersion /\ \A v \in missing : Min(missing) <= v
    <3>1. missing \in SUBSET (1..MaxVersion)
      OBVIOUS
    <3> HIDE DEF missing
    <3> QED BY <1>5, <3>1, MinOfVersions
  <2>4. 1..(Min(missing) - 1) \subseteq seen
    <3> SUFFICES ASSUME NEW v \in 1..(Min(missing) - 1) PROVE v \in seen
      OBVIOUS
    <3> DEFINE m == Min(missing)
    <3>1. MaxVersion \in Nat /\ m \in 1..MaxVersion /\ v \in 1..(m - 1)
      BY <2>3, Bounds
    <3> HIDE DEF m
    <3>2. v \in 1..MaxVersion /\ ~(m <= v)
      BY <3>1
    <3>3. v \notin missing
      <4> HIDE DEF missing
      <4> QED BY <2>3, <3>2 DEF m
    <3> QED BY <3>2, <3>3
  <2>5. next.step = Min(missing) /\ next.at = call.at /\ next.seen = call.seen
    <3> HIDE DEF call, missing
    <3> QED BY <1>2 DEF CallRows
  <2>6. again.step = Min(missing) /\ again.at = calls[c][k].at /\ again.seen = seen
    <3>1. next.step = Min(missing) /\ next.seen = seen /\ DOMAIN next = {"stage", "at", "step", "seen"}
      <4> HIDE DEF call, missing
      <4> QED BY <1>2, <2>5 DEF CallRows
    <3> HIDE DEF next, missing
    <3> QED BY <2>2, <3>1
  <2> HIDE DEF failed, last, again
  <2>7. 1..(again.step - 1) \subseteq seen
    BY <2>4, <2>6
  <2> QED BY <1>3, <1>4, <2>6, <2>7
<1>6. CASE ~(missing # {} /\ ~cell[c].deleted)
  <2> HIDE DEF failed, last, again, missing
  <2> QED BY <1>3, <1>4, <1>6
<1> QED BY <1>5, <1>6

(* What a call does to the versions of databases, and what it knows then.  *)
LEMMA CallMoves ==
  ASSUME Base, VersionsOK, ShareOK, NEW c \in Clients, Call(c)
  PROVE  /\ MovesOn
         /\ \E k \in DOMAIN calls[c] : \E call :
              /\ calls' = [calls EXCEPT ![c] = [calls[c] EXCEPT ![k] = call]]
              /\ call.stage = "apply" =>
                   /\ call.at = calls[c][k].at /\ HandleOf(c, k).stage = "done"
                   /\ Applying(call, remote'[HandleOf(c, k).id].versions)
<1> DEFINE Goal == \E k \in DOMAIN calls[c] : \E call :
                     /\ calls' = [calls EXCEPT ![c] = [calls[c] EXCEPT ![k] = call]]
                     /\ call.stage = "apply" =>
                          /\ call.at = calls[c][k].at /\ HandleOf(c, k).stage = "done"
                          /\ Applying(call, remote'[HandleOf(c, k).id].versions)
<1>1. PICK k : \/ Rejected(c, k) \/ executeStatementBatches(c, k) \/ ensureMigrationTable(c, k)
               \/ readVersions(c, k) \/ migrate(c, k) \/ deleteDatabase(c, k)
               \/ createDatabaseFromCreateDbOptions(c, k)
  BY DEF Call
<1>2. k \in DOMAIN calls[c]
  BY <1>1 DEF Rejected, executeStatementBatches, Batch, ensureMigrationTable, readVersions, migrate,
              deleteDatabase, createDatabaseFromCreateDbOptions, Handle, Pending
<1>3. calls[c][k] \in CallRows
  BY <1>2, CallRow
<1>4. Leaves(c, k) => Goal
  BY <1>2 DEF Leaves
<1>5. UNCHANGED remote => MovesOn
  BY DEF MovesOn
<1>6. \A stage : End(c, k, stage) /\ stage # "apply" => Leaves(c, k)
  BY <1>2, EndLeaves
<1> DEFINE d == HandleOf(c, k).id
<1>7. CASE Rejected(c, k) \/ createDatabaseFromCreateDbOptions(c, k)
  BY <1>4, <1>5, <1>6, <1>7 DEF Rejected, createDatabaseFromCreateDbOptions
<1>8. CASE executeStatementBatches(c, k)
  <2> DEFINE next == IF calls[c][k].step = Chunks THEN [calls[c][k] EXCEPT !.stage = "ok"]
                     ELSE [calls[c][k] EXCEPT !.step = calls[c][k].step + 1]
  <2>1. /\ Handle(c, k, "script")
        /\ UNCHANGED remote \/ \E v : remote' = [remote EXCEPT ![d].chunks = v]
        /\ End(c, k, "failed") \/ Return(c, k, next)
    <3>1. HandleOf(c, k).id \in Ids
      BY <1>8, HandleDb DEF executeStatementBatches, Batch
    <3> QED BY <1>8, <3>1 DEF executeStatementBatches, Batch, Request, Base, Types
  <2>2. calls[c][k].stage = "script"
    BY <2>1 DEF Handle, Pending
  <2>3. next \in CallRows /\ next.stage # "apply"
    BY <1>3, <2>2 DEF CallRows, CallStages, Ended
  <2> HIDE DEF next
  <2>4. Leaves(c, k)
    BY <1>2, <1>6, <2>1, <2>3, AskLeaves
  <2> QED BY <1>4, <1>5, <2>1, <2>4, OtherThanVersions
<1>9. CASE ensureMigrationTable(c, k)
  <2> DEFINE asks(stage) == [calls[c][k] EXCEPT !.stage = stage]
  <2>1. /\ UNCHANGED remote \/ remote' = [remote EXCEPT ![d].table = TRUE]
        /\ AskAgain(c, k, asks("versions")) \/ AskAgain(c, k, asks("table")) \/ End(c, k, "failed")
    BY <1>9 DEF ensureMigrationTable, Request
  <2>2. \A stage \in {"versions", "table"} : asks(stage) \in CallRows /\ asks(stage).stage # "apply"
    BY <1>3 DEF CallRows, CallStages
  <2> HIDE DEF asks
  <2>3. Leaves(c, k)
    BY <1>2, <1>6, <2>1, <2>2, AskLeaves
  <2> QED BY <1>4, <1>5, <2>1, <2>3, OtherThanVersions
<1>10. CASE deleteDatabase(c, k)
  <2>1. UNCHANGED remote \/ remote' = [remote EXCEPT ![d].status = "deleted"]
    BY <1>10 DEF deleteDatabase
  <2>2. [calls[c][k] EXCEPT !.stage = "ok"].stage # "apply"
    BY <1>3 DEF CallRows
  <2>3. \/ End(c, k, "failed")
        \/ calls' = [calls EXCEPT ![c] = [calls[c] EXCEPT ![k] = [calls[c][k] EXCEPT !.stage = "ok"]]]
    BY <1>10 DEF deleteDatabase
  <2>4. Leaves(c, k)
    BY <1>6, <2>2, <2>3 DEF Leaves
  <2> QED BY <1>4, <1>5, <2>1, <2>4, OtherThanVersions
<1>11. CASE readVersions(c, k)
  <2>1. /\ Handle(c, k, "versions") /\ UNCHANGED remote
        /\ Proceed(c, k, ToSet(remote[d].versions)) \/ End(c, k, "failed")
    BY <1>11 DEF readVersions
  <2>2. HandleOf(c, k).stage = "done" /\ calls[c][k].stage = "versions" /\ d \in Ids
    BY <2>1, HandleDb DEF Handle
  <2>3. CASE End(c, k, "failed")
    BY <1>4, <1>5, <1>6, <2>1, <2>3
  <2>4. CASE Proceed(c, k, ToSet(remote[d].versions))
    <3> DEFINE seen == ToSet(remote[d].versions)
    <3>1. seen \in SUBSET (1..MaxVersion)
      BY <2>2, ElementsOf DEF Base, Types, DbRows
    <3>2. Open(calls[c][k])
      BY <2>2 DEF Open, Ended
    <3> HIDE DEF seen
    <3>3. PICK call : /\ calls' = [calls EXCEPT ![c] = [calls[c] EXCEPT ![k] = call]]
                      /\ call.stage = "apply" => /\ call.at = calls[c][k].at /\ call.seen = seen
                                                /\ 1..(call.step - 1) \subseteq seen
      BY <1>2, <2>2, <2>4, <3>1, <3>2, ProceedApplies DEF seen
    <3>4. remote'[d].versions = remote[d].versions
      BY <2>1
    <3>5. call.stage = "apply" => Applying(call, remote'[HandleOf(c, k).id].versions)
      BY <3>3, <3>4 DEF Applying, seen
    <3> QED BY <1>2, <1>5, <2>1, <2>2, <3>3, <3>5
  <2> QED BY <2>1, <2>3, <2>4
<1>12. CASE migrate(c, k)
  <2> DEFINE n == calls[c][k].step
             s == remote[d].versions
             seen == calls[c][k].seen \union {n}
  <2>1. /\ Handle(c, k, "apply")
        /\ \/ End(c, k, "failed")
           \/ /\ n \notin ToSet(s) /\ remote' = [remote EXCEPT ![d].versions = Append(@, n)]
              /\ Proceed(c, k, seen)
        /\ \/ UNCHANGED remote
           \/ n \notin ToSet(s) /\ remote' = [remote EXCEPT ![d].versions = Append(@, n)]
    BY <1>12 DEF migrate, Request
  <2>2. HandleOf(c, k).stage = "done" /\ calls[c][k].stage = "apply" /\ d \in Ids
    BY <2>1, HandleDb DEF Handle
  <2>3. /\ s \in Seq(1..MaxVersion) /\ s \in Seq(Nat) /\ Len(s) \in Nat
        /\ \A v \in DOMAIN s : s[v] = v
    <3>1. s \in Seq(1..MaxVersion)
      BY <2>2 DEF Base, Types, DbRows
    <3>2. 1..MaxVersion \subseteq Nat
      BY Bounds
    <3> QED BY <2>2, <3>1, <3>2, SeqMonotonic, LenProperties DEF VersionsOK
  <2>4. /\ n \in 1..MaxVersion /\ n \in Nat /\ calls[c][k].seen \subseteq ToSet(s)
        /\ 1..(n - 1) \subseteq calls[c][k].seen
    BY <1>2, <2>2, CallRow, Bounds DEF Attached, VersionsOK, Applying, CallRows
  <2>5. calls[c][k].seen \in SUBSET (1..MaxVersion) /\ seen \in SUBSET (1..MaxVersion)
    BY <1>3, <2>4 DEF CallRows
  <2>6. /\ remote' = [remote EXCEPT ![d].versions = Append(@, n)]
        => /\ remote'[d].versions = Append(s, n)
           /\ \A e \in Ids \ {d} : remote'[e] = remote[e]
    BY <2>2 DEF Base, Types, DbRows
  <2> HIDE DEF s, n
  <2>7. n \notin ToSet(s) => n = Len(s) + 1
    <3>1. CASE n = 1
      <4>1. 1 <= Len(s) => 1 \in ToSet(s)
        BY <2>3, PrefixLength
      <4> QED BY <2>3, <3>1, <4>1
    <3>2. CASE n # 1
      <4>1. n - 1 \in Nat /\ n - 1 \in 1..(n - 1)
        BY <2>4, <3>2
      <4>2. n - 1 <= Len(s)
        BY <2>3, <2>4, <4>1, PrefixLength
      <4>3. n >= 1 /\ n <= Len(s) => n \in ToSet(s)
        BY <2>3, <2>4, PrefixLength
      <4> QED BY <2>3, <2>4, <4>2, <4>3
    <3> QED BY <3>1, <3>2
  <2>8. MovesOn
    BY <1>5, <2>1, <2>2, <2>6, <2>7 DEF MovesOn, s
  <2>9. CASE End(c, k, "failed")
    BY <1>4, <1>6, <2>8, <2>9
  <2>10. CASE /\ remote' = [remote EXCEPT ![d].versions = Append(@, n)]
              /\ Proceed(c, k, seen)
    <3>1. Open(calls[c][k])
      BY <2>2 DEF Open, Ended
    <3>2. seen \subseteq ToSet(remote'[d].versions)
      <4>1. ToSet(s) \subseteq ToSet(Append(s, n)) /\ n \in ToSet(Append(s, n))
        <5>1. n \in ToSet(Append(s, n))
          BY <2>3, <2>4, LastOf
        <5>2. /\ Append(s, n) \in Seq(Nat) /\ Len(Append(s, n)) = Len(s) + 1
              /\ \A i \in 1..Len(s) : Append(s, n)[i] = s[i]
          BY <2>3, <2>4, AppendProperties
        <5>3. DOMAIN s = 1..Len(s) /\ DOMAIN Append(s, n) = 1..(Len(s) + 1)
          BY <2>3, <5>2, LenProperties
        <5>4. \A i \in 1..Len(s) : i \in 1..(Len(s) + 1)
          BY <2>3
        <5> QED BY <5>1, <5>2, <5>3, <5>4 DEF ToSet
      <4> QED BY <2>4, <2>6, <2>10, <4>1 DEF seen
    <3> HIDE DEF seen
    <3>3. PICK call : /\ calls' = [calls EXCEPT ![c] = [calls[c] EXCEPT ![k] = call]]
                      /\ call.stage = "apply" => /\ call.at = calls[c][k].at /\ call.seen = seen
                                                /\ 1..(call.step - 1) \subseteq seen
      BY <1>2, <2>2, <2>5, <2>10, <3>1, ProceedApplies
    <3>4. call.stage = "apply" => Applying(call, remote'[HandleOf(c, k).id].versions)
      BY <3>2, <3>3 DEF Applying
    <3> QED BY <1>2, <2>2, <2>8, <3>3, <3>4
  <2> QED BY <2>1, <2>9, <2>10
<1> QED BY <1>1, <1>7, <1>8, <1>9, <1>10, <1>11, <1>12

LEMMA MigrationsStep ==
  ASSUME Base, Base', VersionsOK, ShareOK, [Next]_vars
  PROVE  VersionsOK'
<1>1. /\ calls \in [Clients -> Seq(CallRows)] /\ attempts \in [Clients -> Seq(AttemptRows)]
  BY DEF Base, Types
<1>2. /\ UNCHANGED remote => MovesOn
      /\ UNCHANGED calls => \A e \in Clients : \A k \in DOMAIN calls'[e] : Applies(e, k)
  BY DEF MovesOn, Applies
<1>3. ASSUME NEW c \in Clients, Attempt(c) PROVE VersionsOK'
  <2>1. MovesOn
    BY <1>2, <1>3, AttemptChanges, OtherThanVersions
  <2>2. (\A e \in Clients : StaysDone(e)) /\ UNCHANGED calls
    BY <1>3, AttemptStep, AttemptStaysDone
  <2> QED BY <1>2, <2>1, <2>2, VersionsKept
<1>4. ASSUME NEW c \in Clients, Call(c) PROVE VersionsOK'
  <2>0. PICK k \in DOMAIN calls[c] : \E call :
          /\ calls' = [calls EXCEPT ![c] = [calls[c] EXCEPT ![k] = call]]
          /\ call.stage = "apply" =>
               /\ call.at = calls[c][k].at /\ HandleOf(c, k).stage = "done"
               /\ Applying(call, remote'[HandleOf(c, k).id].versions)
    BY <1>4, CallMoves
  <2>1. PICK call :
          /\ calls' = [calls EXCEPT ![c] = [calls[c] EXCEPT ![k] = call]]
          /\ call.stage = "apply" =>
               /\ call.at = calls[c][k].at /\ HandleOf(c, k).stage = "done"
               /\ Applying(call, remote'[HandleOf(c, k).id].versions)
    BY <2>0
  <2>2. /\ \A e \in Clients : DOMAIN calls'[e] = DOMAIN calls[e]
        /\ \A e \in Clients : \A j \in DOMAIN calls[e] :
             calls'[e][j] = IF e = c /\ j = k THEN call ELSE calls[e][j]
    BY <1>1, <2>1
  <2>3. \A e \in Clients : \A j \in DOMAIN calls'[e] : Applies(e, j)
    BY <2>1, <2>2 DEF Applies
  <2>4. \A e \in Clients : StaysDone(e)
    BY <1>4, CallStep, SharesStaysDone DEF Advances
  <2> QED BY <1>4, <2>3, <2>4, CallMoves, VersionsKept
<1>5. ASSUME NEW c \in Clients, NEW op \in Operations, NEW at \in Nat, UNCHANGED remote,
             calls' = [calls EXCEPT ![c] = Append(@, NewCall(op, at))],
             \A e \in Clients : StaysDone(e)
      PROVE  VersionsOK'
  <2> DEFINE new == NewCall(op, at)
  <2>1. new \in CallRows /\ new.stage # "apply"
    BY <1>5 DEF NewCall, CallRows, CallStages, Operations
  <2>2. calls' = [calls EXCEPT ![c] = Append(calls[c], new)]
    BY <1>1, <1>5
  <2> HIDE DEF new
  <2>3. \A e \in Clients : \A j \in DOMAIN calls'[e] :
          \/ j \in DOMAIN calls[e] /\ calls'[e][j] = calls[e][j]
          \/ e = c /\ j = Len(calls[c]) + 1 /\ calls'[e][j] = new
    BY <1>1, <2>1, <2>2, Extended
  <2>4. \A e \in Clients : \A j \in DOMAIN calls'[e] : Applies(e, j)
    BY <2>1, <2>3 DEF Applies
  <2> QED BY <1>2, <1>5, <2>4, VersionsKept
<1>6. ASSUME NEW c \in Clients, NEW op \in Operations, Begin(c, op) PROVE VersionsOK'
  <2>1. /\ Connect(c) /\ ~cell[c].deleted /\ UNCHANGED remote
        /\ calls' = [calls EXCEPT ![c] = Append(@, NewCall(op, database(c).at))]
    BY <1>6 DEF Begin, Acts
  <2>2. \A e \in Clients : StaysDone(e)
    BY <2>1, SharesStaysDone DEF Shares
  <2>3. database(c).at \in Nat
    BY <2>1, Connected DEF CellRows
  <2> QED BY <1>5, <2>1, <2>2, <2>3
<1>7. ASSUME NEW c \in Clients, BeginCreateDb(c) PROVE VersionsOK'
  <2>1. /\ calls' = [calls EXCEPT ![c] = Append(@, NewCall("createDb", Len(attempts[c]) + 1))]
        /\ UNCHANGED remote
    BY <1>7 DEF BeginCreateDb, Acts
  <2>2. Len(attempts[c]) + 1 \in Nat /\ "createDb" \in Operations
    BY <1>1, LenProperties DEF Operations
  <2> QED BY <1>5, <1>7, <2>1, <2>2, CreateDbStaysDone
<1>8. ASSUME NEW c \in Clients, closeCachedDatabase(c) PROVE VersionsOK'
  <2>1. UNCHANGED <<remote, calls>>
    BY <1>8 DEF closeCachedDatabase, Acts
  <2> QED BY <1>2, <1>8, <2>1, CloseStaysDone, VersionsKept
<1>9. ASSUME NEW c \in Clients, Crash(c) PROVE VersionsOK'
  <2>1. UNCHANGED remote
    BY <1>9 DEF Crash
  <2>2. \A e \in Clients : e # c => calls'[e] = calls[e]
    BY <1>1, <1>9 DEF Crash
  <2>3. calls'[c] = <<>> /\ DOMAIN <<>> = {}
    BY <1>1, <1>9 DEF Crash
  <2>4. \A e \in Clients : \A k \in DOMAIN calls'[e] : Applies(e, k)
    BY <2>2, <2>3 DEF Applies
  <2> QED BY <1>2, <1>9, <2>1, <2>4, CrashStaysDone, VersionsKept
<1>10. CASE UNCHANGED vars
  BY <1>10 DEF vars, VersionsOK, HandleOf, Applying
<1> QED BY <1>3, <1>4, <1>6, <1>7, <1>8, <1>9, <1>10 DEF Next

-----------------------------------------------------------------------------
(* Creations whose answers arrive.                                         *)

Calm == ~Breaks("lost") /\ ~Breaks("crash")
SameStatus == \A d \in Ids : remote'[d].status = remote[d].status
NewStatus(d, status) ==
  \A e \in Ids : remote'[e].status = IF e = d THEN status ELSE remote[e].status
SameKnown == \A c \in Clients : cell'[c].known = cell[c].known

(* The next stage of a connection, and what it does to the file, to the    *)
(* databases, and to what the client remembers.                            *)
Turn(c, i, a) ==
  LET old == attempts[c][i]
  IN /\ old.stage \notin {"load", "create"} => a.id = old.id
     /\ \/ /\ old.stage = "load" /\ file' = file /\ SameStatus /\ SameKnown
           /\ \/ a.stage = "failed"
              \/ a.stage = "create" /\ a.id = old.id /\ file.db = NoDb
              \/ a.stage = "done"
        \/ /\ old.stage = "create" /\ file' = file /\ SameKnown
           /\ \/ a.stage = "failed" /\ SameStatus
              \/ a.stage = "setup" /\ a.id \in Ids /\ NewStatus(a.id, "hot")
        \/ /\ old.stage = "setup" /\ file' = file /\ SameStatus
           /\ \/ a.stage = "undo" /\ SameKnown
              \/ session.source = "file" /\ a.stage = "persist" /\ SameKnown
              \/ /\ session.source = "memory" /\ a.stage = "done"
                 /\ \A e \in Clients : cell'[e].known = IF e = c THEN old.id ELSE cell[e].known
        \/ /\ old.stage \in Persisting /\ SameStatus /\ SameKnown
           /\ \/ a.stage \in {"truncate", "fill", "undo"} /\ file'.db \in {file.db, NoDb}
              \/ a.stage \in {"done", "undo"} /\ file'.db = old.id
        \/ /\ old.stage = "undo" /\ file' = file /\ SameKnown
           /\ a.stage = "failed" /\ NewStatus(old.id, "undone")

LEMMA BecomesRow ==
  ASSUME Base, NEW c \in Clients, NEW i \in DOMAIN attempts[c], NEW a, Becomes(c, i, a)
  PROVE  attempts'[c][i] = a /\ SameKnown
<1>1. attempts \in [Clients -> Seq(AttemptRows)] /\ cell \in [Clients -> CellRows]
  BY DEF Base, Types
<1>2. attempts'[c][i] = a
  BY <1>1 DEF Becomes
<1>3. cell' = cell \/ cell' = [cell EXCEPT ![c].promise = 0]
  BY DEF Becomes, Forget
<1>4. SameKnown
  BY <1>1, <1>3 DEF SameKnown, CellRows
<1> QED BY <1>2, <1>4

LEMMA StatusOf ==
  ASSUME Base, NEW d \in Ids
  PROVE  /\ UNCHANGED remote => SameStatus
         /\ \A v : /\ remote' = [remote EXCEPT ![d].ready = v] => SameStatus
                   /\ remote' = [remote EXCEPT ![d].status = v] => NewStatus(d, v)
<1>1. remote \in [Ids -> DbRows]
  BY DEF Base, Types
<1>2. \A e \in Ids : \A v : /\ [remote[e] EXCEPT !.status = v].status = v
                            /\ [remote[e] EXCEPT !.ready = v].status = remote[e].status
  BY <1>1 DEF DbRows
<1>3. UNCHANGED remote => SameStatus
  BY DEF SameStatus
<1>4. ASSUME NEW v, remote' = [remote EXCEPT ![d].ready = v] PROVE SameStatus
  BY <1>1, <1>2, <1>4 DEF SameStatus
<1>5. ASSUME NEW v, remote' = [remote EXCEPT ![d].status = v] PROVE NewStatus(d, v)
  BY <1>1, <1>2, <1>5 DEF NewStatus
<1> QED BY <1>3, <1>4, <1>5

LEMMA TurnStep ==
  ASSUME Base, Calm, NEW c \in Clients, Attempt(c)
  PROVE  \E i, a : Progress(c, i, a) /\ Turn(c, i, a)
<1>1. PICK i : \/ LoadEnv(c, i) \/ CreateDatabase(c, i) \/ applyCreateSetup(c, i)
               \/ persistReads(c, i) \/ persistTruncates(c, i) \/ persistFills(c, i)
               \/ deleteCreated(c, i)
  BY DEF Attempt
<1> DEFINE old == attempts[c][i]
           new == attempts'[c][i]
<1>2. PICK a : GoesOn(c, i, a)
  BY <1>1, LoadStep, CreateStep, SetupStep, PersistStep, UndoStep
<1>3. Progress(c, i, a) /\ i \in DOMAIN attempts[c] /\ a = new
  <2>1. /\ Progress(c, i, a) /\ i \in DOMAIN attempts[c]
        /\ attempts' = [attempts EXCEPT ![c] = [attempts[c] EXCEPT ![i] = a]]
    BY <1>2 DEF GoesOn, Progress
  <2>2. attempts \in [Clients -> Seq(AttemptRows)]
    BY DEF Base, Types
  <2> QED BY <2>1, <2>2
<1>4. old \in AttemptRows /\ Identified(old)
  BY <1>3, AttemptRow
<1>5. \A b : Becomes(c, i, b) => new = b /\ SameKnown
  BY <1>3, BecomesRow
<1>6. 1 \in Ids
  BY Bounds DEF Ids
<1>7. UNCHANGED remote => SameStatus
  BY <1>6, StatusOf
<1>8. \A stage : LET next == [old EXCEPT !.stage = stage] IN next.stage = stage /\ next.id = old.id
  BY <1>4 DEF AttemptRows
<1>9. \A stage : Goes(c, i, stage) => new.stage = stage /\ new.id = old.id /\ SameKnown
  BY <1>5, <1>8 DEF Goes
<1>10. CASE LoadEnv(c, i)
  <2> DEFINE b == [old EXCEPT !.env = file]
             next == IF ~file.key \/ (file.db # NoDb /\ (file.setup \/ ~b.lazy)) \/ (~b.lazy /\ file.setup)
                     THEN [b EXCEPT !.stage = "failed"]
                     ELSE IF file.db # NoDb THEN [b EXCEPT !.stage = "done", !.id = file.db]
                     ELSE [b EXCEPT !.stage = "create"]
  <2>1. old.stage = "load" /\ Becomes(c, i, next) /\ UNCHANGED <<file, remote>>
    BY <1>10 DEF LoadEnv, At
  <2>2. b \in AttemptRows /\ b.id = old.id
    BY <1>4 DEF AttemptRows, Base, Types
  <2> HIDE DEF b
  <2>3. \/ next.stage = "failed"
        \/ next.stage = "create" /\ next.id = old.id /\ file.db = NoDb
        \/ next.stage = "done"
    BY <2>2 DEF AttemptRows
  <2> HIDE DEF next
  <2>4. new = next /\ SameKnown /\ SameStatus
    BY <1>5, <1>7, <2>1
  <2> HIDE DEF new
  <2>5. Turn(c, i, new)
    BY <2>1, <2>3, <2>4 DEF Turn
  <2> QED BY <1>3, <2>5
<1>11. CASE CreateDatabase(c, i)
  <2> DEFINE free == {d \in Ids : remote[d].status = "free"}
             d == Min(free)
             made == [old EXCEPT !.stage = "setup", !.id = d]
  <2>1. /\ old.stage = "create" /\ UNCHANGED file
        /\ \/ free # {} /\ remote' = [remote EXCEPT ![d].status = "hot"] /\ Becomes(c, i, made)
           \/ UNCHANGED remote /\ Goes(c, i, "failed")
    BY <1>11 DEF CreateDatabase, At, Calm
  <2>2. free # {} => d \in Ids
    <3>1. free # {} => d \in free
      <4>1. free \in SUBSET Ids
        OBVIOUS
      <4> HIDE DEF free
      <4> QED BY <4>1, MinOfIds
    <3> QED BY <3>1
  <2> HIDE DEF free, d
  <2>3. made.stage = "setup" /\ made.id = d
    BY <1>4 DEF AttemptRows
  <2> HIDE DEF made
  <2>4. \/ new.stage = "setup" /\ new.id \in Ids /\ NewStatus(new.id, "hot") /\ SameKnown
        \/ new.stage = "failed" /\ SameStatus /\ SameKnown
    BY <1>5, <1>7, <1>9, <2>1, <2>2, <2>3, StatusOf
  <2> HIDE DEF new
  <2>5. Turn(c, i, new)
    BY <2>1, <2>4 DEF Turn
  <2> QED BY <1>3, <2>5
<1>12. CASE applyCreateSetup(c, i)
  <2>1. /\ old.stage = "setup" /\ UNCHANGED file /\ session.source \in {"file", "memory"}
        /\ \/ /\ remote' = [remote EXCEPT ![old.id].ready = TRUE]
              /\ attempts' = [attempts EXCEPT ![c][i].stage =
                                IF session.source = "file" THEN "persist" ELSE "done"]
              /\ cell' = IF session.source = "file" THEN cell ELSE [cell EXCEPT ![c].known = old.id]
           \/ Goes(c, i, "undo") /\ UNCHANGED remote
    BY <1>12, Bounds DEF applyCreateSetup, Setup, At, Base, Types
  <2>2. old.id \in Ids
    BY <1>4, <2>1 DEF Identified
  <2>3. CASE Goes(c, i, "undo") /\ UNCHANGED remote
    <3>1. new.stage = "undo" /\ new.id = old.id /\ SameKnown /\ SameStatus
      BY <1>7, <1>9, <2>3
    <3> HIDE DEF new
    <3>2. Turn(c, i, new)
      BY <2>1, <3>1 DEF Turn
    <3> QED BY <1>3, <3>2
  <2>4. CASE /\ remote' = [remote EXCEPT ![old.id].ready = TRUE]
             /\ attempts' = [attempts EXCEPT ![c][i].stage =
                               IF session.source = "file" THEN "persist" ELSE "done"]
             /\ cell' = IF session.source = "file" THEN cell ELSE [cell EXCEPT ![c].known = old.id]
    <3>1. /\ new.stage = IF session.source = "file" THEN "persist" ELSE "done"
          /\ new.id = old.id
      <4>1. attempts \in [Clients -> Seq(AttemptRows)]
        BY DEF Base, Types
      <4>2. new = [old EXCEPT !.stage = IF session.source = "file" THEN "persist" ELSE "done"]
        BY <1>3, <2>4, <4>1
      <4> HIDE DEF new
      <4> QED BY <1>8, <4>2
    <3>2. SameStatus
      BY <2>2, <2>4, StatusOf
    <3>3. cell \in [Clients -> CellRows]
      BY DEF Base, Types
    <3>4. CASE session.source = "file"
      <4>1. SameKnown
        BY <2>4, <3>4 DEF SameKnown
      <4> HIDE DEF new
      <4>2. Turn(c, i, new)
        BY <2>1, <3>1, <3>2, <3>4, <4>1 DEF Turn
      <4> QED BY <1>3, <4>2
    <3>5. CASE session.source = "memory"
      <4>1. \A e \in Clients : cell'[e].known = IF e = c THEN old.id ELSE cell[e].known
        BY <2>4, <3>3, <3>5 DEF CellRows
      <4> HIDE DEF new
      <4>2. Turn(c, i, new)
        BY <2>1, <3>1, <3>2, <3>5, <4>1 DEF Turn
      <4> QED BY <1>3, <4>2
    <3> QED BY <2>1, <3>4, <3>5
  <2> QED BY <2>1, <2>3, <2>4
<1>13. CASE persistReads(c, i) \/ persistTruncates(c, i) \/ persistFills(c, i)
  <2> DEFINE read == [old EXCEPT !.stage = "truncate", !.env = file]
  <2>1. /\ old.stage \in Persisting /\ UNCHANGED remote
        /\ \/ Becomes(c, i, read) /\ file' = file
           \/ Goes(c, i, "fill") /\ file' = Torn
           \/ Goes(c, i, "undo") /\ file' \in {file, Torn}
           \/ Goes(c, i, "done") /\ file'.db = old.id
           \/ Goes(c, i, "undo") /\ file'.db = old.id
    BY <1>13 DEF persistReads, persistTruncates, persistFills, At, Persisting
  <2>2. read.stage = "truncate" /\ read.id = old.id /\ Torn.db = NoDb
    BY <1>4 DEF AttemptRows, Torn
  <2> HIDE DEF read
  <2>3. /\ new.id = old.id /\ SameKnown /\ SameStatus
        /\ \/ new.stage \in {"truncate", "fill", "undo"} /\ file'.db \in {file.db, NoDb}
           \/ new.stage \in {"done", "undo"} /\ file'.db = old.id
    BY <1>5, <1>7, <1>9, <2>1, <2>2
  <2> HIDE DEF new
  <2>4. Turn(c, i, new)
    BY <2>1, <2>3 DEF Turn
  <2> QED BY <1>3, <2>4
<1>14. CASE deleteCreated(c, i)
  <2>1. /\ old.stage = "undo" /\ UNCHANGED file /\ Goes(c, i, "failed")
        /\ remote' = [remote EXCEPT ![old.id].status = "undone"]
    BY <1>14 DEF deleteCreated, At, Calm
  <2>2. old.id \in Ids
    BY <1>4, <2>1 DEF Identified
  <2>3. new.stage = "failed" /\ new.id = old.id /\ SameKnown /\ NewStatus(old.id, "undone")
    BY <1>9, <2>1, <2>2, StatusOf
  <2> HIDE DEF new
  <2>4. Turn(c, i, new)
    BY <2>1, <2>3 DEF Turn
  <2> QED BY <1>3, <2>4
<1> QED BY <1>1, <1>10, <1>11, <1>12, <1>13, <1>14

(* Every hot database has a connection that is not given up; connections   *)
(* that have not created a database have none.                             *)
Unnamed(a) == a.stage \in {"load", "create"} => a.id = NoDb
OwnersOK ==
  /\ \A d \in Ids : remote[d].status = "hot" =>
       \E c \in Clients : \E i \in DOMAIN attempts[c] :
         attempts[c][i].id = d /\ attempts[c][i].stage # "failed"
  /\ session.source = "file" => \A c \in Clients : cell[c].known = NoDb
  /\ \A c \in Clients : \A i \in DOMAIN attempts[c] : Unnamed(attempts[c][i])

(* What calls and users do leaves connections as they are, or adds one.    *)
LEMMA OwnersKept ==
  ASSUME OwnersOK, UNCHANGED session, SameKnown,
         \A d \in Ids : remote'[d].status = "hot" => remote[d].status = "hot",
         \A e \in Clients : \A j \in DOMAIN attempts[e] :
           /\ j \in DOMAIN attempts'[e] /\ attempts'[e][j].stage = attempts[e][j].stage
           /\ attempts'[e][j].id = attempts[e][j].id,
         \A e \in Clients : \A j \in DOMAIN attempts'[e] :
           \/ j \in DOMAIN attempts[e]
           \/ Unnamed(attempts'[e][j])
  PROVE  OwnersOK'
<1>1. ASSUME NEW d \in Ids, remote'[d].status = "hot"
      PROVE  \E c \in Clients : \E i \in DOMAIN attempts'[c] :
               attempts'[c][i].id = d /\ attempts'[c][i].stage # "failed"
  BY <1>1 DEF OwnersOK
<1>2. session'.source = "file" => \A c \in Clients : cell'[c].known = NoDb
  BY DEF OwnersOK, SameKnown
<1>3. ASSUME NEW c \in Clients, NEW i \in DOMAIN attempts'[c] PROVE Unnamed(attempts'[c][i])
  BY <1>3 DEF OwnersOK, Unnamed
<1> QED BY <1>1, <1>2, <1>3 DEF OwnersOK, Unnamed

(* What a step of the client itself leaves and adds.                       *)
LEMMA SharesAdds ==
  ASSUME Base, NEW c \in Clients, Shares(c)
  PROVE  /\ SameKnown
         /\ \A e \in Clients : \A j \in DOMAIN attempts[e] :
              j \in DOMAIN attempts'[e] /\ attempts'[e][j] = attempts[e][j]
         /\ \A e \in Clients : \A j \in DOMAIN attempts'[e] :
              \/ j \in DOMAIN attempts[e]
              \/ e = c /\ ~cell[c].deleted /\ cell[c].promise = 0 /\ attempts'[e][j] = NewAttempt(c)
<1>1. attempts \in [Clients -> Seq(AttemptRows)] /\ cell \in [Clients -> CellRows]
  BY DEF Base, Types
<1>2. CASE attempts' = attempts
  <2>1. SameKnown
    <3>1. CASE cell' = cell
      BY <3>1 DEF SameKnown
    <3>2. CASE Connect(c)
      BY <1>1, <3>2 DEF Connect, SameKnown, CellRows
    <3>3. CASE cell' = [cell EXCEPT ![c] = [cell[c] EXCEPT !.promise = 0, !.deleted = TRUE]]
      BY <1>1, <3>3 DEF SameKnown, CellRows
    <3> QED BY <3>1, <3>2, <3>3 DEF Shares
  <2> QED BY <1>2, <2>1
<1>3. CASE attempts' # attempts
  <2>1. ~cell[c].deleted /\ Connect(c)
    BY <1>3 DEF Shares
  <2>2. /\ NewAttempt(c) \in AttemptRows /\ cell[c].promise = 0
        /\ attempts' = [attempts EXCEPT ![c] = Append(attempts[c], NewAttempt(c))]
    BY <1>3, <2>1, Connected
  <2>3. SameKnown
    BY <1>1, <2>1 DEF Connect, SameKnown, CellRows
  <2> DEFINE a == NewAttempt(c)
  <2> HIDE DEF a
  <2>4. /\ \A e \in Clients : \A j \in DOMAIN attempts'[e] :
             \/ j \in DOMAIN attempts[e] /\ attempts'[e][j] = attempts[e][j]
             \/ e = c /\ j = Len(attempts[c]) + 1 /\ attempts'[e][j] = a
        /\ \A e \in Clients : \A j \in DOMAIN attempts[e] :
             j \in DOMAIN attempts'[e] /\ attempts'[e][j] = attempts[e][j]
    BY <1>1, <2>2, Extended DEF a
  <2> QED BY <2>1, <2>2, <2>3, <2>4 DEF a
<1> QED BY <1>2, <1>3

LEMMA OwnersStep ==
  ASSUME Base, OwnersOK, Calm, [Next]_vars
  PROVE  OwnersOK'
<1>1. /\ attempts \in [Clients -> Seq(AttemptRows)] /\ session.source \in {"file", "memory"}
  BY Bounds DEF Base, Types
<1>2. ASSUME NEW c \in Clients, Shares(c), UNCHANGED session,
             \A d \in Ids : remote'[d].status = "hot" => remote[d].status = "hot"
      PROVE  OwnersOK'
  <2>1. Unnamed(NewAttempt(c))
    BY <1>1 DEF NewAttempt, Unnamed, OwnersOK
  <2> QED BY <1>2, <2>1, SharesAdds, OwnersKept
<1>3. ASSUME NEW c \in Clients, Attempt(c) PROVE OwnersOK'
  <2>1. PICK i, a : Progress(c, i, a) /\ Turn(c, i, a)
    BY <1>3, TurnStep
  <2> DEFINE old == attempts[c][i]
  <2>2. /\ i \in DOMAIN attempts[c] /\ a \in AttemptRows
        /\ attempts' = [attempts EXCEPT ![c] = [attempts[c] EXCEPT ![i] = a]]
    BY <2>1 DEF Progress
  <2>3. /\ \A e \in Clients : DOMAIN attempts'[e] = DOMAIN attempts[e]
        /\ \A e \in Clients : \A j \in DOMAIN attempts[e] :
             attempts'[e][j] = IF e = c /\ j = i THEN a ELSE attempts[e][j]
    BY <1>1, <2>2, Replaced
  <2>4. UNCHANGED session
    BY <1>3 DEF Attempt
  <2>5. Unnamed(old)
    BY <2>2 DEF OwnersOK
  <2>6. Unnamed(a)
    BY <2>1, <2>5 DEF Turn, Unnamed, Persisting
  <2>7. session.source = "file" => SameKnown
    BY <2>1 DEF Turn
  <2>8. ASSUME NEW d \in Ids, remote'[d].status = "hot"
        PROVE  \E e \in Clients : \E j \in DOMAIN attempts'[e] :
                 attempts'[e][j].id = d /\ attempts'[e][j].stage # "failed"
    <3>1. CASE remote[d].status = "hot"
      <4>0. PICK e \in Clients : \E j \in DOMAIN attempts[e] :
              attempts[e][j].id = d /\ attempts[e][j].stage # "failed"
        BY <3>1 DEF OwnersOK
      <4>1. PICK j \in DOMAIN attempts[e] : attempts[e][j].id = d /\ attempts[e][j].stage # "failed"
        BY <4>0
      <4>2. CASE e = c /\ j = i
        <5>1. NoDb \notin Ids
          BY Bounds DEF NoDb, Ids
        <5>2. old.stage \notin {"load", "create"} /\ a.id = d
          BY <2>1, <2>5, <4>1, <4>2, <5>1 DEF Unnamed, Turn
        <5>3. a.stage # "failed"
          BY <2>1, <2>8, <4>1, <4>2, <5>2 DEF Turn, NewStatus, Persisting
        <5> QED BY <2>3, <4>1, <4>2, <5>2, <5>3
      <4>3. CASE ~(e = c /\ j = i)
        BY <2>3, <4>1, <4>3
      <4> QED BY <4>2, <4>3
    <3>2. CASE remote[d].status # "hot"
      <4>1. ~SameStatus
        BY <2>8, <3>2 DEF SameStatus
      <4>2. a.stage = "setup" /\ a.id = d
        BY <2>1, <2>8, <3>2, <4>1 DEF Turn, NewStatus
      <4> QED BY <2>2, <2>3, <4>2
    <3> QED BY <3>1, <3>2
  <2>9. session'.source = "file" => \A e \in Clients : cell'[e].known = NoDb
    BY <2>4, <2>7 DEF OwnersOK, SameKnown
  <2>10. ASSUME NEW e \in Clients, NEW j \in DOMAIN attempts'[e] PROVE Unnamed(attempts'[e][j])
    BY <2>3, <2>6 DEF OwnersOK
  <2> QED BY <2>8, <2>9, <2>10 DEF OwnersOK, Unnamed
<1>4. ASSUME NEW c \in Clients, Call(c) PROVE OwnersOK'
  <2>1. Shares(c) /\ Mild /\ UNCHANGED session
    BY <1>4, CallStep DEF Advances
  <2>2. \A d \in Ids : remote'[d].status = "hot" => remote[d].status = "hot"
    BY <2>1 DEF Mild
  <2> QED BY <1>2, <2>1, <2>2
<1>5. ASSUME NEW c \in Clients, NEW op \in Operations, Begin(c, op) PROVE OwnersOK'
  <2>1. Shares(c) /\ UNCHANGED <<remote, session>>
    BY <1>5 DEF Begin, Acts, Shares
  <2> QED BY <1>2, <2>1
<1>6. ASSUME NEW c \in Clients, BeginCreateDb(c) PROVE OwnersOK'
  <2> DEFINE a == [stage |-> "load", env |-> Torn, id |-> NoDb, closed |-> FALSE, lazy |-> FALSE]
  <2>1. /\ attempts' = [attempts EXCEPT ![c] = Append(attempts[c], a)]
        /\ UNCHANGED <<cell, remote, session>>
    BY <1>1, <1>6 DEF BeginCreateDb, Acts
  <2>2. a \in AttemptRows /\ Unnamed(a)
    BY Bounds DEF AttemptRows, Stages, Torn, Envs, NoDb, Unnamed
  <2> HIDE DEF a
  <2>3. /\ \A e \in Clients : \A j \in DOMAIN attempts'[e] :
             j \in DOMAIN attempts[e] \/ attempts'[e][j] = a
        /\ \A e \in Clients : \A j \in DOMAIN attempts[e] :
             j \in DOMAIN attempts'[e] /\ attempts'[e][j] = attempts[e][j]
    BY <1>1, <2>1, <2>2, Extended
  <2>4. SameKnown
    BY <2>1 DEF SameKnown
  <2> QED BY <2>1, <2>2, <2>3, <2>4, OwnersKept
<1>7. ASSUME NEW c \in Clients, closeCachedDatabase(c) PROVE OwnersOK'
  <2>1. UNCHANGED <<remote, session>> /\ cell' = [cell EXCEPT ![c].promise = 0]
    BY <1>7 DEF closeCachedDatabase, Acts
  <2>2. SameKnown
    BY <2>1 DEF SameKnown, Base, Types, CellRows
  <2> QED BY <1>7, <2>1, <2>2, CloseRows, OwnersKept
<1>8. ASSUME NEW c \in Clients, Crash(c) PROVE FALSE
  BY <1>8 DEF Crash, Calm
<1>9. CASE UNCHANGED vars
  BY <1>9 DEF vars, OwnersOK, Unnamed
<1> QED BY <1>3, <1>4, <1>5, <1>6, <1>7, <1>8, <1>9 DEF Next

-----------------------------------------------------------------------------
(* The creations of one client.                                            *)

Home(c) == IF session.source = "file" THEN file.db ELSE cell[c].known
Unsettled(a) == a.stage \notin Settled
Live(d) == remote[d].status \in {"hot", "deleted"}

(* A connection creates only for a client without a database, and is closed*)
(* only when it is settled.                                                *)
Proper(a, home, source) ==
  /\ a.lazy /\ (a.closed => ~Unsettled(a))
  /\ source = "memory" => a.stage \notin {"load"} \union Persisting
  /\ a.stage = "create" => home = NoDb
  /\ a.stage \in Underway => home \in {NoDb, a.id}

(* One client connects, one connection at a time; a database that exists is*)
(* its own, or will be once this connection is settled.                    *)
OnceOK(c) ==
  /\ session.clients = {c}
  /\ \A e \in Clients : e # c => attempts[e] = <<>>
  /\ \A i \in DOMAIN attempts[c] : Proper(attempts[c][i], Home(c), session.source)
  /\ \A i, j \in DOMAIN attempts[c] :
       Unsettled(attempts[c][i]) /\ Unsettled(attempts[c][j]) => i = j
  /\ \A d \in Ids : Live(d) =>
       d = Home(c) \/ \E i \in DOMAIN attempts[c] : attempts[c][i].stage \in Underway
                                                   /\ attempts[c][i].id = d

(* What calls and the user do leaves connections as they are, or adds one  *)
(* when none is under way.                                                 *)
LEMMA OnceKept ==
  ASSUME NEW c \in Clients, OnceOK(c), UNCHANGED <<session, file>>, SameKnown,
         \A d \in Ids : remote'[d].status \in {"hot", "deleted"} => Live(d),
         \A e \in Clients : e # c => attempts'[e] = attempts[e],
         \A j \in DOMAIN attempts[c] :
           /\ j \in DOMAIN attempts'[c] /\ attempts'[c][j].stage = attempts[c][j].stage
           /\ attempts'[c][j].id = attempts[c][j].id /\ attempts'[c][j].lazy = attempts[c][j].lazy
           /\ attempts'[c][j].closed => attempts[c][j].closed \/ ~Unsettled(attempts[c][j]),
         NEW new,
         \A j \in DOMAIN attempts'[c] :
           \/ j \in DOMAIN attempts[c]
           \/ /\ j = new /\ Proper(attempts'[c][j], Home(c), session.source)
              /\ attempts'[c][j].stage \notin Underway
              /\ \A i \in DOMAIN attempts[c] : ~Unsettled(attempts[c][i])
  PROVE  OnceOK(c)'
<1>1. Home(c)' = Home(c)
  BY DEF Home, SameKnown
<1>2. ASSUME NEW j \in DOMAIN attempts'[c] PROVE Proper(attempts'[c][j], Home(c)', session'.source)
  <2>1. Proper(attempts'[c][j], Home(c), session.source)
    <3>1. CASE j \in DOMAIN attempts[c]
      <4>1. Proper(attempts[c][j], Home(c), session.source)
        BY <3>1 DEF OnceOK
      <4> QED BY <3>1, <4>1 DEF Proper, Unsettled
    <3>2. CASE j \notin DOMAIN attempts[c]
      BY <3>2
    <3> QED BY <3>1, <3>2
  <2> QED BY <1>1, <2>1 DEF Proper, Unsettled
<1>3. ASSUME NEW i \in DOMAIN attempts'[c], NEW j \in DOMAIN attempts'[c],
             Unsettled(attempts'[c][i]), Unsettled(attempts'[c][j])
      PROVE  i = j
  BY <1>3 DEF OnceOK, Unsettled
<1>4. ASSUME NEW d \in Ids, Live(d)'
      PROVE  d = Home(c) \/ \E i \in DOMAIN attempts'[c] : attempts'[c][i].stage \in Underway
                                                          /\ attempts'[c][i].id = d
  <2>1. Live(d)
    BY <1>4 DEF Live
  <2> QED BY <2>1 DEF OnceOK
<1>5. session'.clients = {c} /\ \A e \in Clients : e # c => attempts'[e] = <<>>
  BY DEF OnceOK
<1> QED BY <1>1, <1>2, <1>3, <1>4, <1>5 DEF OnceOK, Unsettled

(* The client itself: a call starts a connection only when there is none.  *)
LEMMA OnceShared ==
  ASSUME Base, SingleFlight, NEW c \in Clients, OnceOK(c), UNCHANGED <<session, file>>,
         NEW e \in Clients, Shares(e), e = c,
         \A d \in Ids : remote'[d].status \in {"hot", "deleted"} => Live(d)
  PROVE  OnceOK(c)'
<1>1. /\ SameKnown
      /\ \A f \in Clients : \A j \in DOMAIN attempts[f] :
           j \in DOMAIN attempts'[f] /\ attempts'[f][j] = attempts[f][j]
      /\ \A f \in Clients : \A j \in DOMAIN attempts'[f] :
           \/ j \in DOMAIN attempts[f]
           \/ f = c /\ ~cell[c].deleted /\ cell[c].promise = 0 /\ attempts'[f][j] = NewAttempt(c)
  BY SharesAdds
<1>2. attempts \in [Clients -> Seq(AttemptRows)] /\ cell \in [Clients -> CellRows]
  BY DEF Base, Types
<1>3. session.source \in {"file", "memory"}
  BY Bounds DEF Base, Types
<1>4. CASE attempts' = attempts
  BY <1>1, <1>4, OnceKept
<1>5. CASE attempts' # attempts
  <2>1. /\ ~cell[c].deleted /\ cell[c].promise = 0 /\ NewAttempt(c) \in AttemptRows
        /\ attempts' = [attempts EXCEPT ![c] = Append(attempts[c], NewAttempt(c))]
    BY <1>5, Connected DEF Shares
  <2>2. \A f \in Clients : f # c => attempts'[f] = attempts[f]
    BY <1>2, <2>1
  <2>3. Proper(NewAttempt(c), Home(c), session.source) /\ NewAttempt(c).stage \notin Underway
    BY <1>3 DEF NewAttempt, Proper, Unsettled, Settled, Persisting, Underway, Home
  <2>4. ASSUME NEW i \in DOMAIN attempts[c] PROVE ~Unsettled(attempts[c][i])
    <3>1. Proper(attempts[c][i], Home(c), session.source)
      BY DEF OnceOK
    <3>2. i # 0
      BY <1>2, LenProperties
    <3> QED BY <2>1, <3>1, <3>2 DEF SingleFlight, Proper, Unsettled
  <2> DEFINE new == Len(attempts[c]) + 1
             a == NewAttempt(c)
  <2> HIDE DEF a
  <2>5. \A j \in DOMAIN attempts'[c] :
          j \in DOMAIN attempts[c] \/ (j = new /\ attempts'[c][j] = a)
    BY <1>2, <2>1, Extended DEF a
  <2> HIDE DEF new
  <2>6. \A j \in DOMAIN attempts'[c] :
          \/ j \in DOMAIN attempts[c]
          \/ /\ j = new /\ Proper(attempts'[c][j], Home(c), session.source)
             /\ attempts'[c][j].stage \notin Underway
             /\ \A i \in DOMAIN attempts[c] : ~Unsettled(attempts[c][i])
    BY <2>3, <2>4, <2>5 DEF a
  <2> QED BY <1>1, <2>2, <2>6, OnceKept
<1> QED BY <1>4, <1>5

(* A connection comes to its next stage.                                   *)
LEMMA OnceTurns ==
  ASSUME Base, Base', NEW c \in Clients, OnceOK(c), UNCHANGED session,
         NEW i, NEW a, Progress(c, i, a), Turn(c, i, a)
  PROVE  OnceOK(c)'
<1> DEFINE old == attempts[c][i]
<1>1. /\ attempts \in [Clients -> Seq(AttemptRows)]
      /\ session.source \in {"file", "memory"} /\ NoDb \notin Ids
  BY Bounds DEF Base, Types, NoDb, Ids
<1>2. /\ i \in DOMAIN attempts[c] /\ a \in AttemptRows /\ Unsettled(old)
      /\ a.lazy = old.lazy /\ a.closed = old.closed
      /\ attempts' = [attempts EXCEPT ![c] = [attempts[c] EXCEPT ![i] = a]]
  BY DEF Progress, Unsettled
<1>3. /\ \A e \in Clients : DOMAIN attempts'[e] = DOMAIN attempts[e]
      /\ \A e \in Clients : \A j \in DOMAIN attempts[e] :
           attempts'[e][j] = IF e = c /\ j = i THEN a ELSE attempts[e][j]
      /\ \A e \in Clients : e # c => attempts'[e] = attempts[e]
  BY <1>1, <1>2, Replaced
<1>4. Proper(old, Home(c), session.source) /\ ~old.closed
  BY <1>2 DEF OnceOK, Proper
<1>5. \A j \in DOMAIN attempts[c] : Unsettled(attempts[c][j]) => j = i
  BY <1>2 DEF OnceOK
<1>6. \A d \in Ids : Live(d) => d = Home(c) \/ (old.stage \in Underway /\ old.id = d)
  BY <1>5 DEF OnceOK, Unsettled, Underway, Persisting, Settled
<1>7. \A j \in DOMAIN attempts[c] : j # i => ~Unsettled(attempts[c][j])
  BY <1>5
<1> DEFINE home == Home(c)'
<1>8. home = IF session.source = "file" THEN file'.db ELSE cell'[c].known
  BY DEF Home
<1> HIDE DEF home
<1>9. /\ session.source = "memory" => a.stage \notin {"load"} \union Persisting
      /\ a.stage = "create" => home = NoDb
      /\ a.stage \in Underway => home \in {NoDb, a.id}
  BY <1>1, <1>4, <1>8 DEF Turn, Proper, Home, SameKnown, Persisting, Underway
<1>10. ASSUME NEW d \in Ids, remote'[d].status \in {"hot", "deleted"}
       PROVE  d = home \/ (a.stage \in Underway /\ a.id = d)
  BY <1>1, <1>4, <1>6, <1>8, <1>10
  DEF Turn, Proper, Home, Live, SameKnown, SameStatus, NewStatus, Persisting, Underway
<1>11. ASSUME NEW j \in DOMAIN attempts'[c] PROVE Proper(attempts'[c][j], home, session'.source)
  <2>1. CASE j = i
    <3>1. attempts'[c][j] = a
      BY <1>2, <1>3, <2>1
    <3>2. a.lazy /\ ~a.closed
      BY <1>2, <1>4 DEF Proper
    <3>3. Proper(a, home, session.source)
      BY <1>9, <3>2 DEF Proper
    <3> QED BY <3>1, <3>3
  <2>2. CASE j # i
    <3>1. /\ j \in DOMAIN attempts[c] /\ attempts'[c][j] = attempts[c][j]
          /\ ~Unsettled(attempts[c][j]) /\ Proper(attempts[c][j], Home(c), session.source)
      BY <1>3, <1>7, <2>2 DEF OnceOK
    <3> QED BY <3>1 DEF Proper, Unsettled, Settled, Underway, Persisting
  <2> QED BY <2>1, <2>2
<1>12. ASSUME NEW j \in DOMAIN attempts'[c], NEW k \in DOMAIN attempts'[c],
              Unsettled(attempts'[c][j]), Unsettled(attempts'[c][k])
       PROVE  j = k
  BY <1>3, <1>7, <1>12
<1>13. ASSUME NEW d \in Ids, Live(d)'
       PROVE  d = home \/ \E j \in DOMAIN attempts'[c] : attempts'[c][j].stage \in Underway
                                                        /\ attempts'[c][j].id = d
  <2>1. d = home \/ (a.stage \in Underway /\ a.id = d)
    BY <1>10, <1>13 DEF Live
  <2> QED BY <1>2, <1>3, <2>1
<1>14. session'.clients = {c} /\ \A e \in Clients : e # c => attempts'[e] = <<>>
  BY <1>3 DEF OnceOK
<1> QED BY <1>11, <1>12, <1>13, <1>14 DEF OnceOK, Unsettled, home

LEMMA OnceStep ==
  ASSUME Base, Base', SingleFlight, NEW c \in Clients, OnceOK(c), Alone, [Next]_vars
  PROVE  OnceOK(c)'
<1>1. UNCHANGED session /\ Calm
  BY StepBase DEF Alone, Calm, Breaks
<1>2. \A e \in Clients : e \in session.clients => e = c
  BY DEF OnceOK
<1>3. \A e \in Clients : attempts[e] # <<>> => e = c
  BY DEF OnceOK
<1>4. ASSUME NEW e \in Clients, Attempt(e) PROVE OnceOK(c)'
  <2>1. PICK i, a : Progress(e, i, a) /\ Turn(e, i, a)
    BY <1>1, <1>4, TurnStep
  <2>2. attempts[e] # <<>>
    BY <2>1 DEF Progress
  <2> QED BY <1>1, <1>3, <2>1, <2>2, OnceTurns
<1>5. ASSUME NEW e \in Clients, Call(e) PROVE OnceOK(c)'
  <2>1. Shares(e) /\ Mild /\ UNCHANGED <<session, file>>
    BY <1>5, CallStep DEF Advances, Call
  <2>2. \A d \in Ids : remote'[d].status \in {"hot", "deleted"} => Live(d)
    BY <2>1 DEF Mild, Live
  <2>3. PICK k \in DOMAIN calls[e] : TRUE
    BY <1>5 DEF Call
  <2>4. attempts[e] # <<>>
    <3>1. calls[e][k].at \in 1..Len(attempts[e])
      BY DEF Base, Links, Attached
    <3> QED BY <3>1
  <2> QED BY <1>3, <2>1, <2>2, <2>4, OnceShared
<1>6. ASSUME NEW e \in Clients, NEW op \in Operations, Begin(e, op) PROVE OnceOK(c)'
  <2>1. Shares(e) /\ UNCHANGED <<remote, session, file>> /\ e = c
    BY <1>2, <1>6 DEF Begin, Acts, Shares
  <2> QED BY <2>1, OnceShared DEF Live
<1>7. ASSUME NEW e \in Clients, BeginCreateDb(e) PROVE FALSE
  BY <1>7 DEF BeginCreateDb, Acts, Alone
<1>8. ASSUME NEW e \in Clients, closeCachedDatabase(e) PROVE OnceOK(c)'
  <2>1. /\ UNCHANGED <<remote, session, file>> /\ cell' = [cell EXCEPT ![e].promise = 0]
        /\ e = c /\ attempts[c][cell[c].promise].stage = "done"
        /\ attempts' = [attempts EXCEPT ![e][cell[e].promise].closed = TRUE]
    BY <1>2, <1>8 DEF closeCachedDatabase, Acts, Alone
  <2>2. SameKnown
    BY <2>1 DEF SameKnown, Base, Types, CellRows
  <2>3. \A f \in Clients : f # c => attempts'[f] = attempts[f]
    BY <2>1 DEF Base, Types
  <2>4. \A j \in DOMAIN attempts[c] :
          /\ j \in DOMAIN attempts'[c] /\ attempts'[c][j].stage = attempts[c][j].stage
          /\ attempts'[c][j].id = attempts[c][j].id /\ attempts'[c][j].lazy = attempts[c][j].lazy
          /\ attempts'[c][j].closed => attempts[c][j].closed \/ ~Unsettled(attempts[c][j])
    BY <1>8, <2>1, CloseRows DEF Unsettled, Settled
  <2>5. DOMAIN attempts'[c] = DOMAIN attempts[c]
    BY <1>8, CloseRows
  <2>6. \A d \in Ids : remote'[d].status \in {"hot", "deleted"} => Live(d)
    BY <2>1 DEF Live
  <2> QED BY <2>1, <2>2, <2>3, <2>4, <2>5, <2>6, OnceKept
<1>9. ASSUME NEW e \in Clients, Crash(e) PROVE FALSE
  BY <1>1, <1>9 DEF Crash, Calm
<1>10. CASE UNCHANGED vars
  BY <1>10 DEF vars, OnceOK, Proper, Home, Live, Unsettled
<1> QED BY <1>4, <1>5, <1>6, <1>7, <1>8, <1>9, <1>10 DEF Next

(* So at most one database exists.                                         *)
LEMMA OnceCounts ==
  ASSUME NEW c \in Clients, OnceOK(c)
  PROVE  Cardinality({d \in Ids : remote[d].status \in {"hot", "deleted"}}) <= 1
<1> DEFINE S == {d \in Ids : remote[d].status \in {"hot", "deleted"}}
<1>1. NoDb \notin Ids
  BY DEF NoDb, Ids
<1>2. ASSUME NEW d \in S, NEW e \in S PROVE d = e
  <2>1. \A x \in S : Live(x) /\ x \in Ids
    BY DEF Live
  <2>2. \A i \in DOMAIN attempts[c] :
          attempts[c][i].stage \in Underway => Home(c) \in {NoDb, attempts[c][i].id}
    BY DEF OnceOK, Proper
  <2>3. \A i, j \in DOMAIN attempts[c] :
          attempts[c][i].stage \in Underway /\ attempts[c][j].stage \in Underway => i = j
    BY DEF OnceOK, Unsettled, Underway, Persisting, Settled
  <2>4. \A x \in S : x = Home(c) \/ \E i \in DOMAIN attempts[c] :
                                      attempts[c][i].stage \in Underway /\ attempts[c][i].id = x
    BY <2>1 DEF OnceOK
  <2> QED BY <1>1, <2>1, <2>2, <2>3, <2>4
<1> HIDE DEF S
<1>3. S = {} \/ \E x : S = {x}
  <2>1. CASE S # {}
    <3>1. PICK x : x \in S
      BY <2>1
    <3>2. S = {x}
      BY <1>2, <3>1
    <3> QED BY <3>2
  <2> QED BY <2>1
<1>4. Cardinality(S) = 0 \/ Cardinality(S) = 1
  BY <1>3, FS_EmptySet, FS_Singleton
<1> QED BY <1>4 DEF S

-----------------------------------------------------------------------------
(* The theorems.                                                           *)

(* In every state the variables have the types of Types, and every call    *)
(* and promise refers to an open connection of its own client.             *)
THEOREM Invariance == Spec => []Base
<1>1. Init => Base
  BY InitBase
<1>2. Base /\ [Next]_vars => Base'
  BY StepBase
<1> QED BY <1>1, <1>2, PTL DEF Spec

(* Every state has the types of TypeOK; in particular every call belongs to*)
(* a connection of its client, and a connected one to a database.          *)
THEOREM TypeCorrectness == Spec => []TypeOK
<1>1. Base => TypeOK
  <2> SUFFICES ASSUME Base PROVE TypeOK
    OBVIOUS
  <2>1. file \in Envs /\ remote \in [Ids -> DbRows] /\ cell \in [Clients -> CellRows]
    BY DEF Base, Types
  <2>2. \A d \in Ids : /\ remote[d].status \in {"free", "hot", "deleted", "undone"}
                       /\ ToSet(remote[d].versions) \subseteq 1..MaxVersion
    BY <2>1, ElementsOf DEF DbRows
  <2>3. ASSUME NEW c \in Clients
        PROVE  /\ cell[c].promise \in 0..Len(attempts[c]) /\ cell[c].known \in 0..MaxDb
               /\ \A k \in DOMAIN calls[c] : calls[c][k].at \in DOMAIN attempts[c]
    <3>1. DOMAIN attempts[c] = 1..Len(attempts[c])
      BY LenProperties DEF Base, Types
    <3> QED BY <2>1, <3>1 DEF Base, Links, Attached, CellRows
  <2>4. ASSUME NEW c \in Clients, NEW i \in DOMAIN attempts[c]
        PROVE  LET a == attempts[c][i]
               IN /\ a.stage \in Stages /\ a.env \in Envs
                  /\ a.stage # "failed" /\ a.stage # "load" /\ a.stage # "create" => a.id \in Ids
    <3>1. attempts[c][i] \in AttemptRows /\ Identified(attempts[c][i])
      BY AttemptRow
    <3> QED BY <3>1 DEF AttemptRows, Identified
  <2> QED BY <2>1, <2>2, <2>3, <2>4 DEF TypeOK
<1> QED BY <1>1, Invariance, PTL

(* A client never has two open connections under way, however its calls,   *)
(* failures, closes and crashes interleave.                                *)
THEOREM OneConnectionAtATime == Spec => []SingleFlight
<1>1. Init => SingleFlight
  BY InitBase
<1>2. Base /\ SingleFlight /\ [Next]_vars => SingleFlight'
  BY StepBase
<1> QED BY <1>1, <1>2, Invariance, PTL DEF Spec

(* The env file names a database that was set up and that no cleanup       *)
(* deletes, for any number of processes that create, crash and lose        *)
(* answers, as long as the file can be written.                            *)
THEOREM EnvFileIsReady == Spec => []FileNamesReady
<1> DEFINE Ready == ~Breaks("write") => CreationsOK
<1>1. Init => Ready
  BY InitBase
<1>2. Base /\ Ready /\ [Next]_vars => Ready'
  <2> SUFFICES ASSUME Base, Ready, [Next]_vars, ~Breaks("write")' PROVE CreationsOK'
    OBVIOUS
  <2>1. ~Breaks("write")
    BY StepBase DEF Breaks
  <2> QED BY <2>1, StepBase
<1>3. Ready => FileNamesReady
  BY DEF CreationsOK, FileNamesReady
<1> QED BY <1>1, <1>2, <1>3, Invariance, PTL DEF Spec

(* A database that scripts run on, retried under their keys, by any number *)
(* of processes at once, holds a prefix of the batches, each applied once. *)
THEOREM ScriptsApplyOnce == Spec => []ScriptIsPrefix
<1>1. Init => ScriptOK
  <2>1. Init => /\ remote = [d \in Ids |-> Fresh]
                /\ calls = [c \in Clients |-> <<>>]
    BY DEF Init
  <2>2. DOMAIN <<>> = {} /\ Fresh.chunks = <<>>
    BY DEF Fresh
  <2> QED BY <2>1, <2>2 DEF ScriptOK
<1>2. Base /\ Base' /\ ScriptOK /\ [Next]_vars => ScriptOK'
  BY ScriptStep
<1>3. ScriptOK => ScriptIsPrefix
  BY DEF ScriptOK, ScriptIsPrefix
<1> QED BY <1>1, <1>2, <1>3, Invariance, PTL DEF Spec

(* Migrations of a database are applied once and in order, by any number of*)
(* clients at once, with answers lost and migrate called again, as long as *)
(* no client is closed meanwhile.                                          *)
THEOREM MigrationsApplyInOrder == Spec => []MigrationsInOrder
<1> DEFINE Ordered == ~May("close") => ShareOK /\ VersionsOK
<1>1. Init => Ordered
  <2>1. Init => /\ remote = [d \in Ids |-> Fresh]
                /\ calls = [c \in Clients |-> <<>>]
    BY DEF Init
  <2>2. DOMAIN <<>> = {} /\ Fresh.versions = <<>>
    BY DEF Fresh
  <2>3. Init => ShareOK
    BY <2>1, <2>2 DEF ShareOK
  <2>4. Init => VersionsOK
    BY <2>1, <2>2 DEF VersionsOK
  <2> QED BY <2>3, <2>4
<1>2. Base /\ Base' /\ Ordered /\ [Next]_vars => Ordered'
  <2> SUFFICES ASSUME Base, Base', Ordered, [Next]_vars, ~May("close")' PROVE ShareOK' /\ VersionsOK'
    OBVIOUS
  <2>1. ~May("close")
    BY StepBase DEF May
  <2> QED BY <2>1, ShareStep, MigrationsStep
<1>3. Ordered => MigrationsInOrder
  BY DEF VersionsOK, MigrationsInOrder
<1> QED BY <1>1, <1>2, <1>3, Invariance, PTL DEF Spec

(* Without crashes and lost answers, every database that exists belongs to *)
(* a connection that is under way or was handed to a caller, for any number*)
(* of clients that create, fail, close and delete at once.                 *)
THEOREM NothingIsOrphaned == Spec => []NothingIsLeft
<1> DEFINE Faulty == session.faults \subseteq {"setup", "write"}
           Owned == Faulty => OwnersOK
<1>1. Init => Owned
  <2> SUFFICES ASSUME Init PROVE OwnersOK
    OBVIOUS
  <2>1. /\ remote = [d \in Ids |-> Fresh] /\ cell = [c \in Clients |-> Unconnected]
        /\ attempts = [c \in Clients |-> <<>>]
    BY DEF Init
  <2>2. DOMAIN <<>> = {} /\ Fresh.status = "free" /\ Unconnected.known = NoDb
    BY DEF Fresh, Unconnected
  <2> QED BY <2>1, <2>2 DEF OwnersOK
<1>2. Base /\ Owned /\ [Next]_vars => Owned'
  <2> SUFFICES ASSUME Base, Owned, [Next]_vars, Faulty' PROVE OwnersOK'
    OBVIOUS
  <2>1. Faulty
    BY StepBase
  <2>2. Calm
    BY <2>1 DEF Calm, Breaks
  <2> QED BY <2>1, <2>2, OwnersStep
<1>3. Owned => NothingIsLeft
  BY DEF OwnersOK, NothingIsLeft
<1> QED BY <1>1, <1>2, <1>3, Invariance, PTL DEF Spec

(* A client that is alone and closed only when it is connected creates at  *)
(* most one database that lasts, however its creations fail and however    *)
(* often it is closed and connects again.                                  *)
THEOREM OneDatabaseLasts == Spec => []CreatesOnce
<1> DEFINE Once == Alone => \E c \in Clients : OnceOK(c)
<1>1. Init => Once
  <2> SUFFICES ASSUME Init, Alone PROVE \E c \in Clients : OnceOK(c)
    OBVIOUS
  <2>1. PICK c \in Clients : session.clients = {c}
    BY DEF Alone
  <2>2. /\ remote = [d \in Ids |-> Fresh] /\ attempts = [e \in Clients |-> <<>>]
    BY DEF Init
  <2>3. DOMAIN <<>> = {} /\ Fresh.status = "free"
    BY DEF Fresh
  <2>4. OnceOK(c)
    BY <2>1, <2>2, <2>3 DEF OnceOK, Live
  <2> QED BY <2>4
<1>2. Base /\ Base' /\ SingleFlight /\ Once /\ [Next]_vars => Once'
  <2> SUFFICES ASSUME Base, Base', SingleFlight, Once, [Next]_vars, Alone'
               PROVE  \E c \in Clients : OnceOK(c)'
    OBVIOUS
  <2>1. Alone
    BY StepBase DEF Alone, May
  <2>2. PICK c \in Clients : OnceOK(c)
    BY <2>1
  <2>3. OnceOK(c)'
    BY <2>1, <2>2, OnceStep
  <2> QED BY <2>3
<1>3. Once => CreatesOnce
  <2> SUFFICES ASSUME Once, Alone
               PROVE  Cardinality({d \in Ids : remote[d].status \in {"hot", "deleted"}}) <= 1
    BY DEF CreatesOnce
  <2> QED BY OnceCounts
<1> QED BY <1>1, <1>2, <1>3, Invariance, OneConnectionAtATime, PTL DEF Spec
=============================================================================
