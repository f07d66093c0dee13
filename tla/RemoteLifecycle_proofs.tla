------------------------- MODULE RemoteLifecycle_proofs -------------------------
(***************************************************************************)
(* Proofs about RemoteLifecycle, for any calls, callers and length of the  *)
(* queue, whatever answers are lost, late or out of order.                 *)
(*                                                                         *)
(* The catalog only ever lags the shard by one step.  QueueOK says why: in *)
(* which of their pairs of statuses which requests can still be on their   *)
(* way, and in which order.  MoversOK says which call is between the two,  *)
(* and JournalOK what shard_operations shows when answers come in order.   *)
(***************************************************************************)
EXTENDS RemoteLifecycle, SequenceFacts

--------------------------------------------------------------------------------
(* The inductive invariant.                                                *)

Messages == [call : Calls \cup {Nobody}, request : Requests]

(* Types, and what refers to what.                                         *)
CallsOK ==
  /\ \A c \in Calls : phase[c] # "idle" => request[c] \in Requests
  /\ \A c \in Calls : phase[c] = "ran" <=> \E i \in DOMAIN answers : answers[i] = c
  /\ \A i, j \in DOMAIN answers : answers[i] = answers[j] => i = j
  /\ \A i \in DOMAIN queue : queue[i].call # Nobody =>
       phase[queue[i].call] = "sent" /\ request[queue[i].call] = queue[i].request
  /\ \A i, j \in DOMAIN queue : queue[i].call = queue[j].call /\ queue[i].call # Nobody => i = j

Base == TypeOK /\ CallsOK

(* Requests by the catalog statuses they are sent in.                      *)
AtRest == {"sql_write", "begin_archive", "delete", "begin_restore"}
Archiving == {"finalize_archive", "cancel_archive"}
Restoring == {"write_chunk", "finalize_restore"}
SentIn(k) == {op \in AtRest : k \in Needs(op)}

(* All requests of q are of one kind; or of two, the first kind in front.  *)
Waits(q, ops) == \A i \in DOMAIN q : q[i].request.op \in ops
Then(q, first, second) ==
  /\ Waits(q, first \cup second)
  /\ \A i, j \in DOMAIN q : i < j /\ q[i].request.op \in second => q[j].request.op \in second

(* What q can hold while the catalog has status k and the shard status s.  *)
(* A deleted catalog may have been hot or archived a moment ago.           *)
Rest(k) == IF k = "deleted" THEN AtRest ELSE SentIn(k)
Fits(q, k, s) ==
  \/ /\ k \in {"hot", "deleted"} /\ s = "hot"
     /\ Then(q, Archiving, Rest(k)) \/ Then(q, Restoring, Rest(k))
  \/ /\ k \in {"archived", "deleted"} /\ s = "archived"
     /\ Then(q, Archiving, Rest(k))
  \/ /\ \/ k \in {"hot", "deleted"} /\ s \in {"archiving", "deleted"}
        \/ k \in {"archived", "deleted"} /\ s \in {"restoring", "deleted"}
     /\ Waits(q, Rest(k))
  \/ k = "archiving" /\ s = "archiving" /\ Then(q, AtRest, Archiving)
  \/ k = "archiving" /\ s \in {"archived", "hot"} /\ Waits(q, Archiving)
  \/ k = "restoring" /\ s = "restoring" /\ Then(q, AtRest, Restoring)
  \/ k = "restoring" /\ s = "hot" /\ Waits(q, Restoring)

QueueOK == Fits(queue, catalog, status)

(* A call that has moved the shard ahead of the catalog.  The catalog can  *)
(* follow it, unless a late delete has overtaken the beginning of an       *)
(* archive.                                                                *)
Moves == {"begin_archive", "finalize_archive", "cancel_archive", "begin_restore",
          "finalize_restore"}
Ahead(r, k, s, snap) ==
  /\ s = Becomes[r.op] /\ k # s
  /\ k \in MarkNeeds(r.op) \/ (r.op = "begin_archive" /\ k = "deleted")
  /\ r.op \in {"finalize_archive", "begin_restore"} => snap = r.file

Moving(c) == phase[c] = "ran" /\ request[c].op \in Moves

MoversOK ==
  /\ \A c \in Calls : Moving(c) => Ahead(request[c], catalog, status, snapshot)
  /\ \A c, d \in Calls : Moving(c) /\ Moving(d) => c = d

SnapshotsOK ==
  /\ status = "archived" => snapshot = image
  /\ catalog = status /\ status \in {"archived", "restoring"} => catalogSnapshot = snapshot

(* Answers in order, and nothing in shard_operations but applied rows: the *)
(* last answer that moves the catalog moves it to where the shard is.      *)
JournaledCall(c) == Journaled(request[c].op)
JournalOK ==
  troubles = {} /\ ordered =>
    /\ \A i \in DOMAIN queue : queue[i].call = Nobody => ~Journaled(queue[i].request.op)
    /\ \/ catalog = status /\ \A i \in DOMAIN answers : ~JournaledCall(answers[i])
       \/ \E i \in DOMAIN answers :
            /\ JournaledCall(answers[i]) /\ Becomes[request[answers[i]].op] = status
            /\ \A j \in DOMAIN answers : j > i => ~JournaledCall(answers[j])

IInv == Base /\ QueueOK /\ MoversOK /\ SnapshotsOK /\ JournalOK

--------------------------------------------------------------------------------
(* Queues.                                                                 *)

(* p is what is left of q, in the same order, some calls having given up.  *)
Within(p, q) ==
  \E f \in [DOMAIN p -> DOMAIN q] :
    /\ \A i, j \in DOMAIN p : i < j => f[i] < f[j]
    /\ \A i \in DOMAIN p : /\ p[i].request = q[f[i]].request
                           /\ p[i].call \in {q[f[i]].call, Nobody}

LEMMA NeedsOfOps ==
  /\ SentIn("hot") = {"sql_write", "begin_archive", "delete"}
  /\ SentIn("archived") = {"delete", "begin_restore"}
  /\ Rest("hot") = {"sql_write", "begin_archive", "delete"}
  /\ Rest("archived") = {"delete", "begin_restore"}
  /\ Rest("deleted") = AtRest
BY DEF SentIn, Rest, AtRest, Needs

LEMMA WithinWaits ==
  ASSUME NEW p, NEW q, Within(p, q), NEW ops, Waits(q, ops)
  PROVE  Waits(p, ops)
BY DEF Within, Waits

LEMMA WithinThen ==
  ASSUME NEW p, NEW q, Within(p, q), DOMAIN p \subseteq Int, DOMAIN q \subseteq Int,
         NEW first, NEW second, Then(q, first, second)
  PROVE  Then(p, first, second)
<1>1. PICK f \in [DOMAIN p -> DOMAIN q] :
        /\ \A i, j \in DOMAIN p : i < j => f[i] < f[j]
        /\ \A i \in DOMAIN p : p[i].request = q[f[i]].request
  BY DEF Within
<1>2. Waits(p, first \cup second)
  BY <1>1 DEF Then, Waits
<1>3. ASSUME NEW i \in DOMAIN p, NEW j \in DOMAIN p, i < j, p[i].request.op \in second
      PROVE  p[j].request.op \in second
  <2>1. f[i] \in DOMAIN q /\ f[j] \in DOMAIN q /\ f[i] < f[j]
    BY <1>1, <1>3
  <2> QED BY <1>1, <1>3, <2>1 DEF Then
<1> QED BY <1>2, <1>3 DEF Then

(* Taking requests away breaks nothing.                                    *)
LEMMA WithinFits ==
  ASSUME NEW p, NEW q, Within(p, q), DOMAIN p \subseteq Int, DOMAIN q \subseteq Int,
         NEW k, NEW s, Fits(q, k, s)
  PROVE  Fits(p, k, s)
<1>1. \A ops : Waits(q, ops) => Waits(p, ops)
  BY WithinWaits
<1>2. \A first, second : Then(q, first, second) => Then(p, first, second)
  BY WithinThen
<1> QED BY <1>1, <1>2 DEF Fits

(* A queue of one kind, in front of or behind none of the other.           *)
LEMMA WaitsThen ==
  ASSUME NEW q, NEW first, NEW second
  PROVE  /\ Waits(q, second) => Then(q, first, second)
         /\ Waits(q, first) /\ first \cap second = {} => Then(q, first, second)
BY DEF Waits, Then

(* A queue whose first request is of the second kind holds only those.     *)
LEMMA HeadThen ==
  ASSUME NEW q, NEW S, q \in Seq(S), q # <<>>, NEW first, NEW second,
         Then(q, first, second), q[1].request.op \in second
  PROVE  Waits(q, second)
<1>1. DOMAIN q = 1..Len(q) /\ Len(q) \in Nat /\ 1 \in DOMAIN q
  BY LenProperties, EmptySeq
<1> QED BY <1>1 DEF Then, Waits

(* The last request is one the catalog lets be sent.                       *)
LEMMA AppendFits ==
  ASSUME NEW S, NEW q \in Seq(S), NEW m \in S, NEW k \in Shard!DatabaseStatuses, NEW s,
         m.request.op \in AtRest \cup Archiving \cup Restoring, k \in Needs(m.request.op),
         Fits(q, k, s)
  PROVE  Fits(Append(q, m), k, s)
<1> DEFINE p == Append(q, m)
<1>1. /\ Len(q) \in Nat /\ DOMAIN q = 1..Len(q)
      /\ Len(p) = Len(q) + 1 /\ DOMAIN p = 1..Len(p)
      /\ \A i \in DOMAIN q : p[i] = q[i]
      /\ p[Len(p)] = m
  BY AppendProperties, LenProperties
<1> HIDE DEF p
<1>2. \A i \in DOMAIN p : i \in DOMAIN q \/ i = Len(p)
  BY <1>1
<1>3. ASSUME NEW ops, Waits(q, ops), m.request.op \in ops PROVE Waits(p, ops)
  BY <1>1, <1>2, <1>3 DEF Waits
<1>4. ASSUME NEW first, NEW second, Then(q, first, second), m.request.op \in second
      PROVE  Then(p, first, second)
  <2>1. Waits(p, first \cup second)
    BY <1>3, <1>4 DEF Then
  <2>2. ASSUME NEW i \in DOMAIN p, NEW j \in DOMAIN p, i < j, p[i].request.op \in second
        PROVE  p[j].request.op \in second
    <3>1. CASE j \in DOMAIN q
      <4>1. i \in DOMAIN q
        BY <1>1, <2>2, <3>1
      <4> QED BY <1>1, <1>4, <2>2, <3>1, <4>1 DEF Then
    <3>2. CASE j = Len(p)
      BY <1>1, <1>4, <3>2
    <3> QED BY <1>2, <3>1, <3>2
  <2> QED BY <2>1, <2>2 DEF Then
<1>5. /\ k \in {"hot", "archived", "deleted"} => m.request.op \in Rest(k)
      /\ k = "archiving" => m.request.op \in Archiving
      /\ k = "restoring" => m.request.op \in Restoring
  BY NeedsOfOps DEF Needs, AtRest, Archiving, Restoring
<1>6. k \in {"hot", "archived", "deleted", "archiving", "restoring"}
  BY DEF Shard!DatabaseStatuses
<1>7. Fits(p, k, s)
  BY <1>3, <1>4, <1>5, <1>6, SMTT(30) DEF Fits
<1> QED BY <1>7 DEF p

(* The shard runs the first request, of operation op, and its status goes  *)
(* from s to t.                                                            *)
Shifts(op, s, t) ==
  \/ op = "begin_archive" /\ s = "hot" /\ t = "archiving"
  \/ op = "finalize_archive" /\ s = "archiving" /\ t = "archived"
  \/ op = "cancel_archive" /\ s = "archiving" /\ t = "hot"
  \/ op = "begin_restore" /\ s \in {"archived", "deleted"} /\ t = "restoring"
  \/ op = "finalize_restore" /\ s = "restoring" /\ t = "hot"
  \/ op = "delete" /\ s \in {"hot", "archived", "deleted"} /\ t = "deleted"
  \/ op \in {"sql_write", "write_chunk"} /\ t = s

(* The queue still fits, and the catalog is where the shard was if the     *)
(* shard's status has changed, but for deleted databases.                  *)
LEMMA ShiftFits ==
  ASSUME NEW S, NEW q \in Seq(S), q # <<>>, NEW k, NEW s, NEW t,
         Fits(q, k, s), Shifts(q[1].request.op, s, t)
  PROVE  /\ Fits(q, k, t)
         /\ q[1].request.op \in Moves =>
              k # t /\ (k \in Needs(q[1].request.op) \/ (q[1].request.op = "begin_archive" /\ k = "deleted"))
         /\ q[1].request.op \in Moves \cup {"delete"} =>
              /\ s = "hot" => k \in {"hot", "deleted"}
              /\ s = "archived" => k \in {"archived", "deleted"}
              /\ s \in {"archiving", "restoring"} => k = s
<1> DEFINE op == q[1].request.op
<1>1. 1 \in DOMAIN q
  BY LenProperties, EmptySeq
<1>2. \A ops : Waits(q, ops) => op \in ops
  BY <1>1 DEF Waits
<1>3. \A first, second : Then(q, first, second) =>
        /\ op \in first \cup second
        /\ op \in second => Waits(q, second)
  BY <1>1, HeadThen DEF Then, Waits
<1>4. Rest(k) \subseteq AtRest
  BY DEF Rest, SentIn
<1>5. k \in {"hot", "archived", "deleted"} /\ op \in Rest(k) => k \in Needs(op) \/ k = "deleted"
  BY DEF Rest, SentIn
<1> HIDE DEF op
<1>6. /\ Shifts(op, s, t) /\ op = q[1].request.op
      /\ \A first, second : Then(q, first, second) => op \in first \cup second
  BY <1>3 DEF op
<1> USE NeedsOfOps DEF Fits, AtRest, Archiving, Restoring, Moves, Needs
<1>7. CASE op = "begin_archive" /\ s = "hot" /\ t = "archiving"
  BY <1>2, <1>3, <1>4, <1>5, <1>6, <1>7
<1>8. CASE op = "finalize_archive" /\ s = "archiving" /\ t = "archived"
  BY <1>2, <1>3, <1>4, <1>5, <1>6, <1>8
<1>9. CASE op = "cancel_archive" /\ s = "archiving" /\ t = "hot"
  BY <1>2, <1>3, <1>4, <1>5, <1>6, <1>9
<1>10. CASE op = "begin_restore" /\ s \in {"archived", "deleted"} /\ t = "restoring"
  BY <1>2, <1>3, <1>4, <1>5, <1>6, <1>10
<1>11. CASE op = "finalize_restore" /\ s = "restoring" /\ t = "hot"
  BY <1>2, <1>3, <1>4, <1>5, <1>6, <1>11
<1>12. CASE op = "delete" /\ s \in {"hot", "archived", "deleted"} /\ t = "deleted"
  BY <1>2, <1>3, <1>4, <1>5, <1>6, <1>12
<1>13. CASE op \in {"sql_write", "write_chunk"} /\ t = s
  BY <1>6, <1>13
<1> QED BY <1>6, <1>7, <1>8, <1>9, <1>10, <1>11, <1>12, <1>13 DEF Shifts

(* The catalog follows a call that moved the shard, or one that deleted.   *)
LEMMA MarkFits ==
  ASSUME NEW q, NEW k, NEW s, NEW r, NEW snap, Fits(q, k, s), k \in MarkNeeds(r.op),
         \/ r.op \in Moves /\ Ahead(r, k, s, snap)
         \/ r.op = "delete"
  PROVE  Fits(q, Becomes[r.op], s)
<1> USE NeedsOfOps DEF Fits, AtRest, Archiving, Restoring, Moves, Needs, MarkNeeds, Becomes
<1>1. Rest("hot") \cap Archiving = {} /\ Rest("hot") \cap Restoring = {}
      /\ Rest("archived") \cap Archiving = {} /\ AtRest \cap Archiving = {}
      /\ AtRest \cap Restoring = {}
  OBVIOUS
<1>2. \A first, second : /\ Waits(q, second) => Then(q, first, second)
                         /\ Waits(q, first) /\ first \cap second = {} => Then(q, first, second)
  BY WaitsThen
<1>3. \A small, large : small \subseteq large /\ Waits(q, small) => Waits(q, large)
  BY DEF Waits
<1>4. ASSUME NEW first, NEW small, NEW large, Then(q, first, small),
             small \subseteq large, first \cap large = {}
      PROVE  Then(q, first, large)
  BY <1>4 DEF Then, Waits
<1>5. Rest("hot") \subseteq AtRest /\ Rest("archived") \subseteq AtRest
  OBVIOUS
<1>6. CASE r.op = "begin_archive"
  BY <1>1, <1>2, <1>3, <1>5, <1>6 DEF Ahead
<1>7. CASE r.op = "finalize_archive"
  BY <1>1, <1>2, <1>7 DEF Ahead
<1>8. CASE r.op = "cancel_archive"
  BY <1>1, <1>2, <1>8 DEF Ahead
<1>9. CASE r.op = "begin_restore"
  BY <1>1, <1>2, <1>3, <1>5, <1>9 DEF Ahead
<1>10. CASE r.op = "finalize_restore"
  BY <1>1, <1>2, <1>10 DEF Ahead
<1>11. CASE r.op = "delete"
  BY <1>1, <1>3, <1>4, <1>5, <1>11 DEF Ahead
<1> QED BY <1>6, <1>7, <1>8, <1>9, <1>10, <1>11

--------------------------------------------------------------------------------
(* The shard.                                                              *)

ShardTypes ==
  /\ status \in Shard!DatabaseStatuses
  /\ snapshot \in Shard!Versions \cup {Blank}
  /\ image \in Shard!Versions \cup {Blank}
  /\ chunks \in Shard!Versions \cup {Blank}
  /\ mounts \in 1..MaxMounts /\ newest \in Shard!Versions

LEMMA RequestFields ==
  ASSUME NEW r \in Requests
  PROVE  /\ r.op \in AtRest \cup Archiving \cup Restoring
         /\ r.caller \in Callers
         /\ r.op \in OfFile => r.file \in Shard!Versions
         /\ Journaled(r.op) <=> r.op \in Moves \cup {"delete"}
BY DEF Requests, Plain, OfFile, AtRest, Archiving, Restoring, Journaled, Becomes, Moves

(* What a request that succeeds does to the shard.                         *)
LEMMA RunsShard ==
  ASSUME NEW r \in Requests, ShardTypes, Runs(r)
  PROVE  /\ ShardTypes'
         /\ Shifts(r.op, status, status')
         /\ Journaled(r.op) => status' = Becomes[r.op]
         /\ ~Journaled(r.op) => status' = status
         /\ snapshot' = IF r.op \in {"finalize_archive", "begin_restore"} THEN r.file ELSE snapshot
         /\ (status = "archived" => snapshot = image) => (status' = "archived" => snapshot' = image')
<1> USE Bounds DEF ShardTypes, Shifts, Becomes, Journaled, Shard!DatabaseStatuses, Shard!Versions
<1>1. r.op \in OfFile => r.file \in Shard!Versions
  BY RequestFields
<1>2. CASE r.op = "sql_write" /\ Shard!SqlWrite
  BY <1>2 DEF Shard!SqlWrite
<1>3. CASE r.op = "begin_archive" /\ Shard!begin_database_archive
  BY <1>3 DEF Shard!begin_database_archive
<1>4. CASE r.op = "finalize_archive" /\ Shard!finalize_database_archive(r.file)
  BY <1>1, <1>4 DEF Shard!finalize_database_archive, Shard!DigestMatches, OfFile
<1>5. CASE r.op = "cancel_archive" /\ Shard!cancel_database_archive
  BY <1>5 DEF Shard!cancel_database_archive
<1>6. CASE r.op = "begin_restore" /\ Shard!begin_database_restore(r.file)
  BY <1>1, <1>6 DEF Shard!begin_database_restore, Shard!FreeMount, OfFile
<1>7. CASE r.op = "write_chunk" /\ Shard!write_database_restore_chunk(r.file)
  BY <1>1, <1>7 DEF Shard!write_database_restore_chunk, OfFile
<1>8. CASE r.op = "finalize_restore" /\ Shard!finalize_database_restore
  BY <1>8 DEF Shard!finalize_database_restore
<1>9. CASE r.op = "delete" /\ Shard!delete_database
  BY <1>9 DEF Shard!delete_database
<1>10. CASE r.op = "delete" /\ status = "deleted" /\ UNCHANGED shard
  BY <1>10 DEF shard
<1> QED BY <1>2, <1>3, <1>4, <1>5, <1>6, <1>7, <1>8, <1>9, <1>10 DEF Runs

(* One that is refused leaves what the catalog tells of it.                *)
LEMMA RefusesShard ==
  ASSUME NEW r, ShardTypes, Refuses(r)
  PROVE  /\ ShardTypes'
         /\ status' = status /\ snapshot' = snapshot /\ image' = image
BY Bounds DEF ShardTypes, Refuses, shard, Shard!rollback_database_restore_begin, Shard!FreeMount,
              Shard!DatabaseStatuses, Shard!Versions

--------------------------------------------------------------------------------
(* Requests and answers.                                                   *)

LEMMA TailWithin ==
  ASSUME NEW S, NEW q \in Seq(S), q # <<>>
  PROVE  Tail(q) \in Seq(S) /\ Within(Tail(q), q) /\ Head(q) = q[1] /\ q[1] \in S
<1>1. /\ Tail(q) \in Seq(S) /\ Len(Tail(q)) = Len(q) - 1
      /\ \A i \in 1..Len(Tail(q)) : Tail(q)[i] = q[i + 1]
      /\ Len(q) \in Nat \ {0} /\ DOMAIN q = 1..Len(q) /\ DOMAIN Tail(q) = 1..Len(Tail(q))
  BY HeadTailProperties, LenProperties, EmptySeq
<1> DEFINE p == Tail(q)
           f == [i \in DOMAIN p |-> i + 1]
<1> HIDE DEF p
<1>2. f \in [DOMAIN p -> DOMAIN q]
  BY <1>1 DEF p
<1>3. \A i, j \in DOMAIN p : i < j => f[i] < f[j]
  BY <1>1 DEF p
<1>4. \A i \in DOMAIN p : p[i] = q[f[i]]
  BY <1>1 DEF p
<1>5. Within(p, q)
  <2> HIDE DEF f
  <2> QED BY <1>2, <1>3, <1>4 DEF Within
<1>6. Head(q) = q[1] /\ q[1] \in S
  BY <1>1, ElementOfSeq
<1> QED BY <1>1, <1>5, <1>6 DEF p

(* p is q without its k-th element.                                        *)
Skips(p, q, k) ==
  \E f \in [DOMAIN p -> DOMAIN q] :
    /\ \A i, j \in DOMAIN p : i < j => f[i] < f[j]
    /\ \A i \in DOMAIN p : p[i] = q[f[i]] /\ f[i] # k
    /\ \A n \in DOMAIN q : n # k => \E i \in DOMAIN p : f[i] = n

LEMMA RemoveAtSkips ==
  ASSUME NEW S, NEW q \in Seq(S), NEW k \in 1..Len(q)
  PROVE  RemoveAt(q, k) \in Seq(S) /\ Skips(RemoveAt(q, k), q, k)
<1> DEFINE p == RemoveAt(q, k)
           f == [i \in DOMAIN p |-> IF i < k THEN i ELSE i + 1]
<1>1. /\ p \in Seq(S) /\ Len(p) = Len(q) - 1 /\ Len(q) \in Nat
      /\ \A i \in 1..(Len(q) - 1) : p[i] = q[IF i < k THEN i ELSE i + 1]
      /\ DOMAIN p = 1..(Len(q) - 1) /\ DOMAIN q = 1..Len(q)
  <2>1. p \in Seq(S) /\ Len(p) = Len(q) - 1
    BY RemoveAtProperties
  <2>2. DOMAIN p = 1..Len(p)
    <3> HIDE DEF p
    <3> QED BY <2>1, LenProperties
  <2> QED BY <2>1, <2>2, RemoveAtProperties, LenProperties
<1> HIDE DEF p
<1>2. f \in [DOMAIN p -> DOMAIN q]
  BY <1>1
<1>3. \A i, j \in DOMAIN p : i < j => f[i] < f[j]
  BY <1>1
<1>4. \A i \in DOMAIN p : p[i] = q[f[i]] /\ f[i] # k
  BY <1>1
<1>5. ASSUME NEW n \in DOMAIN q, n # k PROVE \E i \in DOMAIN p : f[i] = n
  <2>1. CASE n < k
    BY <1>1, <2>1
  <2>2. CASE n > k
    <3>1. n - 1 \in DOMAIN p /\ f[n - 1] = n
      BY <1>1, <2>2
    <3> QED BY <3>1
  <2> QED BY <1>1, <1>5, <2>1, <2>2
<1> HIDE DEF f
<1>6. p \in Seq(S) /\ Skips(p, q, k)
  BY <1>1, <1>2, <1>3, <1>4, <1>5 DEF Skips
<1> QED BY <1>6 DEF p

(* The answers but that of c, in their order.                              *)
LEMMA AnswersLeft ==
  ASSUME NEW S, NEW s \in Seq(S), NEW c, \A i, j \in DOMAIN s : s[i] = s[j] => i = j
  PROVE  LET p == RemoveFirst(s, c)
         IN /\ p \in Seq(S)
            /\ \E f \in [DOMAIN p -> DOMAIN s] :
                 /\ \A i, j \in DOMAIN p : i < j => f[i] < f[j]
                 /\ \A i \in DOMAIN p : p[i] = s[f[i]] /\ p[i] # c
                 /\ \A n \in DOMAIN s : s[n] # c => \E i \in DOMAIN p : f[i] = n
<1> DEFINE p == RemoveFirst(s, c)
<1>1. DOMAIN s = 1..Len(s) /\ Len(s) \in Nat
  BY LenProperties
<1>2. CASE (\A i \in 1..Len(s) : s[i] # c) /\ p = s
  <2> DEFINE f == [i \in DOMAIN s |-> i]
  <2> HIDE DEF p
  <2>1. f \in [DOMAIN s -> DOMAIN s] /\ \A i \in DOMAIN s : f[i] = i
    OBVIOUS
  <2> HIDE DEF f
  <2>2. p \in Seq(S) /\ \E g \in [DOMAIN p -> DOMAIN s] :
                 /\ \A i, j \in DOMAIN p : i < j => g[i] < g[j]
                 /\ \A i \in DOMAIN p : p[i] = s[g[i]] /\ p[i] # c
                 /\ \A n \in DOMAIN s : s[n] # c => \E i \in DOMAIN p : g[i] = n
    BY <1>1, <1>2, <2>1
  <2> QED BY <2>2 DEF p
<1>3. ASSUME NEW k \in 1..Len(s), s[k] = c, p = RemoveAt(s, k)
      PROVE  p \in Seq(S) /\ \E g \in [DOMAIN p -> DOMAIN s] :
                 /\ \A i, j \in DOMAIN p : i < j => g[i] < g[j]
                 /\ \A i \in DOMAIN p : p[i] = s[g[i]] /\ p[i] # c
                 /\ \A n \in DOMAIN s : s[n] # c => \E i \in DOMAIN p : g[i] = n
  <2> DEFINE r == RemoveAt(s, k)
  <2>1. r \in Seq(S) /\ Skips(r, s, k)
    BY RemoveAtSkips
  <2>2. \A n \in DOMAIN s : s[n] = c <=> n = k
    BY <1>1, <1>3
  <2>3. p = r
    BY <1>3
  <2> HIDE DEF p, r
  <2>4. PICK f \in [DOMAIN r -> DOMAIN s] :
              /\ \A i, j \in DOMAIN r : i < j => f[i] < f[j]
              /\ \A i \in DOMAIN r : r[i] = s[f[i]] /\ f[i] # k
              /\ \A n \in DOMAIN s : n # k => \E i \in DOMAIN r : f[i] = n
    BY <2>1 DEF Skips
  <2>5. /\ \A i \in DOMAIN r : r[i] = s[f[i]] /\ r[i] # c
        /\ \A n \in DOMAIN s : s[n] # c => \E i \in DOMAIN r : f[i] = n
    BY <2>2, <2>4
  <2> QED BY <2>1, <2>3, <2>4, <2>5, SMTT(30)
<1> QED BY <1>2, <1>3, RemoveFirstProperties

(* What a call that gives up leaves of the queue.                          *)
Orphan(c) == \/ queue' = RemoveFirstMatch(queue, LAMBDA m : m.call = c)
             \/ queue' = [i \in DOMAIN queue |-> IF queue[i].call = c
                                                 THEN [queue[i] EXCEPT !.call = Nobody]
                                                 ELSE queue[i]]

LEMMA OrphanWithin ==
  ASSUME Base, NEW c \in Calls, Orphan(c)
  PROVE  /\ queue' \in Seq(Messages) /\ Within(queue', queue)
         /\ \A i \in DOMAIN queue' : queue'[i].call # c
         /\ \A i \in DOMAIN queue' : queue'[i].call = Nobody =>
              \E j \in DOMAIN queue : /\ queue[j].call \in {Nobody, c}
                                      /\ queue'[i].request = queue[j].request
<1> DEFINE I == {i \in 1..Len(queue) : queue[i].call = c}
           R == RemoveFirstMatch(queue, LAMBDA m : m.call = c)
<1>1. /\ queue \in Seq(Messages) /\ c # Nobody
      /\ DOMAIN queue = 1..Len(queue) /\ Len(queue) \in Nat
      /\ \A i \in DOMAIN queue : queue[i] \in Messages
      /\ \A i, j \in DOMAIN queue : queue[i].call = queue[j].call /\ queue[i].call # Nobody => i = j
  <2>1. queue \in Seq(Messages) /\ c # Nobody
    BY Bounds DEF Base, TypeOK, Messages
  <2>2. DOMAIN queue = 1..Len(queue) /\ Len(queue) \in Nat
    BY <2>1, LenProperties
  <2>3. \A i \in DOMAIN queue : queue[i] \in Messages
    BY <2>1, <2>2, ElementOfSeq
  <2> QED BY <2>1, <2>2, <2>3 DEF Base, CallsOK
<1>2. CASE queue' = R /\ I = {}
  <2>1. queue' = queue
    BY <1>2 DEF RemoveFirstMatch
  <2> DEFINE f == [i \in DOMAIN queue |-> i]
  <2>2. f \in [DOMAIN queue -> DOMAIN queue] /\ \A i \in DOMAIN queue : f[i] = i
    OBVIOUS
  <2> HIDE DEF f
  <2>3. Within(queue', queue)
    BY <2>1, <2>2 DEF Within
  <2> QED BY <1>1, <1>2, <2>1, <2>3
<1>3. CASE queue' = R /\ I # {}
  <2>1. PICK k \in 1..Len(queue) : queue[k].call = c /\ queue' = RemoveAt(queue, k)
    <3>1. Min(I) \in I
      BY <1>1, <1>3, FirstPosition
    <3>2. R = RemoveAt(queue, Min(I))
      BY <1>3 DEF RemoveFirstMatch, SelectInSeq
    <3> QED BY <1>3, <3>1, <3>2
  <2> DEFINE r == RemoveAt(queue, k)
  <2>2. queue \in Seq(Messages) /\ k \in 1..Len(queue)
    BY <1>1, <2>1
  <2>3. r \in Seq(Messages) /\ Skips(r, queue, k)
    BY <2>2, RemoveAtSkips
  <2> HIDE DEF r
  <2>4. PICK f \in [DOMAIN r -> DOMAIN queue] :
              /\ \A i, j \in DOMAIN r : i < j => f[i] < f[j]
              /\ \A i \in DOMAIN r : r[i] = queue[f[i]] /\ f[i] # k
    BY <2>3 DEF Skips
  <2>5. Within(r, queue)
    BY <2>4 DEF Within
  <2>6. \A i \in DOMAIN r : /\ f[i] \in DOMAIN queue /\ r[i] = queue[f[i]] /\ r[i].call # c
    BY <1>1, <2>1, <2>4
  <2>7. queue' = r
    BY <2>1 DEF r
  <2> QED BY <2>3, <2>5, <2>6, <2>7
<1>4. CASE queue' = [i \in DOMAIN queue |-> IF queue[i].call = c
                                            THEN [queue[i] EXCEPT !.call = Nobody]
                                            ELSE queue[i]]
  <2>1. DOMAIN queue' = DOMAIN queue
    BY <1>4
  <2>2. ASSUME NEW i \in DOMAIN queue
        PROVE  /\ queue'[i] \in Messages /\ queue'[i].request = queue[i].request
               /\ queue'[i].call = IF queue[i].call = c THEN Nobody ELSE queue[i].call
    BY <1>1, <1>4 DEF Messages
  <2>3. queue' \in Seq(Messages)
    <3>1. queue' \in [1..Len(queue) -> Messages]
      BY <1>1, <1>4, <2>1, <2>2
    <3> QED BY <1>1, <3>1
  <2> DEFINE f == [i \in DOMAIN queue |-> i]
  <2>4. f \in [DOMAIN queue -> DOMAIN queue] /\ \A i \in DOMAIN queue : f[i] = i
    OBVIOUS
  <2> HIDE DEF f
  <2>5. Within(queue', queue)
    BY <2>1, <2>2, <2>4 DEF Within
  <2> QED BY <1>1, <2>1, <2>2, <2>3, <2>5
<1> QED BY <1>2, <1>3, <1>4 DEF Orphan

(* The requests on their way still match the calls, if none is of the call *)
(* c that went on.                                                         *)
QueueCalls ==
  /\ \A i \in DOMAIN queue : queue[i].call # Nobody =>
       phase[queue[i].call] = "sent" /\ request[queue[i].call] = queue[i].request
  /\ \A i, j \in DOMAIN queue : queue[i].call = queue[j].call /\ queue[i].call # Nobody => i = j

Others(c) == \A d \in Calls \cup {Nobody} : d # c /\ d # Nobody =>
                phase'[d] = phase[d] /\ request'[d] = request[d]

LEMMA QueueCallsKept ==
  ASSUME Base, NEW c, queue' \in Seq(Messages), Within(queue', queue), Others(c),
         \A i \in DOMAIN queue' : queue'[i].call # c \/ c = Nobody
  PROVE  QueueCalls'
<1>1. PICK f \in [DOMAIN queue' -> DOMAIN queue] :
        /\ \A i, j \in DOMAIN queue' : i < j => f[i] < f[j]
        /\ \A i \in DOMAIN queue' : /\ queue'[i].request = queue[f[i]].request
                                    /\ queue'[i].call \in {queue[f[i]].call, Nobody}
  BY DEF Within
<1>2. /\ DOMAIN queue' \subseteq Int /\ DOMAIN queue \subseteq Int
      /\ \A i \in DOMAIN queue' : queue'[i].call \in Calls \cup {Nobody}
  <2>1. queue \in Seq(Messages)
    BY DEF Base, TypeOK, Messages
  <2>2. \A i \in DOMAIN queue' : queue'[i] \in Messages
    BY LenProperties, ElementOfSeq
  <2> QED BY <2>1, <2>2, LenProperties DEF Messages
<1>3. \A i, j \in DOMAIN queue' : f[i] = f[j] => i = j
  <2> SUFFICES ASSUME NEW i \in DOMAIN queue', NEW j \in DOMAIN queue', f[i] = f[j], i # j
               PROVE  FALSE
    OBVIOUS
  <2>1. i < j \/ j < i
    BY <1>2
  <2>2. f[i] \in Int
    BY <1>1, <1>2
  <2> QED BY <1>1, <2>1, <2>2
<1>4. ASSUME NEW i \in DOMAIN queue', queue'[i].call # Nobody
      PROVE  /\ phase'[queue'[i].call] = "sent" /\ request'[queue'[i].call] = queue'[i].request
             /\ queue'[i].call = queue[f[i]].call
  <2>1. queue'[i].call = queue[f[i]].call /\ f[i] \in DOMAIN queue
    BY <1>1, <1>4
  <2>2. /\ phase[queue[f[i]].call] = "sent"
        /\ request[queue[f[i]].call] = queue[f[i]].request
    BY <1>4, <2>1 DEF Base, CallsOK
  <2> QED BY <1>1, <1>2, <1>4, <2>1, <2>2 DEF Others
<1>5. ASSUME NEW i \in DOMAIN queue', NEW j \in DOMAIN queue',
             queue'[i].call = queue'[j].call, queue'[i].call # Nobody
      PROVE  i = j
  <2>1. queue[f[i]].call = queue[f[j]].call /\ queue[f[i]].call # Nobody
    BY <1>4, <1>5
  <2>2. f[i] = f[j]
    BY <1>1, <2>1 DEF Base, CallsOK
  <2> QED BY <1>3, <2>2
<1> QED BY <1>4, <1>5 DEF QueueCalls

(* The calls that have been answered.                                      *)
AnswerCalls ==
  /\ \A c \in Calls : phase[c] = "ran" <=> \E i \in DOMAIN answers : answers[i] = c
  /\ \A i, j \in DOMAIN answers : answers[i] = answers[j] => i = j

LEMMA AnswersKept ==
  ASSUME Base, NEW c \in Calls, answers' = RemoveFirst(answers, c), Others(c), phase'[c] # "ran"
  PROVE  AnswerCalls' /\ answers' \in Seq(Calls)
<1>1. answers \in Seq(Calls) /\ \A i, j \in DOMAIN answers : answers[i] = answers[j] => i = j
  BY DEF Base, TypeOK, CallsOK
<1>2. /\ answers' \in Seq(Calls)
      /\ \E f \in [DOMAIN answers' -> DOMAIN answers] :
           /\ \A i, j \in DOMAIN answers' : i < j => f[i] < f[j]
           /\ \A i \in DOMAIN answers' : answers'[i] = answers[f[i]] /\ answers'[i] # c
           /\ \A n \in DOMAIN answers : answers[n] # c => \E i \in DOMAIN answers' : f[i] = n
  BY <1>1, AnswersLeft, SMTT(30)
<1>3. PICK f \in [DOMAIN answers' -> DOMAIN answers] :
           /\ \A i, j \in DOMAIN answers' : i < j => f[i] < f[j]
           /\ \A i \in DOMAIN answers' : answers'[i] = answers[f[i]] /\ answers'[i] # c
           /\ \A n \in DOMAIN answers : answers[n] # c => \E i \in DOMAIN answers' : f[i] = n
  BY <1>2
<1>4. DOMAIN answers \subseteq Int /\ DOMAIN answers' \subseteq Int
  BY <1>1, <1>2, LenProperties
<1>5. ASSUME NEW i \in DOMAIN answers', NEW j \in DOMAIN answers', answers'[i] = answers'[j]
      PROVE  i = j
  <2> SUFFICES ASSUME i # j PROVE FALSE
    OBVIOUS
  <2>1. (i < j \/ j < i) /\ f[i] = f[j] /\ f[i] \in Int
    BY <1>1, <1>3, <1>4, <1>5
  <2> QED BY <1>3, <2>1
<1>6. ASSUME NEW d \in Calls PROVE phase'[d] = "ran" <=> \E i \in DOMAIN answers' : answers'[i] = d
  <2>1. CASE d = c
    BY <1>3, <2>1
  <2>2. CASE d # c
    <3>1. phase'[d] = phase[d]
      BY <2>2, Bounds DEF Others
    <3>2. (\E i \in DOMAIN answers : answers[i] = d) <=> \E i \in DOMAIN answers' : answers'[i] = d
      BY <1>3, <2>2
    <3> QED BY <3>1, <3>2 DEF Base, CallsOK
  <2> QED BY <2>1, <2>2
<1> QED BY <1>2, <1>5, <1>6 DEF AnswerCalls

(* The types of the variables that are not the shard's.                    *)
ControlTypes ==
  /\ catalog \in Shard!DatabaseStatuses /\ catalogSnapshot \in Shard!Versions \cup {Blank}
  /\ owners \subseteq Principals
  /\ phase \in [Calls -> {"idle", "sent", "ran", "refused"}]
  /\ request \in [Calls -> Requests \cup {NoRequest}]
  /\ troubles \subseteq {"failed", "unknown"}
  /\ ordered \in Orders

LEMMA BaseParts ==
  Base <=> /\ ShardTypes /\ ControlTypes /\ queue \in Seq(Messages) /\ answers \in Seq(Calls)
           /\ QueueCalls /\ AnswerCalls
           /\ \A c \in Calls : phase[c] # "idle" => request[c] \in Requests
BY DEF Base, TypeOK, CallsOK, ShardTypes, ControlTypes, QueueCalls, AnswerCalls, Messages

LEMMA BaseFromParts ==
  ASSUME ShardTypes', ControlTypes', queue' \in Seq(Messages), answers' \in Seq(Calls),
         QueueCalls', AnswerCalls', \A c \in Calls : phase'[c] # "idle" => request'[c] \in Requests
  PROVE  Base'
<1>1. TypeOK'
  BY DEF TypeOK, ShardTypes, ControlTypes, Messages
<1>2. CallsOK'
  BY DEF CallsOK, QueueCalls, AnswerCalls
<1> QED BY <1>1, <1>2 DEF Base

(* A call that returns.                                                    *)
LEMMA ReturnBase ==
  ASSUME Base, NEW c \in Calls, Return(c), ordered' = ordered,
         catalog' \in Shard!DatabaseStatuses, catalogSnapshot' \in Shard!Versions \cup {Blank},
         troubles' \subseteq {"failed", "unknown"},
         (UNCHANGED queue /\ phase[c] # "sent") \/ Orphan(c)
  PROVE  Base'
<1>1. /\ phase' = [phase EXCEPT ![c] = "idle"] /\ request' = [request EXCEPT ![c] = NoRequest]
      /\ answers' = RemoveFirst(answers, c) /\ UNCHANGED <<shard, owners>>
  BY DEF Return
<1>2. ShardTypes' /\ ControlTypes'
  BY <1>1, BaseParts DEF ShardTypes, ControlTypes, shard
<1>3. Others(c) /\ phase'[c] = "idle"
  BY <1>1, BaseParts DEF Others, ControlTypes
<1>4. AnswerCalls' /\ answers' \in Seq(Calls)
  BY <1>1, <1>3, AnswersKept
<1>5. queue' \in Seq(Messages) /\ QueueCalls'
  <2>1. CASE UNCHANGED queue /\ phase[c] # "sent"
    <3>1. \A i \in DOMAIN queue : queue[i].call # Nobody => queue[i].call # c
      BY <2>1, BaseParts DEF QueueCalls
    <3>2. \A i \in DOMAIN queue : queue[i].call \in Calls \cup {Nobody}
      <4>1. queue \in Seq(Messages)
        BY BaseParts
      <4>2. \A i \in DOMAIN queue : queue[i] \in Messages
        BY <4>1, LenProperties, ElementOfSeq
      <4> QED BY <4>2 DEF Messages
    <3> QED BY <1>3, <2>1, <3>1, <3>2, BaseParts DEF QueueCalls, Others
  <2>2. CASE Orphan(c)
    BY <1>3, <2>2, OrphanWithin, QueueCallsKept
  <2> QED BY <2>1, <2>2
<1>6. \A d \in Calls : phase'[d] # "idle" => request'[d] \in Requests
  BY <1>1, BaseParts DEF ControlTypes
<1> QED BY <1>2, <1>4, <1>5, <1>6, BaseFromParts

--------------------------------------------------------------------------------
(* The answers that move the catalog.                                      *)

(* The answer at i is the last of them and moves it to where the shard is. *)
LastAt(i) == /\ JournaledCall(answers[i]) /\ Becomes[request[answers[i]].op] = status
             /\ \A j \in DOMAIN answers : j > i => ~JournaledCall(answers[j])
NoneLeft == \A i \in DOMAIN answers : ~JournaledCall(answers[i])

LEMMA LastKept ==
  ASSUME Base, NEW c \in Calls, answers' = RemoveFirst(answers, c), status' = status, Others(c)
  PROVE  /\ NoneLeft => NoneLeft'
         /\ \A i \in DOMAIN answers : LastAt(i) =>
              /\ answers[i] # c => \E n \in DOMAIN answers' : LastAt(n)'
              /\ answers[i] = c /\ i = 1 => NoneLeft'
<1>1. /\ answers \in Seq(Calls) /\ \A i, j \in DOMAIN answers : answers[i] = answers[j] => i = j
      /\ c # Nobody
  BY Bounds DEF Base, TypeOK, CallsOK
<1>2. /\ answers' \in Seq(Calls)
      /\ \E f \in [DOMAIN answers' -> DOMAIN answers] :
           /\ \A i, j \in DOMAIN answers' : i < j => f[i] < f[j]
           /\ \A i \in DOMAIN answers' : answers'[i] = answers[f[i]] /\ answers'[i] # c
           /\ \A n \in DOMAIN answers : answers[n] # c => \E i \in DOMAIN answers' : f[i] = n
  BY <1>1, AnswersLeft, SMTT(30)
<1>3. PICK f \in [DOMAIN answers' -> DOMAIN answers] :
           /\ \A i, j \in DOMAIN answers' : i < j => f[i] < f[j]
           /\ \A i \in DOMAIN answers' : answers'[i] = answers[f[i]] /\ answers'[i] # c
           /\ \A n \in DOMAIN answers : answers[n] # c => \E i \in DOMAIN answers' : f[i] = n
  BY <1>2
<1>4. /\ DOMAIN answers = 1..Len(answers) /\ DOMAIN answers' \subseteq Int
      /\ \A i \in DOMAIN answers : answers[i] \in Calls
  BY <1>1, <1>2, LenProperties, ElementOfSeq
<1>5. \A i \in DOMAIN answers' : /\ f[i] \in DOMAIN answers /\ answers'[i] = answers[f[i]]
                                 /\ request'[answers'[i]] = request[answers[f[i]]]
  <2> SUFFICES ASSUME NEW i \in DOMAIN answers'
               PROVE  /\ f[i] \in DOMAIN answers /\ answers'[i] = answers[f[i]]
                      /\ request'[answers'[i]] = request[answers[f[i]]]
    OBVIOUS
  <2>1. f[i] \in DOMAIN answers /\ answers'[i] = answers[f[i]] /\ answers'[i] # c
    BY <1>3
  <2>2. answers'[i] \in Calls /\ answers'[i] # Nobody
    BY <1>4, <2>1, Bounds
  <2>3. request'[answers'[i]] = request[answers'[i]]
    BY <2>1, <2>2 DEF Others
  <2> QED BY <2>1, <2>3
<1>6. NoneLeft => NoneLeft'
  BY <1>5 DEF NoneLeft, JournaledCall
<1>7. ASSUME NEW i \in DOMAIN answers, LastAt(i), answers[i] # c
      PROVE  \E n \in DOMAIN answers' : LastAt(n)'
  <2>1. PICK n \in DOMAIN answers' : f[n] = i
    BY <1>3, <1>7
  <2>2. \A m \in DOMAIN answers' : m > n => f[m] \in DOMAIN answers /\ f[m] > i
    BY <1>3, <1>4, <2>1
  <2>3. \A m \in DOMAIN answers' : m > n => ~Journaled(request'[answers'[m]].op)
    BY <1>5, <1>7, <2>2 DEF LastAt, JournaledCall
  <2>4. /\ Journaled(request'[answers'[n]].op)
        /\ Becomes[request'[answers'[n]].op] = status'
    BY <1>5, <1>7, <2>1 DEF LastAt, JournaledCall
  <2> QED BY <2>3, <2>4 DEF LastAt, JournaledCall
<1>8. ASSUME NEW i \in DOMAIN answers, LastAt(i), answers[i] = c, i = 1
      PROVE  NoneLeft'
  <2>1. \A n \in DOMAIN answers : n # 1 => ~JournaledCall(answers[n])
    BY <1>4, <1>8 DEF LastAt
  <2>2. \A n \in DOMAIN answers' : f[n] # 1
    BY <1>3, <1>8
  <2> QED BY <1>5, <2>1, <2>2 DEF NoneLeft, JournaledCall
<1> QED BY <1>6, <1>7, <1>8

--------------------------------------------------------------------------------
(* The steps.                                                              *)

(* A call that returns and leaves the catalog as it is.                    *)
LEMMA ReturnsOnly ==
  ASSUME IInv, NEW c \in Calls, Return(c), ordered' = ordered, UNCHANGED control,
         troubles \subseteq troubles', troubles' \subseteq {"failed", "unknown"},
         Journaled(request[c].op) => troubles' # {},
         (UNCHANGED queue /\ phase[c] # "sent") \/ Orphan(c)
  PROVE  IInv'
<1>1. Base /\ UNCHANGED shard
  BY DEF IInv, Return
<1>2. UNCHANGED <<status, snapshot, image, catalog, catalogSnapshot>>
  BY <1>1 DEF shard, control
<1>3. Base'
  BY <1>1, <1>2, ReturnBase, BaseParts DEF ControlTypes
<1>4. /\ phase' = [phase EXCEPT ![c] = "idle"] /\ request' = [request EXCEPT ![c] = NoRequest]
      /\ answers' = RemoveFirst(answers, c)
      /\ phase \in [Calls -> {"idle", "sent", "ran", "refused"}]
      /\ request \in [Calls -> Requests \cup {NoRequest}]
  BY <1>1, BaseParts DEF Return, ControlTypes
<1>5. Others(c)
  BY <1>4 DEF Others
<1>6. QueueOK'
  <2>1. CASE UNCHANGED queue
    BY <1>2, <2>1 DEF IInv, QueueOK
  <2>2. CASE Orphan(c)
    <3>1. queue' \in Seq(Messages) /\ queue \in Seq(Messages) /\ Within(queue', queue)
      BY <1>1, <2>2, OrphanWithin, BaseParts
    <3>2. DOMAIN queue' \subseteq Int /\ DOMAIN queue \subseteq Int
      BY <3>1, LenProperties
    <3>3. Fits(queue', catalog, status)
      BY <3>1, <3>2, WithinFits DEF IInv, QueueOK
    <3> QED BY <1>2, <3>3 DEF QueueOK
  <2> QED BY <2>1, <2>2
<1>7. MoversOK'
  <2>1. \A d \in Calls : Moving(d)' => Moving(d) /\ request'[d] = request[d]
    BY <1>4 DEF Moving
  <2> QED BY <1>2, <2>1 DEF IInv, MoversOK
<1>8. SnapshotsOK'
  BY <1>2 DEF IInv, SnapshotsOK
<1>9. JournalOK'
  <2> SUFFICES ASSUME troubles' = {}, ordered'
               PROVE  /\ \A i \in DOMAIN queue' : queue'[i].call = Nobody => ~Journaled(queue'[i].request.op)
                      /\ (catalog' = status' /\ NoneLeft') \/ \E n \in DOMAIN answers' : LastAt(n)'
    BY DEF JournalOK, NoneLeft, LastAt
  <2>1. troubles = {} /\ ordered /\ ~Journaled(request[c].op)
    OBVIOUS
  <2>2. /\ \A i \in DOMAIN queue : queue[i].call = Nobody => ~Journaled(queue[i].request.op)
        /\ (catalog = status /\ NoneLeft) \/ \E i \in DOMAIN answers : LastAt(i)
    BY <2>1 DEF IInv, JournalOK, NoneLeft, LastAt
  <2>3. \A i \in DOMAIN queue' : queue'[i].call = Nobody => ~Journaled(queue'[i].request.op)
    <3>1. CASE UNCHANGED queue
      BY <2>2, <3>1
    <3>2. CASE Orphan(c)
      <4>1. \A j \in DOMAIN queue : queue[j].call = c => request[c] = queue[j].request
        BY <1>1, Bounds, BaseParts DEF QueueCalls
      <4>2. \A i \in DOMAIN queue' : queue'[i].call = Nobody =>
              \E j \in DOMAIN queue : /\ queue[j].call \in {Nobody, c}
                                      /\ queue'[i].request = queue[j].request
        BY <1>1, <3>2, OrphanWithin
      <4> QED BY <2>1, <2>2, <4>1, <4>2
    <3> QED BY <3>1, <3>2
  <2>4. CASE catalog = status /\ NoneLeft
    BY <1>1, <1>2, <1>4, <1>5, <2>3, <2>4, LastKept
  <2>5. CASE \E i \in DOMAIN answers : LastAt(i)
    <3>1. PICK i \in DOMAIN answers : LastAt(i)
      BY <2>5
    <3>2. answers[i] # c
      BY <2>1, <3>1 DEF LastAt, JournaledCall
    <3> QED BY <1>1, <1>2, <1>4, <1>5, <2>3, <3>1, <3>2, LastKept
  <2> QED BY <2>2, <2>4, <2>5
<1> QED BY <1>3, <1>6, <1>7, <1>8, <1>9 DEF IInv

(* No answer, one that is refused, one that goes to the caller only.       *)
LEMMA ReturnsWithoutMark ==
  ASSUME IInv, NEW c \in Calls, ordered' = ordered,
         MarkRefused(c) \/ Passed(c) \/ CallRefused(c) \/ CallFailed(c)
  PROVE  IInv'
<1>1. troubles \subseteq {"failed", "unknown"}
  BY BaseParts DEF IInv, ControlTypes
<1>2. CASE MarkRefused(c)
  <2>1. /\ Return(c) /\ UNCHANGED control /\ UNCHANGED queue /\ phase[c] # "sent"
        /\ troubles' = troubles \cup {"unknown"}
    BY <1>2 DEF MarkRefused, Close, Arrives
  <2> QED BY <1>1, <2>1, ReturnsOnly
<1>3. CASE Passed(c)
  <2>1. /\ Return(c) /\ UNCHANGED control /\ UNCHANGED queue /\ phase[c] # "sent"
        /\ troubles' = troubles /\ ~Journaled(request[c].op)
    BY <1>3 DEF Passed, Arrives
  <2> QED BY <1>1, <2>1, ReturnsOnly
<1>4. CASE CallRefused(c)
  <2>1. /\ Return(c) /\ UNCHANGED control /\ UNCHANGED queue /\ phase[c] # "sent"
        /\ troubles' = IF Journaled(request[c].op) THEN troubles \cup {"failed"} ELSE troubles
    BY <1>4 DEF CallRefused, Close
  <2> QED BY <1>1, <2>1, ReturnsOnly
<1>5. CASE CallFailed(c)
  <2>1. /\ Return(c) /\ UNCHANGED control /\ Orphan(c)
        /\ troubles' = IF Journaled(request[c].op) THEN troubles \cup {"failed"} ELSE troubles
    BY <1>5 DEF CallFailed, Close, Orphan
  <2> QED BY <1>1, <2>1, ReturnsOnly
<1> QED BY <1>2, <1>3, <1>4, <1>5

(* The catalog follows.                                                    *)
LEMMA FinishedKeeps ==
  ASSUME IInv, NEW c \in Calls, ordered' = ordered, Finished(c)
  PROVE  IInv'
<1> DEFINE r == request[c]
<1>1. /\ phase[c] = "ran" /\ (ordered => Head(answers) = c) /\ Journaled(r.op)
      /\ catalog \in MarkNeeds(r.op) /\ catalog' = Becomes[r.op]
      /\ catalogSnapshot' = IF r.op \in OfFile THEN r.file ELSE catalogSnapshot
      /\ troubles' = troubles /\ Return(c) /\ UNCHANGED queue
      /\ UNCHANGED shard /\ UNCHANGED <<status, snapshot, image>>
  <2>1. troubles' = troubles \cup ({"applied"} \ {"applied"})
    BY DEF Finished, Close
  <2> QED BY <2>1 DEF Finished, Arrives, MayMark, Return, shard
<1>2. Base /\ r \in Requests
  BY <1>1, BaseParts DEF IInv
<1>3. r.op \in Moves \cup {"delete"} /\ (r.op \in OfFile => r.file \in Shard!Versions)
  BY <1>1, <1>2, RequestFields
<1>4. /\ phase' = [phase EXCEPT ![c] = "idle"] /\ request' = [request EXCEPT ![c] = NoRequest]
      /\ answers' = RemoveFirst(answers, c)
      /\ phase \in [Calls -> {"idle", "sent", "ran", "refused"}]
      /\ request \in [Calls -> Requests \cup {NoRequest}]
  BY <1>1, <1>2, BaseParts DEF Return, ControlTypes
<1>5. Others(c)
  BY <1>4 DEF Others
<1>6. r.op \in Moves => Ahead(r, catalog, status, snapshot)
  BY <1>1 DEF IInv, MoversOK, Moving
<1>7. Base'
  <2>1. Becomes[r.op] \in Shard!DatabaseStatuses
    BY <1>3 DEF Becomes, Moves, Shard!DatabaseStatuses
  <2>2. catalogSnapshot \in Shard!Versions \cup {Blank} /\ troubles \subseteq {"failed", "unknown"}
    BY <1>2, BaseParts DEF ControlTypes
  <2> HIDE DEF r
  <2> QED BY <1>1, <1>2, <1>3, <2>1, <2>2, ReturnBase
<1>8. QueueOK'
  <2>1. Fits(queue, catalog, status)
    BY DEF IInv, QueueOK
  <2> HIDE DEF r
  <2>2. Fits(queue, Becomes[r.op], status)
    BY <1>1, <1>3, <1>6, <2>1, MarkFits
  <2> QED BY <1>1, <2>2 DEF QueueOK
<1>9. MoversOK'
  <2>1. \A d \in Calls : Moving(d)' => d # c /\ Moving(d) /\ request'[d] = request[d]
    BY <1>4 DEF Moving
  <2>2. CASE r.op \in Moves
    <3>1. \A d \in Calls : ~Moving(d)'
      BY <1>1, <2>1, <2>2 DEF IInv, MoversOK, Moving
    <3> QED BY <3>1 DEF MoversOK
  <2>3. CASE r.op = "delete"
    <3>1. catalog \in {"hot", "archived"} /\ catalog' = "deleted"
      BY <1>1, <2>3 DEF MarkNeeds, Needs, Becomes
    <3>2. ASSUME NEW d \in Calls, Moving(d)' PROVE Ahead(request'[d], catalog', status', snapshot')
      <4>1. Ahead(request[d], catalog, status, snapshot) /\ request[d].op \in Moves
        BY <2>1, <3>2 DEF IInv, MoversOK, Moving
      <4>2. request[d].op \in {"begin_archive", "begin_restore"}
        BY <3>1, <4>1 DEF Ahead, MarkNeeds, Needs, Moves
      <4>3. Ahead(request[d], "deleted", status, snapshot)
        BY <4>1, <4>2 DEF Ahead, MarkNeeds, Needs, Becomes
      <4> QED BY <1>1, <2>1, <3>1, <3>2, <4>3
    <3> QED BY <2>1, <3>2 DEF IInv, MoversOK
  <2> QED BY <1>3, <2>2, <2>3
<1>10. SnapshotsOK'
  <2>1. CASE r.op = "delete"
    <3>1. catalog' = "deleted"
      BY <1>1, <2>1 DEF Becomes
    <3> QED BY <1>1, <3>1 DEF IInv, SnapshotsOK
  <2>2. CASE r.op \in Moves
    <3>1. status = Becomes[r.op] /\ (r.op \in {"finalize_archive", "begin_restore"} => snapshot = r.file)
      BY <1>6, <2>2 DEF Ahead
    <3>2. status \in {"archived", "restoring"} => catalogSnapshot' = snapshot
      BY <1>1, <2>2, <3>1 DEF Becomes, Moves, OfFile
    <3> QED BY <1>1, <3>2 DEF IInv, SnapshotsOK
  <2> QED BY <1>3, <2>1, <2>2
<1>11. JournalOK'
  <2> SUFFICES ASSUME troubles' = {}, ordered'
               PROVE  /\ \A i \in DOMAIN queue' : queue'[i].call = Nobody => ~Journaled(queue'[i].request.op)
                      /\ (catalog' = status' /\ NoneLeft') \/ \E n \in DOMAIN answers' : LastAt(n)'
    BY DEF JournalOK, NoneLeft, LastAt
  <2>1. troubles = {} /\ ordered
    BY <1>1
  <2>2. /\ \A i \in DOMAIN queue : queue[i].call = Nobody => ~Journaled(queue[i].request.op)
        /\ (catalog = status /\ NoneLeft) \/ \E i \in DOMAIN answers : LastAt(i)
    BY <2>1 DEF IInv, JournalOK, NoneLeft, LastAt
  <2>3. PICK first \in DOMAIN answers : answers[first] = c
    BY <1>1, <1>2, BaseParts DEF AnswerCalls
  <2>4. first = 1 /\ DOMAIN answers = 1..Len(answers)
    <3>1. answers \in Seq(Calls) /\ \A i, j \in DOMAIN answers : answers[i] = answers[j] => i = j
      BY <1>2, BaseParts DEF AnswerCalls
    <3>2. DOMAIN answers = 1..Len(answers) /\ Len(answers) \in Nat
      BY <3>1, LenProperties
    <3>3. answers[1] = c
      BY <1>1, <2>1
    <3> QED BY <2>3, <3>1, <3>2, <3>3
  <2>5. PICK i \in DOMAIN answers : LastAt(i)
    BY <1>1, <2>2, <2>3 DEF NoneLeft, JournaledCall
  <2>6. /\ answers[i] # c => \E n \in DOMAIN answers' : LastAt(n)'
        /\ answers[i] = c /\ i = 1 => NoneLeft'
    BY <1>1, <1>2, <1>4, <1>5, <2>5, LastKept
  <2>7. CASE answers[i] = c
    <3>1. i = 1
      BY <1>2, <2>3, <2>4, <2>7, BaseParts DEF AnswerCalls
    <3>2. catalog' = status'
      BY <1>1, <2>5, <2>7 DEF LastAt
    <3> QED BY <1>1, <2>2, <2>6, <2>7, <3>1, <3>2
  <2> QED BY <1>1, <2>2, <2>6, <2>7
<1> QED BY <1>7, <1>8, <1>9, <1>10, <1>11 DEF IInv

(* What fits the queue before its first request is taken fits it after.    *)
LEMMA TakenFits ==
  ASSUME Base, queue # <<>>, queue' = Tail(queue), NEW k, NEW s, Fits(queue, k, s)
  PROVE  Fits(queue', k, s)
<1>1. queue \in Seq(Messages)
  BY BaseParts
<1>2. Tail(queue) \in Seq(Messages) /\ Within(Tail(queue), queue)
  BY <1>1, TailWithin
<1>3. DOMAIN queue \subseteq Int /\ DOMAIN queue' \subseteq Int
  BY <1>1, <1>2, LenProperties
<1> QED BY <1>2, <1>3, WithinFits

LEMMA TakenOf ==
  ASSUME Base, queue # <<>>, queue' = Tail(queue)
  PROVE  /\ \A i \in DOMAIN queue' : \E j \in DOMAIN queue : queue'[i] = queue[j]
         /\ Head(queue) = queue[1] /\ 1 \in DOMAIN queue /\ queue[1] \in Messages
<1>1. queue \in Seq(Messages)
  BY BaseParts
<1>2. /\ Len(Tail(queue)) = Len(queue) - 1 /\ Len(queue) \in Nat \ {0}
      /\ \A n \in 1..Len(Tail(queue)) : Tail(queue)[n] = queue[n + 1]
      /\ DOMAIN queue = 1..Len(queue) /\ DOMAIN Tail(queue) = 1..Len(Tail(queue))
  BY <1>1, HeadTailProperties, LenProperties, EmptySeq
<1>3. \A i \in DOMAIN queue' : i + 1 \in DOMAIN queue /\ queue'[i] = queue[i + 1]
  BY <1>2
<1>4. Head(queue) = queue[1] /\ queue[1] \in Messages
  BY <1>1, TailWithin
<1> QED BY <1>2, <1>3, <1>4

(* The shard takes the first request, of the call c.                       *)
LEMMA TakenBase ==
  ASSUME Base, NEW c \in Calls \cup {Nobody}, queue # <<>>, Head(queue).call = c,
         NEW p \in {"ran", "refused"}, Answers(c, p), ordered' = ordered, ShardTypes',
         answers' = IF c = Nobody \/ p = "refused" THEN answers ELSE Append(answers, c)
  PROVE  /\ Base' /\ Others(c)
         /\ c # Nobody => /\ phase[c] = "sent" /\ phase'[c] = p
                          /\ request[c] = queue[1].request /\ request' = request
         /\ c = Nobody => phase' = phase /\ request' = request
<1>1. /\ queue \in Seq(Messages) /\ answers \in Seq(Calls) /\ ControlTypes
      /\ QueueCalls /\ AnswerCalls
      /\ \A d \in Calls : phase[d] # "idle" => request[d] \in Requests
  BY BaseParts
<1>2. /\ queue' \in Seq(Messages) /\ Within(queue', queue) /\ Head(queue) = queue[1]
      /\ queue[1] \in Messages /\ 1 \in DOMAIN queue
  BY <1>1, TailWithin, LenProperties, EmptySeq DEF Answers
<1>3. /\ phase' = IF c = Nobody THEN phase ELSE [phase EXCEPT ![c] = p]
      /\ UNCHANGED <<catalog, catalogSnapshot, owners, request, troubles>>
      /\ queue' = Tail(queue)
  BY DEF Answers, control
<1>4. c # Nobody => c \in Calls /\ phase[c] = "sent" /\ request[c] = queue[1].request
  BY <1>1, <1>2 DEF QueueCalls
<1>5. ControlTypes' /\ Others(c) /\ (c # Nobody => phase'[c] = p)
  BY <1>1, <1>3, <1>4, Bounds DEF ControlTypes, Others
<1>6. \A i \in DOMAIN queue' : queue'[i].call # c \/ c = Nobody
  <2> SUFFICES ASSUME NEW i \in DOMAIN queue', queue'[i].call = c, c # Nobody PROVE FALSE
    OBVIOUS
  <2>1. /\ Len(Tail(queue)) = Len(queue) - 1 /\ Len(queue) \in Nat
        /\ \A n \in 1..Len(Tail(queue)) : Tail(queue)[n] = queue[n + 1]
        /\ DOMAIN queue = 1..Len(queue) /\ DOMAIN Tail(queue) = 1..Len(Tail(queue))
    BY <1>1, <1>2, <1>3, HeadTailProperties, LenProperties
  <2>2. i + 1 \in DOMAIN queue /\ queue[i + 1].call = c /\ i + 1 # 1
    BY <1>3, <2>1
  <2> QED BY <1>1, <1>2, <2>2 DEF QueueCalls
<1>7. QueueCalls'
  BY <1>2, <1>5, <1>6, QueueCallsKept
<1>8. AnswerCalls' /\ answers' \in Seq(Calls)
  <2>1. CASE c = Nobody \/ p = "refused"
    <3>1. answers' = answers
      BY <2>1
    <3>2. \A d \in Calls : phase'[d] = "ran" <=> phase[d] = "ran"
      BY <1>1, <1>3, <1>4, <2>1 DEF ControlTypes
    <3> QED BY <1>1, <3>1, <3>2 DEF AnswerCalls
  <2>2. CASE c # Nobody /\ p = "ran"
    <3>1. /\ answers' \in Seq(Calls) /\ Len(answers') = Len(answers) + 1 /\ Len(answers) \in Nat
          /\ DOMAIN answers = 1..Len(answers) /\ DOMAIN answers' = 1..(Len(answers) + 1)
          /\ \A i \in 1..Len(answers) : answers'[i] = answers[i]
          /\ answers'[Len(answers) + 1] = c
      BY <1>1, <1>4, <2>2, AppendProperties, LenProperties
    <3>2. \A i \in DOMAIN answers : answers[i] # c
      BY <1>1, <1>4, <2>2 DEF AnswerCalls
    <3>3. \A i \in DOMAIN answers' : i \in DOMAIN answers \/ i = Len(answers) + 1
      BY <3>1
    <3>4. ASSUME NEW d \in Calls PROVE phase'[d] = "ran" <=> \E i \in DOMAIN answers' : answers'[i] = d
      <4>1. CASE d = c
        BY <1>5, <2>2, <3>1, <4>1
      <4>2. CASE d # c
        <5>1. phase'[d] = phase[d]
          BY <1>1, <1>3, <4>2 DEF ControlTypes
        <5>2. (\E i \in DOMAIN answers : answers[i] = d) <=> \E i \in DOMAIN answers' : answers'[i] = d
          BY <3>1, <3>3, <4>2
        <5> QED BY <1>1, <5>1, <5>2 DEF AnswerCalls
      <4> QED BY <4>1, <4>2
    <3>5. \A i, j \in DOMAIN answers' : answers'[i] = answers'[j] => i = j
      BY <1>1, <3>1, <3>2, <3>3 DEF AnswerCalls
    <3> QED BY <3>1, <3>4, <3>5 DEF AnswerCalls
  <2> QED BY <2>1, <2>2
<1>9. \A d \in Calls : phase'[d] # "idle" => request'[d] \in Requests
  <2>1. \A d \in Calls : phase'[d] # "idle" => phase[d] # "idle"
    BY <1>1, <1>3, <1>4 DEF ControlTypes
  <2> QED BY <1>1, <1>3, <2>1
<1>10. Base'
  BY <1>2, <1>5, <1>7, <1>8, <1>9, BaseFromParts
<1> QED BY <1>2, <1>3, <1>4, <1>5, <1>10

(* The shard refuses.                                                      *)
LEMMA RefusesKeeps ==
  ASSUME IInv, NEW c \in Calls \cup {Nobody}, ordered' = ordered, ShardRefuses(c)
  PROVE  IInv'
<1>1. /\ queue # <<>> /\ Head(queue).call = c /\ Answers(c, "refused") /\ UNCHANGED answers
      /\ Base /\ Refuses(Head(queue).request)
  BY DEF ShardRefuses, IInv
<1>2. /\ ShardTypes' /\ UNCHANGED <<status, snapshot, image>>
  BY <1>1, RefusesShard, BaseParts
<1>3. /\ UNCHANGED <<catalog, catalogSnapshot, request, troubles>> /\ queue' = Tail(queue)
      /\ phase' = IF c = Nobody THEN phase ELSE [phase EXCEPT ![c] = "refused"]
      /\ phase \in [Calls -> {"idle", "sent", "ran", "refused"}]
  BY <1>1, BaseParts DEF Answers, control, ControlTypes
<1>4. Base'
  BY <1>1, <1>2, TakenBase
<1>5. QueueOK'
  BY <1>1, <1>2, <1>3, TakenFits DEF IInv, QueueOK
<1>6. MoversOK'
  <2>1. \A d \in Calls : Moving(d)' => Moving(d)
    BY <1>3 DEF Moving
  <2> QED BY <1>2, <1>3, <2>1 DEF IInv, MoversOK
<1>7. SnapshotsOK'
  BY <1>2, <1>3 DEF IInv, SnapshotsOK
<1>8. JournalOK'
  <2>1. \A i \in DOMAIN queue' : \E j \in DOMAIN queue : queue'[i] = queue[j]
    BY <1>1, <1>3, TakenOf
  <2> QED BY <1>1, <1>2, <1>3, <2>1 DEF IInv, JournalOK, JournaledCall
<1> QED BY <1>4, <1>5, <1>6, <1>7, <1>8 DEF IInv

(* The shard runs the request.                                             *)
LEMMA RunsKeeps ==
  ASSUME IInv, NEW c \in Calls \cup {Nobody}, ordered' = ordered, ShardRuns(c)
  PROVE  IInv'
<1> DEFINE r == queue[1].request
<1>1. /\ queue # <<>> /\ Head(queue).call = c /\ Answers(c, "ran") /\ Base
      /\ answers' = IF c = Nobody THEN answers ELSE Append(answers, c)
      /\ queue' = Tail(queue)
  BY DEF ShardRuns, IInv, Answers
<1>2. /\ Head(queue) = queue[1] /\ 1 \in DOMAIN queue /\ queue[1].call = c /\ r \in Requests
      /\ \A i \in DOMAIN queue' : \E j \in DOMAIN queue : queue'[i] = queue[j]
  BY <1>1, TakenOf DEF Messages
<1>3. /\ ShardTypes'
      /\ Shifts(r.op, status, status')
      /\ Journaled(r.op) => status' = Becomes[r.op]
      /\ ~Journaled(r.op) => status' = status
      /\ snapshot' = IF r.op \in {"finalize_archive", "begin_restore"} THEN r.file ELSE snapshot
      /\ (status = "archived" => snapshot = image) => (status' = "archived" => snapshot' = image')
  <2>1. Runs(r) /\ ShardTypes
    BY <1>1, <1>2, BaseParts DEF ShardRuns
  <2> HIDE DEF r
  <2> QED BY <1>2, <2>1, RunsShard
<1>4. /\ UNCHANGED <<catalog, catalogSnapshot, request, troubles>>
      /\ phase' = IF c = Nobody THEN phase ELSE [phase EXCEPT ![c] = "ran"]
      /\ phase \in [Calls -> {"idle", "sent", "ran", "refused"}]
  BY <1>1, BaseParts DEF Answers, control, ControlTypes
<1>5. /\ Base' /\ Others(c)
      /\ c # Nobody => phase[c] = "sent" /\ phase'[c] = "ran" /\ request[c] = r
      /\ c = Nobody => phase' = phase
  BY <1>1, <1>3, TakenBase
<1>6. /\ Fits(queue, catalog, status')
      /\ r.op \in Moves =>
           /\ catalog # status'
           /\ catalog \in Needs(r.op) \/ (r.op = "begin_archive" /\ catalog = "deleted")
      /\ r.op \in Moves \cup {"delete"} =>
           /\ status = "hot" => catalog \in {"hot", "deleted"}
           /\ status = "archived" => catalog \in {"archived", "deleted"}
           /\ status \in {"archiving", "restoring"} => catalog = status
  <2>1. queue \in Seq(Messages) /\ Fits(queue, catalog, status)
    BY <1>1, BaseParts DEF IInv, QueueOK
  <2> QED BY <1>1, <1>3, <2>1, ShiftFits
<1>7. Journaled(r.op) <=> r.op \in Moves \cup {"delete"}
  BY <1>2, RequestFields
<1> HIDE DEF r
<1>8. QueueOK'
  BY <1>1, <1>4, <1>6, TakenFits DEF QueueOK
<1>9. ASSUME r.op \in Moves \cup {"delete"}, NEW d \in Calls PROVE ~Moving(d)
  <2> SUFFICES ASSUME Moving(d) PROVE FALSE
    OBVIOUS
  <2>1. Ahead(request[d], catalog, status, snapshot) /\ request[d].op \in Moves
    BY DEF IInv, MoversOK, Moving
  <2>2. /\ status # "deleted" /\ catalog # status
        /\ status = "hot" => catalog \in {"archiving", "restoring"}
        /\ status = "archived" => catalog = "archiving"
    BY <2>1 DEF Ahead, Becomes, Moves, MarkNeeds, Needs
  <2>3. status \in {"hot", "archiving", "archived", "restoring", "deleted"}
    BY <1>1, BaseParts DEF ShardTypes, Shard!DatabaseStatuses
  <2> QED BY <1>6, <1>9, <2>2, <2>3
<1>10. MoversOK'
  <2>1. \A d \in Calls : Moving(d)' => Moving(d) \/ (d = c /\ r.op \in Moves)
    BY <1>4, <1>5 DEF Moving
  <2>2. CASE r.op \in Moves
    <3>1. \A d \in Calls : Moving(d)' => d = c
      BY <1>9, <2>1, <2>2
    <3>2. catalog \in MarkNeeds(r.op) \/ (r.op = "begin_archive" /\ catalog = "deleted")
      BY <1>6, <2>2 DEF MarkNeeds, Needs
    <3>3. Ahead(r, catalog, status', snapshot')
      BY <1>3, <1>6, <1>7, <2>2, <3>2 DEF Ahead
    <3>4. ASSUME NEW d \in Calls, Moving(d)' PROVE Ahead(request'[d], catalog', status', snapshot')
      <4>1. d = c /\ c # Nobody
        BY <3>1, <3>4, Bounds
      <4> QED BY <1>4, <1>5, <3>3, <4>1
    <3> QED BY <3>1, <3>4 DEF MoversOK
  <2>3. CASE r.op = "delete"
    <3>1. \A d \in Calls : ~Moving(d)'
      BY <1>9, <2>1, <2>3 DEF Moves
    <3> QED BY <3>1 DEF MoversOK
  <2>4. CASE r.op \notin Moves \cup {"delete"}
    <3>1. status' = status /\ snapshot' = snapshot
      BY <1>3, <1>7, <2>4 DEF Moves
    <3>2. \A d \in Calls : Moving(d)' => Moving(d)
      BY <2>1, <2>4
    <3> QED BY <1>4, <3>1, <3>2 DEF IInv, MoversOK
  <2> QED BY <2>2, <2>3, <2>4
<1>11. SnapshotsOK'
  <2>1. status' = "archived" => snapshot' = image'
    BY <1>3 DEF IInv, SnapshotsOK
  <2>2. CASE r.op \in Moves
    BY <1>4, <1>6, <2>1, <2>2 DEF SnapshotsOK
  <2>3. CASE r.op = "delete"
    <3>1. status' = "deleted"
      BY <1>3, <2>3 DEF Shifts
    <3> QED BY <2>1, <3>1 DEF SnapshotsOK
  <2>4. CASE r.op \notin Moves \cup {"delete"}
    <3>1. status' = status /\ snapshot' = snapshot
      BY <1>3, <1>7, <2>4 DEF Moves
    <3> QED BY <1>4, <2>1, <3>1 DEF IInv, SnapshotsOK
  <2> QED BY <2>2, <2>3, <2>4
<1>12. JournalOK'
  <2> SUFFICES ASSUME troubles' = {}, ordered'
               PROVE  /\ \A i \in DOMAIN queue' : queue'[i].call = Nobody => ~Journaled(queue'[i].request.op)
                      /\ (catalog' = status' /\ NoneLeft') \/ \E n \in DOMAIN answers' : LastAt(n)'
    BY DEF JournalOK, NoneLeft, LastAt
  <2>1. troubles = {} /\ ordered
    BY <1>4
  <2>2. /\ \A i \in DOMAIN queue : queue[i].call = Nobody => ~Journaled(queue[i].request.op)
        /\ (catalog = status /\ NoneLeft) \/ \E i \in DOMAIN answers : LastAt(i)
    BY <2>1 DEF IInv, JournalOK, NoneLeft, LastAt
  <2>3. \A i \in DOMAIN queue' : queue'[i].call = Nobody => ~Journaled(queue'[i].request.op)
    BY <1>2, <2>2
  <2>4. CASE c = Nobody
    <3>1. ~Journaled(r.op)
      BY <1>2, <2>2, <2>4 DEF r
    <3> QED BY <1>1, <1>3, <1>4, <2>2, <2>3, <2>4, <3>1 DEF NoneLeft, LastAt, JournaledCall
  <2>5. CASE c # Nobody
    <3> DEFINE n == Len(answers) + 1
    <3>1. /\ DOMAIN answers = 1..Len(answers) /\ Len(answers) \in Nat
          /\ DOMAIN answers' = 1..n /\ answers'[n] = c
          /\ \A i \in DOMAIN answers : answers'[i] = answers[i]
      <4>1. answers \in Seq(Calls) /\ c \in Calls /\ answers' = Append(answers, c)
        BY <1>1, <2>5, BaseParts
      <4> QED BY <4>1, AppendProperties, LenProperties
    <3>2. \A i \in DOMAIN answers' : i \in DOMAIN answers \/ i = n
      BY <3>1
    <3>3. request'[answers'[n]] = r /\ request' = request
      BY <1>4, <1>5, <2>5, <3>1
    <3> HIDE DEF n
    <3>4. CASE Journaled(r.op)
      <4>1. \A j \in DOMAIN answers' : ~(j > n)
        BY <3>1, <3>2 DEF n
      <4>2. n \in DOMAIN answers' /\ Journaled(request'[answers'[n]].op)
            /\ Becomes[request'[answers'[n]].op] = status'
        BY <1>3, <3>1, <3>3, <3>4 DEF n
      <4> QED BY <2>3, <4>1, <4>2 DEF LastAt, JournaledCall
    <3>5. CASE ~Journaled(r.op)
      <4>1. status' = status /\ catalog' = catalog
        BY <1>3, <1>4, <3>5
      <4>2. CASE catalog = status /\ NoneLeft
        <5>1. \A i \in DOMAIN answers' : ~Journaled(request'[answers'[i]].op)
          BY <3>1, <3>2, <3>3, <3>5, <4>2 DEF NoneLeft, JournaledCall
        <5> QED BY <2>3, <4>1, <4>2, <5>1 DEF NoneLeft, JournaledCall
      <4>3. CASE \E i \in DOMAIN answers : LastAt(i)
        <5>1. PICK i \in DOMAIN answers : LastAt(i)
          BY <4>3
        <5>2. i \in DOMAIN answers'
          BY <3>1 DEF n
        <5>3. \A j \in DOMAIN answers' : j > i => ~Journaled(request'[answers'[j]].op)
          BY <3>1, <3>2, <3>3, <3>5, <5>1 DEF LastAt, JournaledCall
        <5>4. LastAt(i)'
          BY <3>1, <3>3, <4>1, <5>1, <5>2, <5>3 DEF LastAt, JournaledCall
        <5> QED BY <2>3, <5>2, <5>4
      <4> QED BY <2>2, <4>2, <4>3
    <3> QED BY <3>4, <3>5
  <2> QED BY <2>4, <2>5
<1> QED BY <1>5, <1>8, <1>10, <1>11, <1>12 DEF IInv

(* A call is made.                                                         *)
LEMMA SendKeeps ==
  ASSUME IInv, NEW c \in Calls, NEW r \in Requests, ordered' = ordered, Send(c, r)
  PROVE  IInv'
<1> DEFINE m == [call |-> c, request |-> r]
<1>1. /\ phase[c] = "idle" /\ catalog \in Needs(r.op)
      /\ phase' = [phase EXCEPT ![c] = "sent"] /\ request' = [request EXCEPT ![c] = r]
      /\ queue' = Append(queue, m) /\ Base
      /\ UNCHANGED <<shard, catalog, catalogSnapshot, owners, troubles, answers>>
      /\ UNCHANGED <<status, snapshot, image, chunks, mounts, newest>>
  BY DEF Send, IInv, control, shard
<1>2. /\ queue \in Seq(Messages) /\ answers \in Seq(Calls) /\ ControlTypes /\ ShardTypes
      /\ QueueCalls /\ AnswerCalls
      /\ \A d \in Calls : phase[d] # "idle" => request[d] \in Requests
  BY <1>1, BaseParts
<1>3. /\ queue' \in Seq(Messages) /\ m \in Messages
      /\ DOMAIN queue = 1..Len(queue) /\ Len(queue) \in Nat /\ DOMAIN queue' = 1..(Len(queue) + 1)
      /\ \A i \in DOMAIN queue : queue'[i] = queue[i]
      /\ queue'[Len(queue) + 1] = m
      /\ \A i \in DOMAIN queue : queue[i].call \in Calls \cup {Nobody}
  <2>1. m \in Messages
    BY DEF Messages
  <2>2. \A i \in DOMAIN queue : queue[i] \in Messages
    BY <1>2, LenProperties, ElementOfSeq
  <2> QED BY <1>1, <1>2, <2>1, <2>2, AppendProperties, LenProperties DEF Messages
<1>4. \A i \in DOMAIN queue' : i \in DOMAIN queue \/ i = Len(queue) + 1
  BY <1>3
<1>5. m.call = c /\ m.request = r /\ c # Nobody
  BY Bounds
<1> HIDE DEF m
<1>6. Base'
  <2>1. ControlTypes' /\ ShardTypes' /\ answers' \in Seq(Calls)
    BY <1>1, <1>2 DEF ControlTypes, ShardTypes
  <2>2. \A i \in DOMAIN queue : queue[i].call # Nobody => queue[i].call # c /\ queue[i].call \in Calls
    BY <1>1, <1>2, <1>3 DEF QueueCalls
  <2>3. QueueCalls'
    BY <1>1, <1>2, <1>3, <1>4, <1>5, <2>2 DEF QueueCalls, ControlTypes
  <2>4. AnswerCalls'
    BY <1>1, <1>2 DEF AnswerCalls, ControlTypes
  <2>5. \A d \in Calls : phase'[d] # "idle" => request'[d] \in Requests
    BY <1>1, <1>2 DEF ControlTypes
  <2> QED BY <1>3, <2>1, <2>3, <2>4, <2>5, BaseFromParts
<1>7. QueueOK'
  <2>1. r.op \in AtRest \cup Archiving \cup Restoring
    BY RequestFields
  <2>2. catalog \in Shard!DatabaseStatuses
    BY <1>2 DEF ControlTypes
  <2>3. Fits(Append(queue, m), catalog, status)
    BY <1>1, <1>2, <1>3, <1>5, <2>1, <2>2, AppendFits DEF IInv, QueueOK
  <2> QED BY <1>1, <2>3 DEF QueueOK
<1>8. MoversOK'
  <2>1. \A d \in Calls : Moving(d)' => Moving(d) /\ request'[d] = request[d]
    BY <1>1, <1>2 DEF Moving, ControlTypes
  <2> QED BY <1>1, <2>1 DEF IInv, MoversOK
<1>9. SnapshotsOK'
  BY <1>1 DEF IInv, SnapshotsOK
<1>10. JournalOK'
  <2>1. \A i \in DOMAIN answers : answers[i] # c /\ request'[answers[i]] = request[answers[i]]
    <3>1. \A i \in DOMAIN answers : answers[i] \in Calls
      BY <1>2, LenProperties, ElementOfSeq
    <3> QED BY <1>1, <1>2, <3>1 DEF AnswerCalls, ControlTypes
  <2>2. \A i \in DOMAIN queue' : queue'[i].call = Nobody => i \in DOMAIN queue /\ queue'[i] = queue[i]
    BY <1>3, <1>4, <1>5
  <2> QED BY <1>1, <2>1, <2>2 DEF IInv, JournalOK, JournaledCall
<1> QED BY <1>6, <1>7, <1>8, <1>9, <1>10 DEF IInv

(* The members change.                                                     *)
LEMMA MembersKeep ==
  ASSUME IInv, owners' \subseteq Principals, ordered' = ordered,
         UNCHANGED <<shard, control, phase, request, troubles, queue, answers>>
  PROVE  IInv'
<1>1. /\ UNCHANGED <<status, snapshot, image, chunks, mounts, newest>>
      /\ UNCHANGED <<catalog, catalogSnapshot, phase, request, troubles, queue, answers>>
  BY DEF shard, control
<1>2. Base'
  BY <1>1 DEF IInv, Base, TypeOK, CallsOK
<1>3. QueueOK' /\ SnapshotsOK'
  BY <1>1 DEF IInv, QueueOK, SnapshotsOK
<1>4. MoversOK'
  BY <1>1 DEF IInv, MoversOK, Moving
<1>5. JournalOK'
  BY <1>1 DEF IInv, JournalOK, JournaledCall
<1> QED BY <1>2, <1>3, <1>4, <1>5 DEF IInv

LEMMA InitIInv == Init => IInv
<1> SUFFICES ASSUME Init PROVE IInv
  OBVIOUS
<1>1. /\ status = "hot" /\ catalog = "hot" /\ snapshot = Blank /\ image = 0 /\ chunks = Blank
      /\ mounts = 1 /\ newest = 0 /\ catalogSnapshot = Blank /\ owners = Principals
      /\ phase = [c \in Calls |-> "idle"] /\ request = [c \in Calls |-> NoRequest]
      /\ troubles = {} /\ queue = <<>> /\ answers = <<>> /\ ordered \in Orders
  BY DEF Init, Shard!Init
<1>2. DOMAIN queue = {} /\ DOMAIN answers = {} /\ queue \in Seq(Messages) /\ answers \in Seq(Calls)
  BY <1>1
<1>3. Base
  <2>1. TypeOK
    BY <1>1, <1>2, Bounds DEF TypeOK, Shard!DatabaseStatuses, Shard!Versions, Messages
  <2>2. CallsOK
    BY <1>1, <1>2 DEF CallsOK
  <2> QED BY <2>1, <2>2 DEF Base
<1>4. QueueOK
  BY <1>1, <1>2 DEF QueueOK, Fits, Then, Waits
<1>5. MoversOK
  BY <1>1 DEF MoversOK, Moving
<1>6. SnapshotsOK
  BY <1>1 DEF SnapshotsOK
<1>7. JournalOK
  BY <1>1, <1>2 DEF JournalOK
<1> QED BY <1>3, <1>4, <1>5, <1>6, <1>7 DEF IInv

LEMMA StepIInv == IInv /\ [Next]_vars => IInv'
<1> SUFFICES ASSUME IInv, [Next]_vars PROVE IInv'
  OBVIOUS
<1>1. ASSUME UNCHANGED vars PROVE IInv'
  <2>1. owners \subseteq Principals
    BY DEF IInv, Base, TypeOK
  <2> QED BY <1>1, <2>1, MembersKeep DEF vars
<1>2. ASSUME ordered' = ordered, NEW c \in Calls, NEW r \in Requests, Send(c, r) PROVE IInv'
  BY <1>2, SendKeeps
<1>3. ASSUME ordered' = ordered, NEW c \in Calls, CallReturns(c) PROVE IInv'
  BY <1>3, FinishedKeeps, ReturnsWithoutMark DEF CallReturns
<1>4. ASSUME ordered' = ordered, NEW c \in Calls \cup {Nobody}, ShardRuns(c) \/ ShardRefuses(c)
      PROVE  IInv'
  BY <1>4, RunsKeeps, RefusesKeeps
<1>5. ASSUME ordered' = ordered, NEW p \in Principals, Revoke(p) \/ Grant(p) PROVE IInv'
  <2>1. owners' \subseteq Principals
    BY <1>5 DEF Revoke, Grant, IInv, Base, TypeOK
  <2> QED BY <1>5, <2>1, MembersKeep DEF Revoke, Grant
<1> QED BY <1>1, <1>2, <1>3, <1>4, <1>5 DEF Next

--------------------------------------------------------------------------------
(* The theorems.                                                           *)

(* The inductive invariant holds in every state: any number of calls may   *)
(* be suspended, requests lost or given up, answers lost or out of order.  *)
THEOREM Invariance == Spec => []IInv
BY InitIInv, StepIInv, PTL DEF Spec

(* Every variable holds values of its kind.                                *)
THEOREM TypeCorrectness == Spec => []TypeOK
<1>1. IInv => TypeOK
  BY DEF IInv, Base
<1> QED BY <1>1, Invariance, PTL

(* Where catalog and shard agree on an archived or restoring database they *)
(* agree on the snapshot, and an archived snapshot is the file as it was,  *)
(* even when answers are lost or late and the members change in between.   *)
THEOREM SnapshotAgreement == Spec => []SnapshotsAgree
<1>1. IInv => SnapshotsAgree
  BY DEF IInv, SnapshotsOK, SnapshotsAgree
<1> QED BY <1>1, Invariance, PTL

(* When answers come in order and all calls have returned, catalog and     *)
(* shard agree unless shard_operations shows a failed or unknown row.      *)
THEOREM JournaledDivergence == Spec => []JournaledInOrder
<1>1. IInv => JournaledInOrder
  <2> SUFFICES ASSUME IInv, ordered, Quiet, troubles = {} PROVE catalog = status
    BY DEF JournaledInOrder, DivergenceIsJournaled
  <2>1. ASSUME NEW i \in DOMAIN answers PROVE FALSE
    <3>1. answers[i] \in Calls
      BY ElementOfSeq, LenProperties DEF IInv, Base, TypeOK
    <3>2. phase[answers[i]] = "ran"
      BY <3>1 DEF IInv, Base, CallsOK
    <3> QED BY <3>1, <3>2 DEF Quiet
  <2> QED BY <2>1 DEF IInv, JournalOK
<1> QED BY <1>1, Invariance, PTL

(* A cancelled archive or a finished restore opens the catalog only while  *)
(* the shard has the database hot.                                         *)
THEOREM OpeningIsSafe == Spec => OpensHotShard
<1>1. ASSUME IInv, [Next]_vars, catalog' = "hot", catalog # "hot" PROVE status = "hot"
  <2>1. PICK c \in Calls : Finished(c)
    BY <1>1 DEF Next, vars, control, Send, Answers, ShardRuns, ShardRefuses, CallReturns,
                MarkRefused, Passed, CallRefused, CallFailed, Revoke, Grant
  <2>2. /\ phase[c] = "ran" /\ Journaled(request[c].op) /\ catalog' = Becomes[request[c].op]
    BY <2>1 DEF Finished, Arrives
  <2>3. request[c].op \in Moves /\ Becomes[request[c].op] = "hot"
    BY <1>1, <2>2 DEF Journaled, Becomes, Moves
  <2> QED BY <1>1, <2>2, <2>3 DEF IInv, MoversOK, Moving, Ahead
<1>2. IInv /\ [Next]_vars => [catalog' = "hot" /\ catalog # "hot" => status = "hot"]_control
  BY <1>1
<1> QED BY <1>2, Invariance, PTL DEF Spec, OpensHotShard

--------------------------------------------------------------------------------
(* How far catalog and shard can be apart, and which of that stays so.     *)

(* The catalog is where the shard is, or was before one more operation, or *)
(* a late delete has been marked.                                          *)
OneStepBehind ==
  \/ catalog = status
  \/ catalog = "deleted"
  \/ \E op \in DOMAIN Becomes : catalog \in Needs(op) /\ status = Becomes[op]

(* However many answers are lost and whatever owners try next, catalog and *)
(* shard are never more than one operation apart, but for a late delete.   *)
THEOREM CatalogFollows == Spec => []OneStepBehind
<1>1. IInv => OneStepBehind
  BY DEF IInv, Base, TypeOK, QueueOK, Fits, OneStepBehind, Needs, Becomes
<1> QED BY <1>1, Invariance, PTL

(* The statuses of the shard in which it can run an operation.             *)
Accepts(op) ==
  CASE op \in {"sql_write", "begin_archive"}         -> {"hot"}
    [] op \in {"finalize_archive", "cancel_archive"} -> {"archiving"}
    [] op = "begin_restore"                          -> {"archived", "deleted"}
    [] op \in {"write_chunk", "finalize_restore"}    -> {"restoring"}
    [] op = "delete"                                 -> {"hot", "archived", "deleted"}

Admitted == {op \in Plain \cup OfFile : catalog \in Needs(op)}

(* What the catalog lets through is what the shard refuses, and nothing    *)
(* else is on its way.                                                     *)
Stranded ==
  /\ \A op \in Admitted : status \notin Accepts(op)
  /\ Waits(queue, Admitted)
  /\ \A c \in Calls : phase[c] = "ran" => ~Journaled(request[c].op)

(* What the shard runs is an operation of its status.                      *)
LEMMA RunsAccepted ==
  ASSUME NEW r \in Requests, Runs(r)
  PROVE  status \in Accepts(r.op)
BY DEF Runs, Accepts, Shard!SqlWrite, Shard!begin_database_archive, Shard!finalize_database_archive,
       Shard!cancel_database_archive, Shard!begin_database_restore,
       Shard!write_database_restore_chunk, Shard!finalize_database_restore, Shard!delete_database

(* It is enough that the two statuses stay, that no request comes but what *)
(* the catalog admits, and that no operation is run.                       *)
LEMMA StaysStranded ==
  ASSUME Stranded, UNCHANGED <<catalog, status>>, Waits(queue', Admitted),
         \A c \in Calls : phase'[c] = "ran" => phase[c] = "ran" /\ request'[c] = request[c]
  PROVE  Stranded'
<1>1. Admitted' = Admitted
  BY DEF Admitted
<1>2. Waits(queue, Admitted)'
  BY <1>1 DEF Waits
<1> QED BY <1>1, <1>2 DEF Stranded

(* Neither a call nor a late request changes that.                         *)
LEMMA StepStaysStranded ==
  ASSUME Base, Stranded, [Next]_vars
  PROVE  Stranded' /\ UNCHANGED <<catalog, status>>
<1>1. /\ queue \in Seq(Messages) /\ ControlTypes /\ ShardTypes
      /\ \A d \in Calls : phase[d] # "idle" => request[d] \in Requests
  BY BaseParts
<1>2. CASE \E c \in Calls, r \in Requests : Send(c, r)
  <2>1. PICK c \in Calls, r \in Requests : Send(c, r)
    BY <1>2
  <2> DEFINE m == [call |-> c, request |-> r]
  <2>2. /\ catalog \in Needs(r.op) /\ phase' = [phase EXCEPT ![c] = "sent"]
        /\ request' = [request EXCEPT ![c] = r] /\ queue' = Append(queue, m)
        /\ UNCHANGED <<catalog, status>>
    BY <2>1 DEF Send, control, shard
  <2>3. r.op \in Admitted
    BY <2>2 DEF Admitted, Requests
  <2>4. Waits(queue', Admitted)
    <3>1. m \in Messages /\ m.request = r
      BY DEF Messages
    <3> HIDE DEF m
    <3>2. /\ Len(queue) \in Nat /\ DOMAIN queue = 1..Len(queue)
          /\ DOMAIN queue' = 1..(Len(queue) + 1) /\ queue'[Len(queue) + 1] = m
          /\ \A i \in 1..Len(queue) : queue'[i] = queue[i]
      BY <1>1, <2>2, <3>1, AppendProperties, LenProperties
    <3>3. ASSUME NEW i \in DOMAIN queue' PROVE queue'[i].request.op \in Admitted
      <4>1. CASE i = Len(queue) + 1
        BY <2>3, <3>1, <3>2, <4>1
      <4>2. CASE i \in DOMAIN queue
        BY <3>2, <4>2 DEF Stranded, Waits
      <4> QED BY <3>2, <4>1, <4>2
    <3> QED BY <3>3 DEF Waits
  <2> QED BY <1>1, <2>2, <2>4, StaysStranded DEF ControlTypes
<1>3. CASE \E c \in Calls \cup {Nobody} : ShardRuns(c) \/ ShardRefuses(c)
  <2>1. PICK c \in Calls \cup {Nobody} : ShardRuns(c) \/ ShardRefuses(c)
    BY <1>3
  <2>2. queue # <<>> /\ queue' = Tail(queue) /\ UNCHANGED <<catalog, request>>
    BY <2>1 DEF ShardRuns, ShardRefuses, Answers, control
  <2>3. /\ \A i \in DOMAIN queue' : \E j \in DOMAIN queue : queue'[i] = queue[j]
        /\ Head(queue) = queue[1] /\ 1 \in DOMAIN queue /\ queue[1] \in Messages
    BY <2>2, TakenOf
  <2>4. Head(queue).request \in Requests /\ Head(queue).request.op \in Admitted
    BY <2>3 DEF Messages, Stranded, Waits
  <2>5. ~ShardRuns(c)
    BY <2>4, RunsAccepted DEF ShardRuns, Stranded
  <2>6. status' = status /\ phase' = IF c = Nobody THEN phase ELSE [phase EXCEPT ![c] = "refused"]
    BY <1>1, <2>1, <2>5, RefusesShard DEF ShardRefuses, Answers
  <2>7. Waits(queue', Admitted)
    BY <2>3 DEF Stranded, Waits
  <2> QED BY <1>1, <2>2, <2>6, <2>7, StaysStranded DEF ControlTypes
<1>4. CASE \E c \in Calls : CallReturns(c)
  <2>1. PICK c \in Calls : CallReturns(c)
    BY <1>4
  <2>2. Passed(c) \/ CallRefused(c) \/ CallFailed(c)
    BY <2>1 DEF CallReturns, Finished, MarkRefused, Arrives, Stranded
  <2>3. /\ UNCHANGED <<catalog, status>> /\ Return(c)
        /\ phase' = [phase EXCEPT ![c] = "idle"] /\ request' = [request EXCEPT ![c] = NoRequest]
    BY <2>2 DEF Passed, CallRefused, CallFailed, Return, control, shard
  <2>4. Waits(queue', Admitted)
    <3>1. CASE UNCHANGED queue
      BY <3>1 DEF Stranded
    <3>2. CASE Orphan(c)
      BY <3>2, OrphanWithin, WithinWaits DEF Stranded
    <3> QED BY <2>2, <3>1, <3>2 DEF Passed, CallRefused, CallFailed, Orphan
  <2> QED BY <1>1, <2>3, <2>4, StaysStranded DEF ControlTypes
<1>5. CASE (\E p \in Principals : Revoke(p) \/ Grant(p)) \/ UNCHANGED vars
  <2>1. UNCHANGED <<catalog, status, queue, phase, request>>
    BY <1>5 DEF Revoke, Grant, vars, control, shard
  <2> QED BY <2>1, StaysStranded DEF Stranded
<1> QED BY <1>2, <1>3, <1>4, <1>5 DEF Next

(* A database whose catalog admits only what its shard refuses is stranded *)
(* for good: an archive, cancel, restore, delete or write, late or new,    *)
(* never brings the two together.  So a lost answer to begin_archive, for  *)
(* one, leaves a catalog that is hot before a shard that archives.         *)
THEOREM StrandedForGood ==
  Spec => [][Stranded => Stranded' /\ UNCHANGED <<catalog, status>>]_vars
<1>1. IInv /\ [Next]_vars => [Stranded => Stranded' /\ UNCHANGED <<catalog, status>>]_vars
  BY StepStaysStranded DEF IInv
<1> QED BY <1>1, Invariance, PTL DEF Spec

(* Which differences that are.                                             *)
LEMMA StrandedOnes ==
  ASSUME Quiet, catalog # status, OneStepBehind, TypeOK
  PROVE  \/ Stranded
         \/ catalog \in {"hot", "archived"} /\ status = "deleted"
         \/ catalog = "deleted" /\ status = "archived"
<1>1. Waits(queue, Admitted) /\ \A c \in Calls : phase[c] # "ran"
  BY DEF Quiet, Waits
<1>2. status \in {"hot", "archiving", "archived", "restoring", "deleted"}
  BY DEF TypeOK, Shard!DatabaseStatuses
<1>3. catalog \in {"hot", "archiving", "archived", "restoring", "deleted"}
  BY DEF TypeOK, Shard!DatabaseStatuses
<1>4. \/ \A op \in Admitted : status \notin Accepts(op)
      \/ catalog \in {"hot", "archived"} /\ status = "deleted"
      \/ catalog = "deleted" /\ status = "archived"
  BY <1>2, <1>3 DEF OneStepBehind, Admitted, Plain, OfFile, Needs, Accepts, Becomes
<1> QED BY <1>1, <1>4 DEF Stranded

(* Once all calls have returned and nothing is on its way, a catalog that  *)
(* differs from its shard is stranded, unless one of them is deleted and   *)
(* the other is not in the middle of an archive or a restore.              *)
THEOREM DifferenceStrands ==
  Spec => [](Quiet /\ catalog # status =>
               \/ Stranded
               \/ catalog \in {"hot", "archived"} /\ status = "deleted"
               \/ catalog = "deleted" /\ status = "archived")
<1>1. TypeOK /\ OneStepBehind =>
        (Quiet /\ catalog # status =>
           \/ Stranded
           \/ catalog \in {"hot", "archived"} /\ status = "deleted"
           \/ catalog = "deleted" /\ status = "archived")
  BY StrandedOnes
<1> QED BY <1>1, TypeCorrectness, CatalogFollows, PTL
================================================================================
