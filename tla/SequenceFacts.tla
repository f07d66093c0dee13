----------------------------- MODULE SequenceFacts -----------------------------
(***************************************************************************)
(* Facts about operators of the community modules that the proofs share.   *)
(***************************************************************************)
EXTENDS Integers, SequencesExt, FiniteSetTheorems, SequenceTheorems, WellFoundedInduction, TLAPS

(* The least element of a set of numbers is one of its elements.           *)
LEMMA MinOfSome ==
  ASSUME NEW n \in Nat, NEW S \in SUBSET (0..n), S # {}
  PROVE  Min(S) \in S /\ \A y \in S : Min(S) <= y
<1> DEFINE N == 0..n
           Below(x) == {y \in S : y <= x}
           T == {Below(x) : x \in S}
<1>1. IsFiniteSet(N)
  BY FS_Interval
<1>2. IsWellFoundedOn(StrictSubsetOrdering(N), SUBSET N)
  BY <1>1, FS_StrictSubsetOrderingWellFounded, FS_FiniteSubsetsOfFinite
<1>3. T \subseteq SUBSET N /\ T # {}
  OBVIOUS
<1>4. PICK t \in T : \A u \in T : <<u, t>> \notin StrictSubsetOrdering(N)
  <2> HIDE DEF T, N
  <2> QED BY <1>2, <1>3, WFMin
<1>5. PICK x \in S : t = Below(x)
  BY <1>4
<1>6. ASSUME NEW y \in S PROVE x <= y
  <2> SUFFICES ASSUME ~(x <= y) PROVE FALSE
    OBVIOUS
  <2>1. /\ x <= x /\ ~(x <= y)
        /\ \A z \in S : z <= y => z <= x
    OBVIOUS
  <2>2. x \in Below(x) /\ x \notin Below(y) /\ Below(y) \subseteq Below(x)
    BY <2>1
  <2>3. Below(y) \in T
    OBVIOUS
  <2> HIDE DEF Below
  <2> QED BY <2>2, <2>3, <1>3, <1>4, <1>5 DEF StrictSubsetOrdering
<1> QED BY <1>6 DEF Min

(* A set of numbers that is not empty has a least element.                 *)
LEMMA LeastNumber ==
  ASSUME NEW S \in SUBSET Nat, S # {}
  PROVE  Min(S) \in S /\ \A y \in S : Min(S) <= y
<1>1. PICK n \in S : TRUE
  OBVIOUS
<1> DEFINE T == S \cap (0..n)
<1>2. n \in Nat /\ T \in SUBSET (0..n) /\ T # {}
  BY <1>1
<1> HIDE DEF T
<1>3. Min(T) \in T /\ \A y \in T : Min(T) <= y
  BY <1>2, MinOfSome
<1>4. Min(T) \in S /\ \A y \in S : Min(T) <= y
  BY <1>2, <1>3 DEF T
<1>5. \E x \in S : \A y \in S : x <= y
  BY <1>4
<1> QED BY <1>5 DEF Min

(* What is left of a sequence without its k-th element.                    *)
LEMMA RemoveAtProperties ==
  ASSUME NEW S, NEW s \in Seq(S), NEW k \in 1..Len(s)
  PROVE  /\ RemoveAt(s, k) \in Seq(S)
         /\ Len(RemoveAt(s, k)) = Len(s) - 1
         /\ \A i \in 1..(Len(s) - 1) : RemoveAt(s, k)[i] = s[IF i < k THEN i ELSE i + 1]
<1> DEFINE before == SubSeq(s, 1, k - 1)
           after == SubSeq(s, k + 1, Len(s))
<1>1. Len(s) \in Nat /\ \A i \in 1..Len(s) : s[i] \in S
  BY LenProperties, ElementOfSeq
<1>2. /\ before \in Seq(S) /\ Len(before) = k - 1
      /\ \A i \in 1..(k - 1) : before[i] = s[i]
  <2>1. \A i \in 1..(k - 1) : s[i] \in S
    BY <1>1
  <2>2. /\ before \in Seq(S) /\ Len(before) = IF 1 <= k - 1 THEN k - 1 - 1 + 1 ELSE 0
        /\ \A i \in 1..(k - 1 - 1 + 1) : before[i] = s[1 + i - 1]
    BY <2>1, <1>1, SubSeqProperties
  <2> HIDE DEF before
  <2> QED BY <2>2, <1>1
<1>3. /\ after \in Seq(S) /\ Len(after) = Len(s) - k
      /\ \A i \in 1..(Len(s) - k) : after[i] = s[k + i]
  <2>1. \A i \in (k + 1)..Len(s) : s[i] \in S
    BY <1>1
  <2>2. /\ after \in Seq(S) /\ Len(after) = IF k + 1 <= Len(s) THEN Len(s) - (k + 1) + 1 ELSE 0
        /\ \A i \in 1..(Len(s) - (k + 1) + 1) : after[i] = s[k + 1 + i - 1]
    BY <2>1, <1>1, SubSeqProperties
  <2> HIDE DEF after
  <2> QED BY <2>2, <1>1
<1> HIDE DEF before, after
<1>4. /\ before \o after \in Seq(S) /\ Len(before \o after) = Len(before) + Len(after)
      /\ \A i \in 1..(Len(before) + Len(after)) :
           (before \o after)[i] = IF i <= Len(before) THEN before[i] ELSE after[i - Len(before)]
  BY <1>2, <1>3, ConcatProperties
<1>5. RemoveAt(s, k) = before \o after
  BY DEF RemoveAt, before, after
<1>6. ASSUME NEW i \in 1..(Len(s) - 1)
      PROVE  (before \o after)[i] = s[IF i < k THEN i ELSE i + 1]
  <2>1. i \in 1..(Len(before) + Len(after))
    BY <1>1, <1>2, <1>3
  <2>2. CASE i < k
    BY <1>1, <1>2, <1>4, <2>1, <2>2
  <2>3. CASE ~(i < k)
    <3>1. i - (k - 1) \in 1..(Len(s) - k) /\ k + (i - (k - 1)) = i + 1
      BY <1>1, <2>3
    <3>2. after[i - (k - 1)] = s[i + 1]
      BY <1>3, <3>1
    <3> QED BY <1>1, <1>2, <1>4, <2>1, <2>3, <3>2
  <2> QED BY <2>2, <2>3
<1>7. Len(before) + Len(after) = Len(s) - 1
  BY <1>1, <1>2, <1>3
<1> QED BY <1>4, <1>5, <1>6, <1>7

(* The elements of such a set of positions are those of a sequence, and    *)
(* the first of them is one of them.                                       *)
LEMMA FirstPosition ==
  ASSUME NEW S, NEW s \in Seq(S), NEW I \in SUBSET (1..Len(s)), I # {}
  PROVE  Min(I) \in I
<1>1. Len(s) \in Nat /\ I \in SUBSET (0..Len(s))
  BY LenProperties
<1> QED BY <1>1, MinOfSome

(* RemoveFirst takes out one occurrence of e, if there is one.             *)
LEMMA RemoveFirstProperties ==
  ASSUME NEW S, NEW s \in Seq(S), NEW e
  PROVE  \/ (\A i \in 1..Len(s) : s[i] # e) /\ RemoveFirst(s, e) = s
         \/ \E k \in 1..Len(s) : s[k] = e /\ RemoveFirst(s, e) = RemoveAt(s, k)
<1> DEFINE I == {i \in 1..Len(s) : s[i] = e}
<1>1. CASE I = {}
  BY <1>1 DEF RemoveFirst
<1>2. CASE I # {}
  <2>1. Min(I) \in I
    BY <1>2, FirstPosition
  <2>2. RemoveFirst(s, e) = RemoveAt(s, Min(I))
    BY <1>2 DEF RemoveFirst, SelectInSeq
  <2> QED BY <2>1, <2>2
<1> QED BY <1>1, <1>2

(* Numbers up to m that increase are at most m.                            *)
LEMMA IncreasingIsShort ==
  ASSUME NEW m \in Nat, NEW s \in Seq(1..m), \A i, j \in DOMAIN s : i < j => s[i] < s[j]
  PROVE  Len(s) <= m
<1>1. Len(s) \in Nat /\ DOMAIN s = 1..Len(s) /\ \A i \in 1..Len(s) : s[i] \in 1..m
  BY LenProperties, ElementOfSeq
<1>2. \A i, j \in 1..Len(s) : s[i] = s[j] => i = j
  <2>1. SUFFICES ASSUME NEW i \in 1..Len(s), NEW j \in 1..Len(s), i < j
                 PROVE  s[i] # s[j]
    BY <1>1
  <2>2. i \in DOMAIN s /\ j \in DOMAIN s /\ s[i] \in Nat /\ s[j] \in Nat
    BY <1>1
  <2>3. s[i] < s[j]
    BY <2>1, <2>2
  <2> QED BY <2>2, <2>3
<1>3. s \in Injection(1..Len(s), 1..m)
  BY <1>1, <1>2 DEF Injection, IsInjective
<1>4. IsFiniteSet(1..m) /\ Cardinality(1..m) = m
  BY FS_Interval
<1>5. Cardinality(1..Len(s)) <= Cardinality(1..m)
  BY <1>3, <1>4, FS_Injection
<1>6. Cardinality(1..Len(s)) = Len(s)
  <2>1. \A n \in Nat : Cardinality(1..n) = n
    <3>1. SUFFICES ASSUME NEW n \in Nat
                   PROVE  Cardinality(1..n) = n
      OBVIOUS
    <3>2. Cardinality(1..n) = IF 1 > n THEN 0 ELSE n - 1 + 1
      BY FS_Interval
    <3> QED BY <3>2
  <2> QED BY <1>1, <2>1
<1> QED BY <1>4, <1>5, <1>6

(* A finite set of more than one element has another one.                  *)
LEMMA AnotherMember ==
  ASSUME NEW S, IsFiniteSet(S), ~(Cardinality(S) <= 1), NEW x \in S
  PROVE  \E y \in S : y # x
<1> SUFFICES ASSUME \A y \in S : y = x PROVE FALSE
  OBVIOUS
<1>1. S = {x}
  OBVIOUS
<1>2. Cardinality({x}) = 1
  BY FS_Singleton
<1> QED BY <1>1, <1>2

(* A family of subsets of a finite set has a member none of the others is  *)
(* smaller than: what an induction over finite sets rests on here.         *)
LEMMA SmallestSubset ==
  ASSUME NEW S, IsFiniteSet(S), NEW T \in SUBSET SUBSET S, T # {}
  PROVE  \E t \in T : \A u \in T : u \subseteq t => u = t
<1>1. IsWellFoundedOn(StrictSubsetOrdering(S), SUBSET S)
  BY FS_StrictSubsetOrderingWellFounded, FS_FiniteSubsetsOfFinite
<1>2. PICK t \in T : \A u \in T : <<u, t>> \notin StrictSubsetOrdering(S)
  BY <1>1, WFMin
<1>3. ASSUME NEW u \in T, u \subseteq t, u # t PROVE FALSE
  BY <1>2, <1>3 DEF StrictSubsetOrdering
<1> QED BY <1>3

--------------------------------------------------------------------------------
(* The sum of the weights w[x] of the elements x of a set: a fold, of      *)
(* which f gives the value for every subset of S.                          *)
Weight(w, S) == MapThenSumSet(LAMBDA x : w[x], S)

Picked(s) == CHOOSE x \in s : TRUE

SumAt(f, w, s) == IF s = {} THEN 0 ELSE w[Picked(s)] + f[s \ {Picked(s)}]

IsSum(f, w, S) == f = [s \in SUBSET S |-> SumAt(f, w, s)]

(* What a set picks is one of its elements.                                *)
LEMMA PickedIsIn ==
  ASSUME NEW s, s # {}
  PROVE  Picked(s) \in s /\ s \ {Picked(s)} \subseteq s /\ s \ {Picked(s)} # s
<1>1. Picked(s) \in s
  BY DEF Picked
<1> QED BY <1>1

(* Two such functions agree where both are defined.                        *)
LEMMA SumsAgree ==
  ASSUME NEW S, NEW T, IsFiniteSet(S), NEW w, NEW f, NEW g, IsSum(f, w, S), IsSum(g, w, T)
  PROVE  \A s \in SUBSET S : s \subseteq T => f[s] = g[s]
<1> DEFINE Bad == {s \in SUBSET S : s \subseteq T /\ f[s] # g[s]}
<1> SUFFICES ASSUME Bad # {} PROVE FALSE
  OBVIOUS
<1>1. PICK s \in Bad : \A u \in Bad : u \subseteq s => u = s
  <2>1. Bad \in SUBSET SUBSET S
    OBVIOUS
  <2> HIDE DEF Bad
  <2> QED BY <2>1, SmallestSubset
<1>2. f[s] = SumAt(f, w, s) /\ g[s] = SumAt(g, w, s)
  <2>1. s \in SUBSET S /\ s \in SUBSET T
    OBVIOUS
  <2> QED BY <2>1 DEF IsSum
<1>3. s # {}
  BY <1>2 DEF SumAt
<1> DEFINE r == s \ {Picked(s)}
<1>4. r \subseteq s /\ r # s
  BY <1>3, PickedIsIn
<1>5. f[r] = g[r]
  <2> HIDE DEF r
  <2> QED BY <1>1, <1>4
<1> QED BY <1>2, <1>3, <1>5 DEF SumAt

(* A finite set has such a function.                                       *)
LEMMA SumExists ==
  ASSUME NEW S, IsFiniteSet(S), NEW w
  PROVE  \E f : IsSum(f, w, S)
<1> DEFINE Bad == {s \in SUBSET S : ~\E f : IsSum(f, w, s)}
<1> SUFFICES ASSUME Bad # {} PROVE FALSE
  OBVIOUS
<1>1. PICK t \in Bad : \A u \in Bad : u \subseteq t => u = t
  <2>1. Bad \in SUBSET SUBSET S
    OBVIOUS
  <2> HIDE DEF Bad
  <2> QED BY <2>1, SmallestSubset
<1>2. t \in SUBSET S /\ IsFiniteSet(t)
  BY FS_Subset
<1> DEFINE G(u) == CHOOSE f : IsSum(f, w, u)
           Val(u) == IF u = t THEN SumAt([v \in SUBSET t |-> G(v)[v]], w, t) ELSE G(u)[u]
           h == [u \in SUBSET t |-> Val(u)]
<1>3. ASSUME NEW u, u \subseteq t, u # t PROVE IsSum(G(u), w, u)
  <2>1. \E f : IsSum(f, w, u)
    BY <1>1, <1>2, <1>3
  <2> QED BY <2>1
<1>4. ASSUME NEW u \in SUBSET t PROVE h[u] = SumAt(h, w, u)
  <2> DEFINE r == u \ {Picked(u)}
  <2>1. CASE u = t /\ u # {}
    <3>1. r \subseteq t /\ r # t
      BY <2>1, PickedIsIn
    <3>2. h[r] = G(r)[r] /\ [v \in SUBSET t |-> G(v)[v]][r] = G(r)[r]
      <4> HIDE DEF r, G
      <4> QED BY <3>1
    <3>3. h[u] = SumAt([v \in SUBSET t |-> G(v)[v]], w, t)
      <4> HIDE DEF G
      <4> QED BY <2>1
    <3> QED 
      <4> HIDE DEF G, h
      <4> QED BY <2>1, <3>2, <3>3 DEF SumAt
  <2>2. CASE u = {}
    <3>1. SumAt(h, w, u) = 0 
      BY <2>2 DEF SumAt
    <3>2. CASE u = t
      <4>1. h[u] = SumAt([v \in SUBSET t |-> G(v)[v]], w, t)
        <5> HIDE DEF G
        <5> QED BY <3>2
      <4> QED BY <4>1, <3>1, <3>2, <2>2 DEF SumAt
    <3>3. CASE u # t
      <4>1. h[u] = G(u)[u]
        <5> HIDE DEF G
        <5> QED BY <3>3
      <4>2. G(u)[u] = SumAt(G(u), w, u)
        <5>1. IsSum(G(u), w, u)
          BY <1>3, <3>3
        <5> HIDE DEF G
        <5> QED BY <5>1 DEF IsSum
      <4> QED BY <4>1, <4>2, <3>1, <2>2 DEF SumAt
    <3> QED BY <3>2, <3>3
  <2>3. CASE u # t /\ u # {}
    <3>1. r \subseteq u /\ r # t /\ r \subseteq t
      BY <2>3, PickedIsIn
    <3>2. h[r] = G(r)[r] /\ h[u] = G(u)[u]
      <4> HIDE DEF r, G
      <4> QED BY <3>1, <2>3
    <3>3. IsSum(G(u), w, u) /\ IsSum(G(r), w, r)
      <4>1. IsSum(G(u), w, u)
        BY <1>3, <2>3
      <4>2. IsSum(G(r), w, r)
        <5> HIDE DEF r, G
        <5> QED BY <1>3, <3>1
      <4> QED BY <4>1, <4>2
    <3>4. IsFiniteSet(u)
      BY <1>2, FS_Subset
    <3>5. G(u)[r] = G(r)[r]
      <4> HIDE DEF r, G
      <4> QED BY <3>1, <3>3, <3>4, SumsAgree
    <3>6. G(u)[u] = SumAt(G(u), w, u)
      <4> HIDE DEF G
      <4> QED BY <3>3 DEF IsSum
    <3> QED
      <4> HIDE DEF G, h
      <4> QED BY <2>3, <3>2, <3>5, <3>6 DEF SumAt
  <2> QED BY <2>1, <2>2, <2>3
<1>5. IsSum(h, w, t)
  <2>1. h = [u \in SUBSET t |-> h[u]]
    <3> HIDE DEF Val
    <3> QED OBVIOUS
  <2> HIDE DEF h
  <2> QED BY <1>4, <2>1 DEF IsSum
<1> QED BY <1>5

(* Sums of numbers are numbers.                                            *)
LEMMA SumIsNat ==
  ASSUME NEW S, IsFiniteSet(S), NEW w, \A x \in S : w[x] \in Nat, NEW f, IsSum(f, w, S)
  PROVE  \A s \in SUBSET S : f[s] \in Nat
<1> DEFINE Bad == {s \in SUBSET S : f[s] \notin Nat}
<1> SUFFICES ASSUME Bad # {} PROVE FALSE
  OBVIOUS
<1>1. PICK s \in Bad : \A u \in Bad : u \subseteq s => u = s
  <2>1. Bad \in SUBSET SUBSET S
    OBVIOUS
  <2> HIDE DEF Bad
  <2> QED BY <2>1, SmallestSubset
<1>2. f[s] = SumAt(f, w, s)
  BY DEF IsSum
<1>3. s # {}
  BY <1>2 DEF SumAt
<1> DEFINE p == Picked(s)
           r == s \ {p}
<1>4. r \subseteq s /\ r # s /\ p \in S
  BY <1>3, PickedIsIn
<1>5. f[r] \in Nat
  <2> HIDE DEF r
  <2> QED BY <1>1, <1>4
<1>6. f[s] = w[p] + f[r]
  BY <1>2, <1>3 DEF SumAt
<1>7. w[p] \in Nat
  BY <1>4
<1>8. f[s] \in Nat
  <2> HIDE DEF p, r
  <2> QED BY <1>5, <1>6, <1>7
<1> QED BY <1>8

(* A sum is that without any one of the elements, and the weight of it,    *)
(* whichever element the fold takes first.                                 *)
LEMMA SumWithoutAny ==
  ASSUME NEW S, IsFiniteSet(S), NEW w, \A x \in S : w[x] \in Nat, NEW f, IsSum(f, w, S),
         NEW s \in SUBSET S, NEW y \in s
  PROVE  f[s] = w[y] + f[s \ {y}]
<1> DEFINE Bad == {t \in SUBSET S : \E x \in t : f[t] # w[x] + f[t \ {x}]}
<1> SUFFICES ASSUME Bad # {} PROVE FALSE
  OBVIOUS
<1>1. PICK t \in Bad : \A u \in Bad : u \subseteq t => u = t
  <2>1. Bad \in SUBSET SUBSET S
    OBVIOUS
  <2> HIDE DEF Bad
  <2> QED BY <2>1, SmallestSubset
<1>2. PICK x \in t : f[t] # w[x] + f[t \ {x}]
  OBVIOUS
<1>3. ASSUME NEW u \in SUBSET S, u # {}
      PROVE  f[u] = w[Picked(u)] + f[u \ {Picked(u)}]
  BY <1>3 DEF IsSum, SumAt
<1> DEFINE z == Picked(t)
<1>4. t # {} /\ z \in t /\ f[t] = w[z] + f[t \ {z}]
  BY <1>2, <1>3, PickedIsIn
<1>5. x # z
  BY <1>2, <1>4
<1> HIDE DEF z
<1>6. ASSUME NEW a \in t, NEW b \in t, a # b
      PROVE  f[t \ {a}] = w[b] + f[t \ {a, b}]
  <2>1. t \ {a} \in SUBSET S /\ t \ {a} \subseteq t /\ t \ {a} # t /\ b \in t \ {a}
    BY <1>6
  <2>2. t \ {a} \notin Bad
    <3> HIDE DEF Bad
    <3> QED BY <1>1, <2>1
  <2>3. (t \ {a}) \ {b} = t \ {a, b}
    OBVIOUS
  <2> QED BY <2>1, <2>2, <2>3
<1>7. f[t \ {x}] = w[z] + f[t \ {x, z}] /\ f[t \ {z}] = w[x] + f[t \ {x, z}]
  <2>1. {z, x} = {x, z}
    OBVIOUS
  <2> QED BY <1>4, <1>5, <1>6, <2>1
<1>8. w[x] \in Nat /\ w[z] \in Nat /\ f[t \ {x, z}] \in Nat
  <2>1. x \in S /\ z \in S /\ t \ {x, z} \in SUBSET S
    BY <1>4
  <2> QED BY <2>1, SumIsNat
<1>9. f[t] = w[x] + f[t \ {x}]
  BY <1>4, <1>7, <1>8
<1> QED BY <1>2, <1>9

(* The fold is such a function.                                            *)
LEMMA WeightIsSum ==
  ASSUME NEW S, IsFiniteSet(S), NEW w
  PROVE  \E f : IsSum(f, w, S) /\ \A s \in SUBSET S : Weight(w, s) = f[s]
<1>1. ASSUME NEW s, IsFiniteSet(s)
      PROVE  \E f : IsSum(f, w, s) /\ Weight(w, s) = f[s]
  <2> DEFINE g == CHOOSE f : IsSum(f, w, s)
  <2>1. IsSum(g, w, s)
    BY <1>1, SumExists
  <2>2. Weight(w, s) = g[s]
    BY DEF Weight, MapThenSumSet, MapThenFoldSet, IsSum, SumAt, Picked
  <2> QED BY <2>1, <2>2
<1>2. PICK f : IsSum(f, w, S)
  BY SumExists
<1>3. ASSUME NEW s \in SUBSET S PROVE Weight(w, s) = f[s]
  <2>1. IsFiniteSet(s)
    BY FS_Subset
  <2>2. PICK g : IsSum(g, w, s) /\ Weight(w, s) = g[s]
    BY <2>1, <1>1
  <2>3. \A t \in SUBSET s : t \subseteq S => g[t] = f[t]
    BY <2>1, <2>2, <1>2, SumsAgree
  <2> QED BY <2>2, <2>3
<1> QED BY <1>2, <1>3

(* No elements weigh nothing.                                              *)
LEMMA WeightOfNone ==
  ASSUME NEW w
  PROVE  Weight(w, {}) = 0
<1>1. PICK f : IsSum(f, w, {}) /\ \A s \in SUBSET {} : Weight(w, s) = f[s]
  BY FS_EmptySet, WeightIsSum
<1> QED BY <1>1 DEF IsSum, SumAt

(* Weights are added up to a number.                                       *)
LEMMA WeightIsNat ==
  ASSUME NEW S, IsFiniteSet(S), NEW w, \A x \in S : w[x] \in Nat
  PROVE  Weight(w, S) \in Nat
<1>1. PICK f : IsSum(f, w, S) /\ \A s \in SUBSET S : Weight(w, s) = f[s]
  BY WeightIsSum
<1>2. \A s \in SUBSET S : f[s] \in Nat
  BY <1>1, SumIsNat
<1> QED BY <1>1, <1>2

(* One element less is its weight less.                                    *)
LEMMA WeightWithout ==
  ASSUME NEW S, IsFiniteSet(S), NEW w, \A x \in S : w[x] \in Nat, NEW y \in S
  PROVE  Weight(w, S) = w[y] + Weight(w, S \ {y})
<1>1. PICK f : IsSum(f, w, S) /\ \A s \in SUBSET S : Weight(w, s) = f[s]
  BY WeightIsSum
<1>2. f[S] = w[y] + f[S \ {y}]
  BY <1>1, SumWithoutAny
<1>3. Weight(w, S) = f[S] /\ Weight(w, S \ {y}) = f[S \ {y}]
  BY <1>1
<1> QED BY <1>2, <1>3

(* One element more is its weight more.                                    *)
LEMMA WeightWithOneMore ==
  ASSUME NEW S, IsFiniteSet(S), NEW w, NEW y, y \notin S, \A x \in S \cup {y} : w[x] \in Nat
  PROVE  Weight(w, S \cup {y}) = Weight(w, S) + w[y]
<1> DEFINE T == S \cup {y}
<1>1. IsFiniteSet(T) /\ y \in T /\ T \ {y} = S
  BY FS_AddElement
<1>2. \A x \in T : w[x] \in Nat
  OBVIOUS
<1> HIDE DEF T
<1>3. Weight(w, T) = w[y] + Weight(w, S)
  BY <1>1, <1>2, WeightWithout
<1>4. Weight(w, S) \in Nat /\ w[y] \in Nat
  <2>1. \A x \in S : w[x] \in Nat
    BY <1>1, <1>2
  <2> QED BY <1>1, <1>2, <2>1, WeightIsNat
<1> QED BY <1>3, <1>4 DEF T

(* Only the weights of the elements count.                                 *)
LEMMA WeightOfSame ==
  ASSUME NEW S, IsFiniteSet(S), NEW v, NEW w, \A x \in S : v[x] = w[x]
  PROVE  Weight(v, S) = Weight(w, S)
<1>1. PICK f : IsSum(f, v, S) /\ \A s \in SUBSET S : Weight(v, s) = f[s]
  BY WeightIsSum
<1>2. PICK g : IsSum(g, w, S) /\ \A s \in SUBSET S : Weight(w, s) = g[s]
  BY WeightIsSum
<1>3. IsSum(f, w, S)
  <2>1. \A s \in SUBSET S : SumAt(f, v, s) = SumAt(f, w, s)
    <3>1. ASSUME NEW s \in SUBSET S, s # {} PROVE v[Picked(s)] = w[Picked(s)]
      BY <3>1, PickedIsIn
    <3> QED BY <3>1 DEF SumAt
  <2> QED BY <1>1, <2>1 DEF IsSum
<1>4. \A s \in SUBSET S : s \subseteq S => f[s] = g[s]
  BY <1>2, <1>3, SumsAgree
<1>5. Weight(v, S) = f[S] /\ Weight(w, S) = g[S] /\ f[S] = g[S]
  BY <1>1, <1>2, <1>4
<1> QED BY <1>5

(* A larger set weighs no less.                                            *)
LEMMA WeightGrows ==
  ASSUME NEW S, IsFiniteSet(S), NEW w, \A x \in S : w[x] \in Nat, NEW T \in SUBSET S
  PROVE  Weight(w, T) <= Weight(w, S)
<1> DEFINE Bad == {t \in SUBSET S : T \subseteq t /\ ~(Weight(w, T) <= Weight(w, t))}
<1> SUFFICES ASSUME Bad # {} PROVE FALSE
  OBVIOUS
<1>1. PICK t \in Bad : \A u \in Bad : u \subseteq t => u = t
  <2>1. Bad \in SUBSET SUBSET S
    OBVIOUS
  <2> HIDE DEF Bad
  <2> QED BY <2>1, SmallestSubset
<1>2. ASSUME NEW s \in SUBSET S PROVE IsFiniteSet(s) /\ Weight(w, s) \in Nat
  BY FS_Subset, WeightIsNat
<1>3. t \in SUBSET S /\ T \subseteq t /\ ~(Weight(w, T) <= Weight(w, t))
  OBVIOUS
<1>4. t # T
  BY <1>2, <1>3
<1>5. PICK y \in t : y \notin T
  BY <1>3, <1>4
<1> DEFINE r == t \ {y}
<1>6. r \in SUBSET S /\ T \subseteq r /\ r \subseteq t /\ r # t
  BY <1>3, <1>5
<1>7. Weight(w, t) = w[y] + Weight(w, r)
  BY <1>2, <1>3, <1>5, WeightWithout
<1>8. w[y] \in Nat
  BY <1>3, <1>5
<1> HIDE DEF r
<1>9. Weight(w, T) <= Weight(w, r)
  BY <1>1, <1>6
<1>10. Weight(w, r) \in Nat /\ Weight(w, T) \in Nat
  BY <1>2, <1>6
<1>11. Weight(w, T) <= Weight(w, t)
  BY <1>7, <1>8, <1>9, <1>10
<1> QED BY <1>3, <1>11

(* A product distributes over a sum.                                       *)
LEMMA Distributes ==
  ASSUME NEW a \in Nat, NEW b \in Nat, NEW p \in Nat
  PROVE  (a + b) * p = a * p + b * p
OBVIOUS

(* If the elements of one set stand for elements of another, each of which *)
(* outweighs it at some exchange rate p to q, so do they together.         *)
LEMMA WeightIsOutweighed ==
  ASSUME NEW S, IsFiniteSet(S), NEW T, IsFiniteSet(T), NEW w, NEW v, NEW h \in [S -> T],
         NEW p \in Nat, NEW q \in Nat,
         \A x \in S : w[x] \in Nat, \A y \in T : v[y] \in Nat,
         \A x \in S : w[x] * p <= v[h[x]] * q,
         \A x, y \in S : h[x] = h[y] => x = y
  PROVE  Weight(w, S) * p <= Weight(v, T) * q
<1> DEFINE Image(s) == {h[x] : x \in s}
           Bad == {s \in SUBSET S : ~(Weight(w, s) * p <= Weight(v, Image(s)) * q)}
<1>1. ASSUME NEW s \in SUBSET S
      PROVE  /\ IsFiniteSet(s) /\ Image(s) \in SUBSET T /\ IsFiniteSet(Image(s))
             /\ Weight(w, s) \in Nat /\ Weight(v, Image(s)) \in Nat
  <2>1. IsFiniteSet(s) /\ \A x \in s : w[x] \in Nat
    BY FS_Subset
  <2>2. Image(s) \in SUBSET T
    OBVIOUS
  <2> HIDE DEF Image
  <2>3. IsFiniteSet(Image(s)) /\ \A y \in Image(s) : v[y] \in Nat
    BY <2>2, FS_Subset
  <2> QED BY <2>1, <2>2, <2>3, WeightIsNat
<1>2. Bad = {}
  <2> SUFFICES ASSUME Bad # {} PROVE FALSE
    OBVIOUS
  <2>1. PICK s \in Bad : \A u \in Bad : u \subseteq s => u = s
    <3>1. Bad \in SUBSET SUBSET S
      OBVIOUS
    <3> HIDE DEF Bad
    <3> QED BY <3>1, SmallestSubset
  <2>2. s \in SUBSET S /\ ~(Weight(w, s) * p <= Weight(v, Image(s)) * q)
    OBVIOUS
  <2>3. s # {}
    <3> SUFFICES ASSUME s = {} PROVE FALSE
      OBVIOUS
    <3>1. Image(s) = {}
      OBVIOUS
    <3>2. Weight(w, s) = 0 /\ Weight(v, Image(s)) = 0
      BY <3>1, WeightOfNone
    <3> HIDE DEF Image, Bad
    <3> QED BY <2>2, <3>2
  <2>4. PICK x \in s : TRUE
    BY <2>3
  <2> DEFINE r == s \ {x}
  <2>5. r \in SUBSET S /\ r \subseteq s /\ r # s /\ x \in S
    BY <2>2, <2>4
  <2>6. h[x] \in Image(s) /\ Image(r) = Image(s) \ {h[x]}
    BY <2>2, <2>4
  <2>7. Weight(w, r) * p <= Weight(v, Image(r)) * q
    <3>1. r \notin Bad
      <4> HIDE DEF Bad, r
      <4> QED BY <2>1, <2>5
    <3> QED BY <2>5, <3>1
  <2> HIDE DEF Bad, Image
  <2>8. Weight(w, s) = w[x] + Weight(w, r)
    BY <1>1, <2>2, <2>4, WeightWithout
  <2>9. Weight(v, Image(s)) = v[h[x]] + Weight(v, Image(r))
    <3>1. IsFiniteSet(Image(s)) /\ \A y \in Image(s) : v[y] \in Nat
      BY <1>1, <2>2
    <3>2. Weight(v, Image(s)) = v[h[x]] + Weight(v, Image(s) \ {h[x]})
      BY <2>6, <3>1, WeightWithout
    <3> QED BY <2>6, <3>2
  <2> HIDE DEF r
  <2>10. w[x] * p <= v[h[x]] * q /\ w[x] \in Nat /\ v[h[x]] \in Nat
    BY <2>5
  <2>11. /\ Weight(w, r) \in Nat /\ Weight(v, Image(r)) \in Nat
    BY <1>1, <2>5
  <2>12. (w[x] + Weight(w, r)) * p <= (v[h[x]] + Weight(v, Image(r))) * q
    <3>1. (w[x] + Weight(w, r)) * p = w[x] * p + Weight(w, r) * p
      BY <2>10, <2>11, Distributes
    <3>2. (v[h[x]] + Weight(v, Image(r))) * q = v[h[x]] * q + Weight(v, Image(r)) * q
      BY <2>10, <2>11, Distributes
    <3>3. /\ w[x] * p \in Nat /\ Weight(w, r) * p \in Nat
          /\ v[h[x]] * q \in Nat /\ Weight(v, Image(r)) * q \in Nat
      BY <2>10, <2>11
    <3> QED BY <3>1, <3>2, <3>3, <2>7, <2>10
  <2> QED BY <2>2, <2>8, <2>9, <2>12
<1>3. Weight(w, S) * p <= Weight(v, Image(S)) * q
  BY <1>2
<1>4. Weight(v, Image(S)) <= Weight(v, T)
  <2> HIDE DEF Image
  <2> QED BY <1>1, WeightGrows
<1> DEFINE a == Weight(w, S)
           b == Weight(v, Image(S))
           c == Weight(v, T)
<1>5. a \in Nat /\ b \in Nat /\ c \in Nat
  BY <1>1, WeightIsNat
<1>6. b <= c /\ a * p <= b * q
  BY <1>3, <1>4
<1>7. a * p <= c * q
  <2> HIDE DEF a, b, c
  <2>1. b * q <= c * q /\ b * q \in Nat /\ c * q \in Nat /\ a * p \in Nat
    BY <1>5, <1>6
  <2> QED BY <1>6, <2>1
<1> QED BY <1>7
================================================================================
