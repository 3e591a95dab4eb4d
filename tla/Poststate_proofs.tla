-------------------------- MODULE Poststate_proofs --------------------------
(***************************************************************************)
(* The poststate digest identifies what the accounts hold, for every set of *)
(* accounts, every snapshot and every order of the map: the sort forgets    *)
(* the order (SortForgetsTheWalk), and two poststates with one digest are   *)
(* equal (DigestIsThePoststate).                                            *)
(*                                                                          *)
(* Both are inductions over data.  They are made by way of a least          *)
(* counterexample, WFMin, since it speaks of sets and not of predicates.    *)
(***************************************************************************)
EXTENDS Poststate, FiniteSetTheorems, FunctionTheorems, SequenceTheorems, WellFoundedInduction, TLAPS

(* Every set of natural numbers with an element has a least one.            *)
LEMMA LeastElement ==
  ASSUME NEW S \in SUBSET Nat, S # {}
  PROVE  \E m \in S : \A n \in S : m <= n
  <1> DEFINE R == OpToRel(<, Nat)
  <1>1. IsWellFoundedOn(R, Nat)
    BY NatLessThanWellFounded
  <1>2. \A m, n \in Nat : <<n, m>> \in R <=> n < m
    BY DEF OpToRel
  <1> HIDE DEF R
  <1>3. PICK m \in S : \A n \in S : ~(<<n, m>> \in R)
    BY <1>1, WFMin
  <1>4. ASSUME NEW n \in S PROVE m <= n
    <2>1. ~(n < m)
      BY <1>2, <1>3
    <2> QED BY <2>1
  <1> QED BY <1>4

(* Induction over the natural numbers, for a set in place of a predicate.   *)
LEMMA SetInduction ==
  ASSUME NEW S, 0 \in S, \A n \in Nat : n \in S => n + 1 \in S
  PROVE  Nat \subseteq S
  <1> DEFINE missing == Nat \ S
  <1>1. CASE missing = {}
    BY <1>1
  <1>2. CASE missing # {}
    <2>1. PICK m \in missing : \A n \in missing : m <= n
      BY <1>2, LeastElement
    <2>2. m # 0 /\ m \in Nat
      OBVIOUS
    <2>3. m - 1 \in Nat /\ m - 1 + 1 = m /\ ~(m <= m - 1)
      BY <2>2
    <2>4. m - 1 \in S
      BY <2>1, <2>3
    <2> QED BY <2>1, <2>3, <2>4
  <1> QED BY <1>1, <1>2

-----------------------------------------------------------------------------
(* Sorting.  What sort_unstable_by_key owes exists for every finite set of  *)
(* keys, holds every key of the set, and there is only one.                 *)

(* One key more, smaller than all: it comes first.                          *)
LEMMA LeastFirst ==
  ASSUME NEW W \in SUBSET Nat, NEW m \in W, \A w \in W : m <= w,
         NEW n \in Nat, NEW s \in [1..n -> W \ {m}], Ascending(s)
  PROVE  \E t \in [1..n + 1 -> W] : Ascending(t)
  <1> DEFINE t == [i \in 1..n + 1 |-> IF i = 1 THEN m ELSE s[i - 1]]
  <1>1. ASSUME NEW i \in 1..n + 1, i # 1 PROVE t[i] = s[i - 1] /\ i - 1 \in 1..n
    BY <1>1
  <1>2. t \in [1..n + 1 -> W]
    BY <1>1
  <1>3. ASSUME NEW i \in 1..n + 1, NEW j \in 1..n + 1, i < j PROVE t[i] < t[j]
    <2>1. j # 1 /\ t[j] = s[j - 1] /\ j - 1 \in 1..n
      BY <1>1, <1>3
    <2>2. CASE i = 1
      <3>1. t[i] = m /\ s[j - 1] \in W \ {m}
        BY <2>1, <2>2
      <3>2. m <= s[j - 1] /\ m # s[j - 1] /\ m \in Nat /\ s[j - 1] \in Nat
        BY <3>1
      <3>3. m < s[j - 1]
        BY <3>2
      <3> HIDE DEF t
      <3> QED BY <2>1, <3>1, <3>3
    <2>3. CASE i # 1
      <3>1. t[i] = s[i - 1] /\ i - 1 \in 1..n /\ i - 1 < j - 1
        BY <1>1, <1>3, <2>3
      <3> QED BY <2>1, <3>1 DEF Ascending
    <2> QED BY <2>2, <2>3
  <1>4. Ascending(t)
    BY <1>2, <1>3 DEF Ascending
  <1> QED BY <1>2, <1>4

(* Every finite set of keys can be sorted.                                  *)
LEMMA CanSort ==
  ASSUME NEW W \in SUBSET Nat, IsFiniteSet(W)
  PROVE  \E s \in [1..Cardinality(W) -> W] : Ascending(s)
  <1> DEFINE sortable == {n \in Nat : \A V \in SUBSET Nat :
                 IsFiniteSet(V) /\ Cardinality(V) = n => \E s \in [1..n -> V] : Ascending(s)}
  <1>1. 0 \in sortable
    <2>1. \A V : [i \in 1..0 |-> i] \in [1..0 -> V]
      OBVIOUS
    <2>2. Ascending([i \in 1..0 |-> i])
      BY DEF Ascending
    <2> QED BY <2>1, <2>2
  <1>2. ASSUME NEW n \in Nat, n \in sortable PROVE n + 1 \in sortable
    <2> SUFFICES ASSUME NEW V \in SUBSET Nat, IsFiniteSet(V), Cardinality(V) = n + 1
                 PROVE  \E s \in [1..n + 1 -> V] : Ascending(s)
      OBVIOUS
    <2>1. V # {}
      BY FS_EmptySet
    <2>2. PICK m \in V : \A w \in V : m <= w
      BY <2>1, LeastElement
    <2>3. IsFiniteSet(V \ {m}) /\ Cardinality(V \ {m}) = n
      <3>1. IsFiniteSet(V \ {m}) /\ Cardinality(V \ {m}) = Cardinality(V) - 1
        BY FS_RemoveElement
      <3> QED BY <3>1
    <2>4. PICK s \in [1..n -> V \ {m}] : Ascending(s)
      BY <1>2, <2>3
    <2> QED BY <2>2, <2>4, LeastFirst
  <1>3. Nat \subseteq sortable
    <2> HIDE DEF sortable
    <2> QED BY <1>1, <1>2, SetInduction
  <1>4. Cardinality(W) \in Nat
    BY FS_CardinalityType
  <1> QED BY <1>3, <1>4

(* As many keys as the set has, ascending, are all the keys of the set.     *)
LEMMA AscendingHasAll ==
  ASSUME NEW W \in SUBSET Nat, IsFiniteSet(W),
         NEW s \in [1..Cardinality(W) -> W], Ascending(s)
  PROVE  Range(s) = W
  <1> DEFINE n == Cardinality(W)
  <1>1. n \in Nat
    BY FS_CardinalityType
  <1>2. ASSUME NEW i \in 1..n, NEW j \in 1..n, s[i] = s[j] PROVE i = j
    <2>1. s[i] \in Nat /\ s[j] \in Nat
      OBVIOUS
    <2>2. ~(i < j) /\ ~(j < i)
      BY <1>2, <2>1 DEF Ascending
    <2> QED BY <1>1, <2>2
  <1>3. s \in Injection(1..n, W)
    BY <1>2 DEF Injection, IsInjective
  <1>4. Cardinality(1..n) = n
    BY <1>1, FS_Interval
  <1>5. s \in Surjection(1..n, W)
    BY <1>3, <1>4, FS_Injection
  <1> QED BY <1>5 DEF Surjection, Range

(* Where two ascending sequences of the same keys part, neither can be      *)
(* ahead: what the one has there the other has yet to come.                 *)
LEMMA BehindWhereTheyPart ==
  ASSUME NEW n \in Nat, NEW s, NEW t, DOMAIN s = 1..n, DOMAIN t = 1..n,
         Range(s) = Range(t), Range(s) \subseteq Nat, Ascending(s), Ascending(t),
         NEW i \in 1..n, s[i] # t[i], \A j \in 1..n : j < i => s[j] = t[j]
  PROVE  t[i] < s[i]
  <1>1. \A j \in 1..n : s[j] \in Nat
    BY DEF Range
  <1>2. PICK k \in 1..n : t[k] = s[i]
    BY DEF Range
  <1>3. k # i
    BY <1>2
  <1>4. ~(k < i)
    <2>1. ASSUME k < i PROVE s[k] < s[i] /\ s[k] = s[i]
      BY <1>2, <2>1 DEF Ascending
    <2> QED BY <1>1, <2>1
  <1>5. i < k
    BY <1>3, <1>4
  <1> QED BY <1>2, <1>5 DEF Ascending

(* Two ascending sequences of the same keys are the same, key by key.       *)
LEMMA AscendingIsUnique ==
  ASSUME NEW n \in Nat, NEW s, NEW t, DOMAIN s = 1..n, DOMAIN t = 1..n,
         Range(s) = Range(t), Range(s) \subseteq Nat, Ascending(s), Ascending(t)
  PROVE  \A i \in 1..n : s[i] = t[i]
  <1> DEFINE apart == {i \in 1..n : s[i] # t[i]}
  <1>1. SUFFICES ASSUME apart # {} PROVE FALSE
    OBVIOUS
  <1>2. PICK i \in apart : \A j \in apart : i <= j
    <2>1. apart \in SUBSET Nat
      OBVIOUS
    <2> HIDE DEF apart
    <2> QED BY <1>1, <2>1, LeastElement
  <1>3. i \in 1..n /\ s[i] # t[i] /\ \A j \in 1..n : j < i => s[j] = t[j]
    BY <1>2
  <1>4. t[i] < s[i]
    BY <1>3, BehindWhereTheyPart
  <1>5. s[i] < t[i]
    <2>1. t[i] # s[i] /\ \A j \in 1..n : j < i => t[j] = s[j]
      BY <1>3
    <2> QED BY <1>3, <2>1, BehindWhereTheyPart
  <1>6. s[i] \in Nat /\ t[i] \in Nat
    BY <1>3 DEF Range
  <1> QED BY <1>4, <1>5, <1>6

(* A walk of a map meets each of its keys, once.                            *)
LEMMA WalkMeetsAll ==
  ASSUME NEW W, IsFiniteSet(W), NEW iterated \in SetToSeqs(W)
  PROVE  /\ iterated \in [1..Cardinality(W) -> W]
         /\ Range(iterated) = W
  <1> DEFINE n == Cardinality(W)
  <1>1. iterated \in [1..n -> W] /\ \A i, j \in 1..n : i # j => iterated[i] # iterated[j]
    BY DEF SetToSeqs
  <1>2. n \in Nat
    BY FS_CardinalityType
  <1>3. iterated \in Injection(1..n, W)
    BY <1>1 DEF Injection, IsInjective
  <1>4. Cardinality(1..n) = n
    BY <1>2, FS_Interval
  <1>5. iterated \in Surjection(1..n, W)
    BY <1>3, <1>4, FS_Injection
  <1> QED BY <1>1, <1>5 DEF Surjection, Range

(* src/adapters/custos.rs:60-61.  In whatever order the map is walked, the  *)
(* sort yields the one ascending sequence of its keys.                      *)
THEOREM SortForgetsTheWalk ==
  ASSUME NEW W \in SUBSET Nat, IsFiniteSet(W), NEW iterated \in SetToSeqs(W)
  PROVE  /\ canonical(iterated) \in [1..Cardinality(W) -> W]
         /\ Ascending(canonical(iterated)) /\ Range(canonical(iterated)) = W
         /\ \A s \in [1..Cardinality(W) -> W] : Ascending(s) => s = canonical(iterated)
  <1> DEFINE n == Cardinality(W)
             sorted == canonical(iterated)
  <1>1. n \in Nat
    BY FS_CardinalityType
  <1>2. iterated \in [1..n -> W] /\ Range(iterated) = W
    BY WalkMeetsAll
  <1>3. sorted \in [1..n -> W] /\ Ascending(sorted)
    BY <1>2, CanSort DEF canonical
  <1> HIDE DEF sorted
  <1>4. Range(sorted) = W
    BY <1>3, AscendingHasAll
  <1>5. ASSUME NEW s \in [1..n -> W], Ascending(s) PROVE s = sorted
    <2>1. Range(s) = W
      BY <1>5, AscendingHasAll
    <2>2. DOMAIN s = 1..n /\ DOMAIN sorted = 1..n
      BY <1>3
    <2> HIDE DEF n
    <2> SUFFICES \A i \in 1..n : s[i] = sorted[i]
      <3>1. s = [i \in 1..n |-> s[i]] /\ sorted = [i \in 1..n |-> sorted[i]]
        BY <1>3
      <3> QED BY <3>1
    <2>3. Range(s) = Range(sorted) /\ Range(s) \subseteq Nat
      BY <1>4, <2>1
    <2>4. Ascending(s) /\ Ascending(sorted)
      BY <1>3, <1>5
    <2> QED BY <1>1, <2>2, <2>3, <2>4, AscendingIsUnique
  <1> QED BY <1>3, <1>4, <1>5 DEF sorted

-----------------------------------------------------------------------------
(* Hashing.  What the parts of a hash input come to, one after the other.   *)

(* The recursion of FlattenSeq, written out.                                *)
Flattens(flat, parts) ==
    flat = [i \in 1..Len(parts) |-> IF i = 1 THEN parts[i] ELSE flat[i - 1] \o parts[i]]

(* It has a solution, however many parts there are.                         *)
LEMMA CanFlatten ==
  ASSUME NEW parts, Len(parts) \in Nat
  PROVE  \E flat : Flattens(flat, parts)
  <1> DEFINE Upto(flat, n) ==
               flat = [i \in 1..n |-> IF i = 1 THEN parts[i] ELSE flat[i - 1] \o parts[i]]
             solvable == {n \in Nat : \E flat : Upto(flat, n)}
  <1>1. 0 \in solvable
    <2>1. Upto([i \in 1..0 |-> i], 0)
      OBVIOUS
    <2> QED BY <2>1
  <1>2. ASSUME NEW n \in Nat, n \in solvable PROVE n + 1 \in solvable
    <2>1. PICK flat : Upto(flat, n)
      BY <1>2
    <2> DEFINE next == [i \in 1..n + 1 |->
                 IF i = 1 THEN parts[i]
                 ELSE IF i <= n THEN flat[i] ELSE flat[n] \o parts[i]]
    <2>2. ASSUME NEW i \in 1..n PROVE next[i] = flat[i]
      BY <2>1
    <2>3. ASSUME NEW i \in 1..n + 1, i # 1 PROVE next[i] = next[i - 1] \o parts[i]
      <3>1. CASE i <= n
        <4>1. i \in 1..n /\ i - 1 \in 1..n
          BY <2>3, <3>1
        <4>2. next[i] = flat[i] /\ next[i - 1] = flat[i - 1]
          BY <2>2, <4>1
        <4>3. flat[i] = flat[i - 1] \o parts[i]
          BY <2>1, <2>3, <4>1
        <4> QED BY <4>2, <4>3
      <3>2. CASE ~(i <= n)
        <4>1. i = n + 1 /\ n \in 1..n /\ i - 1 = n
          BY <2>3, <3>2
        <4>2. next[i] = flat[n] \o parts[i]
          BY <2>3, <3>2
        <4>3. next[n] = flat[n]
          BY <2>2, <4>1
        <4> QED BY <4>1, <4>2, <4>3
      <3> QED BY <3>1, <3>2
    <2>4. \A i \in 1..n + 1 :
            next[i] = IF i = 1 THEN parts[i] ELSE next[i - 1] \o parts[i]
      BY <2>3
    <2>5. DOMAIN next = 1..n + 1
      OBVIOUS
    <2>6. next = [i \in DOMAIN next |-> next[i]]
      OBVIOUS
    <2> HIDE DEF next
    <2>7. Upto(next, n + 1)
      BY <2>4, <2>5, <2>6
    <2> HIDE DEF Upto
    <2> QED BY <2>7
  <1>3. Len(parts) \in solvable
    <2> HIDE DEF solvable
    <2> QED BY <1>1, <1>2, SetInduction
  <1> QED BY <1>3 DEF Flattens

(* So FlattenSeq is what its recursion says.                                *)
LEMMA FlattenUnfolds ==
  ASSUME NEW parts, Len(parts) \in Nat \ {0}
  PROVE  \E flat : Flattens(flat, parts) /\ FlattenSeq(parts) = flat[Len(parts)]
  <1> DEFINE flat == CHOOSE flat : Flattens(flat, parts)
  <1>1. Flattens(flat, parts)
    BY CanFlatten
  <1>2. FlattenSeq(parts) = flat[Len(parts)]
    BY DEF FlattenSeq, Flattens
  <1> QED BY <1>1, <1>2

(* What is hashed so far, after each part.                                  *)
Grows(hashed, parts) ==
    /\ hashed \in [0..Len(parts) -> Seq(Nat)] /\ hashed[0] = <<>>
    /\ \A i \in 1..Len(parts) : hashed[i] = hashed[i - 1] \o parts[i]

LEMMA FlattenGrows ==
  ASSUME NEW parts \in Seq(Seq(Nat))
  PROVE  \E hashed : Grows(hashed, parts) /\ FlattenSeq(parts) = hashed[Len(parts)]
  <1> DEFINE n == Len(parts)
  <1>1. n \in Nat /\ \A i \in 1..n : parts[i] \in Seq(Nat)
    OBVIOUS
  <1>2. CASE n = 0
    <2> DEFINE hashed == [i \in 0..0 |-> <<>>]
    <2>1. Grows(hashed, parts)
      <3>1. <<>> \in Seq(Nat)
        OBVIOUS
      <3> QED BY <1>2, <3>1 DEF Grows
    <2>2. parts = <<>>
      BY <1>2
    <2>3. FlattenSeq(parts) = <<>>
      BY <1>2, <2>2 DEF FlattenSeq
    <2> QED BY <1>2, <2>1, <2>3
  <1>3. CASE n # 0
    <2>1. PICK flat : Flattens(flat, parts) /\ FlattenSeq(parts) = flat[n]
      BY <1>1, <1>3, FlattenUnfolds
    <2> DEFINE hashed == [i \in 0..n |-> IF i = 0 THEN <<>> ELSE flat[i]]
               typed  == {i \in Nat : i <= n => hashed[i] \in Seq(Nat)}
    <2>2. hashed[0] = <<>> /\ \A i \in 1..n : hashed[i] = flat[i]
      BY <1>1
    <2>3. ASSUME NEW i \in 1..n
          PROVE  flat[i] = IF i = 1 THEN parts[i] ELSE flat[i - 1] \o parts[i]
      BY <2>1 DEF Flattens
    <2>4. ASSUME NEW i \in 1..n PROVE hashed[i] = hashed[i - 1] \o parts[i]
      <3>1. CASE i = 1
        <4>1. hashed[i - 1] = <<>> /\ hashed[i] = parts[i]
          BY <2>2, <2>3, <3>1
        <4>2. <<>> \o parts[i] = parts[i]
          BY <1>1, ConcatEmptySeq
        <4> QED BY <4>1, <4>2
      <3>2. CASE i # 1
        <4>1. i - 1 \in 1..n
          BY <1>1, <3>2
        <4>2. hashed[i] = flat[i] /\ hashed[i - 1] = flat[i - 1]
          BY <2>2, <4>1
        <4> HIDE DEF hashed
        <4> QED BY <2>3, <3>2, <4>2
      <3> QED BY <3>1, <3>2
    <2> HIDE DEF hashed
    <2>5. 0 \in typed
      <3>1. hashed[0] \in Seq(Nat)
        BY <2>2, EmptySeq
      <3> QED BY <3>1
    <2>6. ASSUME NEW i \in Nat, i \in typed PROVE i + 1 \in typed
      <3>1. CASE i + 1 <= n
        <4>1. PICK j \in 1..n : j = i + 1 /\ j - 1 = i /\ i <= n
          BY <1>1, <3>1
        <4>2. hashed[i] \in Seq(Nat) /\ parts[j] \in Seq(Nat)
          BY <1>1, <2>6, <4>1
        <4>3. hashed[i] \o parts[j] \in Seq(Nat)
          BY <4>2, ConcatProperties
        <4>4. hashed[j] = hashed[i] \o parts[j]
          BY <2>4, <4>1
        <4>5. hashed[i + 1] \in Seq(Nat)
          BY <4>1, <4>3, <4>4
        <4> QED BY <4>5
      <3> QED BY <3>1
    <2>7. \A i \in Nat : i \in typed
      <3> HIDE DEF typed
      <3> QED BY <2>5, <2>6, SetInduction
    <2>8. hashed \in [0..n -> Seq(Nat)]
      <3>1. \A i \in 0..n : hashed[i] \in Seq(Nat)
        BY <1>1, <2>7
      <3> QED BY <3>1 DEF hashed
    <2>9. FlattenSeq(parts) = hashed[n]
      BY <1>1, <1>3, <2>1, <2>2
    <2> QED BY <2>2, <2>4, <2>8, <2>9 DEF Grows
  <1> QED BY <1>2, <1>3

(* One sequence is the beginning of another.                                *)
Begins(s, t) == Len(s) <= Len(t) /\ \A k \in 1..Len(s) : s[k] = t[k]

(* What is hashed at any time is the beginning of all that will be.         *)
LEMMA HashedStays ==
  ASSUME NEW parts \in Seq(Seq(Nat)), NEW hashed, Grows(hashed, parts),
         NEW i \in 0..Len(parts)
  PROVE  Begins(hashed[i], hashed[Len(parts)])
  <1> DEFINE n == Len(parts)
             later == {m \in Nat : i + m <= n => Begins(hashed[i], hashed[i + m])}
  <1>1. n \in Nat /\ \A j \in 1..n : parts[j] \in Seq(Nat)
    OBVIOUS
  <1>2. \A j \in 0..n : hashed[j] \in Seq(Nat)
    BY DEF Grows
  <1>3. 0 \in later
    <2>1. Len(hashed[i]) \in Nat
      BY <1>2
    <2> QED BY <2>1 DEF Begins
  <1>4. ASSUME NEW m \in Nat, m \in later PROVE m + 1 \in later
    <2> SUFFICES ASSUME i + (m + 1) <= n PROVE Begins(hashed[i], hashed[i + (m + 1)])
      OBVIOUS
    <2>1. PICK j \in 1..n : j = i + (m + 1) /\ j - 1 = i + m /\ i + m <= n /\ i + m \in 0..n
      BY <1>1
    <2>2. Begins(hashed[i], hashed[i + m])
      BY <1>4, <2>1
    <2>3. hashed[j] = hashed[j - 1] \o parts[j]
      BY DEF Grows
    <2> DEFINE s == hashed[i]
               t == hashed[i + m]
               part == parts[j]
    <2>4. s \in Seq(Nat) /\ t \in Seq(Nat) /\ part \in Seq(Nat)
      BY <1>1, <1>2, <2>1
    <2>5. Begins(s, t) /\ hashed[i + (m + 1)] = t \o part
      BY <2>1, <2>2, <2>3
    <2> HIDE DEF s, t, part
    <2>6. /\ Len(t \o part) = Len(t) + Len(part)
          /\ \A k \in 1..Len(t) + Len(part) :
               (t \o part)[k] = IF k <= Len(t) THEN t[k] ELSE part[k - Len(t)]
      BY <2>4, ConcatProperties
    <2>7. Len(s) \in Nat /\ Len(t) \in Nat /\ Len(part) \in Nat
      BY <2>4
    <2>8. Begins(s, t \o part)
      BY <2>5, <2>6, <2>7 DEF Begins
    <2> QED BY <2>5, <2>8 DEF s
  <1>5. n - i \in later /\ i + (n - i) = n
    <2>1. n - i \in Nat /\ i + (n - i) = n
      BY <1>1
    <2> HIDE DEF later
    <2> QED BY <1>3, <1>4, <2>1, SetInduction
  <1> QED BY <1>1, <1>5

(* A part that is not empty leaves something to hash after what came before.*)
LEMMA HashedGrows ==
  ASSUME NEW parts \in Seq(Seq(Nat)), NEW hashed, Grows(hashed, parts),
         NEW j \in 1..Len(parts), Len(parts[j]) > 0
  PROVE  hashed[j - 1] # hashed[Len(parts)]
  <1> DEFINE n == Len(parts)
             s == hashed[j - 1]
             t == hashed[n]
             part == parts[j]
  <1>1. n \in Nat /\ j - 1 \in 0..n /\ j \in 0..n /\ n \in 0..n
    OBVIOUS
  <1>2. s \in Seq(Nat) /\ t \in Seq(Nat) /\ hashed[j] = s \o part
    BY <1>1 DEF Grows
  <1>3. Begins(hashed[j], t)
    BY <1>1, HashedStays
  <1>4. part \in Seq(Nat) /\ Len(part) > 0
    OBVIOUS
  <1> HIDE DEF s, t, part
  <1>5. Len(s \o part) = Len(s) + Len(part)
    BY <1>2, <1>4, ConcatProperties
  <1>6. Len(s \o part) <= Len(t)
    BY <1>2, <1>3 DEF Begins
  <1>7. Len(s) \in Nat /\ Len(t) \in Nat /\ Len(part) \in Nat
    BY <1>2, <1>4
  <1>8. s # t
    BY <1>4, <1>5, <1>6, <1>7
  <1> QED BY <1>8 DEF s, t

(* Two parts agree as far as both go.                                       *)
Agree(a, b) == \A k \in 1..Len(a) : k <= Len(b) => a[k] = b[k]

(* What follows the same beginning of the same input agrees.                *)
LEMMA AgreeAfter ==
  ASSUME NEW s \in Seq(Nat), NEW a \in Seq(Nat), NEW b \in Seq(Nat), NEW t \in Seq(Nat),
         Begins(s \o a, t), Begins(s \o b, t)
  PROVE  Agree(a, b)
  <1>1. Len(s) \in Nat /\ Len(a) \in Nat /\ Len(b) \in Nat
    OBVIOUS
  <1>2. ASSUME NEW c \in Seq(Nat), Begins(s \o c, t), NEW k \in 1..Len(c)
        PROVE  t[Len(s) + k] = c[k]
    <2>1. /\ Len(s \o c) = Len(s) + Len(c)
          /\ \A i \in 1..Len(s) + Len(c) :
               (s \o c)[i] = IF i <= Len(s) THEN s[i] ELSE c[i - Len(s)]
      BY ConcatProperties
    <2>2. Len(c) \in Nat
      OBVIOUS
    <2> DEFINE i == Len(s) + k
    <2>3. i \in 1..Len(s) + Len(c) /\ ~(i <= Len(s)) /\ i - Len(s) = k
      BY <1>1, <2>2
    <2> HIDE DEF i
    <2>4. (s \o c)[i] = c[k]
      BY <2>1, <2>3
    <2>5. (s \o c)[i] = t[i]
      BY <1>2, <2>1, <2>3 DEF Begins
    <2> QED BY <2>4, <2>5 DEF i
  <1>3. ASSUME NEW k \in 1..Len(a), k <= Len(b) PROVE a[k] = b[k]
    <2>1. k \in 1..Len(b)
      BY <1>1, <1>3
    <2> QED BY <1>2, <2>1
  <1> QED BY <1>3 DEF Agree

LEMMA GrowsStepwise ==
  ASSUME NEW parts \in Seq(Seq(Nat)), NEW hashed, Grows(hashed, parts)
  PROVE  /\ \A i \in 0..Len(parts) : hashed[i] \in Seq(Nat)
         /\ \A i \in 1..Len(parts) : parts[i] \in Seq(Nat) /\ hashed[i] = hashed[i - 1] \o parts[i]
  <1>1. \A i \in 0..Len(parts) : hashed[i] \in Seq(Nat)
    BY DEF Grows
  <1>2. \A i \in 1..Len(parts) : parts[i] \in Seq(Nat)
    OBVIOUS
  <1>3. \A i \in 1..Len(parts) : hashed[i] = hashed[i - 1] \o parts[i]
    BY DEF Grows
  <1> QED BY <1>1, <1>2, <1>3

(* A code without a word that begins another one can be read back: the same *)
(* input was written with the same parts.                                   *)
LEMMA UniquelyDecodable ==
  ASSUME NEW p \in Seq(Seq(Nat)), NEW q \in Seq(Seq(Nat)),
         \A i \in 1..Len(p) : Len(p[i]) > 0, \A i \in 1..Len(q) : Len(q[i]) > 0,
         \A i \in 1..Len(p) : i <= Len(q) /\ Agree(p[i], q[i]) => p[i] = q[i],
         FlattenSeq(p) = FlattenSeq(q)
  PROVE  p = q
  <1> DEFINE n == Len(p)
             m == Len(q)
  <1>1. n \in Nat /\ m \in Nat
    OBVIOUS
  <1>2. PICK P : Grows(P, p) /\ FlattenSeq(p) = P[n]
    BY FlattenGrows
  <1>3. PICK Q : Grows(Q, q) /\ FlattenSeq(q) = Q[m]
    BY FlattenGrows
  <1> DEFINE t == P[n]
             same == {i \in Nat : i <= n /\ i <= m => P[i] = Q[i] /\ (i > 0 => p[i] = q[i])}
  <1>4. t = Q[m]
    BY <1>2, <1>3
  <1>5. /\ \A i \in 0..n : P[i] \in Seq(Nat)
        /\ \A i \in 1..n : p[i] \in Seq(Nat) /\ P[i] = P[i - 1] \o p[i]
    BY <1>2, GrowsStepwise
  <1>6. /\ \A i \in 0..m : Q[i] \in Seq(Nat)
        /\ \A i \in 1..m : q[i] \in Seq(Nat) /\ Q[i] = Q[i - 1] \o q[i]
    BY <1>3, GrowsStepwise
  <1>7. \A i \in 0..n : Begins(P[i], t)
    BY <1>2, HashedStays
  <1>8. \A i \in 0..m : Begins(Q[i], t)
    BY <1>3, <1>4, HashedStays
  <1>9. 0 \in same
    BY <1>2, <1>3 DEF Grows
  <1>10. ASSUME NEW i \in Nat, i \in same PROVE i + 1 \in same
    <2> SUFFICES ASSUME i + 1 <= n, i + 1 <= m PROVE P[i + 1] = Q[i + 1] /\ p[i + 1] = q[i + 1]
      OBVIOUS
    <2>1. PICK j \in 1..n : j = i + 1 /\ j - 1 = i /\ j \in 1..m /\ i \in 0..n
      BY <1>1
    <2>2. P[i] = Q[i]
      BY <1>1, <1>10
    <2> DEFINE s == P[i]
               a == p[j]
               b == q[j]
    <2>3. s \in Seq(Nat) /\ a \in Seq(Nat) /\ b \in Seq(Nat) /\ t \in Seq(Nat)
      <3>1. n \in 0..n
        BY <1>1
      <3> QED BY <1>5, <1>6, <2>1, <3>1
    <2>4. P[j] = s \o a /\ Q[j] = s \o b
      BY <1>5, <1>6, <2>1, <2>2
    <2>5. Begins(P[j], t) /\ Begins(Q[j], t)
      <3>1. j \in 0..n /\ j \in 0..m
        BY <1>1, <2>1
      <3> QED BY <1>7, <1>8, <3>1
    <2>6. Agree(a, b)
      <3> HIDE DEF s, a, b, t
      <3> QED BY <2>3, <2>4, <2>5, AgreeAfter
    <2>7. a = b
      BY <1>1, <2>1, <2>6
    <2> QED BY <2>1, <2>4, <2>7
  <1>11. \A i \in Nat : i \in same
    <2> HIDE DEF same
    <2> QED BY <1>9, <1>10, SetInduction
  <1>12. n = m
    <2>1. ~(n < m)
      <3> SUFFICES ASSUME n < m PROVE FALSE
        OBVIOUS
      <3> DEFINE j == n + 1
      <3>1. j \in 1..m /\ j - 1 = n /\ n \in Nat /\ n <= m /\ n <= n
        <4> HIDE DEF n, m
        <4> QED BY <1>1
      <3> HIDE DEF j
      <3>2. Q[j - 1] # Q[m]
        BY <1>3, <3>1, HashedGrows
      <3>3. n \in same
        BY <1>11, <3>1
      <3> HIDE DEF n, m, t
      <3>4. P[n] = Q[n]
        BY <3>1, <3>3
      <3> QED BY <1>4, <3>1, <3>2, <3>4 DEF t
    <2>2. ~(m < n)
      <3> SUFFICES ASSUME m < n PROVE FALSE
        OBVIOUS
      <3> DEFINE j == m + 1
      <3>1. j \in 1..n /\ j - 1 = m /\ m \in Nat /\ m <= n /\ m <= m
        <4> HIDE DEF n, m
        <4> QED BY <1>1
      <3> HIDE DEF j
      <3>2. P[j - 1] # P[n]
        BY <1>2, <3>1, HashedGrows
      <3>3. m \in same
        BY <1>11, <3>1
      <3> HIDE DEF n, m, t
      <3>4. P[m] = Q[m]
        BY <3>1, <3>3
      <3> QED BY <1>4, <3>1, <3>2, <3>4 DEF t
    <2> HIDE DEF n, m
    <2> QED BY <1>1, <2>1, <2>2
  <1>13. \A i \in 1..n : p[i] = q[i]
    BY <1>1, <1>11, <1>12
  <1> QED BY <1>12, <1>13, SeqEqual

-----------------------------------------------------------------------------
(* What the adapter hashes for one account.                                 *)

LEMMA EncodeGone ==
  ASSUME NEW a \in Nat
  PROVE  /\ encode(a, {}) \in Seq(Nat) /\ Len(encode(a, {})) = 2
         /\ encode(a, {})[1] = a /\ encode(a, {})[2] = 0
  BY DEF encode

LEMMA EncodeHeld ==
  ASSUME NEW a \in Nat, NEW s \in Snapshot
  PROVE  /\ encode(a, {s}) \in Seq(Nat) /\ Len(encode(a, {s})) = 5 + Len(s.data)
         /\ encode(a, {s})[1] = a /\ encode(a, {s})[2] = 1
         /\ encode(a, {s})[3] = s.lamports /\ encode(a, {s})[4] = s.owner
         /\ encode(a, {s})[5] = Len(s.data)
         /\ \A k \in 1..Len(s.data) : encode(a, {s})[5 + k] = s.data[k]
  <1> DEFINE head == <<1, s.lamports, s.owner, Len(s.data)>>
             data == s.data
             tail == head \o data
  <1>1. s.lamports \in Nat /\ s.owner \in Nat /\ data \in Seq(Nat)
    BY AccountAssumption DEF Snapshot
  <1>2. Len(data) \in Nat
    BY <1>1
  <1>3. head \in Seq(Nat) /\ Len(head) = 4 /\ <<a>> \in Seq(Nat) /\ Len(<<a>>) = 1
    BY <1>1, <1>2
  <1>4. head[1] = 1 /\ head[2] = s.lamports /\ head[3] = s.owner /\ head[4] = Len(data)
    OBVIOUS
  <1>5. encode(a, {s}) = <<a>> \o tail
    <2>1. {s} # {} /\ unwrap({s}) = s
      BY DEF unwrap
    <2> QED BY <2>1 DEF encode
  <1> HIDE DEF head, data
  <1>6. /\ tail \in Seq(Nat) /\ Len(tail) = 4 + Len(data)
        /\ \A i \in 1..4 + Len(data) : tail[i] = IF i <= 4 THEN head[i] ELSE data[i - 4]
    <2>1. /\ tail \in Seq(Nat) /\ Len(tail) = Len(head) + Len(data)
          /\ \A i \in 1..Len(head) + Len(data) :
               tail[i] = IF i <= Len(head) THEN head[i] ELSE data[i - Len(head)]
      BY <1>1, <1>3, ConcatProperties
    <2> HIDE DEF tail
    <2> QED BY <1>3, <2>1
  <1> HIDE DEF tail
  <1> DEFINE e == <<a>> \o tail
  <1>7. /\ e \in Seq(Nat) /\ Len(e) = 1 + Len(tail)
        /\ \A i \in 1..1 + Len(tail) : e[i] = IF i <= 1 THEN <<a>>[i] ELSE tail[i - 1]
    BY <1>3, <1>6, ConcatProperties
  <1> HIDE DEF e
  <1>8. \A i \in 1..5 + Len(data) :
          e[i] = IF i = 1 THEN a ELSE IF i <= 5 THEN head[i - 1] ELSE data[i - 5]
    BY <1>2, <1>6, <1>7
  <1>9. e[1] = a /\ e[2] = 1 /\ e[3] = s.lamports /\ e[4] = s.owner /\ e[5] = Len(data)
    BY <1>2, <1>4, <1>8
  <1>10. \A k \in 1..Len(data) : e[5 + k] = data[k]
    BY <1>2, <1>8
  <1>11. e \in Seq(Nat) /\ Len(e) = 5 + Len(data)
    BY <1>2, <1>6, <1>7
  <1> QED BY <1>5, <1>9, <1>10, <1>11 DEF e, data

(* src/adapters/custos.rs:66-68.  The encoding of no account begins that of *)
(* another one, or of the same one holding something else: the tag says     *)
(* whether it is there, and the length how much data to read.               *)
LEMMA EncodeIsPrefixFree ==
  ASSUME NEW a \in Nat, NEW b \in Nat,
         NEW x \in Option(Snapshot), NEW y \in Option(Snapshot),
         Agree(encode(a, x), encode(b, y))
  PROVE  a = b /\ x = y
  <1>1. ASSUME NEW z \in Option(Snapshot), z # {} PROVE \E s \in Snapshot : z = {s}
    BY <1>1 DEF Option
  <1>2. CASE x = {} /\ y = {}
    <2>1. encode(a, x)[1] = a /\ Len(encode(a, x)) = 2 /\ encode(b, y)[1] = b /\ Len(encode(b, y)) = 2
      BY <1>2, EncodeGone
    <2>2. encode(a, x)[1] = encode(b, y)[1]
      BY <2>1 DEF Agree
    <2> QED BY <1>2, <2>1, <2>2
  <1>3. CASE x = {} /\ y # {}
    <2>1. PICK s \in Snapshot : y = {s}
      BY <1>1, <1>3
    <2>2. Len(s.data) \in Nat
      BY DEF Snapshot
    <2>3. Len(encode(a, x)) = 2 /\ encode(a, x)[2] = 0
      BY <1>3, EncodeGone
    <2>4. Len(encode(b, y)) = 5 + Len(s.data) /\ encode(b, y)[2] = 1
      BY <2>1, EncodeHeld
    <2>5. encode(a, x)[2] = encode(b, y)[2]
      BY <2>2, <2>3, <2>4 DEF Agree
    <2> QED BY <2>3, <2>4, <2>5
  <1>4. CASE x # {} /\ y = {}
    <2>1. PICK s \in Snapshot : x = {s}
      BY <1>1, <1>4
    <2>2. Len(s.data) \in Nat
      BY DEF Snapshot
    <2>3. Len(encode(b, y)) = 2 /\ encode(b, y)[2] = 0
      BY <1>4, EncodeGone
    <2>4. Len(encode(a, x)) = 5 + Len(s.data) /\ encode(a, x)[2] = 1
      BY <2>1, EncodeHeld
    <2>5. encode(a, x)[2] = encode(b, y)[2]
      BY <2>2, <2>3, <2>4 DEF Agree
    <2> QED BY <2>3, <2>4, <2>5
  <1>5. CASE x # {} /\ y # {}
    <2>1. PICK s \in Snapshot : x = {s}
      BY <1>1, <1>5
    <2>2. PICK u \in Snapshot : y = {u}
      BY <1>1, <1>5
    <2> DEFINE e == encode(a, x)
               d == encode(b, y)
               n == Len(s.data)
               m == Len(u.data)
    <2>3. n \in Nat /\ m \in Nat /\ s.data \in Seq(Nat) /\ u.data \in Seq(Nat)
      BY DEF Snapshot
    <2>4. /\ Len(e) = 5 + n /\ e[1] = a /\ e[3] = s.lamports /\ e[4] = s.owner /\ e[5] = n
          /\ \A k \in 1..n : e[5 + k] = s.data[k]
      BY <2>1, EncodeHeld
    <2>5. /\ Len(d) = 5 + m /\ d[1] = b /\ d[3] = u.lamports /\ d[4] = u.owner /\ d[5] = m
          /\ \A k \in 1..m : d[5 + k] = u.data[k]
      BY <2>2, EncodeHeld
    <2>6. \A i \in 1..Len(e) : i <= Len(d) => e[i] = d[i]
      BY DEF Agree
    <2> HIDE DEF e, d, n, m
    <2>7. a = b /\ s.lamports = u.lamports /\ s.owner = u.owner /\ n = m
      BY <2>3, <2>4, <2>5, <2>6
    <2>8. \A k \in 1..n : s.data[k] = u.data[k]
      <3> SUFFICES ASSUME NEW k \in 1..n PROVE s.data[k] = u.data[k]
        OBVIOUS
      <3>1. 5 + k \in 1..Len(e) /\ 5 + k <= Len(d)
        BY <2>3, <2>4, <2>5, <2>7
      <3> QED BY <2>4, <2>5, <2>6, <2>7, <3>1
    <2>9. s.data = u.data
      BY <2>3, <2>7, <2>8, SeqEqual DEF n, m
    <2>10. s = u
      BY <2>7, <2>9 DEF Snapshot
    <2> QED BY <2>1, <2>2, <2>7, <2>10
  <1> QED BY <1>2, <1>3, <1>4, <1>5

-----------------------------------------------------------------------------
(* The digest.                                                              *)

(* What the adapter hashes for all the accounts, one part each.             *)
Parts(post, accounts) == [i \in DOMAIN accounts |-> encode(accounts[i], post[accounts[i]])]

LEMMA PartsAreTokens ==
  ASSUME NEW W \in SUBSET Account, NEW n \in Nat, NEW accounts \in [1..n -> W],
         NEW post \in [W -> Option(Snapshot)]
  PROVE  /\ Parts(post, accounts) \in Seq(Seq(Nat)) /\ Len(Parts(post, accounts)) = n
         /\ \A i \in 1..n : /\ Parts(post, accounts)[i] = encode(accounts[i], post[accounts[i]])
                           /\ Len(Parts(post, accounts)[i]) > 0
  <1> DEFINE parts == Parts(post, accounts)
  <1>1. ASSUME NEW i \in 1..n
        PROVE  LET e == encode(accounts[i], post[accounts[i]])
               IN  e \in Seq(Nat) /\ Len(e) > 0
    <2> DEFINE a == accounts[i]
               x == post[a]
    <2>1. a \in Nat /\ x \in Option(Snapshot)
      BY AccountAssumption
    <2> HIDE DEF a, x
    <2>2. CASE x = {}
      <3>1. encode(a, x) \in Seq(Nat) /\ Len(encode(a, x)) = 2
        BY <2>1, <2>2, EncodeGone
      <3> QED BY <3>1 DEF a, x
    <2>3. CASE x # {}
      <3>1. PICK s \in Snapshot : x = {s}
        BY <2>1, <2>3 DEF Option
      <3>2. Len(s.data) \in Nat
        BY DEF Snapshot
      <3>3. encode(a, x) \in Seq(Nat) /\ Len(encode(a, x)) = 5 + Len(s.data)
        BY <2>1, <3>1, EncodeHeld
      <3> QED BY <3>2, <3>3 DEF a, x
    <2> QED BY <2>2, <2>3 DEF a, x
  <1>2. \A i \in 1..n : parts[i] = encode(accounts[i], post[accounts[i]])
    BY DEF Parts
  <1>3. DOMAIN parts = 1..n /\ parts = [i \in 1..n |-> parts[i]]
    BY DEF Parts
  <1>4. \A i \in 1..n : parts[i] \in Seq(Nat) /\ Len(parts[i]) > 0
    BY <1>1, <1>2
  <1> HIDE DEF parts
  <1>5. parts \in Seq(Seq(Nat)) /\ Len(parts) = n
    <2>1. parts \in [1..n -> Seq(Nat)]
      BY <1>3, <1>4
    <2> QED BY <2>1
  <1> QED BY <1>2, <1>4, <1>5 DEF parts

(* The domain separator comes first, in every input.                        *)
LEMMA SeparatorCancels ==
  ASSUME NEW p \in Seq(Seq(Nat)), NEW q \in Seq(Seq(Nat)), NEW separator,
         <<separator>> \o FlattenSeq(p) = <<separator>> \o FlattenSeq(q)
  PROVE  FlattenSeq(p) = FlattenSeq(q)
  <1> DEFINE Token == Nat \cup {separator}
  <1>1. ASSUME NEW r \in Seq(Seq(Nat)) PROVE FlattenSeq(r) \in Seq(Token)
    <2>1. PICK hashed : Grows(hashed, r) /\ FlattenSeq(r) = hashed[Len(r)]
      BY FlattenGrows
    <2>2. Len(r) \in 0..Len(r)
      OBVIOUS
    <2>3. FlattenSeq(r) \in Seq(Nat)
      BY <2>1, <2>2, GrowsStepwise
    <2>4. Nat \subseteq Token
      OBVIOUS
    <2> HIDE DEF Token
    <2> QED BY <2>3, <2>4, SeqMonotonic
  <1>2. <<separator>> \in Seq(Token)
    OBVIOUS
  <1> HIDE DEF Token
  <1> QED BY <1>1, <1>2, ConcatSimplifications

(* src/adapters/custos.rs:63-68.  Equal digests mean equal accounts, all of *)
(* them, that hold the same.                                                *)
LEMMA DigestReadsBack ==
  ASSUME NEW V \in SUBSET Account, NEW n \in Nat, NEW p \in [1..n -> V], Range(p) = V,
         NEW W \in SUBSET Account, NEW m \in Nat, NEW q \in [1..m -> W], Range(q) = W,
         NEW post \in [V -> Option(Snapshot)], NEW held \in [W -> Option(Snapshot)],
         poststate_digest(post, p) = poststate_digest(held, q)
  PROVE  post = held
  <1>1. /\ Parts(post, p) \in Seq(Seq(Nat)) /\ Len(Parts(post, p)) = n
        /\ \A i \in 1..n : /\ Parts(post, p)[i] = encode(p[i], post[p[i]])
                          /\ Len(Parts(post, p)[i]) > 0
    BY PartsAreTokens
  <1>2. /\ Parts(held, q) \in Seq(Seq(Nat)) /\ Len(Parts(held, q)) = m
        /\ \A i \in 1..m : /\ Parts(held, q)[i] = encode(q[i], held[q[i]])
                          /\ Len(Parts(held, q)[i]) > 0
    BY PartsAreTokens
  <1>3. FlattenSeq(Parts(post, p)) = FlattenSeq(Parts(held, q))
    <2>1. <<"liquet/custos/poststate/v1">> \o FlattenSeq(Parts(post, p))
            = <<"liquet/custos/poststate/v1">> \o FlattenSeq(Parts(held, q))
      BY DEF poststate_digest, Parts
    <2> QED BY <1>1, <1>2, <2>1, SeparatorCancels
  <1>4. ASSUME NEW i \in 1..n, NEW j \in 1..m, Agree(encode(p[i], post[p[i]]), encode(q[j], held[q[j]]))
        PROVE  p[i] = q[j] /\ post[p[i]] = held[q[j]]
    <2>1. /\ p[i] \in Nat /\ post[p[i]] \in Option(Snapshot)
          /\ q[j] \in Nat /\ held[q[j]] \in Option(Snapshot)
      BY AccountAssumption
    <2> QED BY <1>4, <2>1, EncodeIsPrefixFree
  <1>5. ASSUME NEW i \in 1..n, i <= m, Agree(Parts(post, p)[i], Parts(held, q)[i])
        PROVE  Parts(post, p)[i] = Parts(held, q)[i]
    <2>1. i \in 1..m
      BY <1>5
    <2>2. Agree(encode(p[i], post[p[i]]), encode(q[i], held[q[i]]))
      BY <1>1, <1>2, <1>5, <2>1
    <2>3. p[i] = q[i] /\ post[p[i]] = held[q[i]]
      BY <1>4, <2>1, <2>2
    <2> QED BY <1>1, <1>2, <2>1, <2>3
  <1>6. Parts(post, p) = Parts(held, q)
    BY <1>1, <1>2, <1>3, <1>5, UniquelyDecodable
  <1>7. n = m
    BY <1>1, <1>2, <1>6
  <1>8. ASSUME NEW i \in 1..n PROVE p[i] = q[i] /\ post[p[i]] = held[p[i]]
    <2>1. encode(p[i], post[p[i]]) = encode(q[i], held[q[i]])
      BY <1>1, <1>2, <1>6, <1>7
    <2>2. Agree(encode(p[i], post[p[i]]), encode(q[i], held[q[i]]))
      BY <2>1 DEF Agree
    <2> QED BY <1>4, <1>7, <2>2
  <1>9. V = W
    BY <1>7, <1>8 DEF Range
  <1>10. \A a \in V : post[a] = held[a]
    BY <1>8 DEF Range
  <1> QED BY <1>9, <1>10

(* src/adapters/custos.rs:60-69.  The digest and the poststate are one and  *)
(* the same: two captures, of any accounts that hold anything and whose     *)
(* maps are walked in any order, have equal digests exactly when the same   *)
(* accounts hold the same.                                                  *)
THEOREM DigestIsThePoststate ==
  ASSUME NEW V \in SUBSET Account, IsFiniteSet(V), NEW walk \in SetToSeqs(V),
         NEW W \in SUBSET Account, IsFiniteSet(W), NEW other \in SetToSeqs(W),
         NEW post \in [V -> Option(Snapshot)], NEW held \in [W -> Option(Snapshot)]
  PROVE  poststate_digest(post, canonical(walk)) = poststate_digest(held, canonical(other))
           <=> post = held
  <1> DEFINE p == canonical(walk)
             q == canonical(other)
             n == Cardinality(V)
             m == Cardinality(W)
  <1>1. V \in SUBSET Nat /\ W \in SUBSET Nat
    BY AccountAssumption
  <1>2. n \in Nat /\ m \in Nat
    BY FS_CardinalityType
  <1>3. /\ p \in [1..n -> V] /\ Range(p) = V
        /\ \A s \in [1..n -> V] : Ascending(s) => s = p
    BY <1>1, SortForgetsTheWalk
  <1>4. q \in [1..m -> W] /\ Ascending(q) /\ Range(q) = W
    BY <1>1, SortForgetsTheWalk
  <1> HIDE DEF p, q
  <1>5. ASSUME poststate_digest(post, p) = poststate_digest(held, q) PROVE post = held
    <2> HIDE DEF n, m
    <2> QED BY <1>2, <1>3, <1>4, <1>5, DigestReadsBack
  <1>6. ASSUME post = held PROVE poststate_digest(post, p) = poststate_digest(held, q)
    <2>1. V = W
      BY <1>6
    <2>2. p = q
      BY <1>3, <1>4, <2>1
    <2> QED BY <1>6, <2>2
  <1> QED BY <1>5, <1>6 DEF p, q
=============================================================================
