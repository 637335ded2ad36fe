--------------------------- MODULE SequenceFacts ----------------------------
(***************************************************************************)
(* Facts about finite sequences and sets that the proofs about several     *)
(* components need: least elements, sequences without repetition, removal  *)
(* of an element, a set written down in some order.                        *)
(***************************************************************************)
EXTENDS Naturals, SequencesExt, FiniteSetTheorems, WellFoundedInduction, SequenceTheorems, TLAPS

(* Every nonempty set of naturals has a least element.                     *)
LEMMA LeastElement ==
  ASSUME NEW T, T \subseteq Nat, T # {}
  PROVE  \E x \in T : \A y \in T : x <= y
<1> DEFINE R == OpToRel(<, Nat)
<1>1. \E x \in T : \A y \in T : ~ (<<y, x>> \in R)
  BY NatLessThanWellFounded, WFMin
<1>2. PICK x \in T : \A y \in T : ~ (<<y, x>> \in R)
  BY <1>1
<1>3. \A y \in T : ~(y < x)
  BY <1>2 DEF OpToRel
<1> QED
  BY <1>3

(* A set of positions has a k-th one, up to which there are k of them.     *)
LEMMA NthPosition ==
  ASSUME NEW n \in Nat, NEW S, \A x \in S : x \in 1..n, NEW k \in 1..Cardinality(S)
  PROVE  /\ IsFiniteSet(S) /\ Cardinality(S) \in Nat
         /\ \E p \in S : Cardinality({x \in S : x <= p}) = k
<1> DEFINE Upto(p) == {x \in S : x <= p}
           T == {p \in 0..n : Cardinality(Upto(p)) >= k}
<1>1. IsFiniteSet(S) /\ Cardinality(S) \in Nat
  <2>1. IsFiniteSet(1..n)
    BY FS_Interval
  <2>2. S \in SUBSET (1..n)
    OBVIOUS
  <2> QED
    BY <2>1, <2>2, FS_Subset, FS_CardinalityType
<1>0. \A x \in S : x \in Nat /\ 1 <= x /\ x <= n
  OBVIOUS
<1>2. \A p \in Nat : IsFiniteSet(Upto(p)) /\ Cardinality(Upto(p)) \in Nat
  <2> TAKE p \in Nat
  <2>1. Upto(p) \in SUBSET S
    OBVIOUS
  <2> QED
    BY <1>1, <2>1, FS_Subset, FS_CardinalityType
<1>3. Upto(n) = S
  BY <1>0
<1>4. n \in T
  <2>1. Cardinality(Upto(n)) >= k
    BY <1>1, <1>3
  <2> QED
    BY <2>1
<1>5. T \subseteq 0..n /\ \A p \in 0..n : p \in T <=> Cardinality(Upto(p)) >= k
  OBVIOUS
<1>6. PICK p \in T : \A q \in T : p <= q
  <2> HIDE DEF T
  <2>1. T \subseteq Nat /\ T # {}
    BY <1>4, <1>5
  <2> QED
    BY <2>1, LeastElement
<1>7. k \in Nat /\ k > 0
  BY <1>1
<1> HIDE DEF T
<1>8. p \in 0..n /\ Cardinality(Upto(p)) >= k
  BY <1>5, <1>6
<1>9. p # 0
  <2>1. Upto(0) = {}
    BY <1>0
  <2>2. Cardinality(Upto(0)) = 0
    BY <2>1, FS_EmptySet
  <2> HIDE DEF Upto
  <2> QED
    BY <1>7, <1>8, <2>2
<1>10. p \in 1..n /\ p \in Nat /\ p - 1 \in Nat /\ p - 1 \in 0..n
  BY <1>8, <1>9
<1>11. Cardinality(Upto(p - 1)) < k
  <2> HIDE DEF Upto
  <2>1. p - 1 \notin T
    BY <1>6, <1>10
  <2>2. Cardinality(Upto(p - 1)) \in Nat
    BY <1>2, <1>10
  <2> QED
    BY <1>5, <1>7, <1>10, <2>1, <2>2
<1>12. p \in S
  <2>1. CASE p \notin S
    <3>1. Upto(p) = Upto(p - 1)
      BY <1>0, <1>10, <2>1
    <3> HIDE DEF Upto
    <3> QED
      BY <1>2, <1>7, <1>8, <1>10, <1>11, <3>1
  <2> QED
    BY <2>1
<1>13. Cardinality(Upto(p)) = k
  <2>1. Upto(p) = Upto(p - 1) \cup {p} /\ p \notin Upto(p - 1)
    <3>1. \A x \in S : x <= p <=> x <= p - 1 \/ x = p
      BY <1>0, <1>10
    <3>2. ~(p <= p - 1)
      BY <1>10
    <3> QED
      BY <1>12, <3>1, <3>2, Zenon
  <2> HIDE DEF Upto
  <2>2. Cardinality(Upto(p)) = Cardinality(Upto(p - 1)) + 1
    BY <1>2, <1>10, <2>1, FS_AddElement
  <2> QED
    BY <1>2, <1>7, <1>8, <1>10, <1>11, <2>2
<1> QED
  BY <1>1, <1>12, <1>13

-----------------------------------------------------------------------------
(* Removing an element.                                                    *)

(* RemoveAt: what is before stays, what is after moves up.                 *)
LEMMA RemoveAtIsBut ==
  ASSUME NEW S, NEW s \in Seq(S), NEW j \in 1 .. Len(s)
  PROVE  /\ RemoveAt(s, j) \in Seq(S)
         /\ Len(RemoveAt(s, j)) = Len(s) - 1
         /\ \A k \in 1 .. Len(s) - 1 : RemoveAt(s, j)[k] = IF k < j THEN s[k] ELSE s[k + 1]
<1> DEFINE a == SubSeq(s, 1, j - 1)
           b == SubSeq(s, j + 1, Len(s))
<1>1. a \in Seq(S) /\ Len(a) = j - 1 /\ \A k \in 1 .. j - 1 : a[k] = s[k]
  OBVIOUS
<1>2. b \in Seq(S) /\ Len(b) = Len(s) - j /\ \A k \in 1 .. Len(s) - j : b[k] = s[j + k]
  OBVIOUS
<1> HIDE DEF a, b
<1>3. /\ a \o b \in Seq(S) /\ Len(a \o b) = Len(s) - 1
      /\ \A k \in 1 .. Len(s) - 1 : (a \o b)[k] = IF k <= j - 1 THEN a[k] ELSE b[k - (j - 1)]
  <2>1. Len(a) + Len(b) = Len(s) - 1
    BY <1>1, <1>2
  <2>2. /\ a \o b \in Seq(S) /\ Len(a \o b) = Len(a) + Len(b)
        /\ \A k \in 1 .. Len(a) + Len(b) :
             (a \o b)[k] = IF k <= Len(a) THEN a[k] ELSE b[k - Len(a)]
    BY <1>1, <1>2, ConcatProperties
  <2>3. Len(a) = j - 1 /\ Len(a) + Len(b) = Len(s) - 1
    BY <1>1, <2>1
  <2> QED
    BY <2>2, <2>3
<1>4. RemoveAt(s, j) = a \o b
  BY DEF RemoveAt, a, b
<1>5. \A k \in 1 .. Len(s) - 1 : (a \o b)[k] = IF k < j THEN s[k] ELSE s[k + 1]
  BY <1>1, <1>2, <1>3
<1> QED
  BY <1>3, <1>4, <1>5

(* RemoveFirst, the list.remove of Python, removes at one place.           *)
LEMMA RemoveFirstIsBut ==
  ASSUME NEW S, NEW s \in Seq(S), NEW e, \E i \in 1 .. Len(s) : s[i] = e
  PROVE  \E j \in 1 .. Len(s) : s[j] = e /\ RemoveFirst(s, e) = RemoveAt(s, j)
<1> DEFINE I == {i \in 1 .. Len(s) : s[i] = e}
<1>1. I \subseteq Nat /\ I # {}
  OBVIOUS
<1>2. \E x \in I : \A y \in I : x <= y
  BY <1>1, LeastElement
<1>3. Min(I) \in I
  BY <1>2 DEF Min
<1>4. RemoveFirst(s, e) = RemoveAt(s, Min(I))
  BY <1>1 DEF RemoveFirst, SelectInSeq
<1> QED
  BY <1>3, <1>4

(* It removes nothing that is not there.                                   *)
LEMMA RemoveFirstAbsent ==
  ASSUME NEW S, NEW s \in Seq(S), NEW e, \A i \in 1 .. Len(s) : s[i] # e
  PROVE  RemoveFirst(s, e) = s
  BY DEF RemoveFirst

(* What is left of a sequence without repetition when an element goes:     *)
(* every other one, in the same order, at its place or one before it.      *)
LEMMA RemoveFromInjective ==
  ASSUME NEW S, NEW s \in Seq(S), IsInjective(s), NEW e
  PROVE  /\ RemoveFirst(s, e) \in Seq(S)
         /\ IsInjective(RemoveFirst(s, e))
         /\ ToSet(RemoveFirst(s, e)) = ToSet(s) \ {e}
         /\ \A k \in 1 .. Len(RemoveFirst(s, e)) :
              \/ k \in 1 .. Len(s) /\ RemoveFirst(s, e)[k] = s[k]
              \/ k + 1 \in 1 .. Len(s) /\ RemoveFirst(s, e)[k] = s[k + 1]
         /\ \A k \in 1 .. Len(s) : s[k] # e =>
              \E n \in 1 .. Len(RemoveFirst(s, e)) :
                 n \in {k - 1, k} /\ RemoveFirst(s, e)[n] = s[k]
<1>1. CASE \A i \in 1 .. Len(s) : s[i] # e
  <2>1. RemoveFirst(s, e) = s
    BY <1>1, RemoveFirstAbsent
  <2> QED
    BY <1>1, <2>1 DEF ToSet
<1>2. CASE \E i \in 1 .. Len(s) : s[i] = e
  <2>1. PICK j \in 1 .. Len(s) : s[j] = e /\ RemoveFirst(s, e) = RemoveAt(s, j)
    BY <1>2, RemoveFirstIsBut
  <2> DEFINE r == RemoveAt(s, j)
  <2>2. /\ r \in Seq(S) /\ Len(r) = Len(s) - 1
        /\ \A k \in 1 .. Len(s) - 1 : r[k] = IF k < j THEN s[k] ELSE s[k + 1]
    BY RemoveAtIsBut
  <2> HIDE DEF r
  <2>3. \A a, b \in 1 .. Len(s) : s[a] = s[b] => a = b
    BY DEF IsInjective
  <2>4. IsInjective(r)
    <3> SUFFICES ASSUME NEW a \in 1 .. Len(s) - 1, NEW b \in 1 .. Len(s) - 1, r[a] = r[b]
                 PROVE  a = b
      BY <2>2 DEF IsInjective
    <3> QED
      BY <2>2, <2>3
  <2>5. \A k \in 1 .. Len(s) : s[k] # e =>
          \E n \in 1 .. Len(r) : n \in {k - 1, k} /\ r[n] = s[k]
    <3> SUFFICES ASSUME NEW k \in 1 .. Len(s), s[k] # e
                 PROVE  \E n \in 1 .. Len(r) : n \in {k - 1, k} /\ r[n] = s[k]
      OBVIOUS
    <3>1. CASE k < j
      BY <2>2, <3>1
    <3>2. CASE k > j
      <4>1. k - 1 \in 1 .. Len(r) /\ r[k - 1] = s[k]
        BY <2>2, <3>2
      <4> QED
        BY <4>1
    <3> QED
      BY <2>1, <3>1, <3>2
  <2>6. \A k \in 1 .. Len(r) : \/ k \in 1 .. Len(s) /\ r[k] = s[k] /\ k # j
                               \/ k + 1 \in 1 .. Len(s) /\ r[k] = s[k + 1] /\ k + 1 # j
    BY <2>2
  <2>7. ToSet(r) = ToSet(s) \ {e}
    <3>1. ASSUME NEW x \in ToSet(r) PROVE x \in ToSet(s) \ {e}
      BY <2>1, <2>2, <2>3, <2>6, SMTT(40) DEF ToSet
    <3>2. ASSUME NEW x \in ToSet(s) \ {e} PROVE x \in ToSet(r)
      BY <2>2, <2>5 DEF ToSet
    <3> QED
      BY <3>1, <3>2
  <2>8. \A k \in 1 .. Len(r) : \/ k \in 1 .. Len(s) /\ r[k] = s[k]
                               \/ k + 1 \in 1 .. Len(s) /\ r[k] = s[k + 1]
    BY <2>6
  <2>9. RemoveFirst(s, e) = r
    BY <2>1 DEF r
  <2> QED
    BY <2>2, <2>4, <2>5, <2>7, <2>8, <2>9
<1> QED
  BY <1>1, <1>2

(* What one more element adds.                                             *)
LEMMA AppendFacts ==
  ASSUME NEW S, NEW s \in Seq(S), NEW e \in S
  PROVE  /\ Append(s, e) \in Seq(S)
         /\ DOMAIN Append(s, e) = 1 .. Len(s) + 1
         /\ DOMAIN s = 1 .. Len(s) /\ Len(s) \in Nat
         /\ Append(s, e)[Len(s) + 1] = e
         /\ \A k \in 1 .. Len(s) : Append(s, e)[k] = s[k]
         /\ \A k \in DOMAIN Append(s, e) : \/ k \in DOMAIN s /\ Append(s, e)[k] = s[k]
                                           \/ k = Len(s) + 1 /\ Append(s, e)[k] = e
         /\ Len(s) + 1 \notin DOMAIN s
         /\ ToSet(Append(s, e)) = ToSet(s) \cup {e}
         /\ IsInjective(s) /\ e \notin ToSet(s) => IsInjective(Append(s, e))
<1> DEFINE r == Append(s, e)
<1>1. /\ r \in Seq(S) /\ DOMAIN r = 1 .. Len(s) + 1 /\ Len(s) \in Nat
      /\ DOMAIN s = 1 .. Len(s) /\ r[Len(s) + 1] = e /\ \A k \in 1 .. Len(s) : r[k] = s[k]
  OBVIOUS
<1> HIDE DEF r
<1>2. ToSet(r) = ToSet(s) \cup {e}
  BY <1>1 DEF ToSet
<1>3. IsInjective(s) /\ e \notin ToSet(s) => IsInjective(r)
  BY <1>1 DEF IsInjective, ToSet
<1>4. /\ \A k \in DOMAIN r : (k \in DOMAIN s /\ r[k] = s[k]) \/ (k = Len(s) + 1 /\ r[k] = e)
      /\ Len(s) + 1 \notin DOMAIN s
  BY <1>1
<1> QED
  BY <1>1, <1>2, <1>3, <1>4 DEF r

(* What is left without the first element.                                 *)
LEMMA TailFacts ==
  ASSUME NEW S, NEW s \in Seq(S), s # << >>
  PROVE  /\ Tail(s) \in Seq(S) /\ Head(s) = s[1] /\ Head(s) \in S
         /\ 1 \in DOMAIN s
         /\ \A k \in DOMAIN Tail(s) : k \in Nat /\ k + 1 \in DOMAIN s /\ Tail(s)[k] = s[k + 1]
         /\ \A k \in DOMAIN s : k \in Nat /\ (k = 1 \/ (k - 1 \in DOMAIN Tail(s) /\ Tail(s)[k - 1] = s[k]))
  OBVIOUS

(* A sequence without repetition is no longer than the numbers it is of.   *)
LEMMA InjectiveLength ==
  ASSUME NEW n \in Nat, NEW s \in Seq(1 .. n), IsInjective(s)
  PROVE  Len(s) <= n
<1>1. IsFiniteSet(1 .. n) /\ Cardinality(1 .. n) = n
  BY FS_Interval
<1>2. IsFiniteSet(1 .. Len(s)) /\ Cardinality(1 .. Len(s)) = Len(s)
  <2>1. \A m \in Nat : IsFiniteSet(1 .. m) /\ Cardinality(1 .. m) = m
    BY FS_Interval
  <2>2. Len(s) \in Nat
    OBVIOUS
  <2> QED
    BY <2>1, <2>2
<1>3. s \in Injection(1 .. Len(s), 1 .. n)
  BY DEF Injection, IsInjective
<1> QED
  BY <1>1, <1>2, <1>3, FS_Injection

-----------------------------------------------------------------------------
(* The image of a finite set is finite.                                    *)
LEMMA ImageIsFinite ==
  ASSUME NEW S, IsFiniteSet(S), NEW f
  PROVE  IsFiniteSet({f[x] : x \in S})
<1> DEFINE T == {f[x] : x \in S}
           g == [x \in S |-> f[x]]
<1>1. g \in Surjection(S, T)
  BY DEF Surjection
<1> QED
  BY <1>1, FS_Surjection

(* A set written down as a sequence.                                       *)

(* SetToSeq of a finite set holds its elements, each one once.             *)
LEMMA SetToSeqOrders ==
  ASSUME NEW S, IsFiniteSet(S)
  PROVE  /\ SetToSeq(S) \in Seq(S)
         /\ IsInjective(SetToSeq(S))
         /\ ToSet(SetToSeq(S)) = S
<1> DEFINE n == Cardinality(S)
<1>1. n \in Nat /\ ExistsBijection(1 .. n, S)
  BY FS_CardinalityType
<1>2. \E f \in [1 .. n -> S] : IsInjective(f)
  BY <1>1 DEF ExistsBijection, Bijection, Injection, IsInjective
<1>3. SetToSeq(S) \in [1 .. n -> S] /\ IsInjective(SetToSeq(S))
  BY <1>2 DEF SetToSeq
<1> DEFINE s == SetToSeq(S)
<1> HIDE DEF s
<1>4. s \in Injection(1 .. n, S)
  BY <1>3 DEF Injection, IsInjective, s
<1>5. IsFiniteSet(1 .. n) /\ Cardinality(1 .. n) = n
  BY <1>1, FS_Interval
<1>6. s \in Surjection(1 .. n, S)
  BY <1>4, <1>5, FS_Injection
<1>7. ToSet(s) = S
  BY <1>3, <1>6 DEF Surjection, ToSet, s
<1>8. s \in Seq(S)
  BY <1>1, <1>3 DEF s
<1> QED
  BY <1>3, <1>7, <1>8 DEF s

=============================================================================
