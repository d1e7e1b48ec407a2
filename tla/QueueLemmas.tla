---------------------------- MODULE QueueLemmas ----------------------------
(***************************************************************************)
(* What a queue holds after the steps every queue of these modules takes:  *)
(* a message is added at the end, several are, or the first is taken; and  *)
(* what a list holds after Filter, Erase and an insertion.                 *)
(***************************************************************************)
EXTENDS Integers, Sequences, SequencesExt, Lists, SequenceTheorems,
        FiniteSetTheorems, WellFoundedInduction, TLAPS

(* What is in a sequence is of its type. *)
LEMMA ToSetType ==
  ASSUME NEW S, NEW q \in Seq(S)
  PROVE  ToSet(q) \subseteq S
BY DEF ToSet

(* An added element is behind the elements that were there. *)
LEMMA AppendSet ==
  ASSUME NEW S, NEW q \in Seq(S), NEW m \in S
  PROVE  /\ Append(q, m) \in Seq(S)
         /\ Append(q, m) # <<>>
         /\ ToSet(Append(q, m)) = ToSet(q) \union {m}
         /\ Len(Append(q, m)) = Len(q) + 1
<1>1. /\ Append(q, m) \in Seq(S)
      /\ Len(Append(q, m)) = Len(q) + 1 /\ Len(q) \in Nat
      /\ DOMAIN Append(q, m) = 1..(Len(q) + 1) /\ DOMAIN q = 1..Len(q)
      /\ \A i \in 1..Len(q) : Append(q, m)[i] = q[i]
      /\ Append(q, m)[Len(q) + 1] = m
  OBVIOUS
<1>2. Append(q, m) # <<>>
  BY <1>1
<1>3. ToSet(Append(q, m)) \subseteq ToSet(q) \union {m}
  <2>1. SUFFICES ASSUME NEW i \in 1..(Len(q) + 1)
                 PROVE  Append(q, m)[i] \in ToSet(q) \union {m}
    BY <1>1 DEF ToSet
  <2>2. CASE i \in 1..Len(q)
    BY <1>1, <2>2 DEF ToSet
  <2>3. CASE i = Len(q) + 1
    BY <1>1, <2>3
  <2> QED
    BY <1>1, <2>1, <2>2, <2>3
<1>4. \A i \in 1..Len(q) : q[i] \in ToSet(Append(q, m))
  BY <1>1 DEF ToSet
<1>5. m \in ToSet(Append(q, m))
  BY <1>1 DEF ToSet
<1> QED
  BY <1>1, <1>2, <1>3, <1>4, <1>5 DEF ToSet

(* A new element behind elements that differ keeps them so. *)
LEMMA AppendDistinct ==
  ASSUME NEW S, NEW q \in Seq(S), IsInjective(q), NEW m \in S, m \notin ToSet(q)
  PROVE  IsInjective(Append(q, m))
<1>1. /\ DOMAIN Append(q, m) = 1..(Len(q) + 1) /\ DOMAIN q = 1..Len(q) /\ Len(q) \in Nat
      /\ \A i \in 1..Len(q) : Append(q, m)[i] = q[i]
      /\ Append(q, m)[Len(q) + 1] = m
  OBVIOUS
<1>2. \A i \in 1..Len(q) : q[i] # m
  BY <1>1 DEF ToSet
<1>3. ASSUME NEW i \in 1..(Len(q) + 1), NEW j \in 1..(Len(q) + 1),
             Append(q, m)[i] = Append(q, m)[j]
      PROVE  i = j
  <2>1. CASE i \in 1..Len(q) /\ j \in 1..Len(q)
    BY <1>1, <1>3, <2>1 DEF IsInjective
  <2>2. CASE i = Len(q) + 1 \/ j = Len(q) + 1
    BY <1>1, <1>2, <1>3, <2>2
  <2> QED
    BY <1>1, <2>1, <2>2
<1> QED
  BY <1>1, <1>3 DEF IsInjective

(* Two queues, one behind the other. *)
LEMMA ConcatSet ==
  ASSUME NEW S, NEW q \in Seq(S), NEW r \in Seq(S)
  PROVE  /\ q \o r \in Seq(S)
         /\ ToSet(q \o r) = ToSet(q) \union ToSet(r)
<1>1. /\ q \o r \in Seq(S) /\ Len(q) \in Nat /\ Len(r) \in Nat
      /\ DOMAIN (q \o r) = 1..(Len(q) + Len(r))
      /\ DOMAIN q = 1..Len(q) /\ DOMAIN r = 1..Len(r)
      /\ \A i \in 1..Len(q) : (q \o r)[i] = q[i]
      /\ \A i \in (Len(q) + 1)..(Len(q) + Len(r)) : (q \o r)[i] = r[i - Len(q)]
  OBVIOUS
<1>2. ToSet(q \o r) \subseteq ToSet(q) \union ToSet(r)
  <2>1. SUFFICES ASSUME NEW i \in 1..(Len(q) + Len(r))
                 PROVE  (q \o r)[i] \in ToSet(q) \union ToSet(r)
    BY <1>1 DEF ToSet
  <2>2. CASE i \in 1..Len(q)
    BY <1>1, <2>2 DEF ToSet
  <2>3. CASE i \in (Len(q) + 1)..(Len(q) + Len(r))
    <3>1. i - Len(q) \in DOMAIN r
      BY <1>1, <2>3
    <3> QED
      BY <1>1, <2>3, <3>1 DEF ToSet
  <2> QED
    BY <1>1, <2>1, <2>2, <2>3
<1>3. \A i \in DOMAIN q : q[i] \in ToSet(q \o r)
  BY <1>1 DEF ToSet
<1>4. ASSUME NEW i \in DOMAIN r PROVE r[i] \in ToSet(q \o r)
  <2>1. i + Len(q) \in (Len(q) + 1)..(Len(q) + Len(r))
    BY <1>1
  <2>2. (q \o r)[i + Len(q)] = r[i]
    BY <1>1, <2>1
  <2> QED
    BY <1>1, <2>1, <2>2 DEF ToSet
<1> QED
  BY <1>1, <1>2, <1>3, <1>4 DEF ToSet

(* The first element and the others. *)
LEMMA TailSet ==
  ASSUME NEW S, NEW q \in Seq(S), q # <<>>
  PROVE  /\ Head(q) \in S
         /\ Tail(q) \in Seq(S)
         /\ ToSet(q) = {Head(q)} \union ToSet(Tail(q))
         /\ Len(Tail(q)) = Len(q) - 1
<1>1. /\ Tail(q) \in Seq(S) /\ Head(q) \in S /\ Len(q) \in Nat \ {0}
      /\ Len(Tail(q)) = Len(q) - 1
      /\ DOMAIN Tail(q) = 1..(Len(q) - 1) /\ DOMAIN q = 1..Len(q)
      /\ Head(q) = q[1]
      /\ \A i \in 1..(Len(q) - 1) : Tail(q)[i] = q[i + 1]
  OBVIOUS
<1>2. Head(q) \in ToSet(q)
  BY <1>1 DEF ToSet
<1>3. \A i \in 1..(Len(q) - 1) : q[i + 1] \in ToSet(q)
  BY <1>1 DEF ToSet
<1>4. ASSUME NEW i \in 1..Len(q) PROVE q[i] \in {Head(q)} \union ToSet(Tail(q))
  <2>1. CASE i = 1
    BY <1>1, <2>1
  <2>2. CASE i # 1
    <3>1. i - 1 \in 1..(Len(q) - 1) /\ (i - 1) + 1 = i
      BY <1>1, <2>2
    <3>2. Tail(q)[i - 1] = q[i]
      BY <1>1, <3>1
    <3> QED
      BY <1>1, <3>1, <3>2 DEF ToSet
  <2> QED
    BY <2>1, <2>2
<1>5. ToSet(Tail(q)) \subseteq ToSet(q)
  BY <1>1, <1>3 DEF ToSet
<1>6. ToSet(q) \subseteq {Head(q)} \union ToSet(Tail(q))
  BY <1>1, <1>4 DEF ToSet
<1> QED
  BY <1>1, <1>2, <1>5, <1>6

(* An empty queue holds nothing. *)
LEMMA EmptySet ==
  ASSUME NEW S
  PROVE  /\ <<>> \in Seq(S)
         /\ ToSet(<<>>) = {}
         /\ \A q \in Seq(S) : ToSet(q) = {} => q = <<>>
<1>1. <<>> \in Seq(S) /\ DOMAIN <<>> = {}
  OBVIOUS
<1>2. ToSet(<<>>) = {}
  <2>1. SUFFICES ASSUME NEW x \in ToSet(<<>>) PROVE FALSE
    OBVIOUS
  <2>2. PICK i \in DOMAIN <<>> : x = <<>>[i]
    BY <2>1, Zenon DEF ToSet
  <2> QED
    BY <1>1, <2>2
<1>3. ASSUME NEW q \in Seq(S), q # <<>> PROVE ToSet(q) # {}
  <2>1. Head(q) \in ToSet(q)
    BY <1>3, TailSet
  <2> QED
    BY <2>1
<1> QED
  BY <1>1, <1>2, <1>3

(* Taking one element out of a queue leaves the others. *)
LEMMA RemoveAtSet ==
  ASSUME NEW S, NEW q \in Seq(S), NEW i \in DOMAIN q
  PROVE  \A x \in ToSet(q) : x # q[i] => x \in ToSet(RemoveAt(q, i))
<1> DEFINE before == SubSeq(q, 1, i - 1)
           after  == SubSeq(q, i + 1, Len(q))
<1>1. /\ Len(q) \in Nat /\ DOMAIN q = 1..Len(q) /\ i \in 1..Len(q)
      /\ \A j \in 1..Len(q) : q[j] \in S
  OBVIOUS
<1>2. /\ before \in Seq(S) /\ DOMAIN before = 1..(i - 1)
      /\ \A j \in 1..(i - 1) : before[j] = q[j]
  <2>1. \A j \in 1..(i - 1) : q[j] \in S
    BY <1>1
  <2>2. 1 \in Int /\ i - 1 \in Int /\ i - 1 >= 0
    BY <1>1
  <2>3. /\ SubSeq(q, 1, i - 1) \in Seq(S)
        /\ Len(SubSeq(q, 1, i - 1)) = IF 1 <= i - 1 THEN (i - 1) - 1 + 1 ELSE 0
        /\ \A j \in 1..((i - 1) - 1 + 1) : SubSeq(q, 1, i - 1)[j] = q[1 + j - 1]
    BY <2>1, <2>2, SubSeqProperties
  <2>4. Len(before) = i - 1
    BY <2>2, <2>3
  <2> QED
    BY <1>1, <2>2, <2>3, <2>4
<1>3. /\ after \in Seq(S) /\ DOMAIN after = 1..(Len(q) - i)
      /\ \A j \in 1..(Len(q) - i) : after[j] = q[i + j]
  <2>1. \A j \in (i + 1)..Len(q) : q[j] \in S
    BY <1>1
  <2>2. i + 1 \in Int /\ Len(q) \in Int
    BY <1>1
  <2>3. /\ SubSeq(q, i + 1, Len(q)) \in Seq(S)
        /\ Len(SubSeq(q, i + 1, Len(q))) =
             IF i + 1 <= Len(q) THEN Len(q) - (i + 1) + 1 ELSE 0
        /\ \A j \in 1..(Len(q) - (i + 1) + 1) :
             SubSeq(q, i + 1, Len(q))[j] = q[(i + 1) + j - 1]
    BY <2>1, <2>2, SubSeqProperties
  <2>4. Len(after) = Len(q) - i
    BY <1>1, <2>3
  <2> QED
    BY <1>1, <2>3, <2>4
<1> HIDE DEF before, after
<1>4. ToSet(before \o after) = ToSet(before) \union ToSet(after)
  BY <1>2, <1>3, ConcatSet
<1>5. SUFFICES ASSUME NEW j \in 1..Len(q), q[j] # q[i]
               PROVE  q[j] \in ToSet(before) \union ToSet(after)
  BY <1>1, <1>4 DEF ToSet, RemoveAt, before, after
<1>6. CASE j < i
  BY <1>1, <1>2, <1>6 DEF ToSet
<1>7. CASE j > i
  <2>1. j - i \in 1..(Len(q) - i) /\ i + (j - i) = j
    BY <1>1, <1>7
  <2>2. after[j - i] = q[j]
    BY <1>3, <2>1
  <2> QED
    BY <1>3, <2>1, <2>2 DEF ToSet
<1> QED
  BY <1>1, <1>5, <1>6, <1>7

----------------------------------------------------------------------------
(* A set of numbers that is not empty has a least element. *)
LEMMA Least ==
  ASSUME NEW T \in SUBSET Nat, T # {}
  PROVE  \E x \in T : \A y \in T : x <= y
<1> DEFINE R == {ss \in Nat \X Nat : ss[1] < ss[2]}
<1>1. IsWellFoundedOn(R, Nat)
  BY NatLessThanWellFounded DEF OpToRel
<1>3. \A x, y \in Nat : <<y,x>> \in R <=> y < x
  OBVIOUS
<1> HIDE DEF R
<1>2. PICK x \in T : \A y \in T : ~ (<<y, x>> \in R)
  BY <1>1, WFMin
<1>4. \A y \in T : x <= y
  <2>1. TAKE y \in T
  <2>2. x \in Nat /\ y \in Nat
    OBVIOUS
  <2>3. ~ (<<y, x>> \in R)
    BY <1>2
  <2>4. ~ (y < x)
    BY <2>2, <2>3, <1>3
  <2> QED
    BY <2>2, <2>4
<1> QED
  BY <1>4

----------------------------------------------------------------------------
(* Filter keeps what is in T, in the order of s: h gives the position an
   element of the new list had in the old one. *)
LEMMA FilterMap ==
  ASSUME NEW S, NEW s \in Seq(S), NEW T
  PROVE  /\ Filter(s, T) \in Seq(S)
         /\ \E h \in [DOMAIN Filter(s, T) -> DOMAIN s] :
              /\ \A i \in DOMAIN Filter(s, T) :
                   Filter(s, T)[i] = s[h[i]] /\ s[h[i]] \in T
              /\ \A i, j \in DOMAIN Filter(s, T) : i < j => h[i] < h[j]
              /\ \A k \in DOMAIN s : s[k] \in T =>
                   \E i \in DOMAIN Filter(s, T) : h[i] = k
<1> DEFINE kept    == {k \in DOMAIN s : s[k] \in T}
           rank(k) == Cardinality({j \in kept : j <= k})
           n       == Cardinality(kept)
           h       == [i \in 1..n |-> CHOOSE k \in kept : rank(k) = i]
<1>1. DOMAIN s = 1..Len(s) /\ Len(s) \in Nat /\ \A k \in DOMAIN s : s[k] \in S
  OBVIOUS
<1>2. IsFiniteSet(kept) /\ n \in Nat /\ kept \subseteq Nat
  <2>1. IsFiniteSet(1..Len(s))
    BY <1>1, FS_Interval
  <2>2. kept \subseteq 1..Len(s)
    BY <1>1
  <2>3. IsFiniteSet(kept)
    BY <2>1, <2>2, FS_Subset
  <2> QED
    BY <1>1, <2>2, <2>3, FS_CardinalityType
<1>3. \A k \in kept : rank(k) \in 1..n
  <2>1. TAKE k \in kept
  <2> DEFINE below == {j \in kept : j <= k}
  <2>2. below \subseteq kept /\ k \in below
    BY <1>2
  <2>3. IsFiniteSet(below) /\ Cardinality(below) <= n /\ Cardinality(below) \in Nat
    BY <1>2, <2>2, FS_Subset, FS_CardinalityType
  <2>4. Cardinality(below) # 0
    BY <2>2, <2>3, FS_EmptySet
  <2> QED
    BY <1>2, <2>3, <2>4
<1>4. ASSUME NEW j \in kept, NEW k \in kept, j < k PROVE rank(j) < rank(k)
  <2> DEFINE A == {l \in kept : l <= j}
             B == {l \in kept : l <= k}
  <2>1. A \subseteq B /\ k \in B /\ k \notin A
    BY <1>2, <1>4
  <2>2. IsFiniteSet(B)
    BY <1>2, FS_Subset
  <2>3. A # B
    BY <2>1
  <2>4. Cardinality(A) < Cardinality(B)
    <3>1. /\ IsFiniteSet(A) /\ Cardinality(A) <= Cardinality(B)
          /\ (Cardinality(A) = Cardinality(B) => A = B)
      BY <2>1, <2>2, FS_Subset
    <3>2. Cardinality(A) \in Nat /\ Cardinality(B) \in Nat
      BY <3>1, <2>2, FS_CardinalityType
    <3> QED
      BY <3>1, <3>2, <2>3
  <2> QED
    BY <2>4
<1> HIDE DEF rank
<1>5. \A j, k \in kept : rank(j) = rank(k) => j = k
  <2>1. TAKE j \in kept, k \in kept
  <2>2. j \in Nat /\ k \in Nat /\ rank(j) \in Nat /\ rank(k) \in Nat
    BY <1>2, <1>3
  <2>3. j < k => rank(j) < rank(k)
    BY <1>4
  <2>4. k < j => rank(k) < rank(j)
    BY <1>4
  <2> QED
    BY <2>2, <2>3, <2>4
<1>6. \A i \in 1..n : \E k \in kept : rank(k) = i
  <2> DEFINE f == [k \in kept |-> rank(k)]
             image == {f[k] : k \in kept}
  <2>1. f \in [kept -> 1..n]
    BY <1>3
  <2>2. f \in Bijection(kept, image)
    BY <1>5, <2>1 DEF Bijection, Injection, Surjection, IsInjective
  <2>3. IsFiniteSet(image) /\ Cardinality(image) = n
    <3>1. ExistsBijection(kept, image)
      BY <2>2 DEF ExistsBijection
    <3> QED
      BY <1>2, <3>1, FS_Bijection
  <2>4. image \subseteq 1..n
    BY <2>1
  <2>5. IsFiniteSet(1..n) /\ Cardinality(1..n) = n
    BY <1>2, FS_Interval
  <2>6. image = 1..n
    BY <2>3, <2>4, <2>5, FS_Subset
  <2>7. TAKE i \in 1..n
  <2>8. PICK k \in kept : i = f[k]
    BY <2>6
  <2> QED
    BY <2>8
<1>7. \A i \in 1..n : h[i] \in kept /\ rank(h[i]) = i
  BY <1>6
<1>8. \A k \in kept : h[rank(k)] = k
  BY <1>3, <1>5, <1>7
<1>9. Filter(s, T) = [i \in 1..n |-> s[h[i]]]
  BY DEF Filter, rank
<1> HIDE DEF h, n
<1>10. DOMAIN Filter(s, T) = 1..n /\ \A i \in 1..n : Filter(s, T)[i] = s[h[i]]
  BY <1>9
<1>11. \A i \in 1..n : s[h[i]] \in T /\ s[h[i]] \in S /\ h[i] \in DOMAIN s
  BY <1>1, <1>7
<1>12. Filter(s, T) \in Seq(S)
  BY <1>2, <1>9, <1>11
<1>13. h \in [DOMAIN Filter(s, T) -> DOMAIN s]
  BY <1>10, <1>11 DEF h
<1>14. ASSUME NEW i \in 1..n, NEW j \in 1..n, i < j PROVE h[i] < h[j]
  <2>1. h[i] \in Nat /\ h[j] \in Nat /\ i \in Nat /\ j \in Nat
    BY <1>2, <1>7
  <2>2. h[j] < h[i] => j < i
    BY <1>4, <1>7
  <2>3. h[i] # h[j]
    BY <1>7, <1>14, <2>1
  <2> QED
    BY <2>1, <2>2, <2>3, <1>14
<1>15. \A k \in DOMAIN s : s[k] \in T => \E i \in 1..n : h[i] = k
  BY <1>3, <1>8
<1>16. /\ \A i \in DOMAIN Filter(s, T) : Filter(s, T)[i] = s[h[i]] /\ s[h[i]] \in T
       /\ \A i, j \in DOMAIN Filter(s, T) : i < j => h[i] < h[j]
       /\ \A k \in DOMAIN s : s[k] \in T => \E i \in DOMAIN Filter(s, T) : h[i] = k
  BY <1>10, <1>11, <1>14, <1>15
<1> HIDE DEF kept
<1> QED
  BY <1>12, <1>13, <1>16, Zenon

(* What is in the list that Filter returns. *)
LEMMA FilterFacts ==
  ASSUME NEW S, NEW s \in Seq(S), NEW T
  PROVE  /\ Filter(s, T) \in Seq(S)
         /\ ToSet(Filter(s, T)) = ToSet(s) \intersect T
         /\ IsInjective(s) => IsInjective(Filter(s, T))
<1> DEFINE f == Filter(s, T)
<1>1. f \in Seq(S) /\ DOMAIN f \subseteq Nat /\ DOMAIN s \subseteq Nat
  BY FilterMap
<1>2. PICK h \in [DOMAIN f -> DOMAIN s] :
        /\ \A i \in DOMAIN f : f[i] = s[h[i]] /\ s[h[i]] \in T
        /\ \A i, j \in DOMAIN f : i < j => h[i] < h[j]
        /\ \A k \in DOMAIN s : s[k] \in T => \E i \in DOMAIN f : h[i] = k
  BY FilterMap, SMTT(30)
<1> HIDE DEF f
<1>3. ToSet(f) \subseteq ToSet(s) \intersect T
  BY <1>2 DEF ToSet
<1>4. \A k \in DOMAIN s : s[k] \in T => s[k] \in ToSet(f)
  BY <1>2 DEF ToSet
<1>5. ToSet(s) \intersect T \subseteq ToSet(f)
  BY <1>4 DEF ToSet
<1>6. ASSUME IsInjective(s), NEW i \in DOMAIN f, NEW j \in DOMAIN f, f[i] = f[j]
      PROVE  i = j
  <2>1. h[i] = h[j]
    BY <1>2, <1>6 DEF IsInjective
  <2>2. h[i] \in Nat /\ h[j] \in Nat /\ i \in Nat /\ j \in Nat
    BY <1>1, <1>2
  <2> QED
    BY <1>2, <2>1, <2>2
<1> QED
  BY <1>1, <1>3, <1>5, <1>6 DEF f, IsInjective

(* Filter does not change which of two elements comes first. *)
LEMMA FilterOrder ==
  ASSUME NEW S, NEW s \in Seq(S), NEW T, NEW x, NEW y,
         \A i, j \in DOMAIN s : s[i] = x /\ s[j] = y => i <= j
  PROVE  \A i, j \in DOMAIN Filter(s, T) :
           Filter(s, T)[i] = x /\ Filter(s, T)[j] = y => i <= j
<1> DEFINE f == Filter(s, T)
<1>1. DOMAIN f \subseteq Nat /\ DOMAIN s \subseteq Nat
  BY FilterMap
<1>2. PICK h \in [DOMAIN f -> DOMAIN s] :
        /\ \A i \in DOMAIN f : f[i] = s[h[i]]
        /\ \A i, j \in DOMAIN f : i < j => h[i] < h[j]
  BY FilterMap
<1> HIDE DEF f
<1>3. ASSUME NEW i \in DOMAIN f, NEW j \in DOMAIN f, f[i] = x, f[j] = y
      PROVE  i <= j
  <2>1. h[i] <= h[j]
    BY <1>2, <1>3
  <2>2. h[i] \in Nat /\ h[j] \in Nat /\ i \in Nat /\ j \in Nat
    BY <1>1, <1>2
  <2>3. j < i => h[j] < h[i]
    BY <1>2
  <2> QED
    BY <2>1, <2>2, <2>3
<1> QED
  BY <1>3 DEF f

(* A list that is sorted by a key stays sorted. *)
LEMMA FilterSorted ==
  ASSUME NEW S, NEW s \in Seq(S), NEW T, NEW key,
         \A i, j \in DOMAIN s : i <= j => key[s[i]] <= key[s[j]]
  PROVE  \A i, j \in DOMAIN Filter(s, T) :
           i <= j => key[Filter(s, T)[i]] <= key[Filter(s, T)[j]]
<1> DEFINE f == Filter(s, T)
<1>1. DOMAIN f \subseteq Nat /\ DOMAIN s \subseteq Nat
  BY FilterMap
<1>2. PICK h \in [DOMAIN f -> DOMAIN s] :
        /\ \A i \in DOMAIN f : f[i] = s[h[i]] /\ s[h[i]] \in T
        /\ \A i, j \in DOMAIN f : i < j => h[i] < h[j]
        /\ \A k \in DOMAIN s : s[k] \in T => \E i \in DOMAIN f : h[i] = k
  BY FilterMap, SMTT(30)
<1> HIDE DEF f
<1>3. ASSUME NEW i \in DOMAIN f, NEW j \in DOMAIN f, i <= j
      PROVE  key[f[i]] <= key[f[j]]
  <2>1. h[i] \in Nat /\ h[j] \in Nat /\ i \in Nat /\ j \in Nat
    BY <1>1, <1>2
  <2>2. h[i] <= h[j]
    BY <1>2, <1>3, <2>1
  <2> QED
    BY <1>2, <2>2
<1> QED
  BY <1>3 DEF f

(* Filter leaves alone what is before the first element it takes out. *)
LEMMA FilterPrefix ==
  ASSUME NEW S, NEW s \in Seq(S), NEW T, NEW k \in Nat,
         \A i \in DOMAIN s : i < k => s[i] \in T
  PROVE  \A i \in DOMAIN Filter(s, T) : i < k => i \in DOMAIN s /\ Filter(s, T)[i] = s[i]
<1> DEFINE f == Filter(s, T)
<1>1. /\ f \in Seq(S) /\ Len(f) \in Nat /\ Len(s) \in Nat
      /\ DOMAIN f = 1..Len(f) /\ DOMAIN s = 1..Len(s)
  BY FilterMap
<1>2. PICK h \in [DOMAIN f -> DOMAIN s] :
        /\ \A i \in DOMAIN f : f[i] = s[h[i]] /\ s[h[i]] \in T
        /\ \A i, j \in DOMAIN f : i < j => h[i] < h[j]
        /\ \A j \in DOMAIN s : s[j] \in T => \E i \in DOMAIN f : h[i] = j
  BY FilterMap
<1> DEFINE off == {i \in DOMAIN f : i < k /\ h[i] # i}
<1> HIDE DEF f
<1>3. off \in SUBSET Nat
  BY <1>1
<1>4. off = {}
  <2>1. SUFFICES ASSUME off # {} PROVE FALSE
    OBVIOUS
  <2>2. PICK i \in off : \A j \in off : i <= j
    BY <1>3, <2>1, Least
  <2>3. i \in DOMAIN f /\ i < k /\ h[i] # i /\ i \in Nat /\ h[i] \in DOMAIN s /\ i >= 1
    BY <1>1, <1>2, <2>2
  <2>4. \A j \in DOMAIN f : j < i => h[j] = j
    <3>1. TAKE j \in DOMAIN f
    <3>2. j \in Nat
      BY <1>1
    <3>3. j < i => j \notin off
      BY <2>2, <2>3, <3>2
    <3> QED
      BY <2>3, <3>2, <3>3
  <2>5. h[i] > i
    <3>1. SUFFICES ASSUME h[i] < i PROVE FALSE
      BY <1>1, <2>3
    <3>2. h[i] \in DOMAIN f
      BY <1>1, <2>3, <3>1
    <3>3. h[h[i]] = h[i]
      BY <2>4, <3>1, <3>2
    <3>4. h[h[i]] < h[i]
      BY <1>2, <2>3, <3>1, <3>2
    <3> QED
      BY <1>1, <2>3, <3>3, <3>4
  <2>6. i \in DOMAIN s /\ s[i] \in T
    BY <1>1, <2>3, <2>5
  <2>7. PICK m \in DOMAIN f : h[m] = i
    BY <1>2, <2>6
  <2>8. m \in Nat
    BY <1>1
  <2>9. m < i => h[m] = m
    BY <2>4
  <2>10. i < m => h[i] < h[m]
    BY <1>2, <2>3
  <2> QED
    BY <1>1, <2>3, <2>5, <2>7, <2>8, <2>9, <2>10
<1>5. \A i \in DOMAIN f : i < k => h[i] = i
  BY <1>4
<1> QED
  BY <1>2, <1>5 DEF f

(* Erasing one element. *)
LEMMA EraseFacts ==
  ASSUME NEW S, NEW s \in Seq(S), NEW e
  PROVE  /\ Erase(s, e) \in Seq(S)
         /\ ToSet(Erase(s, e)) = ToSet(s) \ {e}
         /\ IsInjective(s) => IsInjective(Erase(s, e))
BY FilterFacts DEF Erase

(* Inserting one. *)
LEMMA InsertFacts ==
  ASSUME NEW S, NEW s \in Seq(S), NEW at \in 1..(Len(s) + 1), NEW e \in S
  PROVE  /\ InsertAt(s, at, e) \in Seq(S)
         /\ Len(InsertAt(s, at, e)) = Len(s) + 1
         /\ \A i \in DOMAIN s : i < at => InsertAt(s, at, e)[i] = s[i]
         /\ InsertAt(s, at, e)[at] = e
         /\ \A i \in DOMAIN s : i >= at => InsertAt(s, at, e)[i + 1] = s[i]
         /\ ToSet(InsertAt(s, at, e)) = ToSet(s) \union {e}
<1> DEFINE before == SubSeq(s, 1, at - 1)
           after  == SubSeq(s, at, Len(s))
<1>1. /\ Len(s) \in Nat /\ DOMAIN s = 1..Len(s) /\ at \in 1..(Len(s) + 1)
      /\ \A j \in 1..Len(s) : s[j] \in S
  OBVIOUS
<1>2. /\ before \in Seq(S) /\ Len(before) = at - 1
      /\ \A j \in 1..(at - 1) : before[j] = s[j]
  <2>1. \A j \in 1..(at - 1) : s[j] \in S
    BY <1>1
  <2>2. 1 \in Int /\ at - 1 \in Int /\ at - 1 >= 0
    BY <1>1
  <2>3. /\ SubSeq(s, 1, at - 1) \in Seq(S)
        /\ Len(SubSeq(s, 1, at - 1)) = IF 1 <= at - 1 THEN (at - 1) - 1 + 1 ELSE 0
        /\ \A j \in 1..((at - 1) - 1 + 1) : SubSeq(s, 1, at - 1)[j] = s[1 + j - 1]
    BY <2>1, <2>2, SubSeqProperties
  <2> QED
    BY <1>1, <2>2, <2>3
<1>3. /\ after \in Seq(S) /\ Len(after) = Len(s) - at + 1
      /\ \A j \in 1..(Len(s) - at + 1) : after[j] = s[at + j - 1]
  <2>1. \A j \in at..Len(s) : s[j] \in S
    BY <1>1
  <2>2. at \in Int /\ Len(s) \in Int
    BY <1>1
  <2>3. /\ SubSeq(s, at, Len(s)) \in Seq(S)
        /\ Len(SubSeq(s, at, Len(s))) = IF at <= Len(s) THEN Len(s) - at + 1 ELSE 0
        /\ \A j \in 1..(Len(s) - at + 1) : SubSeq(s, at, Len(s))[j] = s[at + j - 1]
    BY <2>1, <2>2, SubSeqProperties
  <2> QED
    BY <1>1, <2>2, <2>3
<1> DEFINE first == Append(before, e)
           t     == first \o after
<1> HIDE DEF before, after
<1>4. InsertAt(s, at, e) = t
  <2>1. Append(before, e) = before \o <<e>>
    BY <1>2, AppendIsConcat
  <2> QED
    BY <2>1 DEF InsertAt, before, after
<1>5. /\ first \in Seq(S) /\ Len(first) = at
      /\ \A i \in 1..(at - 1) : first[i] = before[i]
      /\ first[at] = e
      /\ ToSet(first) = ToSet(before) \union {e}
  BY <1>1, <1>2, AppendSet
<1> HIDE DEF first
<1>6. /\ t \in Seq(S) /\ Len(t) = Len(s) + 1
      /\ \A i \in 1..at : t[i] = first[i]
      /\ \A i \in 1..(Len(s) - at + 1) : t[at + i] = after[i]
      /\ ToSet(t) = ToSet(before) \union {e} \union ToSet(after)
  <2>1. /\ t \in Seq(S) /\ Len(t) = Len(s) + 1
        /\ \A i \in 1..at : t[i] = first[i]
        /\ \A i \in 1..(Len(s) - at + 1) : t[at + i] = after[i]
    BY <1>1, <1>3, <1>5
  <2>2. ToSet(t) = ToSet(first) \union ToSet(after)
    BY <1>3, <1>5, ConcatSet
  <2> QED
    BY <1>5, <2>1, <2>2
<1> HIDE DEF t
<1>7. ASSUME NEW i \in DOMAIN s, i >= at PROVE t[i + 1] = s[i]
  <2>1. i - at + 1 \in 1..(Len(s) - at + 1)
    BY <1>1, <1>7
  <2>2. t[at + (i - at + 1)] = after[i - at + 1]
    BY <1>6, <2>1
  <2>3. after[i - at + 1] = s[at + (i - at + 1) - 1]
    BY <1>3, <2>1
  <2>4. at + (i - at + 1) = i + 1 /\ at + (i - at + 1) - 1 = i
    BY <1>1
  <2> QED
    BY <2>2, <2>3, <2>4
<1>8. \A i \in DOMAIN s : i < at => t[i] = s[i]
  BY <1>1, <1>2, <1>5, <1>6
<1>9. /\ DOMAIN before = 1..(at - 1) /\ DOMAIN after = 1..(Len(s) - at + 1)
  BY <1>1, <1>2, <1>3
<1>10. ToSet(before) \union ToSet(after) = ToSet(s)
  <2>1. ToSet(before) \subseteq ToSet(s)
    BY <1>1, <1>2, <1>9 DEF ToSet
  <2>2. ASSUME NEW j \in DOMAIN after PROVE after[j] \in ToSet(s)
    <3>1. at + j - 1 \in DOMAIN s
      BY <1>1, <1>9
    <3> QED
      BY <1>3, <1>9, <3>1 DEF ToSet
  <2>3. ASSUME NEW i \in DOMAIN s PROVE s[i] \in ToSet(before) \union ToSet(after)
    <3>1. CASE i < at
      BY <1>1, <1>2, <1>9, <3>1 DEF ToSet
    <3>2. CASE i >= at
      <4>1. i - at + 1 \in DOMAIN after /\ at + (i - at + 1) - 1 = i
        BY <1>1, <1>9, <3>2
      <4>2. after[i - at + 1] = s[i]
        BY <1>3, <1>9, <4>1
      <4> QED
        BY <4>1, <4>2 DEF ToSet
    <3> QED
      BY <1>1, <3>1, <3>2
  <2> QED
    BY <2>1, <2>2, <2>3 DEF ToSet
<1> QED
  BY <1>4, <1>5, <1>6, <1>7, <1>8, <1>10

----------------------------------------------------------------------------
(* The order of a queue. *)

\* No element of q is behind one that it must be before.
InOrder(q, R) == \A i, j \in DOMAIN q : i < j => <<q[j], q[i]>> \notin R

(* An empty queue is in order. *)
LEMMA EmptyOrder == ASSUME NEW R PROVE InOrder(<<>>, R)
BY DEF InOrder

(* Taking the head leaves the rest in order, with nothing that must be before
   the head. *)
LEMMA TailOrder ==
  ASSUME NEW S, NEW q \in Seq(S), q # <<>>, NEW R, InOrder(q, R)
  PROVE  /\ InOrder(Tail(q), R)
         /\ \A t \in ToSet(Tail(q)) : <<t, Head(q)>> \notin R
<1>1. /\ Tail(q) \in Seq(S) /\ Len(q) \in Nat \ {0} /\ Head(q) = q[1]
      /\ DOMAIN Tail(q) = 1..(Len(q) - 1) /\ DOMAIN q = 1..Len(q)
      /\ \A i \in 1..(Len(q) - 1) : Tail(q)[i] = q[i + 1]
  OBVIOUS
<1>2. ASSUME NEW i \in DOMAIN Tail(q), NEW j \in DOMAIN Tail(q), i < j
      PROVE  <<Tail(q)[j], Tail(q)[i]>> \notin R
  <2>1. i + 1 \in DOMAIN q /\ j + 1 \in DOMAIN q /\ i + 1 < j + 1
    BY <1>1, <1>2
  <2>2. <<q[j + 1], q[i + 1]>> \notin R
    BY <2>1 DEF InOrder
  <2> QED
    BY <1>1, <2>2
<1>3. ASSUME NEW t \in ToSet(Tail(q)) PROVE <<t, Head(q)>> \notin R
  <2>1. PICK j \in DOMAIN Tail(q) : t = Tail(q)[j]
    BY Zenon DEF ToSet
  <2>2. j + 1 \in DOMAIN q /\ 1 \in DOMAIN q /\ 1 < j + 1
    BY <1>1
  <2>3. <<q[j + 1], q[1]>> \notin R
    BY <2>2 DEF InOrder
  <2> QED
    BY <1>1, <2>1, <2>3
<1> QED
  BY <1>2, <1>3 DEF InOrder

(* Two queues in order are in order one after the other, if nothing of the
   second must be before something of the first. *)
LEMMA ConcatOrder ==
  ASSUME NEW S, NEW q \in Seq(S), NEW r \in Seq(S), NEW R,
         InOrder(q, R), InOrder(r, R),
         \A s \in ToSet(q), t \in ToSet(r) : <<t, s>> \notin R
  PROVE  InOrder(q \o r, R)
<1>1. /\ Len(q) \in Nat /\ Len(r) \in Nat
      /\ DOMAIN (q \o r) = 1..(Len(q) + Len(r))
      /\ DOMAIN q = 1..Len(q) /\ DOMAIN r = 1..Len(r)
      /\ \A i \in 1..Len(q) : (q \o r)[i] = q[i]
      /\ \A i \in (Len(q) + 1)..(Len(q) + Len(r)) : (q \o r)[i] = r[i - Len(q)]
  OBVIOUS
<1>2. SUFFICES ASSUME NEW i \in 1..(Len(q) + Len(r)), NEW j \in 1..(Len(q) + Len(r)), i < j
               PROVE  <<(q \o r)[j], (q \o r)[i]>> \notin R
  BY <1>1 DEF InOrder
<1>3. CASE j <= Len(q)
  <2>1. i \in DOMAIN q /\ j \in DOMAIN q
    BY <1>1, <1>2, <1>3
  <2>2. <<q[j], q[i]>> \notin R
    BY <1>2, <2>1 DEF InOrder
  <2> QED
    BY <1>1, <2>1, <2>2
<1>4. CASE i <= Len(q) /\ ~ (j <= Len(q))
  <2>1. i \in DOMAIN q /\ j - Len(q) \in DOMAIN r
    BY <1>1, <1>2, <1>4
  <2>2. q[i] \in ToSet(q) /\ r[j - Len(q)] \in ToSet(r)
    BY <2>1, Zenon DEF ToSet
  <2>3. <<r[j - Len(q)], q[i]>> \notin R
    BY <2>2
  <2>4. (q \o r)[i] = q[i] /\ (q \o r)[j] = r[j - Len(q)]
    BY <1>1, <1>2, <1>4
  <2> QED
    BY <2>3, <2>4
<1>5. CASE ~ (i <= Len(q)) /\ ~ (j <= Len(q))
  <2>1. i - Len(q) \in DOMAIN r /\ j - Len(q) \in DOMAIN r /\ i - Len(q) < j - Len(q)
    BY <1>1, <1>2, <1>5
  <2>2. <<r[j - Len(q)], r[i - Len(q)]>> \notin R
    BY <2>1 DEF InOrder
  <2>3. (q \o r)[i] = r[i - Len(q)] /\ (q \o r)[j] = r[j - Len(q)]
    BY <1>1, <1>2, <1>5
  <2> QED
    BY <2>2, <2>3
<1> QED
  BY <1>2, <1>3, <1>4, <1>5

(* One more element is in order, if it must be before none of the others. *)
LEMMA AppendOrder ==
  ASSUME NEW S, NEW q \in Seq(S), NEW m \in S, NEW R, InOrder(q, R),
         \A s \in ToSet(q) : <<m, s>> \notin R
  PROVE  InOrder(Append(q, m), R)
<1>1. /\ Append(q, m) \in Seq(S) /\ Len(Append(q, m)) = Len(q) + 1 /\ Len(q) \in Nat
      /\ DOMAIN Append(q, m) = 1..(Len(q) + 1) /\ DOMAIN q = 1..Len(q)
      /\ \A i \in 1..Len(q) : Append(q, m)[i] = q[i]
      /\ Append(q, m)[Len(q) + 1] = m
  OBVIOUS
<1> DEFINE longer == Append(q, m)
<1> HIDE DEF longer
<1>2. ASSUME NEW i \in DOMAIN longer, NEW j \in DOMAIN longer, i < j
      PROVE  <<longer[j], longer[i]>> \notin R
  <2>1. i \in DOMAIN q /\ longer[i] = q[i]
    BY <1>1, <1>2 DEF longer
  <2>2. CASE j \in DOMAIN q
    BY <1>1, <1>2, <2>1, <2>2 DEF longer, InOrder
  <2>3. CASE j = Len(q) + 1
    <3>1. longer[j] = m /\ q[i] \in ToSet(q)
      BY <1>1, <2>1, <2>3 DEF longer, ToSet
    <3> QED
      BY <2>1, <3>1
  <2> QED
    BY <1>1, <1>2, <2>2, <2>3 DEF longer
<1> QED
  BY <1>2 DEF InOrder, longer

============================================================================
