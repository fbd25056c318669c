---------------------------- MODULE ListingLemmas ----------------------------
(***************************************************************************)
(* Sorted lists each number of a set once, and Sublist each position; the  *)
(* first and the last of some positions exist; a list of a set names each  *)
(* of its elements; and what the entries of a list, one after the other,   *)
(* leave of something that some of them switch on and others off.          *)
(***************************************************************************)
EXTENDS Listing, SequencesExt, FiniteSetTheorems, SequenceTheorems, WellFoundedInduction, TLAPS

(* Every nonempty set of natural numbers has a least element, and one that *)
(* is bounded a greatest.                                                  *)
LEMMA LeastExists ==
  ASSUME NEW T \in SUBSET Nat, T # {}
  PROVE  \E x \in T : \A y \in T : x <= y
<1>1. PICK x \in T : \A y \in T : <<y, x>> \notin OpToRel(<, Nat)
  BY NatLessThanWellFounded, WFMin
<1>2. \A y \in T : ~(y < x)
  BY <1>1 DEF OpToRel
<1> QED BY <1>2

LEMMA GreatestExists ==
  ASSUME NEW n \in Nat, NEW T \in SUBSET (1..n), T # {}
  PROVE  \E x \in T : \A y \in T : y <= x
<1> DEFINE U == {n - x : x \in T}
<1>1. U \in SUBSET Nat /\ U # {}
  <2>1. \A x \in T : n - x \in Nat
    OBVIOUS
  <2> QED BY <2>1
<1>2. PICK u \in U : \A v \in U : u <= v
  BY <1>1, LeastExists
<1>3. PICK x \in T : u = n - x
  BY <1>2
<1>4. ASSUME NEW y \in T PROVE y <= x
  <2>1. n - x <= n - y
    BY <1>2, <1>3
  <2> QED BY <2>1
<1> QED BY <1>4

(* Sorted lists a finite set: ranks are one to one.                        *)
LEMMA RankMonotone ==
  ASSUME NEW S \in SUBSET Nat, IsFiniteSet(S), NEW x \in S, NEW z \in S, x < z
  PROVE  Rank(x, S) < Rank(z, S)
<1> DEFINE A == {y \in S : y < x}
           B == {y \in S : y < z}
<1>0. B \in SUBSET S /\ x \in B /\ x \notin A
  OBVIOUS
<1>1. IsFiniteSet(B) /\ A \in SUBSET B /\ x \in B /\ x \notin A
  <2>1. A \in SUBSET B
    <3> SUFFICES ASSUME NEW y \in A PROVE y \in B
      OBVIOUS
    <3>1. y \in Nat /\ x \in Nat /\ z \in Nat /\ y < x
      OBVIOUS
    <3> QED BY <3>1
  <2> QED BY <1>0, <2>1, FS_Subset
<1>2. IsFiniteSet(A) /\ Cardinality(A) <= Cardinality(B) /\ A # B
      /\ (Cardinality(A) = Cardinality(B) => A = B)
  BY <1>1, FS_Subset
<1>3. Cardinality(A) \in Nat /\ Cardinality(B) \in Nat
  BY <1>1, <1>2, FS_CardinalityType
<1> QED BY <1>2, <1>3 DEF Rank

(* A rank is a position in the list.                                       *)
LEMMA RankRange ==
  ASSUME NEW S \in SUBSET Nat, IsFiniteSet(S), NEW x \in S
  PROVE  Rank(x, S) \in 1..Cardinality(S)
<1> DEFINE A == {y \in S : y < x}
<1>1. A \in SUBSET S /\ x \notin A
  OBVIOUS
<1>2. IsFiniteSet(A) /\ Cardinality(A) <= Cardinality(S) /\ A # S
      /\ (Cardinality(A) = Cardinality(S) => A = S)
  BY <1>1, FS_Subset
<1>3. Cardinality(A) \in Nat /\ Cardinality(S) \in Nat
  BY <1>2, FS_CardinalityType
<1> QED BY <1>2, <1>3 DEF Rank

(* Every element has a position and every position an element.             *)
LEMMA SortedLists ==
  ASSUME NEW S \in SUBSET Nat, IsFiniteSet(S)
  PROVE  /\ Cardinality(S) \in Nat
         /\ \A i \in 1..Cardinality(S) : Sorted(S)[i] \in S
         /\ \A x \in S : \E i \in 1..Cardinality(S) : Sorted(S)[i] = x
         /\ \A i, j \in 1..Cardinality(S) : Sorted(S)[i] = Sorted(S)[j] => i = j
<1> DEFINE n == Cardinality(S)
           f == [x \in S |-> Rank(x, S)]
<1>1. n \in Nat
  BY FS_CardinalityType
<1>2. f \in [S -> 1..n]
  BY RankRange
<1>3. \A x, z \in S : f[x] = f[z] => x = z
  <2> SUFFICES ASSUME NEW x \in S, NEW z \in S, x < z PROVE f[x] # f[z]
    OBVIOUS
  <2>1. f[x] < f[z]
    BY RankMonotone
  <2>2. f[x] \in Nat /\ f[z] \in Nat
    BY <1>1, <1>2
  <2> QED BY <2>1, <2>2
<1>4. f \in Injection(S, 1..n)
  BY <1>2, <1>3 DEF Injection, IsInjective
<1>5. IsFiniteSet(1..n) /\ Cardinality(1..n) = n
  BY <1>1, FS_Interval
<1>6. f \in Surjection(S, 1..n)
  BY <1>4, <1>5, FS_Injection
<1>7. \A i \in 1..n : \E x \in S : f[x] = i
  BY <1>6 DEF Surjection
<1>8. \A i \in 1..n : Sorted(S)[i] = CHOOSE x \in S : Rank(x, S) = i
  BY DEF Sorted
<1>9. \A i \in 1..n : Sorted(S)[i] \in S /\ Rank(Sorted(S)[i], S) = i
  BY <1>7, <1>8
<1>10. ASSUME NEW x \in S PROVE Sorted(S)[Rank(x, S)] = x
  BY <1>2, <1>3, <1>9
<1>11. \A x \in S : Rank(x, S) \in 1..n
  BY RankRange
<1> QED BY <1>1, <1>9, <1>10, <1>11

(* A function from 1..n is a sequence of length n.                         *)
LEMMA FunctionIsSeq ==
  ASSUME NEW S, NEW n \in Nat, NEW f \in [1..n -> S]
  PROVE  f \in Seq(S) /\ Len(f) = n
OBVIOUS

(* Two lists, one after the other.                                         *)
LEMMA TwoLists ==
  ASSUME NEW S, NEW a \in Seq(S), NEW b \in Seq(S)
  PROVE  /\ a \o b \in Seq(S) /\ Len(a \o b) = Len(a) + Len(b)
         /\ \A i \in 1..Len(a) : (a \o b)[i] = a[i] /\ i \in 1..Len(a \o b)
         /\ \A i \in 1..Len(b) : (a \o b)[Len(a) + i] = b[i]
                                 /\ Len(a) + i \in 1..Len(a \o b)
OBVIOUS

LEMMA ThreeLists ==
  ASSUME NEW S, NEW a \in Seq(S), NEW b \in Seq(S), NEW c \in Seq(S)
  PROVE  (a \o b) \o c = a \o (b \o c)
BY ConcatAssociative

LEMMA ListInTwo ==
  ASSUME NEW S, NEW s \in Seq(S), NEW a \in Seq(S), NEW b \in Seq(S),
         Len(s) = Len(a) + Len(b),
         \A i \in 1..Len(a) : s[i] = a[i],
         \A i \in 1..Len(b) : s[Len(a) + i] = b[i]
  PROVE  s = a \o b
<1> DEFINE t == a \o b
<1>1. /\ t \in Seq(S) /\ Len(t) = Len(a) + Len(b)
      /\ \A i \in 1..Len(a) : t[i] = a[i]
      /\ \A i \in 1..Len(b) : t[Len(a) + i] = b[i]
  BY TwoLists
<1> HIDE DEF t
<1>2. Len(a) \in Nat /\ Len(b) \in Nat
  OBVIOUS
<1>3. ASSUME NEW i \in 1..Len(s) PROVE s[i] = t[i]
  <2>1. i \in 1..Len(a) \/ (i - Len(a) \in 1..Len(b) /\ Len(a) + (i - Len(a)) = i)
    BY <1>2
  <2> QED BY <1>1, <2>1
<1>4. s = t
  BY <1>1, <1>3, SeqEqual
<1> QED BY <1>4 DEF t

(* What a filter keeps: the entries at the positions, each once.           *)
LEMMA SublistKeeps ==
  ASSUME NEW S, NEW s \in Seq(S), NEW at \in SUBSET DOMAIN s
  PROVE  /\ Sublist(s, at) \in Seq(S) /\ Len(Sublist(s, at)) <= Len(s)
         /\ Len(Sublist(s, at)) = Cardinality(at)
         /\ \A k \in DOMAIN Sublist(s, at) : Sorted(at)[k] \in at
                                             /\ Sublist(s, at)[k] = s[Sorted(at)[k]]
         /\ \A i \in at : \E k \in DOMAIN Sublist(s, at) : Sublist(s, at)[k] = s[i]
         /\ \A k, l \in DOMAIN Sublist(s, at) : Sorted(at)[k] = Sorted(at)[l] => k = l
<1> DEFINE n == Cardinality(at)
<1>1. DOMAIN s = 1..Len(s) /\ Len(s) \in Nat
  OBVIOUS
<1>2. IsFiniteSet(1..Len(s)) /\ Cardinality(1..Len(s)) = Len(s)
  <2>1. \A m \in Nat : IsFiniteSet(1..m) /\ Cardinality(1..m) = m
    BY FS_Interval
  <2> QED BY <1>1, <2>1
<1>3. IsFiniteSet(at) /\ at \in SUBSET Nat /\ n <= Len(s)
  BY <1>1, <1>2, FS_Subset
<1>4. /\ n \in Nat
      /\ \A i \in 1..n : Sorted(at)[i] \in at
      /\ \A x \in at : \E i \in 1..n : Sorted(at)[i] = x
      /\ \A i, j \in 1..n : Sorted(at)[i] = Sorted(at)[j] => i = j
  BY <1>3, SortedLists
<1>5. Sublist(s, at) = [k \in 1..n |-> s[Sorted(at)[k]]]
  BY DEF Sublist
<1> HIDE DEF n
<1>6. Sublist(s, at) \in [1..n -> S]
  BY <1>1, <1>4, <1>5
<1>7. Sublist(s, at) \in Seq(S) /\ Len(Sublist(s, at)) = n /\ DOMAIN Sublist(s, at) = 1..n
  BY <1>4, <1>6, FunctionIsSeq
<1>8. \A k \in 1..n : Sorted(at)[k] \in at /\ Sublist(s, at)[k] = s[Sorted(at)[k]]
  BY <1>4, <1>5
<1>9. \A i \in at : \E k \in 1..n : Sublist(s, at)[k] = s[i]
  BY <1>4, <1>8
<1>10. \A k, l \in 1..n : Sorted(at)[k] = Sorted(at)[l] => k = l
  BY <1>4
<1>11. Len(Sublist(s, at)) <= Len(s) /\ Len(Sublist(s, at)) = Cardinality(at)
  BY <1>3, <1>7 DEF n
<1> QED BY <1>7, <1>8, <1>9, <1>10, <1>11
-----------------------------------------------------------------------------
(* SetToSeq lists a finite set.                                            *)
LEMMA SetToSeqLists ==
  ASSUME NEW S, IsFiniteSet(S)
  PROVE  /\ SetToSeq(S) \in Seq(S) /\ DOMAIN SetToSeq(S) = 1..Len(SetToSeq(S))
         /\ \A i \in 1..Len(SetToSeq(S)) : SetToSeq(S)[i] \in S
         /\ \A x \in S : \E i \in 1..Len(SetToSeq(S)) : SetToSeq(S)[i] = x
<1> DEFINE n == Cardinality(S)
           q == SetToSeq(S)
<1>1. n \in Nat
  BY FS_CardinalityType
<1>2. PICK m \in Nat : ExistsBijection(1..m, S)
  BY FS_NatBijection
<1>3. IsFiniteSet(1..m) /\ Cardinality(1..m) = m
  BY FS_Interval
<1>4. m = n
  BY <1>2, <1>3, FS_Bijection
<1>5. PICK f : f \in Bijection(1..n, S)
  BY <1>2, <1>4 DEF ExistsBijection
<1>6. f \in [1..n -> S] /\ IsInjective(f)
  BY <1>5 DEF Bijection, Injection
<1>7. q \in [1..n -> S] /\ IsInjective(q)
  BY <1>6 DEF SetToSeq
<1> HIDE DEF n, q
<1>8. q \in Seq(S) /\ Len(q) = n /\ DOMAIN q = 1..n
  BY <1>1, <1>7, FunctionIsSeq
<1>9. q \in Injection(1..n, S)
  BY <1>7 DEF Injection
<1>10. q \in Surjection(1..n, S)
  BY <1>3, <1>4, <1>9, FS_Injection DEF n
<1>11. \A x \in S : \E i \in 1..n : q[i] = x
  BY <1>10 DEF Surjection
<1> QED BY <1>7, <1>8, <1>11 DEF q

(* x after the first n entries of s: an entry in `on` puts it there, one   *)
(* in `off` takes it away, and before them it was there if it is in `now`. *)
Holds(s, n, on, off, x, now) ==
  \/ \E i \in 1..n : s[i] \in on /\ \A j \in (i + 1)..n : s[j] \notin off
  \/ x \in now /\ \A j \in 1..n : s[j] \notin off

(* It comes to the same when the first entry is minded and taken from s.   *)
LEMMA HoldsTail ==
  ASSUME NEW S, NEW s \in Seq(S), s # <<>>, NEW n \in 0..(Len(s) - 1),
         NEW on, NEW off, NEW x, NEW now, NEW then
  PROVE  /\ (x \in then => Head(s) \in on \/ (x \in now /\ Head(s) \notin off))
              => (Holds(Tail(s), n, on, off, x, then) => Holds(s, n + 1, on, off, x, now))
         /\ (Head(s) \in on \/ (x \in now /\ Head(s) \notin off) => x \in then)
              => (Holds(s, n + 1, on, off, x, now) => Holds(Tail(s), n, on, off, x, then))
<1> DEFINE t == Tail(s)
<1>1. /\ Len(s) \in Nat \ {0} /\ n \in Nat
      /\ \A i \in 1..(Len(s) - 1) : t[i] = s[i + 1]
  OBVIOUS
<1>2. \A i \in 1..n : t[i] = s[i + 1]
  BY <1>1
<1>3. \A i \in 2..(n + 1) : s[i] = t[i - 1] /\ i - 1 \in 1..n
  BY <1>1, <1>2
<1>4. Head(s) = s[1]
  OBVIOUS
<1> HIDE DEF t
<1>5. ASSUME x \in then => Head(s) \in on \/ (x \in now /\ Head(s) \notin off),
             Holds(t, n, on, off, x, then)
      PROVE  Holds(s, n + 1, on, off, x, now)
  <2>1. ASSUME NEW i \in 1..n, t[i] \in on, \A j \in (i + 1)..n : t[j] \notin off
        PROVE  Holds(s, n + 1, on, off, x, now)
    <3>1. i + 1 \in 1..(n + 1) /\ s[i + 1] \in on
      BY <1>1, <1>2, <2>1
    <3>2. ASSUME NEW j \in (i + 1 + 1)..(n + 1) PROVE s[j] \notin off
      <4>1. j \in 2..(n + 1) /\ j - 1 \in (i + 1)..n
        BY <1>1
      <4> QED BY <1>3, <2>1, <4>1
    <3> QED BY <3>1, <3>2 DEF Holds
  <2>2. ASSUME x \in then, \A j \in 1..n : t[j] \notin off
        PROVE  Holds(s, n + 1, on, off, x, now)
    <3>1. \A j \in 2..(n + 1) : s[j] \notin off
      BY <1>3, <2>2
    <3>2. CASE Head(s) \in on
      <4>1. 1 \in 1..(n + 1) /\ s[1] \in on /\ \A j \in (1 + 1)..(n + 1) : s[j] \notin off
        BY <1>1, <1>4, <3>1, <3>2
      <4> QED BY <4>1 DEF Holds
    <3>3. CASE x \in now /\ Head(s) \notin off
      <4>1. ASSUME NEW j \in 1..(n + 1) PROVE s[j] \notin off
        <5>1. j = 1 \/ j \in 2..(n + 1)
          BY <1>1
        <5> QED BY <1>4, <3>1, <3>3, <5>1
      <4> QED BY <3>3, <4>1 DEF Holds
    <3> QED BY <1>5, <2>2, <3>2, <3>3
  <2> QED BY <1>5, <2>1, <2>2 DEF Holds
<1>6. ASSUME Head(s) \in on \/ (x \in now /\ Head(s) \notin off) => x \in then,
             Holds(s, n + 1, on, off, x, now)
      PROVE  Holds(t, n, on, off, x, then)
  <2>1. ASSUME NEW i \in 1..(n + 1), s[i] \in on,
               \A j \in (i + 1)..(n + 1) : s[j] \notin off
        PROVE  Holds(t, n, on, off, x, then)
    <3>1. ASSUME NEW j \in i..n, j \in 1..n PROVE t[j] \notin off
      <4>1. j + 1 \in (i + 1)..(n + 1)
        BY <1>1
      <4> QED BY <1>2, <2>1, <3>1, <4>1
    <3>2. CASE i = 1
      <4>1. x \in then /\ \A j \in 1..n : t[j] \notin off
        BY <1>4, <1>6, <2>1, <3>1, <3>2
      <4> QED BY <4>1 DEF Holds
    <3>3. CASE i # 1
      <4>1. i - 1 \in 1..n /\ t[i - 1] \in on
        BY <1>1, <1>3, <2>1, <3>3
      <4>2. \A j \in (i - 1 + 1)..n : t[j] \notin off
        BY <1>1, <3>1
      <4> QED BY <4>1, <4>2 DEF Holds
    <3> QED BY <3>2, <3>3
  <2>2. ASSUME x \in now, \A j \in 1..(n + 1) : s[j] \notin off
        PROVE  Holds(t, n, on, off, x, then)
    <3>1. s[1] \notin off /\ \A j \in 1..n : s[j + 1] \notin off
      BY <1>1, <2>2
    <3>2. x \in then /\ \A j \in 1..n : t[j] \notin off
      BY <1>2, <1>4, <1>6, <2>2, <3>1
    <3> QED BY <3>2 DEF Holds
  <2> QED BY <1>6, <2>1, <2>2 DEF Holds
<1> QED BY <1>5, <1>6 DEF t

(* What the first list of two leaves is what the second one finds.         *)
LEMMA HoldsConcat ==
  ASSUME NEW S, NEW s \in Seq(S), NEW t \in Seq(S), NEW m \in 0..Len(t),
         NEW on, NEW off, NEW x, NEW now, NEW then,
         x \in then <=> Holds(s, Len(s), on, off, x, now)
  PROVE  Holds(s \o t, Len(s) + m, on, off, x, now) <=> Holds(t, m, on, off, x, then)
<1> DEFINE u == s \o t
           n == Len(s)
<1>1. /\ n \in Nat /\ m \in Nat
      /\ \A i \in 1..n : u[i] = s[i]
      /\ \A i \in 1..m : u[n + i] = t[i]
  OBVIOUS
<1> HIDE DEF u, n
<1>2. \A i \in (n + 1)..(n + m) : i - n \in 1..m /\ u[i] = t[i - n]
  <2> SUFFICES ASSUME NEW i \in (n + 1)..(n + m) PROVE i - n \in 1..m /\ u[i] = t[i - n]
    OBVIOUS
  <2>1. i - n \in 1..m /\ n + (i - n) = i
    BY <1>1
  <2> QED BY <1>1, <2>1
<1>3. \A i \in 1..(n + m) : i \in 1..n \/ i \in (n + 1)..(n + m)
  BY <1>1
<1>4. \A i \in 1..m : n + i \in (n + 1)..(n + m) /\ n + i \in 1..(n + m)
  BY <1>1
<1>5. ASSUME Holds(u, n + m, on, off, x, now) PROVE Holds(t, m, on, off, x, then)
  <2>1. ASSUME NEW i \in 1..(n + m), u[i] \in on,
               \A j \in (i + 1)..(n + m) : u[j] \notin off
        PROVE  Holds(t, m, on, off, x, then)
    <3>1. CASE i \in 1..n
      <4>1. \A j \in (i + 1)..n : s[j] \notin off
        BY <1>1, <2>1, <3>1
      <4>2. x \in then
        BY <1>1, <2>1, <3>1, <4>1 DEF Holds, n
      <4>3. \A j \in 1..m : t[j] \notin off
        <5> SUFFICES ASSUME NEW j \in 1..m PROVE t[j] \notin off
          OBVIOUS
        <5>1. n + j \in (i + 1)..(n + m)
          BY <1>1, <3>1
        <5> QED BY <1>1, <2>1, <5>1
      <4> QED BY <4>2, <4>3 DEF Holds
    <3>2. CASE i \in (n + 1)..(n + m)
      <4>1. i - n \in 1..m /\ t[i - n] \in on
        BY <1>2, <2>1, <3>2
      <4>2. ASSUME NEW j \in (i - n + 1)..m PROVE t[j] \notin off
        <5>1. j \in 1..m /\ n + j \in (i + 1)..(n + m)
          BY <1>1, <4>1
        <5> QED BY <1>1, <2>1, <5>1
      <4> QED BY <4>1, <4>2 DEF Holds
    <3> QED BY <1>3, <3>1, <3>2
  <2>2. ASSUME x \in now, \A j \in 1..(n + m) : u[j] \notin off
        PROVE  Holds(t, m, on, off, x, then)
    <3>1. \A j \in 1..n : s[j] \notin off
      BY <1>1, <2>2
    <3>2. x \in then
      BY <2>2, <3>1 DEF Holds, n
    <3>3. \A j \in 1..m : t[j] \notin off
      BY <1>1, <1>4, <2>2
    <3> QED BY <3>2, <3>3 DEF Holds
  <2> QED BY <1>5, <2>1, <2>2 DEF Holds
<1>6. ASSUME Holds(t, m, on, off, x, then) PROVE Holds(u, n + m, on, off, x, now)
  <2>1. ASSUME NEW i \in 1..m, t[i] \in on, \A j \in (i + 1)..m : t[j] \notin off
        PROVE  Holds(u, n + m, on, off, x, now)
    <3>1. n + i \in 1..(n + m) /\ u[n + i] \in on
      BY <1>1, <1>4, <2>1
    <3>2. ASSUME NEW j \in (n + i + 1)..(n + m) PROVE u[j] \notin off
      <4>1. j \in (n + 1)..(n + m) /\ j - n \in (i + 1)..m
        BY <1>1
      <4> QED BY <1>2, <2>1, <4>1
    <3> QED BY <3>1, <3>2 DEF Holds
  <2>2. ASSUME x \in then, \A j \in 1..m : t[j] \notin off
        PROVE  Holds(u, n + m, on, off, x, now)
    <3>1. \A j \in (n + 1)..(n + m) : u[j] \notin off
      BY <1>2, <2>2
    <3>2. ASSUME NEW i \in 1..n, s[i] \in on, \A j \in (i + 1)..n : s[j] \notin off
          PROVE  Holds(u, n + m, on, off, x, now)
      <4>1. i \in 1..(n + m) /\ u[i] \in on
        BY <1>1, <3>2
      <4>2. ASSUME NEW j \in (i + 1)..(n + m) PROVE u[j] \notin off
        <5>1. j \in (i + 1)..n \/ j \in (n + 1)..(n + m)
          BY <1>1
        <5> QED BY <1>1, <3>1, <3>2, <5>1
      <4> QED BY <4>1, <4>2 DEF Holds
    <3>3. ASSUME x \in now, \A j \in 1..n : s[j] \notin off
          PROVE  Holds(u, n + m, on, off, x, now)
      <4>1. \A j \in 1..(n + m) : u[j] \notin off
        BY <1>1, <1>3, <3>1, <3>3
      <4> QED BY <3>3, <4>1 DEF Holds
    <3>4. Holds(s, n, on, off, x, now)
      BY <2>2 DEF n
    <3> QED BY <3>2, <3>3, <3>4 DEF Holds
  <2> QED BY <1>6, <2>1, <2>2 DEF Holds
<1> QED BY <1>5, <1>6 DEF u, n

(* Nor does what follows the first n entries count.                        *)
LEMMA HoldsPrefix ==
  ASSUME NEW S, NEW s \in Seq(S), NEW t \in Seq(S), NEW n \in 0..Len(s),
         NEW on, NEW off, NEW x, NEW now
  PROVE  Holds(s \o t, n, on, off, x, now) <=> Holds(s, n, on, off, x, now)
<1> DEFINE u == s \o t
<1>1. n \in Nat /\ \A i \in 1..n : u[i] = s[i]
  OBVIOUS
<1> HIDE DEF u
<1>2. \A i \in 1..n : \A j \in (i + 1)..n : u[j] = s[j]
  BY <1>1
<1>3. Holds(u, n, on, off, x, now) <=> Holds(s, n, on, off, x, now)
  BY <1>1, <1>2 DEF Holds
<1> QED BY <1>3 DEF u

(* The entries of a list that are in W: some of the list, all of those, in *)
(* a shorter list if there are others, and none twice if none was.         *)
LEMMA WhereKeeps ==
  ASSUME NEW S, NEW s \in Seq(S), NEW W
  PROVE  /\ Where(s, W) \in Seq(S) /\ Len(Where(s, W)) <= Len(s)
         /\ \A k \in DOMAIN Where(s, W) :
              Where(s, W)[k] \in W /\ \E i \in DOMAIN s : s[i] = Where(s, W)[k]
         /\ \A i \in DOMAIN s : s[i] \in W => \E k \in DOMAIN Where(s, W) : Where(s, W)[k] = s[i]
         /\ \A i \in DOMAIN s : s[i] \notin W => Len(Where(s, W)) < Len(s)
         /\ (\A i, j \in DOMAIN s : s[i] = s[j] => i = j)
              => \A k, l \in DOMAIN Where(s, W) : Where(s, W)[k] = Where(s, W)[l] => k = l
<1> DEFINE at == {i \in DOMAIN s : s[i] \in W}
           w == Sublist(s, at)
<1>1. Where(s, W) = w
  BY DEF Where
<1>2. at \in SUBSET DOMAIN s /\ \A i \in DOMAIN s : i \in at <=> s[i] \in W
  OBVIOUS
<1> HIDE DEF at
<1>3. /\ w \in Seq(S) /\ Len(w) <= Len(s) /\ Len(w) = Cardinality(at)
      /\ \A k \in DOMAIN w : Sorted(at)[k] \in at /\ w[k] = s[Sorted(at)[k]]
      /\ \A i \in at : \E k \in DOMAIN w : w[k] = s[i]
      /\ \A k, l \in DOMAIN w : Sorted(at)[k] = Sorted(at)[l] => k = l
  BY <1>2, SublistKeeps
<1> HIDE DEF w
<1>4. ASSUME NEW i \in DOMAIN s, s[i] \notin W PROVE Len(w) < Len(s)
  <2>1. DOMAIN s = 1..Len(s) /\ Len(s) \in Nat
    OBVIOUS
  <2>2. IsFiniteSet(1..Len(s)) /\ Cardinality(1..Len(s)) = Len(s)
    <3>1. \A m \in Nat : IsFiniteSet(1..m) /\ Cardinality(1..m) = m
      BY FS_Interval
    <3> QED BY <2>1, <3>1
  <2>3. i \notin at
    BY <1>2, <1>4
  <2>4. IsFiniteSet(at) /\ Cardinality(at) <= Len(s)
        /\ (Cardinality(at) = Len(s) => at = 1..Len(s))
    BY <1>2, <2>1, <2>2, FS_Subset
  <2>5. Cardinality(at) # Len(s)
    BY <1>4, <2>1, <2>3, <2>4
  <2>6. Cardinality(at) \in Nat
    BY <2>4, FS_CardinalityType
  <2> QED BY <1>3, <2>1, <2>4, <2>5, <2>6
<1>5. \A k \in DOMAIN w : w[k] \in W /\ \E i \in DOMAIN s : s[i] = w[k]
  BY <1>2, <1>3
<1>6. \A i \in DOMAIN s : s[i] \in W => \E k \in DOMAIN w : w[k] = s[i]
  BY <1>2, <1>3
<1>7. (\A i, j \in DOMAIN s : s[i] = s[j] => i = j)
        => \A k, l \in DOMAIN w : w[k] = w[l] => k = l
  <2> SUFFICES ASSUME \A i, j \in DOMAIN s : s[i] = s[j] => i = j,
                      NEW k \in DOMAIN w, NEW l \in DOMAIN w, w[k] = w[l]
               PROVE  k = l
    OBVIOUS
  <2>1. Sorted(at)[k] \in DOMAIN s /\ Sorted(at)[l] \in DOMAIN s
    BY <1>2, <1>3
  <2>2. s[Sorted(at)[k]] = s[Sorted(at)[l]]
    BY <1>3
  <2> QED BY <1>3, <2>1, <2>2
<1> QED BY <1>1, <1>3, <1>4, <1>5, <1>6, <1>7

(* A filter that every entry passes gives the list itself.                 *)
LEMMA WhereAll ==
  ASSUME NEW S, NEW s \in Seq(S), NEW W, \A i \in DOMAIN s : s[i] \in W
  PROVE  Where(s, W) = s
<1> DEFINE n == Len(s)
           at == {i \in DOMAIN s : s[i] \in W}
<1>1. n \in Nat /\ DOMAIN s = 1..n /\ at = 1..n
  OBVIOUS
<1>2. \A m \in Nat : Cardinality(1..m) = m
  BY FS_Interval
<1> HIDE DEF n, at
<1>3. ASSUME NEW x \in 1..n PROVE Rank(x, 1..n) = x
  <2>1. x - 1 \in Nat /\ {y \in 1..n : y < x} = 1..(x - 1)
    BY <1>1
  <2>2. Cardinality({y \in 1..n : y < x}) = x - 1
    BY <1>2, <2>1
  <2> QED BY <2>2 DEF Rank
<1>4. \A k \in 1..n : Sorted(1..n)[k] = k
  <2>1. \A k \in 1..n : (CHOOSE x \in 1..n : Rank(x, 1..n) = k) = k
    BY <1>3
  <2>2. Cardinality(1..n) = n
    BY <1>1, <1>2
  <2> QED BY <2>1, <2>2 DEF Sorted
<1>5. Where(s, W) = Sublist(s, 1..n)
  BY <1>1 DEF Where, at
<1>6. Sublist(s, 1..n) = [k \in 1..n |-> s[k]]
  <2>1. Cardinality(1..n) = n
    BY <1>1, <1>2
  <2>2. Sublist(s, 1..n) = [k \in 1..n |-> s[Sorted(1..n)[k]]]
    BY <2>1 DEF Sublist
  <2> QED BY <1>4, <2>2
<1>7. s = [k \in 1..n |-> s[k]]
  BY <1>1
<1> QED BY <1>5, <1>6, <1>7
=============================================================================
