--------------------------- MODULE DataOpsTheorems ---------------------------
(***************************************************************************)
(* What the other proofs use of the operators of DataOps.  Induction over  *)
(* the numbers is by the least element of a set of counterexamples.        *)
(***************************************************************************)
EXTENDS DataOps, SequencesExt, WellFoundedInduction, SequenceTheorems, FiniteSetTheorems, TLAPS

\* Every nonempty set of numbers has a least element.
LEMMA LeastNat ==
  ASSUME NEW S \in SUBSET Nat, S # {} PROVE \E n \in S : \A m \in S : n <= m
<1>1. IsWellFoundedOn(OpToRel(<, Nat), Nat)  BY NatLessThanWellFounded
<1>2. PICK n \in S : \A m \in S : ~(<<m, n>> \in OpToRel(<, Nat))  BY <1>1, WFMin
<1>3. ASSUME NEW m \in S, m < n PROVE FALSE
  <2>1. \A a, b \in Nat : a < b => <<a, b>> \in OpToRel(<, Nat)
    <3>1. TAKE a, b \in Nat
    <3>2. HAVE a < b
    <3>3. <<a, b>> \in Nat \X Nat /\ <<a, b>>[1] = a /\ <<a, b>>[2] = b  OBVIOUS
    <3>4. <<a, b>>[1] < <<a, b>>[2]  BY <3>2, <3>3
    <3> QED BY <3>4, <3>3, Zenon DEF OpToRel
  <2>2. m \in Nat /\ n \in Nat  OBVIOUS
  <2> QED BY <2>1, <2>2, <1>2, <1>3
<1> QED BY <1>3

\* A set that has 0 and with each number the next has them all.
LEMMA InductionOver ==
  ASSUME NEW S, 0 \in S, \A n \in Nat : n \in S => n + 1 \in S PROVE Nat \subseteq S
<1> DEFINE D == Nat \ S
<1>1. SUFFICES ASSUME D # {} PROVE FALSE  OBVIOUS
<1>2. PICK n \in D : \A m \in D : n <= m  BY LeastNat, <1>1
<1>3. n \in Nat /\ n # 0  OBVIOUS
<1>4. n - 1 \in Nat /\ n - 1 \notin D  BY <1>2, <1>3
<1>5. n - 1 \in S  BY <1>4
<1> QED BY <1>5, <1>4

\* SetToSeq lists every element of a finite set once.
LEMMA SetToSeqIs ==
  ASSUME NEW S, IsFiniteSet(S)
  PROVE  /\ SetToSeq(S) \in [1..Cardinality(S) -> S]
         /\ \A i, j \in 1..Cardinality(S) : SetToSeq(S)[i] = SetToSeq(S)[j] => i = j
         /\ \A x \in S : \E i \in 1..Cardinality(S) : SetToSeq(S)[i] = x
<1> DEFINE n == Cardinality(S)
<1>1. n \in Nat  BY FS_CardinalityType
<1>2. PICK f : f \in Bijection(1..n, S)  BY FS_CardinalityType, Zenon DEF ExistsBijection
<1>3. f \in [1..n -> S] /\ IsInjective(f)
  BY <1>2 DEF Bijection, Injection, IsInjective
<1> DEFINE q == SetToSeq(S)
<1>4. q \in [1..n -> S] /\ IsInjective(q)  BY <1>3 DEF SetToSeq
<1> HIDE DEF q
<1>5. \A i, j \in 1..n : q[i] = q[j] => i = j  BY <1>4 DEF IsInjective
<1>6. q \in Injection(1..n, S)  BY <1>4, <1>5 DEF Injection, IsInjective
<1>7. IsFiniteSet(1..n) /\ Cardinality(1..n) = n  BY <1>1, FS_Interval
<1>8. q \in Surjection(1..n, S)  BY <1>6, <1>7, FS_Injection DEF Bijection
<1>9. \A x \in S : \E i \in 1..n : q[i] = x  BY <1>8 DEF Surjection
<1> QED BY <1>4, <1>5, <1>9 DEF q
-----------------------------------------------------------------------------
(* Sums                                                                    *)

Ints(f, n) == \A i \in 1..n : f[i] \in Int
IsSum(s, f, n) == s = [i \in 0..n |-> IF i = 0 THEN 0 ELSE s[i - 1] + f[i]]

\* The function that sums is what its definition says.
LEMMA SumExists ==
  ASSUME NEW f, NEW n \in Nat PROVE \E s : IsSum(s, f, n)
<1> DEFINE S == {m \in Nat : \E s : IsSum(s, f, m)}
<1>1. 0 \in S
  <2>1. IsSum([i \in 0..0 |-> 0], f, 0)  BY DEF IsSum
  <2> QED BY <2>1
<1>2. ASSUME NEW m \in Nat, m \in S PROVE m + 1 \in S
  <2>1. PICK s : IsSum(s, f, m)  BY <1>2
  <2> DEFINE t == [i \in 0..m + 1 |-> IF i = m + 1 THEN s[m] + f[m + 1] ELSE s[i]]
  <2>2. \A i \in 0..m : t[i] = s[i]  OBVIOUS
  <2>3. \A i \in 0..m : s[i] = IF i = 0 THEN 0 ELSE s[i - 1] + f[i]  BY <2>1 DEF IsSum
  <2>4. \A i \in 0..m + 1 : t[i] = IF i = 0 THEN 0 ELSE t[i - 1] + f[i]
    <3>1. TAKE i \in 0..m + 1
    <3>2. CASE i = m + 1  BY <3>2, <2>2
    <3>3. CASE i \in 1..m
      <4>1. i - 1 \in 0..m  BY <3>3
      <4> QED BY <3>3, <4>1, <2>2, <2>3
    <3>4. CASE i = 0  BY <3>4, <2>2, <2>3
    <3> QED BY <3>2, <3>3, <3>4
  <2> HIDE DEF t
  <2>5. t = [i \in 0..m + 1 |-> t[i]]  BY DEF t
  <2>6. IsSum(t, f, m + 1)  BY <2>4, <2>5 DEF IsSum
  <2> QED BY <2>6
<1> HIDE DEF S
<1>3. Nat \subseteq S  BY <1>1, <1>2, InductionOver
<1>4. n \in S  BY <1>3
<1> QED BY <1>4 DEF S

\* Two such functions agree.
LEMMA SumUnique ==
  ASSUME NEW f, NEW m \in Nat, NEW n \in Nat, NEW s, NEW t, IsSum(s, f, m), IsSum(t, f, n), m <= n
  PROVE  \A i \in 0..m : s[i] = t[i]
<1> DEFINE S == {i \in Nat : i <= m => s[i] = t[i]}
<1>1. \A i \in 0..m : s[i] = IF i = 0 THEN 0 ELSE s[i - 1] + f[i]  BY DEF IsSum
<1>2. \A i \in 0..n : t[i] = IF i = 0 THEN 0 ELSE t[i - 1] + f[i]  BY DEF IsSum
<1>3. 0 \in S  BY <1>1, <1>2
<1>4. \A i \in Nat : i \in S => i + 1 \in S
  <2>1. TAKE i \in Nat
  <2>2. HAVE i \in S
  <2>3. CASE i + 1 <= m
    <3>1. i + 1 \in 0..m /\ i + 1 \in 0..n /\ i + 1 # 0 /\ (i + 1) - 1 = i /\ i <= m  BY <2>3
    <3>2. s[i + 1] = s[i] + f[i + 1] /\ t[i + 1] = t[i] + f[i + 1]  BY <3>1, <1>1, <1>2
    <3> QED BY <3>1, <3>2, <2>2
  <2> QED BY <2>3
<1> HIDE DEF S
<1>5. Nat \subseteq S  BY <1>3, <1>4, InductionOver
<1> QED BY <1>5 DEF S

\* A sum is the last value of that function.
LEMMA SumIs ==
  ASSUME NEW f, NEW n \in Nat, NEW s, IsSum(s, f, n) PROVE SumTo(f, n) = s[n]
<1> DEFINE h == CHOOSE t : IsSum(t, f, n)
<1>1. IsSum(h, f, n)  OBVIOUS
<1>2. SumTo(f, n) = h[n]  BY DEF SumTo, IsSum
<1> HIDE DEF h
<1>3. n \in 0..n OBVIOUS
<1> QED BY <1>1, <1>2, <1>3, SumUnique

\* The sum of nothing is 0.
LEMMA SumZero == ASSUME NEW f PROVE SumTo(f, 0) = 0
<1>1. IsSum([i \in 0..0 |-> 0], f, 0)  BY DEF IsSum
<1> QED BY <1>1, SumIs

\* Each element adds itself.
LEMMA SumNext ==
  ASSUME NEW f, NEW n \in Nat PROVE SumTo(f, n + 1) = SumTo(f, n) + f[n + 1]
<1>1. PICK s : IsSum(s, f, n)  BY SumExists
<1>2. n + 1 \in Nat OBVIOUS
<1>3. PICK t : IsSum(t, f, n + 1)  BY <1>2, SumExists
<1>4. s[n] = t[n]  BY <1>1, <1>3, <1>2, SumUnique
<1>5. t[n + 1] = t[n] + f[n + 1]  BY <1>3 DEF IsSum
<1> QED BY <1>1, <1>2, <1>3, <1>4, <1>5, SumIs

\* A sum of integers is one.
LEMMA SumInt == ASSUME NEW f, NEW n \in Nat, Ints(f, n) PROVE SumTo(f, n) \in Int
<1> DEFINE S == {m \in Nat : m <= n => SumTo(f, m) \in Int}
<1>1. 0 \in S  BY SumZero
<1>2. \A m \in Nat : m \in S => m + 1 \in S
  <2>1. TAKE m \in Nat
  <2>2. HAVE m \in S
  <2>3. CASE m + 1 <= n
    <3>1. m + 1 \in 1..n /\ m <= n  BY <2>3
    <3> QED BY <3>1, <2>2, SumNext DEF Ints
  <2> QED BY <2>3
<1> HIDE DEF S
<1>3. Nat \subseteq S  BY <1>1, <1>2, InductionOver
<1> QED BY <1>3 DEF S

\* Sums of elements that are each at most c times another are at most c
\* times the other sum.
LEMMA SumScaled ==
  ASSUME NEW f, NEW g, NEW n \in Nat, NEW c \in Nat, Ints(f, n), Ints(g, n),
         \A i \in 1..n : f[i] <= c * g[i]
  PROVE  SumTo(f, n) <= c * SumTo(g, n)
<1> DEFINE S == {m \in Nat : m <= n => SumTo(f, m) <= c * SumTo(g, m)}
<1>1. 0 \in S  BY SumZero
<1>2. \A m \in Nat : m \in S => m + 1 \in S
  <2>1. TAKE m \in Nat
  <2>2. HAVE m \in S
  <2>3. CASE m + 1 <= n
    <3>1. m + 1 \in 1..n /\ m <= n  BY <2>3
    <3>2. f[m + 1] \in Int /\ g[m + 1] \in Int /\ f[m + 1] <= c * g[m + 1]  BY <3>1 DEF Ints
    <3>3. Ints(f, m) /\ Ints(g, m)  BY <3>1 DEF Ints
    <3>4. SumTo(f, m) \in Int /\ SumTo(g, m) \in Int  BY <3>3, SumInt
    <3>5. SumTo(f, m + 1) = SumTo(f, m) + f[m + 1] /\ SumTo(g, m + 1) = SumTo(g, m) + g[m + 1]
      BY SumNext
    <3>6. SumTo(f, m) <= c * SumTo(g, m)  BY <3>1, <2>2
    <3>7. \A a, b, x, y \in Int : a <= c * x /\ b <= c * y => a + b <= c * (x + y)  OBVIOUS
    <3>8. SumTo(f, m) + f[m + 1] <= c * (SumTo(g, m) + g[m + 1])  BY <3>7, <3>2, <3>4, <3>6
    <3> QED BY <3>5, <3>8
  <2> QED BY <2>3
<1> HIDE DEF S
<1>3. Nat \subseteq S  BY <1>1, <1>2, InductionOver
<1> QED BY <1>3 DEF S

\* If one element grows by d, and no other changes, so does the sum.
LEMMA SumGrows ==
  ASSUME NEW f, NEW g, NEW n \in Nat, NEW k \in 1..n, NEW d \in Int, Ints(f, n),
         \A i \in 1..n : g[i] = f[i] + (IF i = k THEN d ELSE 0)
  PROVE  SumTo(g, n) = SumTo(f, n) + d
<1> DEFINE S == {m \in Nat : m <= n => SumTo(g, m) = SumTo(f, m) + (IF k <= m THEN d ELSE 0)}
<1>1. 0 \in S  BY SumZero
<1>2. \A m \in Nat : m \in S => m + 1 \in S
  <2>1. TAKE m \in Nat
  <2>2. HAVE m \in S
  <2>3. CASE m + 1 <= n
    <3>1. m + 1 \in 1..n /\ m <= n  BY <2>3
    <3>2. f[m + 1] \in Int /\ g[m + 1] = f[m + 1] + (IF m + 1 = k THEN d ELSE 0)  BY <3>1 DEF Ints
    <3>3. Ints(f, m)  BY <3>1 DEF Ints
    <3>4. SumTo(f, m) \in Int  BY <3>3, SumInt
    <3>5. SumTo(f, m + 1) = SumTo(f, m) + f[m + 1] /\ SumTo(g, m + 1) = SumTo(g, m) + g[m + 1]
      BY SumNext
    <3>6. SumTo(g, m) = SumTo(f, m) + (IF k <= m THEN d ELSE 0)  BY <3>1, <2>2
    <3> QED BY <3>2, <3>4, <3>5, <3>6
  <2> QED BY <2>3
<1> HIDE DEF S
<1>3. n \in S  BY <1>1, <1>2, InductionOver
<1> QED BY <1>3, SumInt DEF S

\* Sums of the same elements are the same, and elements that are 0 add nothing.
LEMMA SumSame ==
  ASSUME NEW f, NEW g, NEW m \in Nat, NEW n \in Nat, m <= n, Ints(f, m),
         \A i \in 1..n : g[i] = IF i <= m THEN f[i] ELSE 0
  PROVE  SumTo(g, n) = SumTo(f, m)
<1> DEFINE S == {k \in Nat : k <= n => SumTo(g, k) = SumTo(f, IF k <= m THEN k ELSE m)}
<1>1. 0 \in S  BY SumZero
<1>2. \A k \in Nat : k \in S => k + 1 \in S
  <2>1. TAKE k \in Nat
  <2>2. HAVE k \in S
  <2>3. CASE k + 1 <= n
    <3>1. k + 1 \in 1..n /\ k <= n  BY <2>3
    <3>2. SumTo(g, k + 1) = SumTo(g, k) + g[k + 1]  BY SumNext
    <3>3. CASE k + 1 <= m  BY <3>1, <3>2, <3>3, <2>2, SumNext
    <3>4. CASE k + 1 > m
      <4>1. g[k + 1] = 0 /\ SumTo(g, k) = SumTo(f, m)
        <5>1. CASE k = m  BY <5>1, <3>1, <3>4, <2>2
        <5>2. CASE k > m  BY <5>2, <3>1, <3>4, <2>2
        <5> QED BY <5>1, <5>2, <3>4
      <4> QED BY <4>1, <3>1, <3>2, <3>4, SumInt
    <3> QED BY <3>3, <3>4
  <2> QED BY <2>3
<1> HIDE DEF S
<1>3. n \in S  BY <1>1, <1>2, InductionOver
<1>4. CASE m = n  BY <1>3, <1>4 DEF S
<1>5. CASE m < n  BY <1>3, <1>5 DEF S
<1> QED BY <1>4, <1>5
-----------------------------------------------------------------------------
(* Selections                                                              *)

WithNext(r, q, T, i) == IF q[i] \in T THEN Append(r, q[i]) ELSE r
IsKept(s, q, T, n) == s = [i \in 0..n |-> IF i = 0 THEN <<>> ELSE WithNext(s[i - 1], q, T, i)]

\* The function that keeps is what its definition says.
LEMMA KeptExists ==
  ASSUME NEW q, NEW T, NEW n \in Nat PROVE \E s : IsKept(s, q, T, n)
<1> DEFINE S == {m \in Nat : \E s : IsKept(s, q, T, m)}
<1>1. 0 \in S
  <2>1. IsKept([i \in 0..0 |-> <<>>], q, T, 0)  BY DEF IsKept
  <2> QED BY <2>1
<1>2. ASSUME NEW m \in Nat, m \in S PROVE m + 1 \in S
  <2>1. PICK s : IsKept(s, q, T, m)  BY <1>2
  <2> DEFINE t == [i \in 0..m + 1 |-> IF i = m + 1 THEN WithNext(s[m], q, T, m + 1) ELSE s[i]]
  <2>2. \A i \in 0..m : t[i] = s[i]  OBVIOUS
  <2>3. \A i \in 0..m : s[i] = IF i = 0 THEN <<>> ELSE WithNext(s[i - 1], q, T, i)  BY <2>1 DEF IsKept
  <2>4. \A i \in 0..m + 1 : t[i] = IF i = 0 THEN <<>> ELSE WithNext(t[i - 1], q, T, i)
    <3>1. TAKE i \in 0..m + 1
    <3>2. CASE i = m + 1  BY <3>2, <2>2
    <3>3. CASE i \in 1..m
      <4>1. i - 1 \in 0..m  BY <3>3
      <4> QED BY <3>3, <4>1, <2>2, <2>3
    <3>4. CASE i = 0  BY <3>4, <2>2, <2>3
    <3> QED BY <3>2, <3>3, <3>4
  <2> HIDE DEF t
  <2>5. t = [i \in 0..m + 1 |-> t[i]]  BY DEF t
  <2>6. IsKept(t, q, T, m + 1)  BY <2>4, <2>5 DEF IsKept
  <2> QED BY <2>6
<1> HIDE DEF S
<1>3. Nat \subseteq S  BY <1>1, <1>2, InductionOver
<1>4. n \in S  BY <1>3
<1> QED BY <1>4 DEF S

\* Two such functions agree.
LEMMA KeptUnique ==
  ASSUME NEW q, NEW T, NEW m \in Nat, NEW n \in Nat, NEW s, NEW t, IsKept(s, q, T, m), IsKept(t, q, T, n), m <= n
  PROVE  \A i \in 0..m : s[i] = t[i]
<1> DEFINE S == {i \in Nat : i <= m => s[i] = t[i]}
<1>1. \A i \in 0..m : s[i] = IF i = 0 THEN <<>> ELSE WithNext(s[i - 1], q, T, i)  BY DEF IsKept
<1>2. \A i \in 0..n : t[i] = IF i = 0 THEN <<>> ELSE WithNext(t[i - 1], q, T, i)  BY DEF IsKept
<1>3. 0 \in S  BY <1>1, <1>2
<1>4. \A i \in Nat : i \in S => i + 1 \in S
  <2>1. TAKE i \in Nat
  <2>2. HAVE i \in S
  <2>3. CASE i + 1 <= m
    <3>1. i + 1 \in 0..m /\ i + 1 \in 0..n /\ i + 1 # 0 /\ (i + 1) - 1 = i /\ i <= m  BY <2>3
    <3>2. s[i + 1] = WithNext(s[i], q, T, i + 1) /\ t[i + 1] = WithNext(t[i], q, T, i + 1)  BY <3>1, <1>1, <1>2
    <3> QED BY <3>1, <3>2, <2>2
  <2> QED BY <2>3
<1> HIDE DEF S
<1>5. Nat \subseteq S  BY <1>3, <1>4, InductionOver
<1> QED BY <1>5 DEF S

\* What is kept is the last value of that function.
LEMMA KeptIs ==
  ASSUME NEW q, NEW T, NEW n \in Nat, NEW s, IsKept(s, q, T, n) PROVE KeptTo(q, T, n) = s[n]
<1> DEFINE h == CHOOSE t : IsKept(t, q, T, n)
<1>1. IsKept(h, q, T, n)  OBVIOUS
<1>2. KeptTo(q, T, n) = h[n]  BY DEF KeptTo, IsKept, WithNext
<1> HIDE DEF h
<1>3. n \in 0..n OBVIOUS
<1> QED BY <1>1, <1>2, <1>3, KeptUnique

\* Nothing is kept of nothing.
LEMMA KeptZero == ASSUME NEW q, NEW T PROVE KeptTo(q, T, 0) = <<>>
<1>1. IsKept([i \in 0..0 |-> <<>>], q, T, 0)  BY DEF IsKept
<1> QED BY <1>1, KeptIs

\* Each element of T is appended.
LEMMA KeptNext ==
  ASSUME NEW q, NEW T, NEW n \in Nat
  PROVE  KeptTo(q, T, n + 1) = WithNext(KeptTo(q, T, n), q, T, n + 1)
<1>1. PICK s : IsKept(s, q, T, n)  BY KeptExists
<1>2. n + 1 \in Nat OBVIOUS
<1>3. PICK t : IsKept(t, q, T, n + 1)  BY <1>2, KeptExists
<1>4. s[n] = t[n]  BY <1>1, <1>3, <1>2, KeptUnique
<1>5. t[n + 1] = WithNext(t[n], q, T, n + 1)  BY <1>3 DEF IsKept
<1> QED BY <1>1, <1>2, <1>3, <1>4, <1>5, KeptIs

\* The places of the elements that are kept increase and miss no element of T.
IsPlaces(e, r, q, T, n) ==
  /\ e \in [1..Len(r) -> 1..n]
  /\ \A i, j \in 1..Len(r) : i < j => e[i] < e[j]
  /\ \A i \in 1..Len(r) : r[i] = q[e[i]] /\ r[i] \in T
  /\ \A i \in 1..n : q[i] \in T => \E j \in 1..Len(r) : e[j] = i

\* What is kept of the first n elements has such places.
LEMMA KeptPlaces ==
  ASSUME NEW S, NEW q \in Seq(S), NEW T, NEW n \in 0..Len(q)
  PROVE  /\ KeptTo(q, T, n) \in Seq(S)
         /\ Len(KeptTo(q, T, n)) <= n
         /\ \E e : IsPlaces(e, KeptTo(q, T, n), q, T, n)
<1> DEFINE k(m) == KeptTo(q, T, m)
           A == {m \in Nat : m <= Len(q) =>
                   k(m) \in Seq(S) /\ Len(k(m)) <= m /\ \E e : IsPlaces(e, k(m), q, T, m)}
<1>1. 0 \in A
  <2>1. k(0) = <<>>  BY KeptZero
  <2>2. IsPlaces([i \in 1..0 |-> 0], <<>>, q, T, 0)  BY DEF IsPlaces
  <2>3. <<>> \in Seq(S) /\ Len(<<>>) <= 0  OBVIOUS
  <2>4. k(0) \in Seq(S) /\ Len(k(0)) <= 0 /\ \E e : IsPlaces(e, k(0), q, T, 0)
    BY <2>1, <2>2, <2>3
  <2> HIDE DEF k
  <2> QED BY <2>4
<1>2. ASSUME NEW m \in Nat, m \in A PROVE m + 1 \in A
  <2>1. SUFFICES ASSUME m + 1 <= Len(q)
                 PROVE  /\ k(m + 1) \in Seq(S) /\ Len(k(m + 1)) <= m + 1
                        /\ \E e : IsPlaces(e, k(m + 1), q, T, m + 1)
    OBVIOUS
  <2> DEFINE r == k(m)
  <2>2. r \in Seq(S) /\ Len(r) <= m /\ \E e : IsPlaces(e, r, q, T, m)  BY <1>2, <2>1
  <2>3. PICK e : IsPlaces(e, r, q, T, m)  BY <2>2
  <2>4. k(m + 1) = WithNext(r, q, T, m + 1)  BY KeptNext
  <2>5. q[m + 1] \in S  BY <2>1
  <2> HIDE DEF r, k
  <2>6. CASE q[m + 1] \in T
    <3> DEFINE x == q[m + 1]
               t == Append(r, x)
               d == [i \in 1..Len(t) |-> IF i = Len(t) THEN m + 1 ELSE e[i]]
    <3>1. k(m + 1) = t  BY <2>4, <2>6 DEF WithNext
    <3>2. /\ t \in Seq(S) /\ Len(t) = Len(r) + 1 /\ Len(r) \in Nat /\ t[Len(t)] = x
          /\ \A i \in 1..Len(r) : t[i] = r[i]
      BY <2>2, <2>5
    <3> HIDE DEF t
    <3>3. \A i \in 1..Len(t) : i = Len(t) \/ i \in 1..Len(r)  BY <3>2
    <3>4. d \in [1..Len(t) -> 1..m + 1]
      <4>1. \A i \in 1..Len(r) : e[i] \in 1..m + 1  BY <2>3 DEF IsPlaces
      <4>2. m + 1 \in 1..m + 1  OBVIOUS
      <4> QED BY <3>3, <4>1, <4>2
    <3>5. \A i \in 1..Len(r) : d[i] = e[i]  BY <3>2
    <3>6. d[Len(t)] = m + 1  BY <3>2
    <3> HIDE DEF d
    <3>7. \A i, j \in 1..Len(t) : i < j => d[i] < d[j]
      <4>1. TAKE i, j \in 1..Len(t)
      <4>2. HAVE i < j
      <4>3. i \in 1..Len(r) /\ e[i] \in 1..m  BY <4>2, <3>2, <2>3, SMTT(30) DEF IsPlaces
      <4>4. CASE j = Len(t)  BY <4>3, <4>4, <3>5, <3>6
      <4>5. CASE j \in 1..Len(r)  BY <4>2, <4>3, <4>5, <3>5, <2>3 DEF IsPlaces
      <4> QED BY <4>4, <4>5, <3>3
    <3>8. \A i \in 1..Len(t) : t[i] = q[d[i]] /\ t[i] \in T
      <4>1. TAKE i \in 1..Len(t)
      <4>2. CASE i = Len(t)  BY <4>2, <3>2, <3>6, <2>6
      <4>3. CASE i \in 1..Len(r)  BY <4>3, <3>2, <3>5, <2>3 DEF IsPlaces
      <4> QED BY <4>2, <4>3, <3>3
    <3>9. \A i \in 1..m + 1 : q[i] \in T => \E j \in 1..Len(t) : d[j] = i
      <4>1. TAKE i \in 1..m + 1
      <4>2. HAVE q[i] \in T
      <4>3. CASE i = m + 1
        <5>1. Len(t) \in 1..Len(t)  BY <3>2
        <5> QED BY <4>3, <5>1, <3>6
      <4>4. CASE i \in 1..m
        <5>1. PICK j \in 1..Len(r) : e[j] = i  BY <4>2, <4>4, <2>3 DEF IsPlaces
        <5>2. j \in 1..Len(t)  BY <3>2
        <5> QED BY <5>1, <5>2, <3>5
      <4> QED BY <4>3, <4>4
    <3>10. IsPlaces(d, t, q, T, m + 1)  BY <3>4, <3>7, <3>8, <3>9 DEF IsPlaces
    <3> QED BY <3>1, <3>2, <3>10, <2>2
  <2>7. CASE q[m + 1] \notin T
    <3>1. k(m + 1) = r  BY <2>4, <2>7 DEF WithNext
    <3>2. IsPlaces(e, r, q, T, m + 1)
      <4>1. \A i \in 1..m + 1 : q[i] \in T => i \in 1..m  BY <2>7
      <4>2. e \in [1..Len(r) -> 1..m + 1]  BY <2>3 DEF IsPlaces
      <4> QED BY <4>1, <4>2, <2>3 DEF IsPlaces
    <3> QED BY <3>1, <3>2, <2>2
  <2> QED BY <2>6, <2>7
<1> HIDE DEF A
<1>3. n \in A  BY <1>1, <1>2, InductionOver
<1> QED BY <1>3 DEF A

\* What is kept of a sequence has such places.
LEMMA KeptAll ==
  ASSUME NEW S, NEW q \in Seq(S), NEW T
  PROVE  /\ Kept(q, T) \in Seq(S)
         /\ Len(Kept(q, T)) <= Len(q)
         /\ \E e : IsPlaces(e, Kept(q, T), q, T, Len(q))
<1>1. Len(q) \in 0..Len(q)  OBVIOUS
<1> QED BY <1>1, KeptPlaces DEF Kept

\* What is kept is what was there and is in T.
LEMMA KeptElements ==
  ASSUME NEW S, NEW q \in Seq(S), NEW T
  PROVE  /\ Kept(q, T) \in Seq(S) /\ Len(Kept(q, T)) <= Len(q)
         /\ \A i \in DOMAIN Kept(q, T) : \E j \in DOMAIN q : Kept(q, T)[i] = q[j] /\ q[j] \in T
         /\ \A j \in DOMAIN q : q[j] \in T => \E i \in DOMAIN Kept(q, T) : Kept(q, T)[i] = q[j]
<1> DEFINE r == Kept(q, T)
<1>1. r \in Seq(S) /\ Len(r) <= Len(q) /\ \E e : IsPlaces(e, r, q, T, Len(q))  BY KeptAll
<1>2. PICK e : IsPlaces(e, r, q, T, Len(q))  BY <1>1
<1> HIDE DEF r
<1>3. DOMAIN r = 1..Len(r) /\ DOMAIN q = 1..Len(q)  BY <1>1
<1>4. \A i \in DOMAIN r : \E j \in DOMAIN q : r[i] = q[j] /\ q[j] \in T
  <2>1. TAKE i \in DOMAIN r
  <2>2. e[i] \in DOMAIN q /\ r[i] = q[e[i]] /\ r[i] \in T  BY <1>2, <1>3 DEF IsPlaces
  <2> QED BY <2>2
<1>5. \A j \in DOMAIN q : q[j] \in T => \E i \in DOMAIN r : r[i] = q[j]
  <2>1. TAKE j \in DOMAIN q
  <2>2. HAVE q[j] \in T
  <2>3. PICK i \in 1..Len(r) : e[i] = j  BY <2>2, <1>2, <1>3 DEF IsPlaces
  <2>4. r[i] = q[j]  BY <2>3, <1>2 DEF IsPlaces
  <2> QED BY <2>3, <2>4, <1>3
<1> QED BY <1>1, <1>4, <1>5 DEF r

\* What is kept depends on nothing behind it.
LEMMA KeptPrefix ==
  ASSUME NEW S, NEW q \in Seq(S), NEW p \in Seq(S), NEW T, NEW n \in 0..Len(q), n <= Len(p),
         \A i \in 1..n : p[i] = q[i]
  PROVE  KeptTo(p, T, n) = KeptTo(q, T, n)
<1> DEFINE A == {m \in Nat : m <= n => KeptTo(p, T, m) = KeptTo(q, T, m)}
<1>1. 0 \in A  BY KeptZero
<1>2. ASSUME NEW m \in Nat, m \in A PROVE m + 1 \in A
  <2>1. CASE m + 1 <= n
    <3>1. m + 1 \in 1..n /\ m <= n  BY <2>1
    <3>2. KeptTo(p, T, m + 1) = WithNext(KeptTo(p, T, m), p, T, m + 1)  BY KeptNext
    <3>3. KeptTo(q, T, m + 1) = WithNext(KeptTo(q, T, m), q, T, m + 1)  BY KeptNext
    <3> QED BY <3>1, <3>2, <3>3, <1>2 DEF WithNext
  <2> QED BY <2>1
<1> HIDE DEF A
<1>3. n \in A  BY <1>1, <1>2, InductionOver
<1> QED BY <1>3 DEF A

\* An element of T that is appended is kept last, one that is not is not kept.
LEMMA KeptAppend ==
  ASSUME NEW S, NEW q \in Seq(S), NEW x \in S, NEW T
  PROVE  Kept(Append(q, x), T) = IF x \in T THEN Append(Kept(q, T), x) ELSE Kept(q, T)
<1> DEFINE p == Append(q, x)
           n == Len(q)
<1>1. /\ p \in Seq(S) /\ Len(p) = n + 1 /\ n \in Nat /\ p[n + 1] = x
      /\ \A i \in 1..n : p[i] = q[i]
  OBVIOUS
<1> HIDE DEF p
<1>2. KeptTo(p, T, n + 1) = WithNext(KeptTo(p, T, n), p, T, n + 1)  BY <1>1, KeptNext
<1>3. KeptTo(p, T, n) = KeptTo(q, T, n)  BY <1>1, KeptPrefix
<1>4. Kept(p, T) = KeptTo(p, T, n + 1)  BY <1>1 DEF Kept
<1>5. Kept(q, T) = KeptTo(q, T, n)  BY DEF Kept
<1>6. Kept(p, T) = IF x \in T THEN Append(Kept(q, T), x) ELSE Kept(q, T)
  BY <1>1, <1>2, <1>3, <1>4, <1>5 DEF WithNext
<1> QED BY <1>6 DEF p

\* Nothing is kept of nothing.
LEMMA KeptNone == ASSUME NEW T PROVE Kept(<<>>, T) = <<>>
<1>1. Len(<<>>) = 0  OBVIOUS
<1> QED BY <1>1, KeptZero DEF Kept
-----------------------------------------------------------------------------
(* Removal                                                                 *)

\* The elements behind the one that is removed move up.
LEMMA RemoveAtIs ==
  ASSUME NEW S, NEW q \in Seq(S), NEW i \in 1..Len(q)
  PROVE  /\ RemoveAt(q, i) \in Seq(S) /\ Len(RemoveAt(q, i)) = Len(q) - 1
         /\ \A j \in 1..Len(q) - 1 : RemoveAt(q, i)[j] = IF j < i THEN q[j] ELSE q[j + 1]
<1> DEFINE a == SubSeq(q, 1, i - 1)
           b == SubSeq(q, i + 1, Len(q))
<1>1. a \in Seq(S) /\ Len(a) = i - 1 /\ \A j \in 1..i - 1 : a[j] = q[j]
  OBVIOUS
<1>2. b \in Seq(S) /\ Len(b) = Len(q) - i /\ \A j \in 1..Len(q) - i : b[j] = q[i + j]
  OBVIOUS
<1>3. RemoveAt(q, i) = a \o b  BY DEF RemoveAt
<1> HIDE DEF a, b
<1>4. a \o b \in Seq(S) /\ Len(a \o b) = Len(q) - 1
  <2>1. a \o b \in Seq(S) /\ Len(a \o b) = Len(a) + Len(b)  BY <1>1, <1>2, ConcatProperties
  <2>2. i \in Nat /\ Len(q) \in Nat  OBVIOUS
  <2>3. (i - 1) + (Len(q) - i) = Len(q) - 1  BY <2>2
  <2> QED BY <1>1, <1>2, <2>1, <2>3
<1>5. ASSUME NEW j \in 1..Len(q) - 1
      PROVE  (a \o b)[j] = IF j < i THEN q[j] ELSE q[j + 1]
  <2>1. CASE j < i  BY <2>1, <1>1, <1>2
  <2>2. CASE j >= i
    <3>1. (a \o b)[j] = b[j - (i - 1)]  BY <2>2, <1>1, <1>2
    <3>2. j - (i - 1) \in 1..Len(q) - i /\ i + (j - (i - 1)) = j + 1  BY <2>2
    <3> QED BY <2>2, <3>1, <3>2, <1>2
  <2>3. j < i \/ j >= i  OBVIOUS
  <2> QED BY <2>1, <2>2, <2>3
<1> QED BY <1>3, <1>4, <1>5

\* What is left after a removal is a sequence.
LEMMA RemoveFirstSeq ==
  ASSUME NEW S, NEW q \in Seq(S), NEW e
  PROVE  RemoveFirst(q, e) \in Seq(S)
<1>1. CASE \E i \in 1..Len(q) : q[i] = e
  <2> DEFINE I == {i \in 1..Len(q) : q[i] = e}
  <2>1. RemoveFirst(q, e) = RemoveAt(q, Min(I))  BY <1>1 DEF RemoveFirst, SelectInSeq
  <2>2. I \in SUBSET Nat /\ I # {}  BY <1>1
  <2>3. \E n \in I : \A m \in I : n <= m  BY <2>2, LeastNat
  <2>4. Min(I) \in I  BY <2>3 DEF Min
  <2> QED BY <2>1, <2>4, RemoveAtIs
<1>2. CASE ~ \E i \in 1..Len(q) : q[i] = e  BY <1>2 DEF RemoveFirst
<1> QED BY <1>1, <1>2
-----------------------------------------------------------------------------
(* Sequences in which nothing occurs twice                                 *)

In(q)   == {q[i] : i \in DOMAIN q}
Once(q) == \A i, j \in DOMAIN q : q[i] = q[j] => i = j

\* Where an element is in a sequence from which one was taken, or to which one
\* was added.
LEMMA AppendedIs ==
  ASSUME NEW S, NEW q \in Seq(S), NEW x \in S
  PROVE  /\ Append(q, x) \in Seq(S) /\ DOMAIN Append(q, x) = 1..Len(q) + 1
         /\ DOMAIN q = 1..Len(q) /\ Len(q) \in Nat /\ Append(q, x)[Len(q) + 1] = x
         /\ \A i \in 1..Len(q) : Append(q, x)[i] = q[i]
OBVIOUS

\* What is behind the head
LEMMA TailIs ==
  ASSUME NEW S, NEW q \in Seq(S), q # <<>>
  PROVE  /\ Tail(q) \in Seq(S) /\ Head(q) = q[1] /\ Head(q) \in S /\ Len(q) \in Nat \ {0}
         /\ DOMAIN q = 1..Len(q) /\ DOMAIN Tail(q) = 1..Len(q) - 1
         /\ \A i \in 1..Len(q) - 1 : Tail(q)[i] = q[i + 1]
OBVIOUS

\* A sequence grows by an element that it does not have.
LEMMA OnceAppended ==
  ASSUME NEW S, NEW q \in Seq(S), NEW x \in S, Once(q), x \notin In(q)
  PROVE  Once(Append(q, x)) /\ In(Append(q, x)) = In(q) \cup {x} /\ Append(q, x) \in Seq(S)
<1> DEFINE p == Append(q, x)
<1>1. /\ p \in Seq(S) /\ DOMAIN p = 1..Len(q) + 1
      /\ DOMAIN q = 1..Len(q) /\ Len(q) \in Nat /\ p[Len(q) + 1] = x
      /\ \A i \in 1..Len(q) : p[i] = q[i]
  BY AppendedIs
<1> HIDE DEF p
<1>2. \A i \in DOMAIN p : i \in DOMAIN q \/ i = Len(q) + 1
  BY <1>1
<1>3. Once(p)
  BY <1>1, <1>2 DEF Once, In
<1>4. In(p) = In(q) \cup {x}
  <2>1. Len(q) + 1 \in DOMAIN p
    BY <1>1
  <2>2. \A i \in DOMAIN q : i \in DOMAIN p /\ p[i] = q[i]
    BY <1>1
  <2> QED
    BY <1>1, <1>2, <2>1, <2>2 DEF In
<1> QED
  BY <1>1, <1>3, <1>4 DEF p

\* A sequence loses its head.
LEMMA OnceTail ==
  ASSUME NEW S, NEW q \in Seq(S), q # <<>>, Once(q)
  PROVE  Once(Tail(q)) /\ In(Tail(q)) = In(q) \ {Head(q)} /\ Tail(q) \in Seq(S) /\ Head(q) \in In(q)
<1> DEFINE p == Tail(q)
<1>1. /\ p \in Seq(S) /\ Head(q) = q[1] /\ Head(q) \in S /\ Len(q) \in Nat \ {0}
      /\ DOMAIN q = 1..Len(q) /\ DOMAIN p = 1..Len(q) - 1
      /\ \A i \in 1..Len(q) - 1 : p[i] = q[i + 1]
  BY TailIs
<1> HIDE DEF p
<1>2. \A i \in DOMAIN p : i + 1 \in DOMAIN q /\ p[i] = q[i + 1] /\ i + 1 # 1
  BY <1>1
<1>3. 1 \in DOMAIN q /\ \A i \in DOMAIN q : i # 1 => i - 1 \in DOMAIN p /\ p[i - 1] = q[i]
  BY <1>1
<1>4. Once(p)
  <2>1. SUFFICES ASSUME NEW i \in DOMAIN p, NEW j \in DOMAIN p, p[i] = p[j] PROVE i = j
    BY DEF Once
  <2>2. i + 1 = j + 1 /\ i \in Int /\ j \in Int
    BY <1>1, <1>2, <2>1 DEF Once
  <2> QED
    BY <2>2
<1>5. In(p) \subseteq In(q) \ {Head(q)}
  BY <1>1, <1>2, <1>3, SMTT(30) DEF In, Once
<1>6. In(q) \ {Head(q)} \subseteq In(p)
  BY <1>1, <1>3 DEF In
<1> QED
  BY <1>1, <1>3, <1>4, <1>5, <1>6 DEF p, In

\* Nor in what is kept of one
LEMMA OnceKept ==
  ASSUME NEW S, NEW q \in Seq(S), NEW T, Once(q)
  PROVE  /\ Kept(q, T) \in Seq(S) /\ Once(Kept(q, T)) /\ In(Kept(q, T)) = In(q) \cap T
<1> DEFINE r == Kept(q, T)
<1>1. r \in Seq(S) /\ \E e : IsPlaces(e, r, q, T, Len(q))
  BY KeptAll
<1>2. In(r) = In(q) \cap T
  BY KeptElements DEF In
<1> HIDE DEF r
<1>3. PICK e : IsPlaces(e, r, q, T, Len(q))
  BY <1>1
<1>4. ASSUME NEW i \in DOMAIN r, NEW j \in DOMAIN r, r[i] = r[j]
      PROVE  i = j
  <2>1. DOMAIN r = 1..Len(r) /\ Len(r) \in Nat /\ DOMAIN q = 1..Len(q)
    BY <1>1
  <2>2. e[i] \in DOMAIN q /\ e[j] \in DOMAIN q /\ r[i] = q[e[i]] /\ r[j] = q[e[j]]
    BY <1>3, <2>1 DEF IsPlaces
  <2>3. e[i] = e[j]
    BY <1>4, <2>2 DEF Once
  <2>4. \A a, b \in 1..Len(r) : a < b => e[a] < e[b]
    BY <1>3 DEF IsPlaces
  <2>5. e[i] \in Int /\ e[j] \in Int
    BY <2>1, <2>2
  <2> QED
    BY <2>1, <2>3, <2>4, <2>5
<1> QED
  BY <1>1, <1>2, <1>4 DEF Once, r

\* Nor when the first of its kind is taken out
LEMMA OnceRemoved ==
  ASSUME NEW S, NEW q \in Seq(S), NEW x, Once(q)
  PROVE  /\ RemoveFirst(q, x) \in Seq(S) /\ Once(RemoveFirst(q, x))
         /\ In(RemoveFirst(q, x)) = In(q) \ {x}
<1>1. CASE \E i \in 1..Len(q) : q[i] = x
  <2> DEFINE I == {i \in 1..Len(q) : q[i] = x}
             m == Min(I)
             r == RemoveAt(q, m)
             from(i) == IF i < m THEN i ELSE i + 1
  <2>1. RemoveFirst(q, x) = r
    BY <1>1 DEF RemoveFirst, SelectInSeq
  <2>2. I \in SUBSET Nat /\ I # {}
    BY <1>1
  <2>3. \E n \in I : \A k \in I : n <= k
    BY <2>2, LeastNat
  <2>4. m \in I
    BY <2>3 DEF Min
  <2> HIDE DEF m
  <2>5. m \in 1..Len(q) /\ q[m] = x /\ Len(q) \in Nat /\ DOMAIN q = 1..Len(q)
    BY <2>4
  <2>6. /\ r \in Seq(S) /\ Len(r) = Len(q) - 1
        /\ \A j \in 1..Len(q) - 1 : r[j] = IF j < m THEN q[j] ELSE q[j + 1]
    BY <2>5, RemoveAtIs
  <2> HIDE DEF r
  <2>7. DOMAIN r = 1..Len(q) - 1
    BY <2>5, <2>6
  <2>8. \A i \in DOMAIN r : from(i) \in DOMAIN q \ {m} /\ r[i] = q[from(i)]
    BY <2>5, <2>6, <2>7
  <2>9. \A i, j \in DOMAIN r : from(i) = from(j) => i = j
    BY <2>5, <2>7
  <2>10. ASSUME NEW j \in DOMAIN q, j # m PROVE \E i \in DOMAIN r : r[i] = q[j]
    <3>1. CASE j < m
      BY <2>5, <2>6, <2>7, <3>1
    <3>2. CASE j > m
      <4>1. j - 1 \in DOMAIN r /\ ~(j - 1 < m) /\ (j - 1) + 1 = j
        BY <2>5, <2>7, <3>2
      <4> QED
        BY <2>6, <2>7, <4>1
    <3> QED
      BY <2>5, <2>10, <3>1, <3>2
  <2> HIDE DEF from
  <2>11. Once(r)
    BY <2>8, <2>9 DEF Once
  <2>12. In(r) \subseteq In(q) \ {x}
    BY <2>5, <2>8 DEF Once, In
  <2>13. In(q) \ {x} \subseteq In(r)
    BY <2>5, <2>10 DEF In
  <2> QED
    BY <2>1, <2>6, <2>11, <2>12, <2>13
<1>2. CASE ~ \E i \in 1..Len(q) : q[i] = x
  <2>1. RemoveFirst(q, x) = q /\ DOMAIN q = 1..Len(q)
    BY <1>2 DEF RemoveFirst
  <2> QED
    BY <1>2, <2>1 DEF In
<1> QED
  BY <1>1, <1>2

\* Nor when a new one is put anywhere
LEMMA OnceInserted ==
  ASSUME NEW S, NEW q \in Seq(S), NEW x \in S, NEW k \in 1..Len(q) + 1, Once(q), x \notin In(q)
  PROVE  /\ InsertAt(q, k, x) \in Seq(S) /\ Once(InsertAt(q, k, x))
         /\ In(InsertAt(q, k, x)) = In(q) \cup {x}
<1> DEFINE a == SubSeq(q, 1, k - 1)
           b == SubSeq(q, k, Len(q))
           r == a \o <<x>> \o b
           from(i) == IF i < k THEN i ELSE i - 1
<1>1. Len(q) \in Nat /\ DOMAIN q = 1..Len(q) /\ k \in Int /\ 1 <= k /\ k <= Len(q) + 1
  OBVIOUS
<1>2. a \in Seq(S) /\ Len(a) = k - 1 /\ \A j \in 1..k - 1 : a[j] = q[j]
  BY <1>1
<1>3. b \in Seq(S) /\ Len(b) = Len(q) - k + 1 /\ \A j \in 1..Len(q) - k + 1 : b[j] = q[k + j - 1]
  BY <1>1
<1> DEFINE c == a \o <<x>>
<1> HIDE DEF a, b
<1>4. c \in Seq(S) /\ Len(c) = k /\ c[k] = x /\ \A j \in 1..k - 1 : c[j] = q[j]
  BY <1>1, <1>2, SMTT(30)
<1>5. r = c \o b
  OBVIOUS
<1> HIDE DEF c, r
<1>6. r \in Seq(S) /\ Len(r) = Len(q) + 1 /\ \A j \in 1..k : r[j] = c[j]
  <2>1. /\ c \o b \in Seq(S) /\ Len(c \o b) = Len(c) + Len(b)
        /\ \A j \in 1..Len(c) + Len(b) : (c \o b)[j] = IF j <= Len(c) THEN c[j] ELSE b[j - Len(c)]
    BY <1>3, <1>4, ConcatProperties
  <2>2. Len(c) + Len(b) = Len(q) + 1
    BY <1>1, <1>3, <1>4
  <2>3. r \in Seq(S) /\ Len(r) = Len(q) + 1
    BY <1>5, <2>1, <2>2
  <2>4. ASSUME NEW j \in 1..k PROVE r[j] = c[j]
    <3>1. j \in 1..Len(c) + Len(b) /\ j <= Len(c)
      BY <1>1, <1>4, <2>2
    <3> QED
      BY <1>5, <2>1, <3>1
  <2> QED
    BY <2>3, <2>4
<1>7. \A j \in k + 1..Len(q) + 1 : r[j] = q[j - 1]
  <2>1. TAKE j \in k + 1..Len(q) + 1
  <2>2. j - k \in 1..Len(b) /\ k + (j - k) = j /\ k + (j - k) - 1 = j - 1
    BY <1>1, <1>3
  <2>3. r[k + (j - k)] = b[j - k]
    BY <1>3, <1>4, <1>5, <2>2
  <2> QED
    BY <1>3, <2>2, <2>3
<1>8. DOMAIN r = 1..Len(q) + 1 /\ k \in DOMAIN r /\ r[k] = x
  BY <1>1, <1>4, <1>6
<1>9. \A i \in DOMAIN r : i # k => from(i) \in DOMAIN q /\ r[i] = q[from(i)]
  <2>1. TAKE i \in DOMAIN r
  <2>2. CASE i < k
    BY <1>1, <1>4, <1>6, <1>8, <2>2
  <2>3. CASE i > k
    BY <1>1, <1>7, <1>8, <2>3
  <2> QED
    BY <1>1, <1>8, <2>2, <2>3
<1>10. \A i, j \in DOMAIN r : i # k /\ j # k /\ from(i) = from(j) => i = j
  BY <1>1, <1>8
<1>11. \A j \in DOMAIN q : \E i \in DOMAIN r : i # k /\ r[i] = q[j]
  <2>1. TAKE j \in DOMAIN q
  <2>2. CASE j < k
    BY <1>1, <1>4, <1>6, <1>8, <2>2
  <2>3. CASE j >= k
    <3>1. j + 1 \in k + 1..Len(q) + 1 /\ (j + 1) - 1 = j /\ j + 1 \in DOMAIN r /\ j + 1 # k
      BY <1>1, <1>8, <2>3
    <3> QED
      BY <1>7, <3>1
  <2> QED
    BY <1>1, <2>2, <2>3
<1> HIDE DEF from
<1>12. Once(r)
  BY <1>8, <1>9, <1>10 DEF Once, In
<1>13. In(r) = In(q) \cup {x}
  <2>1. In(r) \subseteq In(q) \cup {x}
    BY <1>8, <1>9 DEF In
  <2>2. In(q) \cup {x} \subseteq In(r)
    BY <1>8, <1>11 DEF In
  <2> QED
    BY <2>1, <2>2
<1> QED
  BY <1>6, <1>12, <1>13 DEF InsertAt, r, a, b

\* A set of one or none as a sequence
LEMMA SetToSeqNone == SetToSeq({}) = <<>>
<1>1. IsFiniteSet({}) /\ Cardinality({}) = 0
  BY FS_EmptySet
<1>2. SetToSeq({}) \in [1..0 -> {}]
  BY <1>1, SetToSeqIs
<1> QED
  BY <1>2

\* The sequence of one element
LEMMA SetToSeqOne == ASSUME NEW x PROVE SetToSeq({x}) = <<x>>
<1>1. IsFiniteSet({x}) /\ Cardinality({x}) = 1
  BY FS_Singleton
<1>2. SetToSeq({x}) \in [1..1 -> {x}]
  BY <1>1, SetToSeqIs
<1> QED
  BY <1>2
-----------------------------------------------------------------------------
(* A window of a sequence                                                  *)

\* A window that grows to the right grows by the next element.
LEMMA WindowNext ==
  ASSUME NEW S, NEW q \in Seq(S), NEW a \in Nat, NEW c \in Nat, a <= c, c < Len(q)
  PROVE  /\ SubSeq(q, a + 1, c) \in Seq(S)
         /\ SubSeq(q, a + 1, c + 1) = Append(SubSeq(q, a + 1, c), q[c + 1])
<1> DEFINE u == SubSeq(q, a + 1, c)
           v == SubSeq(q, a + 1, c + 1)
           w == Append(u, q[c + 1])
<1>1. u \in Seq(S) /\ Len(u) = c - a /\ \A i \in 1..c - a : u[i] = q[a + i]
  OBVIOUS
<1>2. v \in Seq(S) /\ Len(v) = c + 1 - a /\ \A i \in 1..c + 1 - a : v[i] = q[a + i]
  OBVIOUS
<1> HIDE DEF u, v
<1>3. q[c + 1] \in S
  OBVIOUS
<1>4. w \in Seq(S) /\ Len(w) = c + 1 - a /\ w[c + 1 - a] = q[c + 1] /\ \A i \in 1..c - a : w[i] = u[i]
  BY <1>1, <1>3
<1> HIDE DEF w
<1>5. \A i \in 1..c + 1 - a : v[i] = w[i]
  <2>1. TAKE i \in 1..c + 1 - a
  <2>2. CASE i = c + 1 - a
    <3>1. a + i = c + 1
      BY <2>2
    <3> QED
      BY <1>2, <1>4, <2>2, <3>1
  <2>3. CASE i # c + 1 - a
    <3>1. i \in 1..c - a
      BY <2>3
    <3> QED
      BY <1>1, <1>2, <1>4, <3>1
  <2> QED
    BY <2>2, <2>3
<1>6. v = w
  BY <1>2, <1>4, <1>5, SeqEqual
<1> QED
  BY <1>1, <1>6 DEF u, v, w

\* What comes behind it does not matter to it.
LEMMA WindowAppended ==
  ASSUME NEW S, NEW q \in Seq(S), NEW x \in S, NEW a \in Nat, NEW c \in Nat, c <= Len(q)
  PROVE  SubSeq(Append(q, x), a + 1, c) = SubSeq(q, a + 1, c)
<1> DEFINE p == Append(q, x)
           u == SubSeq(q, a + 1, c)
           v == SubSeq(p, a + 1, c)
<1>0. p \in Seq(S) /\ Len(p) = Len(q) + 1 /\ \A i \in 1..Len(q) : p[i] = q[i]
  OBVIOUS
<1>1. CASE a < c
  <2>1. u \in Seq(S) /\ Len(u) = c - a /\ \A i \in 1..c - a : u[i] = q[a + i]
    BY <1>1
  <2> HIDE DEF u, p
  <2>2. v \in Seq(S) /\ Len(v) = c - a /\ \A i \in 1..c - a : v[i] = p[a + i]
    BY <1>0, <1>1
  <2> HIDE DEF v
  <2>3. \A i \in 1..c - a : v[i] = u[i]
    <3>1. TAKE i \in 1..c - a
    <3>2. a + i \in 1..Len(q)
      BY <1>1
    <3> QED
      BY <1>0, <2>1, <2>2, <3>2
  <2>4. v = u
    BY <2>1, <2>2, <2>3, SeqEqual
  <2> QED
    BY <2>4 DEF u, v, p
<1>2. CASE ~(a < c)
  <2>1. u = <<>>
    BY <1>2
  <2> HIDE DEF p
  <2>2. v = <<>>
    BY <1>0, <1>2
  <2> QED
    BY <2>1, <2>2 DEF p
<1> QED
  BY <1>1, <1>2

\* At first it is empty.
LEMMA WindowNone == ASSUME NEW S, NEW q \in Seq(S), NEW a \in Nat PROVE SubSeq(q, a + 1, a) = <<>>
OBVIOUS
=============================================================================
