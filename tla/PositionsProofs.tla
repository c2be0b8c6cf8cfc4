---------------------------- MODULE PositionsProofs ----------------------------
(***************************************************************************)
(* What picking the elements at some positions of a vector gives: they     *)
(* keep their order, none is lost and none comes twice. With it induction  *)
(* and recursion over the natural numbers, both over sets, and from these  *)
(* what is in a vector that is put together of others, what a sum over a   *)
(* finite set is, and how vectors that are put behind each other are cut.  *)
(***************************************************************************)
EXTENDS Positions, SequencesExt, FiniteSetsExt, FunctionTheorems, FiniteSetTheorems, SequenceTheorems, TLAPS

(* The positions in a vector of length m are finitely many numbers.           *)
LEMMA NumbersFinite ==
    ASSUME NEW m \in Nat, NEW S \in SUBSET (1 .. m)
    PROVE  IsFiniteSet(S) /\ Cardinality(S) \in Nat /\ \A i \in S : i \in Nat
<1>1. IsFiniteSet(1 .. m)
  BY FS_Interval
<1>2. IsFiniteSet(S)
  BY <1>1, FS_Subset
<1>. QED  BY <1>2, FS_CardinalityType

(* The first m numbers are m.                                                 *)
LEMMA FirstNumbers ==
    ASSUME NEW m \in Nat
    PROVE  IsFiniteSet(1 .. m) /\ Cardinality(1 .. m) = m
<1>1. 0 \in Int /\ 1 \in Int /\ m \in Int
  OBVIOUS
<1>. QED  BY <1>1, FS_Interval

(* As many are they from 0.                                                   *)
LEMMA NumbersFromZero ==
    ASSUME NEW m \in Nat
    PROVE  IsFiniteSet(0 .. m - 1) /\ Cardinality(0 .. m - 1) = m
<1>1. 0 \in Int /\ m - 1 \in Int
  OBVIOUS
<1>. QED  BY <1>1, FS_Interval

(* Among the numbers of a finite set of n there is a k-th one, for k <= n.    *)
LEMMA NthExists ==
    ASSUME NEW m \in Nat, NEW S \in SUBSET (1 .. m), NEW k \in 1 .. Cardinality(S)
    PROVE  /\ Nth(S, k) \in S
           /\ Cardinality({j \in S : j <= Nth(S, k)}) = k
<1> DEFINE n == Cardinality(S)
           UpTo(i) == {j \in S : j <= i}
           f == [i \in S |-> Cardinality(UpTo(i))]
<1>1. IsFiniteSet(S) /\ n \in Nat /\ \A i \in S : i \in Nat
  BY NumbersFinite
<1>2. ASSUME NEW i \in S
      PROVE  /\ IsFiniteSet(UpTo(i)) /\ Cardinality(UpTo(i)) \in Nat
             /\ Cardinality(UpTo(i)) \in 1 .. n
  <2>1. /\ IsFiniteSet(UpTo(i)) /\ Cardinality(UpTo(i)) <= n
        /\ Cardinality(UpTo(i)) \in Nat
    BY <1>1, FS_Subset, FS_CardinalityType
  <2>2. i \in UpTo(i)
    BY <1>1
  <2>3. Cardinality(UpTo(i)) # 0
    BY <2>1, <2>2, FS_EmptySet
  <2>. QED  BY <2>1, <2>3, <1>1
<1>3. ASSUME NEW i \in S, NEW j \in S, i < j
      PROVE  f[i] # f[j]
  <2>1. UpTo(i) \in SUBSET UpTo(j) /\ UpTo(i) # UpTo(j)
    <3>1. j \in UpTo(j) /\ j \notin UpTo(i)
      BY <1>1, <1>3
    <3>2. ASSUME NEW x \in UpTo(i) PROVE x \in UpTo(j)
      BY <1>1, <1>3
    <3>. QED  BY <3>1, <3>2
  <2>2. Cardinality(UpTo(j)) # Cardinality(UpTo(i))
    BY <2>1, <1>2, FS_Subset
  <2>. QED  BY <2>2
<1>4. f \in Injection(S, 1 .. n)
  <2>1. f \in [S -> 1 .. n]
    BY <1>2
  <2>2. ASSUME NEW i \in S, NEW j \in S, f[i] = f[j] PROVE i = j
    BY <1>1, <1>3, <2>2
  <2>. QED  BY <2>1, <2>2 DEF Injection, IsInjective
<1>5. f \in Surjection(S, 1 .. n)
  <2>1. IsFiniteSet(1 .. n) /\ Cardinality(1 .. n) = n
    BY <1>1, FS_Interval
  <2>. QED  BY <1>1, <1>4, <2>1, FS_Injection
<1>6. PICK i \in S : f[i] = k
  BY <1>5 DEF Surjection
<1>7. Cardinality({j \in S : j <= i}) = k
  BY <1>6
<1>. QED  BY <1>7 DEF Nth

(* The k-th of the numbers of S is not below k, and below the next.           *)
LEMMA NthAscends ==
    ASSUME NEW m \in Nat, NEW S \in SUBSET (1 .. m), NEW k \in 1 .. Cardinality(S)
    PROVE  /\ Nth(S, k) >= k
           /\ \A h \in 1 .. Cardinality(S) : h < k => Nth(S, h) < Nth(S, k)
<1> DEFINE x == Nth(S, k)
           UpTo(i) == {j \in S : j <= i}
<1>2. IsFiniteSet(S) /\ Cardinality(S) \in Nat /\ \A i \in S : i \in Nat /\ i \in 1 .. m
  BY NumbersFinite
<1>1. x \in S /\ Cardinality(UpTo(x)) = k /\ x \in Nat
  BY <1>2, NthExists
<1>. HIDE DEF x
<1>3. k <= x
  <2>1. UpTo(x) \in SUBSET (1 .. x)
    <3>1. ASSUME NEW j \in UpTo(x) PROVE j \in 1 .. x
      BY <1>1, <1>2
    <3>. QED  BY <3>1
  <2>2. IsFiniteSet(1 .. x) /\ Cardinality(1 .. x) = x
    BY <1>1, FS_Interval
  <2>. QED  BY <2>1, <2>2, <1>1, FS_Subset
<1>4. ASSUME NEW h \in 1 .. Cardinality(S), h < k
      PROVE  Nth(S, h) < x
  <2> DEFINE y == Nth(S, h)
  <2>1. y \in S /\ Cardinality(UpTo(y)) = h /\ y \in Nat
    BY <1>2, NthExists
  <2>. HIDE DEF y
  <2>2. SUFFICES ASSUME x <= y PROVE FALSE
    BY <1>1, <2>1 DEF y
  <2>3. UpTo(x) \in SUBSET UpTo(y)
    <3>1. ASSUME NEW j \in UpTo(x) PROVE j \in UpTo(y)
      BY <2>2, <1>1, <1>2, <2>1
    <3>. QED  BY <3>1
  <2>4. IsFiniteSet(UpTo(y))
    BY <1>2, FS_Subset
  <2>5. k <= h
    BY <2>3, <2>4, <1>1, <2>1, FS_Subset
  <2>. QED  BY <2>5, <1>4, <1>2
<1>. QED  BY <1>3, <1>4 DEF x

(* The n-th number from 1 is n.                                               *)
LEMMA NthOfInterval ==
    ASSUME NEW n \in Nat, NEW k \in 1 .. n
    PROVE  Nth(1 .. n, k) = k
<1> DEFINE x == Nth(1 .. n, k)
<1>1. Cardinality(1 .. n) = n
  BY FS_Interval
<1>2. x \in 1 .. n /\ Cardinality({j \in 1 .. n : j <= x}) = k
  BY <1>1, NthExists
<1>. HIDE DEF x
<1>3. {j \in 1 .. n : j <= x} = 1 .. x
  BY <1>2
<1>4. Cardinality(1 .. x) = x
  BY <1>2, FS_Interval
<1>. QED  BY <1>2, <1>3, <1>4 DEF x

(* Counting through S in its order meets every number of S, once.             *)
LEMMA NthBijection ==
    ASSUME NEW m \in Nat, NEW S \in SUBSET (1 .. m)
    PROVE  [k \in 1 .. Cardinality(S) |-> Nth(S, k)] \in Bijection(1 .. Cardinality(S), S)
<1> DEFINE n == Cardinality(S)
           f == [k \in 1 .. n |-> Nth(S, k)]
<1>1. IsFiniteSet(S) /\ n \in Nat /\ \A i \in S : i \in Nat
  BY NumbersFinite
<1>2. \A k \in 1 .. n : Nth(S, k) \in S
  BY NthExists
<1>3. \A k, h \in 1 .. n : h < k => Nth(S, h) < Nth(S, k)
  BY NthAscends
<1>4. f \in Injection(1 .. n, S)
  <2>. HIDE DEF n
  <2>1. f \in [1 .. n -> S]
    BY <1>2
  <2>2. ASSUME NEW k \in 1 .. n, NEW h \in 1 .. n, f[k] = f[h] PROVE k = h
    <3>0. Nth(S, k) = Nth(S, h)
      BY <2>2
    <3>1. k \in Nat /\ h \in Nat
      BY <1>1
    <3>2. Nth(S, k) \in S /\ Nth(S, k) \in Nat
      BY <1>1, <1>2
    <3>3. ~(h < k) /\ ~(k < h)
      BY <3>0, <3>2, <1>3
    <3>. QED  BY <3>1, <3>3
  <2>. QED  BY <2>1, <2>2 DEF Injection, IsInjective
<1>5. f \in Surjection(1 .. n, S)
  <2>1. IsFiniteSet(1 .. n) /\ Cardinality(1 .. n) = n
    BY <1>1, FS_Interval
  <2>. QED  BY <1>1, <1>4, <2>1, FS_Injection
<1>. QED  BY <1>4, <1>5 DEF Bijection

(* Positions that are not empty have a first and a last one.                  *)
LEMMA FirstAndLast ==
    ASSUME NEW m \in Nat, NEW S \in SUBSET (1 .. m), S # {}
    PROVE  /\ \E x \in S : \A j \in S : x <= j
           /\ \E x \in S : \A j \in S : j <= x
<1> DEFINE n == Cardinality(S)
           f == [k \in 1 .. n |-> Nth(S, k)]
<1>1. IsFiniteSet(S) /\ n \in Nat /\ \A i \in S : i \in Nat
  BY NumbersFinite
<1>2. n # 0
  BY <1>1, FS_EmptySet
<1>3. \A k \in 1 .. n : Nth(S, k) \in S
  BY NthExists
<1>4. \A k, h \in 1 .. n : h < k => Nth(S, h) < Nth(S, k)
  BY NthAscends
<1>5. \A j \in S : \E k \in 1 .. n : f[k] = j
  BY NthBijection DEF Bijection, Surjection
<1>6. \A j \in S : \E k \in 1 .. n : Nth(S, k) = j
  BY <1>5
<1>. HIDE DEF n
<1>7. \A j \in S : Nth(S, 1) <= j /\ j <= Nth(S, n)
  <2> SUFFICES ASSUME NEW j \in S PROVE Nth(S, 1) <= j /\ j <= Nth(S, n)
    OBVIOUS
  <2>1. PICK k \in 1 .. n : Nth(S, k) = j
    BY <1>6
  <2>2. 1 \in 1 .. n /\ n \in 1 .. n /\ k \in Nat /\ j \in Nat
    BY <1>1, <1>2
  <2>3. Nth(S, 1) \in Nat /\ Nth(S, n) \in Nat
    BY <2>2, <1>1, <1>3
  <2>4. (k = 1 \/ 1 < k) /\ (k = n \/ k < n)
    BY <2>2, <1>1
  <2>5. 1 < k => Nth(S, 1) < j
    BY <2>1, <2>2, <1>4
  <2>6. k < n => j < Nth(S, n)
    BY <2>1, <2>2, <1>4
  <2>. QED  BY <2>1, <2>2, <2>3, <2>4, <2>5, <2>6
<1>8. Nth(S, 1) \in S /\ Nth(S, n) \in S
  BY <1>1, <1>2, <1>3
<1>. QED  BY <1>7, <1>8

(* The picked elements are elements of the vector, as many as positions.      *)
LEMMA PickTyped ==
    ASSUME NEW T, NEW q \in Seq(T), NEW S \in SUBSET (1 .. Len(q))
    PROVE  /\ Pick(q, S) \in Seq(T)
           /\ Len(Pick(q, S)) = Cardinality(S)
           /\ \A k \in 1 .. Cardinality(S) :
                 Nth(S, k) \in S /\ Pick(q, S)[k] = q[Nth(S, k)]
<1>0. Len(q) \in Nat
  OBVIOUS
<1>1. Cardinality(S) \in Nat
  BY <1>0, NumbersFinite
<1>2. \A k \in 1 .. Cardinality(S) : Nth(S, k) \in S
  BY <1>0, NthExists
<1>3. \A i \in S : q[i] \in T
  OBVIOUS
<1> DEFINE n == Cardinality(S)
<1>. HIDE DEF n
<1>4. Pick(q, S) = [k \in 1 .. n |-> q[Nth(S, k)]]
  BY DEF Pick, n
<1>5. n \in Nat /\ \A k \in 1 .. n : Nth(S, k) \in S /\ q[Nth(S, k)] \in T
  BY <1>1, <1>2, <1>3 DEF n
<1>. QED  BY <1>4, <1>5 DEF n

(* How many elements of q at the positions S are in W.                        *)
CountAt(q, S, W) == Cardinality({i \in S : q[i] \in W})

(* Of the elements that are in W, as many are picked as have their position   *)
(* in S: the order and the gaps do not matter for counting.                   *)
LEMMA PickCounts ==
    ASSUME NEW T, NEW q \in Seq(T), NEW S \in SUBSET (1 .. Len(q)), NEW W
    PROVE  CountAt(Pick(q, S), DOMAIN Pick(q, S), W) = CountAt(q, S, W)
<1> DEFINE n == Cardinality(S)
           p == Pick(q, S)
           K == {k \in 1 .. n : p[k] \in W}
           I == {i \in S : q[i] \in W}
           f == [k \in 1 .. n |-> Nth(S, k)]
           g == [k \in K |-> Nth(S, k)]
<1>0. Len(q) \in Nat
  OBVIOUS
<1>1. n \in Nat /\ DOMAIN p = 1 .. n /\ \A k \in 1 .. n : Nth(S, k) \in S /\ p[k] = q[Nth(S, k)]
  BY <1>0, PickTyped, NumbersFinite
<1>2. f \in Bijection(1 .. n, S)
  BY <1>0, NthBijection
<1>3. IsFiniteSet(K)
  <2>1. IsFiniteSet(1 .. n)
    BY <1>1, FS_Interval
  <2>2. K \in SUBSET (1 .. n)
    OBVIOUS
  <2>. QED  BY <2>1, <2>2, FS_Subset
<1>. HIDE DEF n, p
<1>4. \A k \in K : k \in 1 .. n /\ g[k] = f[k] /\ g[k] \in I
  BY <1>1
<1>5. \A k, h \in 1 .. n : f[k] = f[h] => k = h
  BY <1>2 DEF Bijection, Injection, IsInjective
<1>6. \A i \in S : \E k \in 1 .. n : f[k] = i
  BY <1>2 DEF Bijection, Surjection
<1>7. \A i \in I : \E k \in K : g[k] = i
  BY <1>1, <1>6
<1>8. g \in Bijection(K, I)
  BY <1>4, <1>5, <1>7 DEF Bijection, Injection, IsInjective, Surjection
<1>9. Cardinality(I) = Cardinality(K)
  BY <1>3, <1>8, FS_Bijection DEF ExistsBijection
<1>. QED  BY <1>1, <1>9 DEF p, CountAt

(* What is counted in a concatenation is counted in its parts.                *)
LEMMA ConcatCounts ==
    ASSUME NEW T, NEW a \in Seq(T), NEW b \in Seq(T), NEW W
    PROVE  CountAt(a \o b, DOMAIN (a \o b), W) =
              CountAt(a, DOMAIN a, W) + CountAt(b, DOMAIN b, W)
<1> DEFINE c == a \o b
           m == Len(a)
           C == {k \in DOMAIN c : c[k] \in W}
           A == {k \in DOMAIN a : a[k] \in W}
           B == {k \in DOMAIN b : b[k] \in W}
           L == {k \in C : k <= m}
           R == {k \in C : k > m}
           g == [k \in B |-> m + k]
<1>1. /\ m \in Nat /\ Len(b) \in Nat /\ DOMAIN c = 1 .. m + Len(b)
      /\ DOMAIN a = 1 .. m /\ DOMAIN b = 1 .. Len(b)
      /\ \A k \in 1 .. m : c[k] = a[k]
      /\ \A k \in 1 .. Len(b) : c[m + k] = b[k]
  OBVIOUS
<1>. HIDE DEF c, m
<1>2. IsFiniteSet(C) /\ IsFiniteSet(A) /\ IsFiniteSet(B) /\ IsFiniteSet(L) /\ IsFiniteSet(R)
  <2>1. IsFiniteSet(1 .. m) /\ IsFiniteSet(1 .. Len(b)) /\ IsFiniteSet(1 .. m + Len(b))
    BY <1>1, FS_Interval
  <2>2. C \in SUBSET (1 .. m + Len(b)) /\ A \in SUBSET (1 .. m) /\ B \in SUBSET (1 .. Len(b))
    BY <1>1
  <2>3. L \in SUBSET C /\ R \in SUBSET C
    OBVIOUS
  <2>4. IsFiniteSet(C) /\ IsFiniteSet(A) /\ IsFiniteSet(B)
    BY <2>1, <2>2, FS_Subset
  <2>. QED  BY <2>3, <2>4, FS_Subset
<1>3. L = A
  BY <1>1
<1>4. Cardinality(R) = Cardinality(B)
  <2>1. \A k \in B : g[k] = m + k /\ g[k] \in R
    BY <1>1
  <2>2. \A k, h \in B : g[k] = g[h] => k = h
    BY <1>1, <2>1
  <2>3. ASSUME NEW r \in R PROVE \E k \in B : g[k] = r
    <3>1. r \in Nat /\ r > m /\ r <= m + Len(b) /\ c[r] \in W
      BY <1>1
    <3>2. r - m \in 1 .. Len(b) /\ r = m + (r - m)
      BY <1>1, <3>1
    <3>3. b[r - m] \in W
      BY <1>1, <3>1, <3>2
    <3>4. r - m \in B
      BY <1>1, <3>2, <3>3
    <3>. QED  BY <2>1, <3>2, <3>4
  <2>4. g \in Bijection(B, R)
    BY <2>1, <2>2, <2>3 DEF Bijection, Injection, IsInjective, Surjection
  <2>. QED  BY <1>2, <2>4, FS_Bijection DEF ExistsBijection
<1>5. C = L \cup R /\ L \cap R = {}
  BY <1>1
<1>6. Cardinality(C) = Cardinality(L) + Cardinality(R)
  <2>1. Cardinality(L \cup R) = Cardinality(L) + Cardinality(R) - Cardinality(L \cap R)
    BY <1>2, FS_Union
  <2>2. Cardinality({}) = 0
    BY FS_EmptySet
  <2>3. Cardinality(L) \in Nat /\ Cardinality(R) \in Nat
    BY <1>2, FS_CardinalityType
  <2>. HIDE DEF L, R, C
  <2>4. Cardinality(L \cup R) = Cardinality(L) + Cardinality(R) - 0
    BY <2>1, <2>2, <1>5
  <2>. QED  BY <2>3, <2>4, <1>5
<1>. QED  BY <1>3, <1>4, <1>6 DEF c, CountAt

-------------------------------------------------------------------------------
(* Induction and recursion.                                                   *)

(* Induction over a set of numbers, from the first that is not in it.         *)
LEMMA Induction ==
    ASSUME NEW S, 0 \in S, \A n \in Nat : n \in S => n + 1 \in S
    PROVE  \A n \in Nat : n \in S
<1> SUFFICES ASSUME NEW n \in Nat, n \notin S PROVE FALSE
  OBVIOUS
<1> DEFINE T == {i \in 1 .. n + 1 : i - 1 \notin S}
<1>1. T \in SUBSET (1 .. n + 1) /\ n + 1 \in T
  OBVIOUS
<1>0. n + 1 \in Nat
  OBVIOUS
<1>. HIDE DEF T
<1>2. PICK x \in T : \A j \in T : x <= j
  BY <1>0, <1>1, FirstAndLast
<1>. USE DEF T
<1>3. x \in 1 .. n + 1 /\ x - 1 \notin S
  BY <1>1, <1>2
<1>4. x - 1 \in Nat /\ x - 1 # 0
  BY <1>3
<1>5. x - 2 \in Nat /\ (x - 2) + 1 = x - 1 /\ x - 1 \in 1 .. n + 1
  BY <1>3, <1>4
<1>6. (x - 1) - 1 = x - 2 /\ ~(x <= x - 1)
  BY <1>3
<1>7. x - 2 \in S
  BY <1>2, <1>5, <1>6
<1>. QED  BY <1>3, <1>5, <1>7

(* The elements of a vector are those at its positions.                       *)
LEMMA VectorElements ==
    ASSUME NEW q
    PROVE  /\ IsVector(q) => /\ q \in Seq({q[i] : i \in DOMAIN q})
                             /\ Len(q) \in Nat /\ DOMAIN q = 1 .. Len(q)
           /\ \A T : q \in Seq(T) => IsVector(q)
<1>1. IsVector(q) => /\ q \in Seq({q[i] : i \in DOMAIN q})
                     /\ Len(q) \in Nat /\ DOMAIN q = 1 .. Len(q)
  BY DEF IsVector
<1>2. ASSUME NEW T, q \in Seq(T) PROVE q \in Seq({q[i] : i \in DOMAIN q})
  <2>1. Len(q) \in Nat /\ q \in [1 .. Len(q) -> T] /\ DOMAIN q = 1 .. Len(q)
    BY <1>2
  <2>2. q \in [1 .. Len(q) -> {q[i] : i \in DOMAIN q}]
    BY <2>1
  <2>. QED  BY <2>1, <2>2
<1>. QED  BY <1>1, <1>2 DEF IsVector

(* Picking gives the elements at the positions, each of them.                 *)
LEMMA PickElements ==
    ASSUME NEW q, IsVector(q), NEW S \in SUBSET DOMAIN q
    PROVE  /\ IsVector(Pick(q, S))
           /\ \A k \in DOMAIN Pick(q, S) : \E i \in S : Pick(q, S)[k] = q[i]
           /\ \A i \in S : \E k \in DOMAIN Pick(q, S) : Pick(q, S)[k] = q[i]
<1> DEFINE T == {q[i] : i \in DOMAIN q}
           n == Cardinality(S)
           f == [k \in 1 .. n |-> Nth(S, k)]
<1>1. q \in Seq(T) /\ S \in SUBSET (1 .. Len(q)) /\ Len(q) \in Nat
  BY VectorElements
<1>. HIDE DEF T
<1>2. /\ Pick(q, S) \in Seq(T) /\ Len(Pick(q, S)) = n
      /\ \A k \in 1 .. n : Nth(S, k) \in S /\ Pick(q, S)[k] = q[Nth(S, k)]
  BY <1>1, PickTyped
<1>3. f \in Bijection(1 .. n, S)
  BY <1>1, NthBijection
<1>4. \A i \in S : \E k \in 1 .. n : f[k] = i
  BY <1>3 DEF Bijection, Surjection
<1>. HIDE DEF n
<1>5. DOMAIN Pick(q, S) = 1 .. n
  BY <1>2
<1>6. IsVector(Pick(q, S))
  BY <1>2, VectorElements
<1>. QED  BY <1>2, <1>4, <1>5, <1>6

(* A value for each position that a step makes of the one before it.          *)
Iterates(f, V, first, m, step) ==
    /\ f \in [0 .. m -> V]
    /\ f[0] = first
    /\ \A n \in 1 .. m : f[n] = step[n][f[n - 1]]

(* There are such values.                                                     *)
LEMMA Recursion ==
    ASSUME NEW V, NEW first \in V, NEW m \in Nat, NEW step \in [1 .. m -> [V -> V]]
    PROVE  \E f : Iterates(f, V, first, m, step)
<1> DEFINE Fits(n, f) == f[0] = first /\ \A i \in 1 .. n : f[i] = step[i][f[i - 1]]
           S == {n \in Nat : n <= m => \E f \in [0 .. n -> V] : Fits(n, f)}
<1>1. 0 \in S
  <2>1. [i \in 0 .. 0 |-> first] \in [0 .. 0 -> V] /\ Fits(0, [i \in 0 .. 0 |-> first])
    OBVIOUS
  <2>. QED  BY <2>1
<1>2. ASSUME NEW n \in Nat, n \in S PROVE n + 1 \in S
  <2> SUFFICES ASSUME n + 1 <= m PROVE \E f \in [0 .. n + 1 -> V] : Fits(n + 1, f)
    OBVIOUS
  <2>1. PICK f \in [0 .. n -> V] : Fits(n, f)
    BY <1>2
  <2> DEFINE v == step[n + 1][f[n]]
             g == [i \in 0 .. n + 1 |-> IF i = n + 1 THEN v ELSE f[i]]
  <2>2. f[n] \in V /\ n + 1 \in 1 .. m
    BY <2>1
  <2>3. v \in V
    BY <2>2
  <2>. HIDE DEF v
  <2>4. g \in [0 .. n + 1 -> V]
    BY <2>1, <2>3
  <2>5. ASSUME NEW i \in 1 .. n + 1 PROVE g[i] = step[i][g[i - 1]]
    <3>1. CASE i = n + 1
      <4>1. g[i] = v /\ g[i - 1] = f[n]
        BY <3>1
      <4>. QED  BY <4>1, <3>1 DEF v
    <3>2. CASE i # n + 1
      <4>1. i \in 1 .. n /\ g[i] = f[i] /\ g[i - 1] = f[i - 1]
        BY <3>2
      <4>. QED  BY <4>1, <2>1
    <3>. QED  BY <3>1, <3>2
  <2>6. g[0] = first
    BY <2>1
  <2>. HIDE DEF g
  <2>. QED  BY <2>4, <2>5, <2>6
<1>. HIDE DEF S
<1>3. m \in S
  BY <1>1, <1>2, Induction
<1>. QED  BY <1>3 DEF S, Iterates

-------------------------------------------------------------------------------
(* Vectors.                                                                   *)

(* What stands in a concatenation stands in one of its parts.                 *)
LEMMA ConcatVectors ==
    ASSUME NEW a, NEW b, IsVector(a), IsVector(b)
    PROVE  IsVector(a \o b) /\ ToSet(a \o b) = ToSet(a) \cup ToSet(b)
<1> DEFINE T == ToSet(a) \cup ToSet(b)
<1>1. a \in Seq(T) /\ b \in Seq(T)
  <2>1. a \in Seq(ToSet(a)) /\ b \in Seq(ToSet(b))
    BY DEF IsVector, ToSet
  <2>. QED  BY <2>1
<1>2. \A x \in ToSet(a) : \E i \in 1 .. Len(a) : a[i] = x
  BY <1>1 DEF ToSet
<1>3. \A x \in ToSet(b) : \E i \in 1 .. Len(b) : b[i] = x
  BY <1>1 DEF ToSet
<1>. HIDE DEF T
<1>4. a \o b \in Seq(T)
  BY <1>1
<1>5. \A i \in 1 .. Len(a) : (a \o b)[i] = a[i] /\ i \in DOMAIN (a \o b)
  BY <1>1
<1>6. \A i \in 1 .. Len(b) : (a \o b)[Len(a) + i] = b[i] /\ Len(a) + i \in DOMAIN (a \o b)
  BY <1>1
<1>7. ToSet(a \o b) \subseteq T
  BY <1>4 DEF ToSet
<1>8. T \subseteq ToSet(a \o b)
  BY <1>2, <1>3, <1>5, <1>6 DEF T, ToSet
<1>. QED  BY <1>4, <1>7, <1>8, VectorElements DEF T

(* What is picked is what stands at the positions.                            *)
LEMMA PickSet ==
    ASSUME NEW q, IsVector(q), NEW S \in SUBSET DOMAIN q
    PROVE  IsVector(Pick(q, S)) /\ ToSet(Pick(q, S)) = {q[i] : i \in S}
BY PickElements DEF ToSet

(* Nothing is a vector of anything.                                           *)
LEMMA EmptyVector == IsVector(<<>>) /\ ToSet(<<>>) = {}
<1>1. <<>> \in Seq({}) /\ DOMAIN <<>> = {}
  OBVIOUS
<1>. QED  BY <1>1, VectorElements DEF ToSet

(* The first n vectors of qs one behind the other, for each n.                *)
Grows(P, T, qs) ==
    /\ P[0] = <<>>
    /\ \A n \in 0 .. Len(qs) : P[n] \in Seq(T)
    /\ \A n \in 1 .. Len(qs) : P[n] = P[n - 1] \o qs[n]

(* A vector of vectors is flattened by putting one behind the other.          *)
LEMMA Flattening ==
    ASSUME NEW T, NEW qs, IsVector(qs), \A i \in DOMAIN qs : qs[i] \in Seq(T)
    PROVE  \E P : Grows(P, T, qs) /\ FlattenSeq(qs) = P[Len(qs)]
<1> DEFINE L == Len(qs)
           step == [n \in 1 .. L |-> [q \in Seq(T) |-> q \o qs[n]]]
           Whole == CHOOSE g : g = [i \in 1 .. L |->
                                      IF i = 1 THEN qs[i] ELSE g[i - 1] \o qs[i]]
<1>1. L \in Nat /\ DOMAIN qs = 1 .. L
  BY VectorElements
<1>2. \A i \in 1 .. L : qs[i] \in Seq(T)
  BY <1>1
<1>3. CASE L = 0
  <2> DEFINE P == [i \in 0 .. 0 |-> <<>>]
  <2>1. FlattenSeq(qs) = qs /\ qs = <<>>
    BY <1>1, <1>3 DEF FlattenSeq, IsVector
  <2>2. <<>> \in Seq(T) /\ 0 .. L = {0} /\ 1 .. L = {}
    BY <1>3
  <2>3. Grows(P, T, qs)
    BY <2>2 DEF Grows
  <2>4. P[L] = FlattenSeq(qs)
    BY <1>3, <2>1
  <2>. QED  BY <2>3, <2>4
<1>4. CASE L # 0
  <2>0. FlattenSeq(qs) = Whole[L]
    BY <1>4 DEF FlattenSeq
  <2>1. PICK f \in [0 .. L -> Seq(T)] :
            f[0] = <<>> /\ \A n \in 1 .. L : f[n] = step[n][f[n - 1]]
    <3> DEFINE V == Seq(T)
               none == <<>>
    <3>1. step \in [1 .. L -> [V -> V]]
      BY <1>2
    <3>2. none \in V /\ L \in Nat
      BY <1>1
    <3>. HIDE DEF step, L, V, none
    <3>3. \E f : Iterates(f, V, none, L, step)
      BY <3>1, <3>2, Recursion
    <3>. QED  BY <3>3 DEF V, none, Iterates
  <2> DEFINE g == [i \in 1 .. L |-> f[i]]
  <2>2. ASSUME NEW n \in 1 .. L PROVE f[n] = f[n - 1] \o qs[n] /\ f[n - 1] \in Seq(T)
    <3>1. n - 1 \in 0 .. L
      BY <1>1
    <3>. QED  BY <2>1, <3>1
  <2>3. f[1] = qs[1]
    <3>1. 1 \in 1 .. L /\ f[1] = f[0] \o qs[1]
      BY <1>1, <1>4, <2>2
    <3>. QED  BY <3>1, <2>1, <1>2
  <2>. HIDE DEF L
  <2>4. g = [i \in 1 .. L |-> IF i = 1 THEN qs[i] ELSE g[i - 1] \o qs[i]]
    <3>1. ASSUME NEW i \in 1 .. L
          PROVE  g[i] = IF i = 1 THEN qs[i] ELSE g[i - 1] \o qs[i]
      <4>1. CASE i = 1
        BY <2>3, <4>1
      <4>2. CASE i # 1
        <5>1. i - 1 \in 1 .. L
          BY <4>2, <1>1
        <5>. QED  BY <4>2, <5>1, <2>2
      <4>. QED  BY <4>1, <4>2
    <3>. QED  BY <3>1
  <2>. HIDE DEF g
  <2>5. Whole = [i \in 1 .. L |-> IF i = 1 THEN qs[i] ELSE Whole[i - 1] \o qs[i]]
    BY <2>4
  <2>. HIDE DEF Whole
  <2> DEFINE P == [i \in 0 .. L |-> IF i = 0 THEN <<>> ELSE Whole[i]]
             M == {n \in Nat : n <= L => P[n] \in Seq(T)}
  <2>6. ASSUME NEW n \in 1 .. L, P[n - 1] \in Seq(T)
        PROVE  P[n] = P[n - 1] \o qs[n] /\ P[n] \in Seq(T)
    <3>1. qs[n] \in Seq(T) /\ n \in 0 .. L /\ n # 0 /\ n - 1 \in 0 .. L
      BY <1>1, <1>2
    <3>2. P[n] = Whole[n]
      BY <3>1
    <3>3. CASE n = 1
      <4>1. Whole[n] = qs[n] /\ P[n - 1] = <<>>
        BY <2>5, <3>1, <3>3
      <4>. HIDE DEF P
      <4>. QED  BY <3>1, <3>2, <4>1
    <3>4. CASE n # 1
      <4>1. Whole[n] = Whole[n - 1] \o qs[n]
        BY <2>5, <3>4
      <4>2. P[n - 1] = Whole[n - 1]
        BY <3>1, <3>4
      <4>3. P[n] = P[n - 1] \o qs[n]
        BY <3>2, <4>1, <4>2
      <4>. HIDE DEF P
      <4>. QED  BY <2>6, <3>1, <4>3
    <3>. QED  BY <3>3, <3>4
  <2>7. \A n \in Nat : n \in M
    <3>1. 0 \in M
      OBVIOUS
    <3>2. ASSUME NEW n \in Nat, n \in M PROVE n + 1 \in M
      <4> SUFFICES ASSUME n + 1 <= L PROVE P[n + 1] \in Seq(T)
        OBVIOUS
      <4>1. n + 1 \in 1 .. L /\ (n + 1) - 1 = n /\ P[n] \in Seq(T)
        BY <1>1, <3>2
      <4>. HIDE DEF P
      <4>. QED  BY <2>6, <4>1
    <3>. HIDE DEF M
    <3>. QED  BY <3>1, <3>2, Induction
  <2>8. P[0] = <<>> /\ P[L] = Whole[L]
    BY <1>1, <1>4
  <2>9. \A n \in 0 .. L : n \in Nat /\ P[n] \in Seq(T)
    <3>. HIDE DEF P
    <3>. QED  BY <1>1, <2>7
  <2>. HIDE DEF P
  <2>10. ASSUME NEW n \in 1 .. L PROVE P[n] = P[n - 1] \o qs[n]
    <3>1. n - 1 \in 0 .. L
      BY <1>1
    <3>. QED  BY <2>6, <2>9, <3>1
  <2>11. Grows(P, T, qs)
    BY <2>8, <2>9, <2>10 DEF Grows, L
  <2>. QED  BY <2>0, <2>8, <2>11 DEF L
<1>. QED  BY <1>3, <1>4

(* Flattened, a vector of vectors has the elements of all of them.            *)
LEMMA FlattenElements ==
    ASSUME NEW qs, IsVector(qs), \A i \in DOMAIN qs : IsVector(qs[i])
    PROVE  /\ IsVector(FlattenSeq(qs))
           /\ ToSet(FlattenSeq(qs)) = UNION {ToSet(qs[i]) : i \in DOMAIN qs}
<1> DEFINE L == Len(qs)
           T == UNION {ToSet(qs[i]) : i \in DOMAIN qs}
<1>1. L \in Nat /\ DOMAIN qs = 1 .. L
  BY VectorElements
<1>2. ASSUME NEW i \in DOMAIN qs PROVE qs[i] \in Seq(T)
  <2>1. qs[i] \in Seq(ToSet(qs[i])) /\ ToSet(qs[i]) \subseteq T
    BY DEF IsVector, ToSet
  <2>. QED  BY <2>1
<1>. HIDE DEF T
<1>3. PICK P : Grows(P, T, qs) /\ FlattenSeq(qs) = P[Len(qs)]
  BY <1>2, Flattening
<1> DEFINE Sofar(n) == UNION {ToSet(qs[j]) : j \in 1 .. n}
           M == {n \in Nat : n <= L => ToSet(P[n]) = Sofar(n)}
<1>4. 0 \in M
  <2>1. P[0] = <<>> /\ 1 .. 0 = {}
    BY <1>3 DEF Grows
  <2>2. Sofar(0) = {}
    BY <2>1
  <2>. QED  BY <2>1, <2>2, EmptyVector
<1>5. ASSUME NEW n \in Nat, n \in M PROVE n + 1 \in M
  <2> SUFFICES ASSUME n + 1 <= L PROVE ToSet(P[n + 1]) = Sofar(n + 1)
    OBVIOUS
  <2>1. n + 1 \in 1 .. L /\ (n + 1) - 1 = n /\ n \in 0 .. L /\ n <= L
    BY <1>1
  <2>2. P[n + 1] = P[n] \o qs[n + 1] /\ P[n] \in Seq(T)
    BY <1>3, <2>1 DEF Grows
  <2>3. IsVector(P[n]) /\ IsVector(qs[n + 1])
    BY <1>1, <2>1, <2>2, VectorElements
  <2>4. ToSet(P[n + 1]) = ToSet(P[n]) \cup ToSet(qs[n + 1])
    BY <2>2, <2>3, ConcatVectors
  <2>5. Sofar(n + 1) = Sofar(n) \cup ToSet(qs[n + 1])
    <3>1. 1 .. n + 1 = (1 .. n) \cup {n + 1}
      OBVIOUS
    <3>. QED  BY <3>1
  <2>. QED  BY <1>5, <2>1, <2>4, <2>5
<1>6. L \in M
  <2>. HIDE DEF M
  <2>. QED  BY <1>1, <1>4, <1>5, Induction
<1>7. P[L] \in Seq(T) /\ ToSet(P[L]) = Sofar(L)
  BY <1>1, <1>3, <1>6 DEF Grows
<1>8. Sofar(L) = T
  BY <1>1 DEF T
<1>. QED  BY <1>3, <1>7, <1>8, VectorElements DEF T

(* A vector that has an element for each place in another one.                *)
LEMMA MadeOf ==
    ASSUME NEW q, IsVector(q), NEW p, DOMAIN p = DOMAIN q, p = [i \in DOMAIN q |-> p[i]]
    PROVE  IsVector(p)
<1>1. Len(q) \in Nat /\ DOMAIN q = 1 .. Len(q)
  BY VectorElements
<1>2. p \in Seq({p[i] : i \in DOMAIN q})
  BY <1>1
<1>. QED  BY <1>2, VectorElements

-------------------------------------------------------------------------------
(* Sums over finite sets.                                                     *)

(* The sum of the values of f over a finite set.                              *)
Sum(f, S) == MapThenSumSet(LAMBDA c : f[c], S)

(* A sum as the library computes it: the elements are taken one by one.       *)
IsSum(it, f, S) ==
    it = [T \in SUBSET S |->
             IF T = {} THEN 0
             ELSE f[CHOOSE x \in T : TRUE] + it[T \ {CHOOSE x \in T : TRUE}]]

(* A sum counts pairs: f[c] of them begin with c.                             *)
Pairs(f, S) == {p \in S \X Nat : 1 <= p[2] /\ p[2] <= f[p[1]]}

(* One element more: as many pairs more as its value says.                    *)
LEMMA PairsAdd ==
    ASSUME NEW T, NEW f, NEW x, x \notin T, f[x] \in Nat, IsFiniteSet(Pairs(f, T))
    PROVE  /\ IsFiniteSet(Pairs(f, T \cup {x}))
           /\ Cardinality(Pairs(f, T \cup {x})) = f[x] + Cardinality(Pairs(f, T))
<1> DEFINE R == {x} \X (1 .. f[x])
           P == Pairs(f, T)
<1>1. IsFiniteSet(R) /\ Cardinality(R) = f[x]
  <2> DEFINE b == [k \in 1 .. f[x] |-> <<x, k>>]
  <2>1. b \in Bijection(1 .. f[x], R)
    <3>1. b \in [1 .. f[x] -> R]
      OBVIOUS
    <3>2. \A k, l \in 1 .. f[x] : b[k] = b[l] => k = l
      OBVIOUS
    <3>3. \A r \in R : \E k \in 1 .. f[x] : b[k] = r
      OBVIOUS
    <3>. QED  BY <3>1, <3>2, <3>3 DEF Bijection, Injection, Surjection, IsInjective
  <2>2. IsFiniteSet(1 .. f[x]) /\ Cardinality(1 .. f[x]) = f[x]
    BY FS_Interval
  <2>3. ExistsBijection(1 .. f[x], R)
    BY <2>1 DEF ExistsBijection
  <2>. QED  BY <2>2, <2>3, FS_Bijection
<1>2. Pairs(f, T \cup {x}) = P \cup R /\ P \cap R = {}
  BY DEF Pairs
<1>3. Cardinality(P) \in Nat
  BY FS_CardinalityType
<1>. HIDE DEF P, R
<1>4. IsFiniteSet(P \cup R) /\ Cardinality(P \cup R) = Cardinality(P) + Cardinality(R) - Cardinality(P \cap R)
  BY <1>1, FS_Union DEF P
<1>5. Cardinality({}) = 0
  BY FS_EmptySet
<1>. QED  BY <1>1, <1>2, <1>3, <1>4, <1>5 DEF P

(* The function by which the library defines a sum over a finite set exists, and*)
(* gives the number of the pairs.                                             *)
LEMMA SumIsCount ==
    ASSUME NEW S, IsFiniteSet(S), NEW f, \A c \in S : f[c] \in Nat
    PROVE  /\ IsFiniteSet(Pairs(f, S)) /\ Cardinality(Pairs(f, S)) \in Nat
           /\ Sum(f, S) = Cardinality(Pairs(f, S))
           /\ \E it : IsSum(it, f, S)
           /\ \A it : IsSum(it, f, S) => it[S] = Cardinality(Pairs(f, S))
<1> DEFINE C(T) == Cardinality(Pairs(f, T))
           N == {n \in Nat : \A T \in SUBSET S : Cardinality(T) = n => IsFiniteSet(Pairs(f, T))}
<1>1. \A T \in SUBSET S : IsFiniteSet(T) /\ Cardinality(T) \in Nat
  BY FS_Subset, FS_CardinalityType
<1>2. ASSUME NEW T \in SUBSET S, NEW x \in T
      PROVE  /\ T \ {x} \in SUBSET S /\ x \notin T \ {x} /\ f[x] \in Nat
             /\ T = (T \ {x}) \cup {x}
             /\ Cardinality(T) = Cardinality(T \ {x}) + 1
  <2>1. Cardinality(T \ {x}) = Cardinality(T) - 1
    BY <1>1, FS_RemoveElement
  <2>2. Cardinality(T) \in Nat
    BY <1>1
  <2>3. Cardinality(T) = Cardinality(T \ {x}) + 1
    BY <2>1, <2>2
  <2>. QED  BY <2>3
<1>3. 0 \in N /\ \A T \in SUBSET S : Cardinality(T) = 0 => T = {}
  <2>1. ASSUME NEW T \in SUBSET S, Cardinality(T) = 0 PROVE T = {} /\ IsFiniteSet(Pairs(f, T))
    <3>1. T = {}
      BY <2>1, <1>1, FS_EmptySet
    <3>2. Pairs(f, {}) = {}
      BY DEF Pairs
    <3>. QED  BY <3>1, <3>2, FS_EmptySet
  <2>. QED  BY <2>1
<1>4. ASSUME NEW n \in Nat, n \in N PROVE n + 1 \in N
  <2> SUFFICES ASSUME NEW T \in SUBSET S, Cardinality(T) = n + 1 PROVE IsFiniteSet(Pairs(f, T))
    OBVIOUS
  <2>1. T # {}
    BY FS_EmptySet
  <2>2. PICK x \in T : TRUE
    BY <2>1
  <2>3. Cardinality(T \ {x}) = n
    <3>1. Cardinality(T) = Cardinality(T \ {x}) + 1 /\ T \ {x} \in SUBSET S
      BY <1>2
    <3>. QED  BY <3>1, <1>1
  <2>4. IsFiniteSet(Pairs(f, T \ {x}))
    BY <2>3, <1>2, <1>4
  <2>5. IsFiniteSet(Pairs(f, (T \ {x}) \cup {x}))
    BY <2>4, <1>2, PairsAdd
  <2>. QED  BY <2>5, <1>2
<1>5. \A T \in SUBSET S : IsFiniteSet(Pairs(f, T)) /\ C(T) \in Nat
  <2>1. \A n \in Nat : n \in N
    <3>. HIDE DEF N
    <3>. QED  BY <1>3, <1>4, Induction
  <2>. QED  BY <2>1, <1>1, FS_CardinalityType
<1>6. ASSUME NEW T \in SUBSET S, NEW x \in T PROVE C(T) = f[x] + C(T \ {x})
  BY <1>2, <1>5, PairsAdd
<1>7. C({}) = 0
  <2>1. Pairs(f, {}) = {}
    BY DEF Pairs
  <2>. QED  BY <2>1, FS_EmptySet
<1>8. \E it : IsSum(it, f, S)
  <2> DEFINE g == [T \in SUBSET S |-> C(T)]
  <2>1. ASSUME NEW T \in SUBSET S, T # {}
        PROVE  C(T) = f[CHOOSE x \in T : TRUE] + g[T \ {CHOOSE x \in T : TRUE}]
    <3>1. PICK y \in T : y = CHOOSE x \in T : TRUE
      BY <2>1
    <3>2. C(T) = f[y] + C(T \ {y}) /\ T \ {y} \in SUBSET S
      BY <1>6
    <3>3. g[T \ {y}] = C(T \ {y})
      BY <3>2
    <3>. QED  BY <3>1, <3>2, <3>3
  <2>2. IsSum(g, f, S)
    <3>1. g = [T \in SUBSET S |->
             IF T = {} THEN 0
             ELSE f[CHOOSE x \in T : TRUE] + g[T \ {CHOOSE x \in T : TRUE}]]
      BY <2>1, <1>7
    <3>. QED  BY <3>1 DEF IsSum
  <2>. QED  BY <2>2
<1>9. ASSUME NEW it, IsSum(it, f, S) PROVE it[S] = C(S)
  <2> DEFINE M == {n \in Nat : \A T \in SUBSET S : Cardinality(T) = n => it[T] = C(T)}
  <2>0. ASSUME NEW T \in SUBSET S, T # {}
        PROVE  \E y \in T : it[T] = f[y] + it[T \ {y}]
    <3>1. PICK y \in T : y = CHOOSE x \in T : TRUE
      BY <2>0
    <3>2. it[T] = IF T = {} THEN 0
                  ELSE f[CHOOSE x \in T : TRUE] + it[T \ {CHOOSE x \in T : TRUE}]
      BY <1>9, Zenon DEF IsSum
    <3>. QED  BY <3>1, <3>2, <2>0
  <2>1. 0 \in M
    <3>1. it[{}] = 0
      <4>1. {} \in SUBSET S
        OBVIOUS
      <4>. QED  BY <4>1, <1>9, Zenon DEF IsSum
    <3>. QED  BY <3>1, <1>3, <1>7
  <2>2. ASSUME NEW n \in Nat, n \in M PROVE n + 1 \in M
    <3> SUFFICES ASSUME NEW T \in SUBSET S, Cardinality(T) = n + 1 PROVE it[T] = C(T)
      OBVIOUS
    <3>1. T # {}
      BY FS_EmptySet
    <3>2. PICK x \in T : it[T] = f[x] + it[T \ {x}]
      BY <2>0, <3>1
    <3>3. Cardinality(T \ {x}) = n /\ T \ {x} \in SUBSET S
      BY <1>1, <1>2
    <3>4. it[T \ {x}] = C(T \ {x})
      BY <3>3, <2>2
    <3>. QED  BY <3>2, <3>4, <1>6
  <2>3. \A n \in Nat : n \in M
    <3>. HIDE DEF M
    <3>. QED  BY <2>1, <2>2, Induction
  <2>. QED  BY <2>3, <1>1
<1>10. Sum(f, S) = C(S)
  <2> DEFINE it == CHOOSE it : IsSum(it, f, S)
  <2>1. IsSum(it, f, S)
    BY <1>8, Zenon
  <2>2. Sum(f, S) = it[S]
    BY Zenon DEF Sum, MapThenSumSet, MapThenFoldSet, IsSum
  <2>. QED  BY <2>1, <2>2, <1>9
<1>. QED  BY <1>5, <1>8, <1>9, <1>10

(* The sum over nothing is 0, and each element adds its value.                *)
LEMMA SumOfNone ==
    ASSUME NEW f
    PROVE  Sum(f, {}) = 0
<1> DEFINE it == CHOOSE it : IsSum(it, f, {})
           g == [T \in SUBSET {} |-> 0]
<1>1. IsSum(g, f, {})
  BY DEF IsSum
<1>2. IsSum(it, f, {})
  BY <1>1, Zenon
<1>3. Sum(f, {}) = it[{}]
  BY Zenon DEF Sum, MapThenSumSet, MapThenFoldSet, IsSum
<1>. HIDE DEF it
<1>4. it[{}] = 0
  BY <1>2, Zenon DEF IsSum
<1>. QED  BY <1>3, <1>4 DEF it

(* An element more adds its value.                                            *)
LEMMA SumAdds ==
    ASSUME NEW S, IsFiniteSet(S), NEW x, x \notin S, NEW f, \A c \in S \cup {x} : f[c] \in Nat
    PROVE  /\ IsFiniteSet(S \cup {x}) /\ Sum(f, S) \in Nat
           /\ Sum(f, S \cup {x}) = f[x] + Sum(f, S)
<1>1. IsFiniteSet(S \cup {x})
  BY FS_AddElement
<1>2. IsFiniteSet(Pairs(f, S)) /\ Sum(f, S) = Cardinality(Pairs(f, S)) /\ Sum(f, S) \in Nat
  BY SumIsCount
<1>3. Sum(f, S \cup {x}) = Cardinality(Pairs(f, S \cup {x}))
  BY <1>1, SumIsCount
<1>4. Cardinality(Pairs(f, S \cup {x})) = f[x] + Cardinality(Pairs(f, S))
  BY <1>2, PairsAdd
<1>. QED  BY <1>1, <1>2, <1>3, <1>4

(* What is not more anywhere is not more in sum, even if the one sum runs     *)
(* over other names for the same things, or leaves some out.                  *)
LEMMA SumCompares ==
    ASSUME NEW S, IsFiniteSet(S), NEW R, IsFiniteSet(R),
           NEW f, \A c \in S : f[c] \in Nat, NEW g, \A c \in R : g[c] \in Nat, NEW h,
           \A c \in S : f[c] > 0 => h[c] \in R /\ f[c] <= g[h[c]],
           \A c, d \in S : h[c] = h[d] => c = d
    PROVE  Sum(f, S) <= Sum(g, R)
<1> DEFINE P == Pairs(f, S)
           Q == Pairs(g, R)
           b == [p \in P |-> <<h[p[1]], p[2]>>]
<1>1. b \in Injection(P, Q)
  <2>1. ASSUME NEW p \in P PROVE b[p] \in Q
    <3>1. p[1] \in S /\ p[2] \in Nat /\ 1 <= p[2] /\ p[2] <= f[p[1]] /\ f[p[1]] \in Nat
      BY DEF Pairs
    <3>2. h[p[1]] \in R /\ f[p[1]] <= g[h[p[1]]] /\ g[h[p[1]]] \in Nat
      BY <3>1
    <3>3. <<h[p[1]], p[2]>> \in Q
      BY <3>1, <3>2 DEF Pairs
    <3>. QED  BY <3>3
  <2>2. ASSUME NEW p \in P, NEW q \in P, b[p] = b[q] PROVE p = q
    <3>1. /\ p[1] \in S /\ q[1] \in S /\ p = <<p[1], p[2]>> /\ q = <<q[1], q[2]>>
      BY DEF Pairs
    <3>2. h[p[1]] = h[q[1]] /\ p[2] = q[2]
      BY <2>2
    <3>. QED  BY <3>1, <3>2
  <2>. HIDE DEF P, Q
  <2>3. b \in [P -> Q]
    BY <2>1
  <2>. QED  BY <2>2, <2>3 DEF Injection, IsInjective
<1>2. /\ IsFiniteSet(P) /\ Cardinality(P) = Sum(f, S)
      /\ IsFiniteSet(Q) /\ Cardinality(Q) = Sum(g, R)
  BY SumIsCount
<1>3. Cardinality(P) <= Cardinality(Q)
  <2>. HIDE DEF P, Q, b
  <2>. QED  BY <1>1, <1>2, FS_Injection
<1>. QED  BY <1>2, <1>3

-------------------------------------------------------------------------------
(* Vectors behind each other, cut and picked from.                            *)

(* A function of the first numbers is a vector.                               *)
LEMMA VectorOf ==
    ASSUME NEW m \in Nat, NEW V, NEW f \in [1 .. m -> V]
    PROVE  f \in Seq(V) /\ Len(f) = m /\ DOMAIN f = 1 .. m
OBVIOUS

(* Ranks: the elements of an order of positions, the n-th one behind n - 1    *)
(* others, are a rearrangement that ascends.                                  *)
Orders(B, D) ==
    /\ B \in [D -> SUBSET D]
    /\ \A i \in D : i \notin B[i]
    /\ \A i, j \in D : i # j => i \in B[j] \/ j \in B[i]
    /\ \A i, j, k \in D : i \in B[j] /\ j \in B[k] => i \in B[k]

(* The n-th element of such an order, for each n, is a rearrangement of the   *)
(* numbers in which each comes before those it is before.                     *)
LEMMA Ranking ==
    ASSUME NEW m \in Nat, NEW B, Orders(B, 1 .. m)
    PROVE  \E p \in Bijection(1 .. m, 1 .. m) :
               /\ \A n \in 1 .. m : p[n] = CHOOSE i \in 1 .. m : Cardinality(B[i]) = n - 1
               /\ \A k, n \in 1 .. m : k < n => p[k] \in B[p[n]]
<1> DEFINE D == 1 .. m
           rank == [i \in D |-> Cardinality(B[i]) + 1]
           At(n) == CHOOSE i \in D : Cardinality(B[i]) = n - 1
           p == [n \in D |-> At(n)]
<1> USE DEF Orders
<1>1. IsFiniteSet(D) /\ Cardinality(D) = m
  BY FS_Interval
<1>2. ASSUME NEW i \in D
      PROVE  IsFiniteSet(B[i]) /\ Cardinality(B[i]) \in Nat /\ Cardinality(B[i]) < m
  <2>1. B[i] \in SUBSET D /\ B[i] # D
    OBVIOUS
  <2>2. IsFiniteSet(B[i]) /\ Cardinality(B[i]) <= m /\ Cardinality(B[i]) # m
    BY <1>1, <2>1, FS_Subset
  <2>3. Cardinality(B[i]) \in Nat
    BY <2>2, FS_CardinalityType
  <2>. QED  BY <2>2, <2>3
<1>3. ASSUME NEW i \in D, NEW j \in D, i \in B[j]
      PROVE  Cardinality(B[i]) < Cardinality(B[j])
  <2>1. B[i] \in SUBSET D /\ B[j] \in SUBSET D
    OBVIOUS
  <2>2. B[i] \in SUBSET B[j]
    <3>1. ASSUME NEW x \in B[i] PROVE x \in B[j]
      <4>1. x \in D
        BY <2>1
      <4>. QED  BY <4>1, <1>3
    <3>. QED  BY <3>1
  <2>3. i \notin B[i]
    OBVIOUS
  <2>4. B[i] # B[j]
    BY <1>3, <2>3
  <2>. QED  BY <1>2, <2>2, <2>4, FS_Subset
<1>4. rank \in Injection(D, D)
  <2>1. ASSUME NEW i \in D PROVE Cardinality(B[i]) + 1 \in D
    BY <1>2
  <2>2. ASSUME NEW i \in D, NEW j \in D, rank[i] = rank[j] PROVE i = j
    <3>1. Cardinality(B[i]) = Cardinality(B[j])
      BY <2>2, <1>2
    <3>2. ~(i \in B[j]) /\ ~(j \in B[i])
      BY <3>1, <1>2, <1>3
    <3>. QED  BY <3>2
  <2>. HIDE DEF D
  <2>. QED  BY <2>1, <2>2 DEF Injection, IsInjective
<1>5. rank \in Surjection(D, D)
  BY <1>1, <1>4, FS_Injection
<1>6. ASSUME NEW n \in D PROVE At(n) \in D /\ Cardinality(B[At(n)]) = n - 1
  <2>1. PICK i \in D : rank[i] = n
    BY <1>5 DEF Surjection
  <2>2. Cardinality(B[i]) = n - 1
    BY <2>1, <1>2
  <2>. QED  BY <2>2
<1>. HIDE DEF At
<1>7. p \in Injection(D, D)
  <2>1. p \in [D -> D]
    BY <1>6
  <2>2. ASSUME NEW k \in D, NEW n \in D, p[k] = p[n] PROVE k = n
    <3>1. At(k) = At(n)
      BY <2>2
    <3>2. k - 1 = n - 1
      BY <3>1, <1>6
    <3>. QED  BY <3>2
  <2>. HIDE DEF p, D
  <2>. QED  BY <2>1, <2>2 DEF Injection, IsInjective
<1>8. p \in Bijection(D, D)
  BY <1>1, <1>7, FS_Injection DEF Bijection
<1>9. ASSUME NEW k \in D, NEW n \in D, k < n PROVE p[k] \in B[p[n]]
  <2>1. /\ p[k] \in D /\ p[n] \in D
        /\ Cardinality(B[p[k]]) = k - 1 /\ Cardinality(B[p[n]]) = n - 1
    BY <1>6
  <2>. HIDE DEF p
  <2>2. p[k] # p[n]
    BY <2>1, <1>9
  <2>3. p[n] \notin B[p[k]]
    BY <2>1, <1>3, <1>9
  <2>. QED  BY <2>1, <2>2, <2>3
<1>. QED  BY <1>8, <1>9 DEF At

(* Each number of S is the smallest, the second and so on, by how many do not *)
(* exceed it.                                                                 *)
LEMMA NthIs ==
    ASSUME NEW m \in Nat, NEW S \in SUBSET (1 .. m), NEW i \in S
    PROVE  LET k == Cardinality({j \in S : j <= i})
           IN  k \in 1 .. Cardinality(S) /\ Nth(S, k) = i
<1>1. [k \in 1 .. Cardinality(S) |-> Nth(S, k)] \in Surjection(1 .. Cardinality(S), S)
  BY NthBijection DEF Bijection
<1>2. PICK h \in 1 .. Cardinality(S) : Nth(S, h) = i
  BY <1>1 DEF Surjection
<1>3. Cardinality({j \in S : j <= Nth(S, h)}) = h
  BY NthExists
<1>. QED  BY <1>2, <1>3

(* How many numbers up to m + n there are in U: those up to m, and the others. *)
LEMMA CountSplit ==
    ASSUME NEW m \in Nat, NEW n \in Nat, NEW U \in SUBSET (1 .. m + n)
    PROVE  Cardinality(U) = Cardinality({k \in 1 .. m : k \in U}) + Cardinality({k \in 1 .. n : m + k \in U})
<1> DEFINE a == [k \in 1 .. m |-> k]
           b == [k \in 1 .. n |-> m + k]
           c == a \o b
<1>1. a \in Seq(Nat) /\ b \in Seq(Nat) /\ Len(a) = m /\ Len(b) = n /\ DOMAIN a = 1 .. m /\ DOMAIN b = 1 .. n
  OBVIOUS
<1>2. \A k \in 1 .. m : a[k] = k
  OBVIOUS
<1>3. \A k \in 1 .. n : b[k] = m + k
  OBVIOUS
<1>. HIDE DEF a, b
<1>4. DOMAIN c = 1 .. m + n /\ \A k \in 1 .. m + n : c[k] = k
  <2>1. Len(c) = m + n /\ DOMAIN c = 1 .. m + n
    BY <1>1
  <2>2. ASSUME NEW k \in 1 .. m + n PROVE c[k] = k
    <3>1. CASE k <= m
      <4>1. c[k] = a[k] /\ k \in 1 .. m
        BY <1>1, <3>1
      <4>. QED  BY <1>2, <4>1
    <3>2. CASE ~(k <= m)
      <4>1. k - m \in 1 .. n /\ m + (k - m) = k
        BY <3>2
      <4>2. c[k] = b[k - m]
        BY <1>1, <3>2
      <4>. QED  BY <1>3, <4>1, <4>2
    <3>. QED  BY <3>1, <3>2
  <2>. QED  BY <2>1, <2>2
<1>5. CountAt(c, DOMAIN c, U) = CountAt(a, DOMAIN a, U) + CountAt(b, DOMAIN b, U)
  BY <1>1, ConcatCounts
<1>. HIDE DEF c
<1>6. {k \in DOMAIN c : c[k] \in U} = U
  BY <1>4
<1>7. {k \in DOMAIN a : a[k] \in U} = {k \in 1 .. m : k \in U}
  BY <1>1, <1>2
<1>8. {k \in DOMAIN b : b[k] \in U} = {k \in 1 .. n : m + k \in U}
  BY <1>1, <1>3
<1>. QED  BY <1>5, <1>6, <1>7, <1>8 DEF CountAt

(* Two vectors one behind the other.                                          *)
Joins(r, p, q) ==
    /\ Len(r) = Len(p) + Len(q) /\ Len(p) \in Nat /\ Len(q) \in Nat
    /\ r = [k \in 1 .. Len(p) + Len(q) |-> r[k]]
    /\ \A k \in 1 .. Len(p) : r[k] = p[k]
    /\ \A k \in 1 .. Len(q) : r[Len(p) + k] = q[k]

(* A concatenation joins its two parts.                                       *)
LEMMA ConcatIs ==
    ASSUME NEW T, NEW p \in Seq(T), NEW q \in Seq(T)
    PROVE  p \o q \in Seq(T) /\ Joins(p \o q, p, q)
<1>1. p \o q \in Seq(T) /\ Len(p \o q) = Len(p) + Len(q) /\ Len(p) \in Nat /\ Len(q) \in Nat
  OBVIOUS
<1>2. p \o q = [k \in 1 .. Len(p) + Len(q) |-> (p \o q)[k]]
  <2> DEFINE r == p \o q
  <2>1. r \in Seq(T) /\ Len(r) = Len(p) + Len(q)
    BY <1>1
  <2>. HIDE DEF r
  <2>2. r = [k \in 1 .. Len(r) |-> r[k]]
    BY <2>1
  <2>. QED  BY <2>1, <2>2 DEF r
<1>3. \A k \in 1 .. Len(p) : (p \o q)[k] = p[k]
  OBVIOUS
<1>4. \A k \in 1 .. Len(q) : (p \o q)[Len(p) + k] = q[k]
  OBVIOUS
<1>. QED  BY <1>1, <1>2, <1>3, <1>4 DEF Joins

(* What is picked of two vectors one behind the other.                        *)
PicksBoth(a, b, U) ==
    Pick(a \o b, U) = Pick(a, {k \in 1 .. Len(a) : k \in U})
                      \o Pick(b, {k \in 1 .. Len(b) : Len(a) + k \in U})

(* It is picked of the first, and then of the second.                         *)
LEMMA PickConcat ==
    ASSUME NEW T, NEW a \in Seq(T), NEW b \in Seq(T), NEW U \in SUBSET (1 .. Len(a) + Len(b))
    PROVE  PicksBoth(a, b, U)
<1> DEFINE c == a \o b
           m == Len(a)
           n == Len(b)
           S == {k \in 1 .. m : k \in U}
           V == {k \in 1 .. n : m + k \in U}
           s == Cardinality(S)
           v == Cardinality(V)
<1>1. /\ m \in Nat /\ n \in Nat /\ DOMAIN a = 1 .. m /\ DOMAIN b = 1 .. n
      /\ c \in Seq(T) /\ Len(c) = m + n /\ DOMAIN c = 1 .. m + n
      /\ \A k \in 1 .. m : c[k] = a[k] /\ k \in 1 .. m + n
      /\ \A k \in 1 .. n : c[m + k] = b[k] /\ m + k \in 1 .. m + n
  OBVIOUS
<1>2. S \in SUBSET (1 .. m) /\ V \in SUBSET (1 .. n) /\ U \in SUBSET (1 .. m + n)
  OBVIOUS
<1>. HIDE DEF c, m, n
<1>3. {k \in 1 .. m : k \in U} = S /\ {k \in 1 .. n : m + k \in U} = V
  OBVIOUS
<1>4. s \in Nat /\ v \in Nat
  BY <1>1, <1>2, NumbersFinite
<1>5. Cardinality(U) = s + v
  <2>. HIDE DEF S, V
  <2>. QED  BY <1>1, <1>2, <1>3, CountSplit
<1>6. ASSUME NEW k \in 1 .. s PROVE Pick(c, U)[k] = Pick(a, S)[k]
  <2> DEFINE x == Nth(S, k)
             W == {j \in U : j <= x}
  <2>1. x \in S /\ Cardinality({j \in S : j <= x}) = k
    BY <1>1, <1>2, NthExists
  <2>. HIDE DEF x
  <2>2. x \in U /\ c[x] = a[x] /\ x \in 1 .. m
    BY <1>1, <1>2, <1>3, <2>1
  <2>3. W = {j \in S : j <= x}
    <3>1. ASSUME NEW j \in W PROVE j \in S
      <4>1. j \in 1 .. m
        BY <1>1, <1>2, <2>2
      <4>. QED  BY <1>3, <4>1
    <3>2. ASSUME NEW j \in S PROVE j \in U
      BY <1>3
    <3>. HIDE DEF S
    <3>. QED  BY <3>1, <3>2
  <2>4. Nth(U, k) = x
    <3>. HIDE DEF S
    <3>1. m + n \in Nat
      BY <1>1
    <3>2. Nth(U, Cardinality(W)) = x
      BY <1>2, <2>2, <3>1, NthIs
    <3>. QED  BY <2>1, <2>3, <3>2
  <2>5. k \in 1 .. s + v
    BY <1>4
  <2>. QED  BY <1>5, <2>2, <2>4, <2>5 DEF Pick, x
<1>7. ASSUME NEW h \in 1 .. v PROVE Pick(c, U)[s + h] = Pick(b, V)[h]
  <2> DEFINE y == Nth(V, h)
             x == m + y
             W == {j \in U : j <= x}
  <2>1. y \in V /\ Cardinality({j \in V : j <= y}) = h
    BY <1>1, <1>2, NthExists
  <2>. HIDE DEF y
  <2>2. x \in U /\ c[x] = b[y] /\ y \in 1 .. n
    BY <1>1, <1>2, <1>3, <2>1
  <2>3. W \in SUBSET (1 .. m + n)
    BY <1>2
  <2>4. {k \in 1 .. m : k \in W} = S
    <3>1. \A k \in 1 .. m : k <= x
      BY <1>1, <2>2
    <3>2. {k \in 1 .. m : k \in W} = {k \in 1 .. m : k \in U}
      BY <3>1
    <3>. QED  BY <1>3, <3>2
  <2>5. {k \in 1 .. n : m + k \in W} = {j \in V : j <= y}
    <3>1. \A k \in 1 .. n : m + k <= x <=> k <= y
      BY <1>1, <2>2
    <3>2. \A k \in 1 .. n : m + k \in U <=> k \in V
      BY <1>3
    <3>3. \A k \in V : k \in 1 .. n
      BY <1>2
    <3>. HIDE DEF V, x
    <3>. QED  BY <3>1, <3>2, <3>3
  <2>6. Cardinality(W) = s + h
    <3>1. Cardinality(W) = Cardinality({k \in 1 .. m : k \in W}) + Cardinality({k \in 1 .. n : m + k \in W})
      <4>. HIDE DEF W
      <4>. QED  BY <1>1, <2>3, CountSplit
    <3>. QED  BY <2>1, <2>4, <2>5, <3>1, Zenon
  <2>7. Nth(U, s + h) = x
    <3>. HIDE DEF x
    <3>1. m + n \in Nat
      BY <1>1
    <3>2. Nth(U, Cardinality(W)) = x
      BY <1>2, <2>2, <3>1, NthIs
    <3>. QED  BY <2>6, <3>2
  <2>8. s + h \in 1 .. s + v
    BY <1>4
  <2>. QED  BY <1>5, <2>2, <2>7, <2>8 DEF Pick, y
<1>8. /\ Pick(a, S) \in Seq(T) /\ Len(Pick(a, S)) = s
      /\ Pick(b, V) \in Seq(T) /\ Len(Pick(b, V)) = v
      /\ Pick(c, U) \in Seq(T) /\ Len(Pick(c, U)) = s + v
  <2>. HIDE DEF S, V
  <2>. QED  BY <1>1, <1>2, <1>5, PickTyped DEF m, n
<1> DEFINE p == Pick(a, S)
           q == Pick(b, V)
           r == Pick(c, U)
<1>9. r = p \o q
  <2>1. /\ p \in Seq(T) /\ Len(p) = s /\ q \in Seq(T) /\ Len(q) = v /\ r \in Seq(T) /\ Len(r) = s + v
        /\ \A k \in 1 .. s : r[k] = p[k]
        /\ \A h \in 1 .. v : r[s + h] = q[h]
    BY <1>6, <1>7, <1>8
  <2>. HIDE DEF p, q, r, s, v
  <2>2. /\ p \o q = [k \in 1 .. s + v |-> (p \o q)[k]]
        /\ \A k \in 1 .. s : (p \o q)[k] = p[k]
        /\ \A k \in 1 .. v : (p \o q)[s + k] = q[k]
    <3>1. p \in Seq(T) /\ q \in Seq(T) /\ Len(p) = s /\ Len(q) = v
      BY <2>1
    <3>2. Joins(p \o q, p, q)
      BY <3>1, ConcatIs
    <3>. QED  BY <3>1, <3>2, Zenon DEF Joins
  <2>3. \A k \in 1 .. s + v : r[k] = (p \o q)[k]
    <3> SUFFICES ASSUME NEW k \in 1 .. s + v PROVE r[k] = (p \o q)[k]
      OBVIOUS
    <3>1. CASE k <= s
      <4>1. k \in 1 .. s
        BY <1>4, <3>1
      <4>. QED  BY <2>1, <2>2, <4>1
    <3>2. CASE ~(k <= s)
      <4>1. k - s \in 1 .. v /\ s + (k - s) = k
        BY <1>4, <3>2
      <4>2. r[s + (k - s)] = q[k - s] /\ (p \o q)[s + (k - s)] = q[k - s]
        BY <2>1, <2>2, <4>1
      <4>. QED  BY <4>1, <4>2
    <3>. QED  BY <3>1, <3>2
  <2>4. r = [k \in 1 .. s + v |-> r[k]]
    BY <2>1
  <2>. QED  BY <2>2, <2>3, <2>4, Zenon
<1>. QED  BY <1>9 DEF PicksBoth, c, S, V, m, n

(* The elements of q that are in F, in their order.                           *)
Sieved(q, F) == Pick(q, {i \in DOMAIN q : q[i] \in F})

(* What is kept of two vectors one behind the other.                          *)
LEMMA KeptConcat ==
    ASSUME NEW T, NEW a \in Seq(T), NEW b \in Seq(T), NEW F
    PROVE  Sieved(a \o b, F) = Sieved(a, F) \o Sieved(b, F)
<1> DEFINE c == a \o b
           m == Len(a)
           n == Len(b)
           U == {i \in DOMAIN c : c[i] \in F}
<1>1. /\ m \in Nat /\ n \in Nat /\ DOMAIN a = 1 .. m /\ DOMAIN b = 1 .. n
      /\ c \in Seq(T) /\ Len(c) = m + n /\ DOMAIN c = 1 .. m + n
      /\ \A k \in 1 .. m : c[k] = a[k] /\ k \in 1 .. m + n
      /\ \A k \in 1 .. n : c[m + k] = b[k] /\ m + k \in 1 .. m + n
  OBVIOUS
<1>. HIDE DEF c, m, n
<1>2. U \in SUBSET (1 .. m + n)
  BY <1>1
<1>3. /\ {k \in 1 .. m : k \in U} = {i \in DOMAIN a : a[i] \in F}
      /\ {k \in 1 .. n : m + k \in U} = {i \in DOMAIN b : b[i] \in F}
  <2>1. \A k \in 1 .. m : k \in U <=> a[k] \in F
    BY <1>1
  <2>2. \A k \in 1 .. n : m + k \in U <=> b[k] \in F
    BY <1>1
  <2>. HIDE DEF U
  <2>. QED  BY <1>1, <2>1, <2>2
<1>4. Pick(c, U) = Pick(a, {k \in 1 .. m : k \in U}) \o Pick(b, {k \in 1 .. n : m + k \in U})
  <2>. HIDE DEF U
  <2>1. U \in SUBSET (1 .. Len(a) + Len(b))
    BY <1>2 DEF m, n
  <2>2. PicksBoth(a, b, U)
    BY <2>1, PickConcat
  <2>. QED  BY <2>2, Zenon DEF PicksBoth, c, m, n
<1>5. Sieved(c, F) = Pick(c, U)
  BY DEF Sieved, U
<1>6. /\ Sieved(a, F) = Pick(a, {k \in 1 .. m : k \in U})
      /\ Sieved(b, F) = Pick(b, {k \in 1 .. n : m + k \in U})
  BY <1>3 DEF Sieved
<1>. QED  BY <1>4, <1>5, <1>6 DEF c

(* Place by place the elements of a and b belong together.                    *)
PairedBy(a, b, R) == Len(a) = Len(b) /\ \A i \in 1 .. Len(b) : <<a[i], b[i]>> \in R

(* Vectors that match one by one match also behind each other.                *)
LEMMA MatchesConcat ==
    ASSUME NEW A, NEW B, NEW R, NEW a \in Seq(A), NEW b \in Seq(B), NEW c \in Seq(A), NEW d \in Seq(B),
           PairedBy(a, b, R), PairedBy(c, d, R)
    PROVE  PairedBy(a \o c, b \o d, R)
<1> DEFINE m == Len(a)
           n == Len(c)
           x == a \o c
           y == b \o d
<1>1. Joins(x, a, c) /\ Joins(y, b, d)
  BY ConcatIs
<1>2. m = Len(b) /\ n = Len(d) /\ m \in Nat /\ n \in Nat
  BY DEF PairedBy
<1>. HIDE DEF m, n, x, y
<1>3. Len(x) = m + n /\ Len(y) = m + n
  BY <1>1, <1>2 DEF Joins, m, n
<1>4. \A k \in 1 .. m : x[k] = a[k] /\ y[k] = b[k] /\ <<a[k], b[k]>> \in R
  BY <1>1, <1>2 DEF Joins, m, PairedBy
<1>5. \A k \in 1 .. n : x[m + k] = c[k] /\ y[m + k] = d[k] /\ <<c[k], d[k]>> \in R
  BY <1>1, <1>2 DEF Joins, n, m, PairedBy
<1>6. ASSUME NEW k \in 1 .. m + n PROVE <<x[k], y[k]>> \in R
  <2>1. CASE k <= m
    <3>1. k \in 1 .. m
      BY <1>2, <2>1
    <3>2. x[k] = a[k] /\ y[k] = b[k] /\ <<a[k], b[k]>> \in R
      BY <1>4, <3>1
    <3>. QED  BY <3>2
  <2>2. CASE ~(k <= m)
    <3>1. k - m \in 1 .. n /\ m + (k - m) = k
      BY <1>2, <2>2
    <3>2. /\ x[m + (k - m)] = c[k - m] /\ y[m + (k - m)] = d[k - m]
          /\ <<c[k - m], d[k - m]>> \in R
      BY <1>5, <3>1
    <3>. QED  BY <3>1, <3>2
  <2>. QED  BY <2>1, <2>2
<1>. QED  BY <1>3, <1>6 DEF PairedBy, x, y

(* What belongs together part by part does so when flattened.                 *)
LEMMA FlattenMatches ==
    ASSUME NEW A, NEW B, NEW R, NEW F, NEW qs, NEW ws, IsVector(qs), IsVector(ws), DOMAIN ws = DOMAIN qs,
           \A i \in DOMAIN qs : qs[i] \in Seq(A) /\ ws[i] \in Seq(B) /\ PairedBy(qs[i], Sieved(ws[i], F), R)
    PROVE  /\ PairedBy(FlattenSeq(qs), Sieved(FlattenSeq(ws), F), R)
           /\ FlattenSeq(ws) \in Seq(B)
<1> DEFINE L == Len(qs)
<1>1. L \in Nat /\ DOMAIN qs = 1 .. L /\ Len(ws) = L
  <2>1. L \in Nat /\ DOMAIN qs = 1 .. L
    BY VectorElements
  <2>2. Len(ws) \in Nat /\ DOMAIN ws = 1 .. Len(ws) /\ ws \in Seq({ws[i] : i \in DOMAIN ws})
    BY VectorElements
  <2>3. Cardinality(1 .. L) = L /\ Cardinality(1 .. Len(ws)) = Len(ws)
    <3>1. \A n \in Nat : Cardinality(1 .. n) = n
      BY FS_Interval
    <3>. QED  BY <2>1, <2>2, <3>1
  <2>. QED  BY <2>1, <2>2, <2>3
<1>2. PICK P : Grows(P, A, qs) /\ FlattenSeq(qs) = P[L]
  BY Flattening
<1>3. PICK Q : Grows(Q, B, ws) /\ FlattenSeq(ws) = Q[L]
  BY <1>1, Flattening
<1> DEFINE M == {n \in Nat : n <= L => PairedBy(P[n], Sieved(Q[n], F), R)}
<1>4. 0 \in M
  <2>1. P[0] = <<>> /\ Q[0] = <<>>
    BY <1>2, <1>3 DEF Grows
  <2>2. Sieved(<<>>, F) = <<>>
    <3>1. {i \in DOMAIN <<>> : <<>>[i] \in F} = {} /\ Cardinality({}) = 0
      BY FS_EmptySet
    <3>2. Sieved(<<>>, F) = [k \in 1 .. 0 |-> <<>>[Nth({}, k)]]
      BY <3>1 DEF Sieved, Pick
    <3>3. 1 .. 0 = {}
      OBVIOUS
    <3>. QED  BY <3>2, <3>3
  <2>3. PairedBy(<<>>, <<>>, R)
    BY DEF PairedBy
  <2>. QED  BY <2>1, <2>2, <2>3
<1>5. ASSUME NEW n \in Nat, n \in M PROVE n + 1 \in M
  <2> SUFFICES ASSUME n + 1 <= L PROVE PairedBy(P[n + 1], Sieved(Q[n + 1], F), R)
    OBVIOUS
  <2>1. n + 1 \in 1 .. L /\ (n + 1) - 1 = n /\ n \in 0 .. L /\ n <= L
    BY <1>1
  <2>2. P[n + 1] = P[n] \o qs[n + 1] /\ P[n] \in Seq(A)
    BY <1>2, <2>1 DEF Grows
  <2>3. Q[n + 1] = Q[n] \o ws[n + 1] /\ Q[n] \in Seq(B)
    BY <1>1, <1>3, <2>1 DEF Grows
  <2> DEFINE a == P[n]
             b == Q[n]
             c == qs[n + 1]
             d == ws[n + 1]
  <2>4. c \in Seq(A) /\ d \in Seq(B) /\ PairedBy(c, Sieved(d, F), R)
    BY <1>1, <2>1
  <2>5. a \in Seq(A) /\ b \in Seq(B) /\ PairedBy(a, Sieved(b, F), R)
    BY <1>5, <2>1, <2>2, <2>3
  <2>6. P[n + 1] = a \o c /\ Q[n + 1] = b \o d
    BY <2>2, <2>3
  <2>. HIDE DEF a, b, c, d
  <2>7. Sieved(b \o d, F) = Sieved(b, F) \o Sieved(d, F)
    BY <2>4, <2>5, KeptConcat
  <2>8. Sieved(b, F) \in Seq(B) /\ Sieved(d, F) \in Seq(B)
    <3>1. ASSUME NEW q \in Seq(B) PROVE Sieved(q, F) \in Seq(B)
      <4> DEFINE S == {i \in DOMAIN q : q[i] \in F}
      <4>1. S \in SUBSET (1 .. Len(q))
        OBVIOUS
      <4>. HIDE DEF S
      <4>2. Pick(q, S) \in Seq(B)
        BY <4>1, PickTyped
      <4>. QED  BY <4>2 DEF Sieved, S
    <3>. QED  BY <2>4, <2>5, <3>1
  <2>9. PairedBy(a \o c, Sieved(b, F) \o Sieved(d, F), R)
    BY <2>4, <2>5, <2>8, MatchesConcat
  <2>. QED  BY <2>6, <2>7, <2>9
<1>6. L \in M
  <2>. HIDE DEF M
  <2>. QED  BY <1>1, <1>4, <1>5, Induction
<1>7. Q[L] \in Seq(B)
  BY <1>1, <1>3 DEF Grows
<1>. QED  BY <1>1, <1>2, <1>3, <1>6, <1>7

(* All positions of a vector pick the vector.                                 *)
LEMMA PickAll ==
    ASSUME NEW q, IsVector(q)
    PROVE  Pick(q, DOMAIN q) = q
<1> DEFINE n == Len(q)
           T == {q[i] : i \in DOMAIN q}
<1>1. n \in Nat /\ DOMAIN q = 1 .. n /\ q \in Seq(T)
  BY VectorElements
<1>. HIDE DEF n, T
<1>2. q = [k \in 1 .. n |-> q[k]]
  BY <1>1
<1>3. \A k \in Nat : Cardinality(1 .. k) = k
  BY FS_Interval
<1>4. \A k \in 1 .. n : Nth(1 .. n, k) = k
  BY <1>1, NthOfInterval
<1>5. Pick(q, DOMAIN q) = [k \in 1 .. n |-> q[Nth(1 .. n, k)]]
  BY <1>1, <1>3 DEF Pick
<1>6. [k \in 1 .. n |-> q[Nth(1 .. n, k)]] = [k \in 1 .. n |-> q[k]]
  BY <1>4
<1>. QED  BY <1>2, <1>5, <1>6

(* The ends of two vectors one behind the other.                              *)
LEMMA EndsOf ==
    ASSUME NEW T, NEW a \in Seq(T), NEW b \in Seq(T)
    PROVE  /\ a \o b \in Seq(T)
           /\ a # <<>> => a \o b # <<>> /\ (a \o b)[1] = a[1]
           /\ b # <<>> => a \o b # <<>> /\ (a \o b)[Len(a \o b)] = b[Len(b)]
<1>1. a \o b \in Seq(T) /\ Len(a \o b) = Len(a) + Len(b) /\ Len(a) \in Nat /\ Len(b) \in Nat
  OBVIOUS
<1>2. \A i \in 1 .. Len(a) : (a \o b)[i] = a[i]
  OBVIOUS
<1>3. \A i \in 1 .. Len(b) : (a \o b)[Len(a) + i] = b[i]
  OBVIOUS
<1> DEFINE c == a \o b
<1>. HIDE DEF c
<1>4. a # <<>> => c # <<>> /\ c[1] = a[1]
  <2> SUFFICES ASSUME a # <<>> PROVE c # <<>> /\ c[1] = a[1]
    OBVIOUS
  <2>1. 1 \in 1 .. Len(a) /\ Len(a) # 0
    OBVIOUS
  <2>. QED  BY <1>1, <1>2, <2>1 DEF c
<1>5. b # <<>> => c # <<>> /\ c[Len(c)] = b[Len(b)]
  <2> SUFFICES ASSUME b # <<>> PROVE c # <<>> /\ c[Len(c)] = b[Len(b)]
    OBVIOUS
  <2>1. Len(b) \in 1 .. Len(b) /\ Len(b) # 0
    OBVIOUS
  <2>2. c[Len(a) + Len(b)] = b[Len(b)]
    BY <1>3, <2>1 DEF c
  <2>3. Len(c) = Len(a) + Len(b)
    BY <1>1 DEF c
  <2>. QED  BY <1>1, <2>1, <2>2, <2>3
<1>. QED  BY <1>1, <1>4, <1>5 DEF c

(* It does not matter how three vectors are put together.                     *)
Associates(a, b, c) == (a \o b) \o c = a \o (b \o c)

(* Three texts behind each other may be put together in any order.            *)
LEMMA ThreeTogether ==
    ASSUME NEW T, NEW a \in Seq(T), NEW b \in Seq(T), NEW c \in Seq(T)
    PROVE  Associates(a, b, c)
BY ConcatAssociative DEF Associates

(* Nor how five are, and what is behind them.                                 *)
Regroups(a, b, c, d, e, r) == (a \o b \o c \o d \o e) \o r = a \o (b \o (c \o (d \o (e \o r))))

(* So may five, before what follows them.                                     *)
LEMMA FiveTogether ==
    ASSUME NEW T, NEW a \in Seq(T), NEW b \in Seq(T), NEW c \in Seq(T), NEW d \in Seq(T),
           NEW e \in Seq(T), NEW r \in Seq(T)
    PROVE  Regroups(a, b, c, d, e, r)
<1> DEFINE x2 == a \o b
           x3 == x2 \o c
           x4 == x3 \o d
           y1 == e \o r
           y2 == d \o y1
           y3 == c \o y2
<1>. HIDE DEF x2, x3, x4, y1, y2, y3
<1>1. x2 \in Seq(T) /\ y1 \in Seq(T)
  BY EndsOf DEF x2, y1
<1>2. x3 \in Seq(T) /\ y2 \in Seq(T)
  BY <1>1, EndsOf DEF x3, y2
<1>3. x4 \in Seq(T) /\ y3 \in Seq(T)
  BY <1>2, EndsOf DEF x4, y3
<1>4. Associates(a, b, y3)
  BY <1>3, ThreeTogether
<1>5. Associates(x2, c, y2)
  BY <1>1, <1>2, ThreeTogether
<1>6. Associates(x3, d, y1)
  BY <1>1, <1>2, ThreeTogether
<1>7. Associates(x4, e, r)
  BY <1>3, ThreeTogether
<1>8. (x4 \o e) \o r = a \o (b \o y3)
  <2>1. x2 \o y3 = a \o (b \o y3)
    BY <1>4, Zenon DEF x2, Associates
  <2>2. x3 \o y2 = x2 \o y3
    BY <1>5, Zenon DEF x3, y3, Associates
  <2>3. x4 \o y1 = x3 \o y2
    BY <1>6, Zenon DEF x4, y2, Associates
  <2>4. (x4 \o e) \o r = x4 \o y1
    BY <1>7, Zenon DEF y1, Associates
  <2>. QED  BY <2>1, <2>2, <2>3, <2>4, Zenon
<1>. QED  BY <1>8, Zenon DEF x2, x3, x4, y1, y2, y3, Regroups

(* One position picks one element.                                            *)
LEMMA PickOne ==
    ASSUME NEW T, NEW q \in Seq(T), NEW k \in DOMAIN q
    PROVE  Pick(q, {k}) = <<q[k]>>
<1>1. {k} \in SUBSET (1 .. Len(q)) /\ Cardinality({k}) = 1
  <2>1. Cardinality({k}) = 1
    BY FS_Singleton
  <2>2. DOMAIN q = 1 .. Len(q)
    OBVIOUS
  <2>. QED  BY <2>1, <2>2
<1>2. Nth({k}, 1) \in {k}
  BY <1>1, PickTyped
<1>3. Pick(q, {k}) = [j \in 1 .. 1 |-> q[Nth({k}, j)]]
  BY <1>1 DEF Pick
<1>4. [j \in 1 .. 1 |-> q[Nth({k}, j)]] = [j \in 1 .. 1 |-> q[k]]
  BY <1>2
<1>5. [j \in 1 .. 1 |-> q[k]] = <<q[k]>>
  OBVIOUS
<1>. QED  BY <1>3, <1>4, <1>5

(* No position picks nothing.                                                 *)
LEMMA PickNone == \A q : Pick(q, {}) = <<>>
<1>1. Cardinality({}) = 0
  BY FS_EmptySet
<1>. QED  BY <1>1 DEF Pick

(* A vector is cut in two.                                                    *)
LEMMA CutAt ==
    ASSUME NEW T, NEW s \in Seq(T), NEW n \in 0 .. Len(s)
    PROVE  /\ SubSeq(s, 1, n) \in Seq(T) /\ SubSeq(s, n + 1, Len(s)) \in Seq(T)
           /\ s = SubSeq(s, 1, n) \o SubSeq(s, n + 1, Len(s))
<1>1. Len(s) \in Nat /\ n \in Int /\ 1 \in Int /\ n + 1 \in Int /\ Len(s) \in Int
  OBVIOUS
<1>2. 1 \in 1 .. Len(s) + 1 /\ n \in 1 - 1 .. Len(s) /\ Len(s) \in n .. Len(s)
  BY <1>1
<1>3. SubSeq(s, 1, n) \o SubSeq(s, n + 1, Len(s)) = SubSeq(s, 1, Len(s))
  BY <1>2, ConcatAdjacentSubSeq
<1>4. SubSeq(s, 1, Len(s)) = s
  BY SubSeqFull
<1>5. (\A i \in 1 .. n : s[i] \in T) /\ (\A i \in n + 1 .. Len(s) : s[i] \in T)
  BY <1>1
<1>. QED  BY <1>1, <1>3, <1>4, <1>5, SubSeqProperties

(* What is behind the first of two vectors is the second.                     *)
LEMMA Behind ==
    ASSUME NEW T, NEW a \in Seq(T), NEW b \in Seq(T)
    PROVE  SubSeq(a \o b, Len(a) + 1, Len(a \o b)) = b
<1> DEFINE c == a \o b
           m == Len(a)
           n == Len(b)
           d == SubSeq(c, m + 1, Len(c))
<1>1. /\ m \in Nat /\ n \in Nat /\ c \in Seq(T) /\ Len(c) = m + n
      /\ \A k \in 1 .. n : c[m + k] = b[k]
  OBVIOUS
<1>. HIDE DEF c, m, n
<1>2. m + 1 \in Int /\ Len(c) \in Int /\ \A i \in m + 1 .. Len(c) : c[i] \in T
  BY <1>1
<1>3. /\ d \in Seq(T) /\ Len(d) = (IF m + 1 <= Len(c) THEN Len(c) - (m + 1) + 1 ELSE 0)
      /\ \A i \in 1 .. Len(c) - (m + 1) + 1 : d[i] = c[m + 1 + i - 1]
  BY <1>2, SubSeqProperties
<1>. HIDE DEF d
<1>4. Len(d) = n
  BY <1>1, <1>3
<1>5. ASSUME NEW i \in 1 .. Len(d) PROVE d[i] = b[i]
  <2>1. i \in 1 .. Len(c) - (m + 1) + 1 /\ m + 1 + i - 1 = m + i
    BY <1>1, <1>4
  <2>. QED  BY <1>1, <1>3, <1>4, <2>1
<1>6. b \in Seq(T) /\ Len(d) = Len(b)
  BY <1>4 DEF n
<1>7. d = b
  BY <1>3, <1>5, <1>6, SeqEqual
<1>. QED  BY <1>7 DEF d, c, m

(* What is behind the first n vectors of qs, for each n.                      *)
Tails(R, T, qs) ==
    /\ R[Len(qs)] = <<>> /\ R[0] = FlattenSeq(qs)
    /\ \A n \in 0 .. Len(qs) : R[n] \in Seq(T)
    /\ \A n \in 1 .. Len(qs) : R[n - 1] = qs[n] \o R[n]

(* Vectors behind each other can be taken apart from the end.                 *)
LEMMA Unflattening ==
    ASSUME NEW T, NEW qs, IsVector(qs), \A i \in DOMAIN qs : qs[i] \in Seq(T)
    PROVE  \E R : Tails(R, T, qs)
<1> DEFINE L == Len(qs)
           V == Seq(T)
           none == <<>>
           step == [k \in 1 .. L |-> [q \in V |-> qs[L - k + 1] \o q]]
<1>1. L \in Nat /\ DOMAIN qs = 1 .. L /\ \A i \in 1 .. L : qs[i] \in V
  BY VectorElements
<1>2. PICK P : Grows(P, T, qs) /\ FlattenSeq(qs) = P[L]
  BY Flattening
<1>3. /\ P[0] = <<>> /\ (\A n \in 0 .. L : P[n] \in V) /\ \A n \in 1 .. L : P[n] = P[n - 1] \o qs[n]
  BY <1>2, Zenon DEF Grows
<1>4. PICK f : f \in [0 .. L -> V] /\ f[0] = none /\ \A k \in 1 .. L : f[k] = step[k][f[k - 1]]
  <2>1. step \in [1 .. L -> [V -> V]]
    <3>1. ASSUME NEW k \in 1 .. L, NEW q \in V PROVE qs[L - k + 1] \o q \in V
      <4> DEFINE i == L - k + 1
      <4>1. i \in 1 .. L
        BY <1>1
      <4>2. qs[i] \in V
        BY <1>1, <4>1
      <4>. HIDE DEF i
      <4>3. qs[i] \o q \in V
        BY <4>2, EndsOf
      <4>. QED  BY <4>3 DEF i
    <3>. QED  BY <3>1
  <2>2. none \in V
    OBVIOUS
  <2>. HIDE DEF step, V, none, L
  <2>3. \E f : Iterates(f, V, none, L, step)
    BY <1>1, <2>1, <2>2, Recursion
  <2>. QED  BY <2>3, Zenon DEF Iterates
<1>. HIDE DEF L
<1>5. ASSUME NEW k \in 1 .. L PROVE f[k] = qs[L - k + 1] \o f[k - 1] /\ f[k - 1] \in V
  <2>1. k - 1 \in 0 .. L
    BY <1>1
  <2>2. f[k - 1] \in V
    BY <1>4, <2>1
  <2>. QED  BY <1>4, <2>2
<1>. HIDE DEF step
<1> DEFINE S == {k \in Nat : k <= L => P[L - k] \o f[k] = P[L]}
<1>6. 0 \in S
  <2>1. P[L] \in V /\ f[0] = <<>> /\ L - 0 = L
    BY <1>1, <1>3, <1>4
  <2>2. P[L] \o <<>> = P[L]
    BY <2>1, ConcatEmptySeq
  <2>. QED  BY <2>1, <2>2
<1>7. ASSUME NEW k \in Nat, k \in S PROVE k + 1 \in S
  <2>1. ASSUME k + 1 <= L PROVE P[L - (k + 1)] \o f[k + 1] = P[L]
    <3> DEFINE i == L - k
    <3>1. /\ i \in 1 .. L /\ k + 1 \in 1 .. L /\ (k + 1) - 1 = k /\ L - (k + 1) + 1 = i /\ L - (k + 1) = i - 1
          /\ i - 1 \in 0 .. L /\ k <= L
      BY <1>1, <2>1
    <3>2. f[k + 1] = qs[i] \o f[k] /\ f[k] \in V
      <4>1. f[k + 1] = qs[L - (k + 1) + 1] \o f[(k + 1) - 1] /\ f[(k + 1) - 1] \in V
        BY <1>5, <3>1
      <4>. QED  BY <3>1, <4>1
    <3>3. P[i] \o f[k] = P[L]
      BY <1>7, <3>1
    <3>4. P[i] = P[i - 1] \o qs[i] /\ P[i - 1] \in V /\ qs[i] \in V
      BY <1>1, <1>3, <3>1
    <3>. HIDE DEF i
    <3>5. Associates(P[i - 1], qs[i], f[k])
      BY <3>2, <3>4, ThreeTogether
    <3>6. P[i - 1] \o (qs[i] \o f[k]) = P[L]
      BY <3>3, <3>4, <3>5, Zenon DEF Associates
    <3>. QED  BY <3>1, <3>2, <3>6
  <2>2. k + 1 \in Nat
    OBVIOUS
  <2>. HIDE DEF V
  <2>. QED  BY <2>1, <2>2
<1>8. \A k \in Nat : k \in S
  <2>. HIDE DEF S
  <2>. QED  BY <1>6, <1>7, Induction
<1> DEFINE R == [n \in 0 .. L |-> f[L - n]]
<1>9. R[0] = FlattenSeq(qs) /\ R[L] = <<>>
  <2>1. 0 \in 0 .. L /\ L \in 0 .. L /\ L - 0 = L /\ L - L = 0 /\ L <= L
    BY <1>1
  <2>2. P[0] \o f[L] = P[L] /\ f[L] \in V
    BY <1>1, <1>4, <1>8, <2>1
  <2>3. <<>> \o f[L] = f[L]
    BY <2>2, ConcatEmptySeq
  <2>. QED  BY <1>2, <1>3, <1>4, <2>1, <2>2, <2>3
<1>10. \A n \in 0 .. L : R[n] \in V
  <2> SUFFICES ASSUME NEW n \in 0 .. L PROVE R[n] \in V
    OBVIOUS
  <2>1. L - n \in 0 .. L
    BY <1>1
  <2>. QED  BY <1>4, <2>1
<1>11. ASSUME NEW n \in 1 .. L PROVE R[n - 1] = qs[n] \o R[n]
  <2> DEFINE k == L - n + 1
  <2>1. k \in 1 .. L /\ L - k + 1 = n /\ k - 1 = L - n /\ L - (n - 1) = k /\ n - 1 \in 0 .. L /\ n \in 0 .. L
    BY <1>1
  <2>2. R[n - 1] = f[k] /\ R[n] = f[k - 1]
    BY <2>1
  <2>. HIDE DEF k, R
  <2>3. f[k] = qs[L - k + 1] \o f[k - 1]
    BY <1>5, <2>1
  <2>. QED  BY <2>1, <2>2, <2>3
<1>. HIDE DEF R
<1>12. Tails(R, T, qs)
  BY <1>9, <1>10, <1>11, Zenon DEF Tails, L
<1>. QED  BY <1>12

(* One vector more, one vector behind.                                        *)
LEMMA FlattenAppend ==
    ASSUME NEW T, NEW qs \in Seq(Seq(T)), NEW x \in Seq(T)
    PROVE  FlattenSeq(Append(qs, x)) = FlattenSeq(qs) \o x /\ FlattenSeq(qs) \in Seq(T)
<1> DEFINE L == Len(qs)
           rs == Append(qs, x)
<1>1. /\ L \in Nat /\ DOMAIN qs = 1 .. L /\ \A i \in 1 .. L : qs[i] \in Seq(T)
      /\ rs \in Seq(Seq(T)) /\ Len(rs) = L + 1 /\ DOMAIN rs = 1 .. L + 1
      /\ (\A i \in 1 .. L : rs[i] = qs[i]) /\ rs[L + 1] = x
  OBVIOUS
<1>2. IsVector(qs) /\ IsVector(rs) /\ \A i \in DOMAIN rs : rs[i] \in Seq(T)
  <2>1. IsVector(qs) /\ IsVector(rs)
    <3>. HIDE DEF rs
    <3>. QED  BY <1>1, VectorElements
  <2>2. \A i \in 1 .. L + 1 : i \in 1 .. L \/ i = L + 1
    BY <1>1
  <2>. HIDE DEF rs
  <2>. QED  BY <1>1, <2>1, <2>2
<1>. HIDE DEF rs, L
<1>3. PICK P : Grows(P, T, qs) /\ FlattenSeq(qs) = P[L]
  BY <1>1, <1>2, Flattening DEF L
<1>4. PICK Q : Grows(Q, T, rs) /\ FlattenSeq(rs) = Q[L + 1]
  BY <1>1, <1>2, Flattening
<1>5. /\ P[0] = <<>> /\ \A n \in 1 .. L : P[n] = P[n - 1] \o qs[n]
      /\ Q[0] = <<>> /\ \A n \in 1 .. L + 1 : Q[n] = Q[n - 1] \o rs[n]
      /\ P[L] \in Seq(T)
  <2>1. P[0] = <<>> /\ (\A n \in 1 .. L : P[n] = P[n - 1] \o qs[n]) /\ \A n \in 0 .. L : P[n] \in Seq(T)
    BY <1>3, Zenon DEF Grows, L
  <2>2. Q[0] = <<>> /\ \A n \in 1 .. Len(rs) : Q[n] = Q[n - 1] \o rs[n]
    BY <1>4, Zenon DEF Grows
  <2>3. L \in 0 .. L
    BY <1>1
  <2>. QED  BY <1>1, <2>1, <2>2, <2>3
<1> DEFINE S == {n \in Nat : n <= L => P[n] = Q[n]}
<1>6. 0 \in S
  BY <1>5
<1>7. ASSUME NEW n \in Nat, n \in S PROVE n + 1 \in S
  <2> SUFFICES ASSUME n + 1 <= L PROVE P[n + 1] = Q[n + 1]
    OBVIOUS
  <2>1. n + 1 \in 1 .. L /\ n + 1 \in 1 .. L + 1 /\ (n + 1) - 1 = n /\ P[n] = Q[n]
    BY <1>1, <1>7
  <2>2. P[n + 1] = P[n] \o qs[n + 1] /\ Q[n + 1] = Q[n] \o rs[n + 1] /\ rs[n + 1] = qs[n + 1]
    BY <1>1, <1>5, <2>1
  <2>. QED  BY <2>1, <2>2
<1>8. \A n \in Nat : n \in S
  <2>. HIDE DEF S
  <2>. QED  BY <1>6, <1>7, Induction
<1>9. P[L] = Q[L] /\ Q[L + 1] = Q[L] \o x
  <2>1. L + 1 \in 1 .. L + 1 /\ (L + 1) - 1 = L
    BY <1>1
  <2>2. Q[L + 1] = Q[L] \o rs[L + 1]
    BY <1>5, <2>1
  <2>3. P[L] = Q[L]
    BY <1>1, <1>8
  <2>. QED  BY <1>1, <2>2, <2>3
<1>. QED  BY <1>3, <1>4, <1>5, <1>9 DEF rs

(* The first elements of a vector, one more of them.                          *)
LEMMA PrefixGrows ==
    ASSUME NEW T, NEW q \in Seq(T)
    PROVE  /\ SubSeq(q, 1, 0) = <<>> /\ SubSeq(q, 1, Len(q)) = q
           /\ \A n \in Nat : n + 1 <= Len(q) => SubSeq(q, 1, n + 1) = Append(SubSeq(q, 1, n), q[n + 1])
<1>1. SubSeq(q, 1, 0) = <<>>
  OBVIOUS
<1>2. SubSeq(q, 1, Len(q)) = q
  BY SubSeqFull
<1>3. ASSUME NEW n \in Nat, n + 1 <= Len(q)
      PROVE  SubSeq(q, 1, n + 1) = Append(SubSeq(q, 1, n), q[n + 1])
  <2> DEFINE a == SubSeq(q, 1, n)
             b == SubSeq(q, 1, n + 1)
             c == Append(a, q[n + 1])
             m == n + 1
  <2>1. Len(q) \in Nat /\ \A i \in 1 .. Len(q) : q[i] \in T
    OBVIOUS
  <2>2. a \in Seq(T) /\ Len(a) = n /\ \A i \in 1 .. n : a[i] = q[i]
    BY <1>3
  <2>3. b \in Seq(T) /\ Len(b) = n + 1 /\ \A i \in 1 .. n + 1 : b[i] = q[i]
    BY <1>3
  <2>. HIDE DEF a, b
  <2>4. q[n + 1] \in T
    <3>1. n + 1 \in 1 .. Len(q)
      BY <1>3, <2>1
    <3>. QED  BY <2>1, <3>1
  <2>5. c \in Seq(T) /\ Len(c) = n + 1 /\ (\A i \in 1 .. n : c[i] = a[i]) /\ c[n + 1] = q[n + 1]
    BY <2>2, <2>4
  <2>. HIDE DEF c
  <2>6. \A i \in 1 .. n + 1 : c[i] = b[i]
    <3>1. \A i \in 1 .. n + 1 : i \in 1 .. n \/ i = n + 1
      OBVIOUS
    <3>. QED  BY <2>2, <2>3, <2>5, <3>1
  <2>7. b = c
    BY <2>3, <2>5, <2>6, SeqEqual
  <2>. QED  BY <2>7 DEF a, b, c
<1>. QED  BY <1>1, <1>2, <1>3
===============================================================================
