-------------------------- MODULE ReadingProofs --------------------------
(***************************************************************************)
(* Proofs about Reading, for every set of histories, reports, tables,      *)
(* histograms, groups, machines, results of commands, predicates and files *)
(* of rules that keeps the assumptions: the statistics, the probes, the    *)
(* parsers of tables and the extraction of signals give what their input   *)
(* says, a report that is written, read back and shown is shown like the   *)
(* report itself, and the parser of predicates reads what is written.      *)
(*                                                                         *)
(* A step of Reading is a whole computation, so the invariant is short:    *)
(* what was read is the function of the input (Looking), and a conversion  *)
(* is as far as it says (Converting). The work is in what these functions  *)
(* give, one section for each.                                             *)
(***************************************************************************)
EXTENDS Reading, PositionsProofs

-------------------------------------------------------------------------------
(* Statistics.                                                                *)

(* A vector in ascending order has the same values, rearranged.               *)
LEMMA SortedFits ==
    ASSUME NEW s \in Seq(Int)
    PROVE  /\ Sorted(s) \in Seq(Int) /\ Len(Sorted(s)) = Len(s)
           /\ \A k, n \in 1 .. Len(s) : k <= n => Sorted(s)[k] <= Sorted(s)[n]
           /\ \E p \in Bijection(1 .. Len(s), 1 .. Len(s)) :
                 \A n \in 1 .. Len(s) : Sorted(s)[n] = s[p[n]]
<1> DEFINE m == Len(s)
           D == 1 .. m
           Below(i) == {j \in D : s[j] < s[i] \/ (s[j] = s[i] /\ j < i)}
           B == [i \in D |-> Below(i)]
<1>1. m \in Nat /\ DOMAIN s = D /\ \A i \in D : s[i] \in Int
  OBVIOUS
<1>. HIDE DEF m
<1>2. B \in [D -> SUBSET D]
  OBVIOUS
<1>3. \A i \in D : i \notin B[i]
  BY <1>1
<1>4. \A i, j \in D : i # j => i \in B[j] \/ j \in B[i]
  BY <1>1
<1>5. \A i, j, k \in D : i \in B[j] /\ j \in B[k] => i \in B[k]
  BY <1>1
<1>5a. Orders(B, D)
  <2>. HIDE DEF B
  <2>. QED  BY <1>2, <1>3, <1>4, <1>5 DEF Orders
<1>6. PICK p \in Bijection(D, D) :
          /\ \A n \in D : p[n] = CHOOSE i \in D : Cardinality(B[i]) = n - 1
          /\ \A k, n \in D : k < n => p[k] \in B[p[n]]
  <2>. HIDE DEF B
  <2>. QED  BY <1>1, <1>5a, Ranking
<1>7. \A n \in D : p[n] \in D
  BY DEF Bijection, Injection
<1>8. Sorted(s) = [n \in D |-> s[CHOOSE i \in D : Cardinality(Below(i)) = n - 1]]
  BY <1>1 DEF Sorted
<1>9. \A n \in D : (CHOOSE i \in D : Cardinality(Below(i)) = n - 1) = (CHOOSE i \in D : Cardinality(B[i]) = n - 1)
  <2>1. ASSUME NEW n \in D PROVE \A i \in D : Cardinality(Below(i)) = n - 1 <=> Cardinality(B[i]) = n - 1
    <3>1. \A i \in D : B[i] = Below(i)
      OBVIOUS
    <3>. QED  BY <3>1, Zenon
  <2>. HIDE DEF B, Below
  <2>. QED  BY <2>1
<1>10. \A n \in D : Sorted(s)[n] = s[p[n]]
  <2> SUFFICES ASSUME NEW n \in D PROVE Sorted(s)[n] = s[p[n]]
    OBVIOUS
  <2>1. Sorted(s)[n] = s[CHOOSE i \in D : Cardinality(Below(i)) = n - 1]
    BY <1>8
  <2>2. p[n] = CHOOSE i \in D : Cardinality(B[i]) = n - 1
    BY <1>6
  <2>3. (CHOOSE i \in D : Cardinality(Below(i)) = n - 1) = (CHOOSE i \in D : Cardinality(B[i]) = n - 1)
    BY <1>9
  <2>. QED  BY <2>1, <2>2, <2>3, Zenon
<1>11. Sorted(s) \in Seq(Int) /\ Len(Sorted(s)) = m
  <2>1. DOMAIN Sorted(s) = D
    BY <1>8
  <2>2. Sorted(s) = [n \in D |-> Sorted(s)[n]]
    BY <1>8
  <2>3. \A n \in D : Sorted(s)[n] \in Int
    BY <1>1, <1>7, <1>10
  <2>4. Sorted(s) \in [1 .. m -> Int]
    BY <2>2, <2>3
  <2>. QED  BY <1>1, <2>4
<1>12. ASSUME NEW k \in D, NEW n \in D, k <= n PROVE Sorted(s)[k] <= Sorted(s)[n]
  <2>1. CASE k = n
    <3>1. s[p[n]] \in Int
      BY <1>1, <1>7
    <3>. QED  BY <2>1, <3>1, <1>10
  <2>2. CASE k < n
    <3>1. p[k] \in Below(p[n])
      BY <1>6, <1>7, <2>2
    <3>2. p[k] \in D /\ p[n] \in D
      BY <1>7
    <3>3. s[p[k]] <= s[p[n]]
      <4>. HIDE DEF D
      <4>. QED  BY <1>1, <3>1, <3>2
    <3>. QED  BY <3>3, <1>10
  <2>. QED  BY <1>12, <2>1, <2>2
<1>. QED  BY <1>1, <1>10, <1>11, <1>12 DEF m

(* What stands at some of the positions only, after a rearrangement, is not   *)
(* more than these.                                                           *)
LEMMA CountRearranged ==
    ASSUME NEW m \in Nat, NEW p \in Bijection(1 .. m, 1 .. m), NEW S \in SUBSET (1 .. m),
           NEW a \in 1 .. m + 1, NEW b \in 0 .. m, a <= b + 1,
           \A n \in 1 .. m : p[n] \in S => n \in a .. b
    PROVE  IsFiniteSet(S) /\ Cardinality(S) \in Nat /\ Cardinality(S) <= b - a + 1
<1> DEFINE T == {n \in 1 .. m : p[n] \in S}
           q == [n \in T |-> p[n]]
<1>1. p \in [1 .. m -> 1 .. m] /\ (\A i, j \in 1 .. m : p[i] = p[j] => i = j)
      /\ \A x \in 1 .. m : \E n \in 1 .. m : p[n] = x
  BY DEF Bijection, Injection, Surjection, IsInjective
<1>2. T \in SUBSET (a .. b)
  OBVIOUS
<1>3. IsFiniteSet(a .. b) /\ Cardinality(a .. b) = b - a + 1
  <2>1. a \in Int /\ b \in Int /\ a <= b + 1
    OBVIOUS
  <2>2. IsFiniteSet(a .. b) /\ Cardinality(a .. b) = IF a > b THEN 0 ELSE b - a + 1
    BY <2>1, FS_Interval
  <2>. QED  BY <2>1, <2>2
<1>4. IsFiniteSet(T) /\ Cardinality(T) <= b - a + 1
  <2>. HIDE DEF T
  <2>. QED  BY <1>2, <1>3, FS_Subset, ZenonT(30)
<1>5. q \in Bijection(T, S)
  <2>1. q \in [T -> S]
    OBVIOUS
  <2>2. ASSUME NEW i \in T, NEW j \in T, q[i] = q[j] PROVE i = j
    BY <1>1, <2>2
  <2>3. ASSUME NEW x \in S PROVE \E i \in T : q[i] = x
    BY <1>1
  <2>. HIDE DEF q, T
  <2>. QED  BY <2>1, <2>2, <2>3 DEF Bijection, Injection, Surjection, IsInjective
<1>6. Cardinality(S) = Cardinality(T) /\ IsFiniteSet(S)
  <2>1. ExistsBijection(T, S)
    BY <1>5 DEF ExistsBijection
  <2>. HIDE DEF T
  <2>. QED  BY <1>4, <2>1, FS_Bijection
<1>7. Cardinality(S) \in Nat
  BY <1>6, FS_CardinalityType
<1>. QED  BY <1>4, <1>6, <1>7

(* At most half of the values lie on either side of the median.               *)
LEMMA MedianHalves ==
    ASSUME NEW s \in Seq(Int), s # <<>>
    PROVE  LET med == MedianTwice(s)
               below == {i \in DOMAIN s : 2 * s[i] < med}
               above == {i \in DOMAIN s : 2 * s[i] > med}
           IN  /\ med \in Int
               /\ Cardinality(below) \in Nat /\ 2 * Cardinality(below) <= Len(s)
               /\ Cardinality(above) \in Nat /\ 2 * Cardinality(above) <= Len(s)
<1> DEFINE m == Len(s)
           t == Sorted(s)
           med == MedianTwice(s)
           below == {i \in DOMAIN s : 2 * s[i] < med}
           above == {i \in DOMAIN s : 2 * s[i] > med}
           a == (m + 1) \div 2
           b == (m \div 2) + 1
<1>1. /\ m \in Nat /\ m # 0 /\ DOMAIN s = 1 .. m
      /\ t \in Seq(Int) /\ Len(t) = m
      /\ \A k, n \in 1 .. m : k <= n => t[k] <= t[n]
  BY SortedFits
<1>2. PICK p \in Bijection(1 .. m, 1 .. m) : \A n \in 1 .. m : t[n] = s[p[n]]
  BY SortedFits
<1>3. a \in 1 .. m /\ b \in 1 .. m /\ 2 * (b - 1) <= m /\ 2 * (m - a) <= m /\ a <= b /\ b <= a + 1
  <2>. HIDE DEF m
  <2>. QED  BY <1>1
<1>4. med = t[a] + t[b] /\ t[a] \in Int /\ t[b] \in Int /\ t[a] <= t[b]
  <2>1. med = t[a] + t[b]
    BY DEF MedianTwice
  <2>. HIDE DEF t, a, b, m
  <2>2. \A n \in 1 .. m : t[n] \in Int
    BY <1>1
  <2>. QED  BY <1>1, <1>3, <2>1, <2>2
<1>. HIDE DEF t, med, a, b
<1>5. p \in [1 .. m -> 1 .. m]
  BY DEF Bijection, Injection
<1>6. Cardinality(below) \in Nat /\ Cardinality(below) <= b - 1
  <2>1. ASSUME NEW n \in 1 .. m, p[n] \in below PROVE n \in 1 .. b - 1
    <3>1. 2 * t[n] < t[a] + t[b]
      BY <1>2, <1>4, <2>1
    <3>2. t[n] \in Int
      BY <1>1
    <3>3. ASSUME b <= n PROVE FALSE
      <4>1. t[b] <= t[n]
        BY <1>1, <1>3, <3>3
      <4>. QED  BY <1>4, <3>1, <3>2, <4>1
    <3>4. n \in Nat /\ b \in Nat /\ n >= 1 /\ ~(b <= n)
      BY <1>1, <1>3, <3>3
    <3>. QED  BY <3>4
  <2>2. below \in SUBSET (1 .. m) /\ 1 \in 1 .. m + 1 /\ b - 1 \in 0 .. m /\ 1 <= (b - 1) + 1
    BY <1>1, <1>3
  <2>. HIDE DEF below, m
  <2>3. (b - 1) - 1 + 1 = b - 1
    BY <1>3
  <2>4. Cardinality(below) \in Nat /\ Cardinality(below) <= (b - 1) - 1 + 1
    BY <1>1, <2>1, <2>2, CountRearranged
  <2>. QED  BY <2>3, <2>4
<1>7. Cardinality(above) \in Nat /\ Cardinality(above) <= m - a
  <2>1. ASSUME NEW n \in 1 .. m, p[n] \in above PROVE n \in a + 1 .. m
    <3>1. 2 * t[n] > t[a] + t[b]
      BY <1>2, <1>4, <2>1
    <3>2. t[n] \in Int
      BY <1>1
    <3>3. ASSUME n <= a PROVE FALSE
      <4>1. t[n] <= t[a]
        BY <1>1, <1>3, <3>3
      <4>. QED  BY <1>4, <3>1, <3>2, <4>1
    <3>4. n \in Nat /\ a \in Nat /\ n <= m /\ m \in Nat /\ ~(n <= a)
      BY <1>1, <1>3, <3>3
    <3>. HIDE DEF m
    <3>. QED  BY <3>4
  <2>2. above \in SUBSET (1 .. m) /\ a + 1 \in 1 .. m + 1 /\ m \in 0 .. m /\ a + 1 <= m + 1
    BY <1>1, <1>3
  <2>. HIDE DEF above, m
  <2>3. m - (a + 1) + 1 = m - a
    BY <1>1, <1>3
  <2>4. Cardinality(above) \in Nat /\ Cardinality(above) <= m - (a + 1) + 1
    BY <1>1, <2>1, <2>2, CountRearranged
  <2>. QED  BY <2>3, <2>4
<1>8. 2 * Cardinality(below) <= m /\ 2 * Cardinality(above) <= m
  <2>. HIDE DEF below, above, m
  <2>. QED  BY <1>1, <1>3, <1>6, <1>7
<1>9. med \in Int
  BY <1>4
<1>. QED  BY <1>6, <1>7, <1>8, <1>9 DEF med

(* The percentiles ascend from the smallest value to the greatest.            *)
LEMMA PercentilesAscend ==
    ASSUME NEW s \in Seq(Int), s # <<>>, NEW x \in 0 .. 100, NEW y \in 0 .. 100, x <= y
    PROVE  /\ Percentile100(s, x) \in Int /\ Percentile100(s, y) \in Int
           /\ 100 * Sorted(s)[1] <= Percentile100(s, x)
           /\ Percentile100(s, x) <= Percentile100(s, y)
           /\ Percentile100(s, y) <= 100 * Sorted(s)[Len(s)]
<1> DEFINE m == Len(s)
           t == Sorted(s)
           Rank(p) == p * (m - 1)
           low(p) == (Rank(p) \div 100) + 1
           frac(p) == Rank(p) % 100
           V(p) == IF frac(p) = 0 THEN 100 * t[low(p)]
                   ELSE (100 - frac(p)) * t[low(p)] + frac(p) * t[low(p) + 1]
<1>1. /\ m \in Nat /\ m # 0 /\ DOMAIN s = 1 .. m
      /\ t \in Seq(Int) /\ Len(t) = m
      /\ \A k, n \in 1 .. m : k <= n => t[k] <= t[n]
  BY SortedFits
<1>2. Percentile100(s, x) = V(x) /\ Percentile100(s, y) = V(y)
  BY DEF Percentile100
<1>. HIDE DEF m, t
<1>3. \A n \in 1 .. m : t[n] \in Int
  BY <1>1
<1>4. ASSUME NEW p \in 0 .. 100
      PROVE  /\ Rank(p) \in Nat /\ Rank(p) <= 100 * (m - 1)
             /\ Rank(p) = 100 * (low(p) - 1) + frac(p) /\ frac(p) \in 0 .. 99
             /\ low(p) \in 1 .. m /\ (frac(p) # 0 => low(p) + 1 \in 1 .. m)
  <2>1. Rank(p) \in Nat /\ Rank(p) <= 100 * (m - 1)
    <3>1. m - 1 \in Nat /\ 100 - p \in Nat
      BY <1>1
    <3>2. (100 - p) * (m - 1) \in Nat
      BY <3>1
    <3>3. 100 * (m - 1) - p * (m - 1) = (100 - p) * (m - 1)
      BY <3>1
    <3>4. p * (m - 1) \in Nat
      BY <3>1
    <3>. QED  BY <3>1, <3>2, <3>3, <3>4
  <2>2. ASSUME NEW r \in Nat
        PROVE  /\ r = 100 * (r \div 100) + (r % 100) /\ r % 100 \in 0 .. 99 /\ r \div 100 \in Nat
    OBVIOUS
  <2>3. low(p) - 1 = Rank(p) \div 100 /\ low(p) \in Nat
    <3>. HIDE DEF Rank
    <3>. QED  BY <2>1, <2>2
  <2>. HIDE DEF Rank
  <2>4. Rank(p) = 100 * (low(p) - 1) + frac(p) /\ frac(p) \in 0 .. 99 /\ low(p) - 1 \in Nat
    <3>1. /\ Rank(p) = 100 * (Rank(p) \div 100) + (Rank(p) % 100)
          /\ Rank(p) % 100 \in 0 .. 99 /\ Rank(p) \div 100 \in Nat
      BY <2>1, <2>2
    <3>2. frac(p) = Rank(p) % 100
      OBVIOUS
    <3>. HIDE DEF low, frac
    <3>. QED  BY <2>3, <3>1, <3>2
  <2>. HIDE DEF low, frac
  <2> DEFINE l == low(p)
             f == frac(p)
             k == Rank(p)
  <2>5. l \in Int /\ m \in Nat /\ l >= 1 /\ f \in 0 .. 99 /\ k = 100 * (l - 1) + f
        /\ k <= 100 * (m - 1) /\ k \in Nat
    BY <1>1, <2>1, <2>3, <2>4
  <2>. HIDE DEF l, f, k
  <2>6. l <= m
    BY <2>5
  <2>7. f # 0 => l + 1 <= m
    BY <2>5
  <2>8. /\ k \in Nat /\ k <= 100 * (m - 1)
        /\ k = 100 * (l - 1) + f /\ f \in 0 .. 99
        /\ l \in 1 .. m /\ (f # 0 => l + 1 \in 1 .. m)
    BY <2>5, <2>6, <2>7
  <2>. QED  BY <2>8 DEF l, f, k
<1>5. Rank(x) <= Rank(y)
  <2>1. y - x \in Nat /\ m - 1 \in Nat
    BY <1>1
  <2>2. (y - x) * (m - 1) \in Nat
    BY <2>1
  <2>3. y * (m - 1) - x * (m - 1) = (y - x) * (m - 1)
    BY <2>1
  <2>4. x * (m - 1) \in Int /\ y * (m - 1) \in Int
    BY <2>1
  <2>. QED  BY <2>2, <2>3, <2>4
<1>. HIDE DEF Rank
<1>6. ASSUME NEW p \in 0 .. 100
      PROVE  /\ V(p) \in Int /\ 100 * t[low(p)] <= V(p)
             /\ frac(p) # 0 => V(p) <= 100 * t[low(p) + 1]
             /\ frac(p) # 0 => V(p) = 100 * t[low(p)] + frac(p) * (t[low(p) + 1] - t[low(p)])
  <2>1. /\ low(p) \in 1 .. m /\ frac(p) \in 0 .. 99
        /\ frac(p) # 0 => low(p) + 1 \in 1 .. m
    BY <1>4
  <2>2. t[low(p)] \in Int /\ (frac(p) # 0 => t[low(p) + 1] \in Int /\ t[low(p)] <= t[low(p) + 1])
    BY <1>1, <1>3, <2>1
  <2>. HIDE DEF low, frac
  <2>3. CASE frac(p) = 0
    BY <2>2, <2>3
  <2>4. CASE frac(p) # 0
    <3> DEFINE f == frac(p)
               u == t[low(p)]
               v == t[low(p) + 1]
               d == v - u
    <3>a. u \in Int /\ v \in Int /\ u <= v
      BY <2>2, <2>4
    <3>b. f \in 0 .. 99
      BY <2>1
    <3>1. f \in Int /\ 100 - f \in Nat /\ f \in Nat /\ u \in Int /\ v \in Int /\ d \in Nat
      <4>. HIDE DEF f, u, v
      <4>. QED  BY <3>a, <3>b
    <3>2. V(p) = (100 - f) * u + f * v
      BY <2>4
    <3>. HIDE DEF f, u, v, V
    <3>3. V(p) \in Int
      BY <3>1, <3>2
    <3>4. v = u + d
      BY <3>1
    <3>. HIDE DEF d
    <3>5. f * d \in Nat /\ (100 - f) * d \in Nat
      BY <3>1
    <3>6. (100 - f) * u + f * (u + d) = 100 * u + f * d
      BY <3>1
    <3>7. V(p) = 100 * u + f * d
      BY <3>2, <3>4, <3>6
    <3>8. 100 * (u + d) - (100 * u + f * d) = (100 - f) * d
      BY <3>1
    <3>9. f * d \in Int /\ 100 * u \in Int /\ 100 * (u + d) \in Int
      BY <3>1
    <3>10. 100 * u <= V(p) /\ V(p) <= 100 * v
      BY <3>4, <3>5, <3>7, <3>8, <3>9
    <3>. QED  BY <2>4, <3>3, <3>7, <3>10 DEF f, u, v, d
  <2>. QED  BY <2>3, <2>4
<1>7. V(x) <= V(y)
  <2>1. /\ low(x) \in 1 .. m /\ low(y) \in 1 .. m /\ frac(x) \in 0 .. 99 /\ frac(y) \in 0 .. 99
        /\ frac(x) # 0 => low(x) + 1 \in 1 .. m
        /\ frac(y) # 0 => low(y) + 1 \in 1 .. m
        /\ low(x) < low(y) \/ (low(x) = low(y) /\ frac(x) <= frac(y))
    <3>. HIDE DEF low, frac
    <3>1. Rank(x) = 100 * (low(x) - 1) + frac(x) /\ Rank(y) = 100 * (low(y) - 1) + frac(y)
      BY <1>4
    <3>2. /\ low(x) \in 1 .. m /\ low(y) \in 1 .. m /\ frac(x) \in 0 .. 99 /\ frac(y) \in 0 .. 99
          /\ frac(x) # 0 => low(x) + 1 \in 1 .. m
          /\ frac(y) # 0 => low(y) + 1 \in 1 .. m
      BY <1>4
    <3> DEFINE lx == low(x)
               ly == low(y)
               fx == frac(x)
               fy == frac(y)
    <3>3. /\ lx \in Int /\ ly \in Int /\ fx \in 0 .. 99 /\ fy \in 0 .. 99
          /\ 100 * (lx - 1) + fx <= 100 * (ly - 1) + fy
      BY <1>1, <1>5, <3>1, <3>2
    <3>. HIDE DEF lx, ly, fx, fy
    <3>4. lx < ly \/ (lx = ly /\ fx <= fy)
      BY <3>3
    <3>. QED  BY <3>2, <3>4 DEF lx, ly, fx, fy
  <2>2. V(x) \in Int /\ V(y) \in Int
    BY <1>6, ZenonT(30)
  <2>3. CASE low(x) < low(y)
    <3>. HIDE DEF low, frac
    <3>1. t[low(x)] \in Int /\ t[low(y)] \in Int /\ t[low(x)] <= t[low(y)]
      BY <1>1, <1>3, <2>1, <2>3
    <3>2. 100 * t[low(y)] <= V(y)
      <4>. HIDE DEF V
      <4>. QED  BY <1>6
    <3>3. CASE frac(x) = 0
      <4>1. V(x) = 100 * t[low(x)]
        BY <3>3
      <4>. HIDE DEF V
      <4>. QED  BY <2>2, <3>1, <3>2, <4>1
    <3>4. CASE frac(x) # 0
      <4>1. V(x) <= 100 * t[low(x) + 1]
        <5>. HIDE DEF V
        <5>. QED  BY <1>6, <3>4
      <4>2. low(x) + 1 \in 1 .. m /\ low(x) + 1 <= low(y)
        BY <1>1, <2>1, <2>3, <3>4
      <4>3. t[low(x) + 1] \in Int /\ t[low(x) + 1] <= t[low(y)]
        BY <1>1, <1>3, <2>1, <4>2
      <4>. HIDE DEF V
      <4>. QED  BY <2>2, <3>1, <3>2, <4>1, <4>3
    <3>. QED  BY <3>3, <3>4
  <2>4. CASE low(x) = low(y) /\ frac(x) <= frac(y)
    <3>. HIDE DEF low, frac
    <3>1. CASE frac(x) = 0
      <4>1. V(x) = 100 * t[low(y)]
        BY <2>4, <3>1
      <4>2. 100 * t[low(y)] <= V(y)
        <5>. HIDE DEF V
        <5>. QED  BY <1>6
      <4>. HIDE DEF V
      <4>. QED  BY <4>1, <4>2
    <3>2. CASE frac(x) # 0
      <4> DEFINE u == t[low(y)]
                 d == t[low(y) + 1] - t[low(y)]
                 f == frac(x)
                 g == frac(y)
      <4>a. f \in 0 .. 99 /\ g \in 0 .. 99 /\ f # 0 /\ f <= g
        BY <2>1, <2>4, <3>2
      <4>b. g # 0 /\ f \in Nat /\ g \in Nat /\ g - f \in Nat
        <5>. HIDE DEF f, g
        <5>. QED  BY <4>a
      <4>1. g # 0 /\ low(y) + 1 \in 1 .. m /\ f \in Nat /\ g \in Nat /\ g - f \in Nat
        BY <2>1, <4>b
      <4>2. u \in Int /\ d \in Nat
        <5>1. low(y) \in 1 .. m /\ low(y) + 1 \in 1 .. m /\ low(y) <= low(y) + 1
          BY <1>1, <2>1, <4>1
        <5> DEFINE k == low(y)
                   n == low(y) + 1
        <5>2. k \in 1 .. m /\ n \in 1 .. m /\ k <= n
          BY <5>1
        <5>. HIDE DEF k, n
        <5>3. t[k] \in Int /\ t[n] \in Int /\ t[k] <= t[n]
          BY <1>1, <1>3, <5>2
        <5>4. t[n] - t[k] \in Nat
          BY <5>3
        <5>. QED  BY <5>3, <5>4 DEF k, n
      <4>3. V(x) = 100 * u + f * d /\ V(y) = 100 * u + g * d
        <5>. HIDE DEF V
        <5>. QED  BY <1>6, <2>4, <3>2, <4>1
      <4>. HIDE DEF V, u, d, f, g
      <4>4. (g - f) * d \in Nat
        BY <4>1, <4>2
      <4>5. (100 * u + g * d) - (100 * u + f * d) = (g - f) * d
        BY <4>1, <4>2
      <4>. QED  BY <2>2, <4>3, <4>4, <4>5
    <3>. QED  BY <3>1, <3>2
  <2>. QED  BY <2>1, <2>3, <2>4
<1>8. 100 * t[1] <= V(x)
  <2>1. low(x) \in 1 .. m
    BY <1>4
  <2>2. t[1] \in Int /\ t[low(x)] \in Int /\ t[1] <= t[low(x)]
    BY <1>1, <1>3, <2>1
  <2>3. V(x) \in Int /\ 100 * t[low(x)] <= V(x)
    <3>. HIDE DEF V, low
    <3>. QED  BY <1>6
  <2>. HIDE DEF V, low
  <2>. QED  BY <2>2, <2>3
<1>9. V(y) <= 100 * t[m]
  <2>. HIDE DEF low, frac
  <2>1. low(y) \in 1 .. m /\ (frac(y) # 0 => low(y) + 1 \in 1 .. m)
    BY <1>4
  <2>2. CASE frac(y) = 0
    <3>1. V(y) = 100 * t[low(y)]
      BY <2>2
    <3>2. t[m] \in Int /\ t[low(y)] \in Int /\ t[low(y)] <= t[m]
      BY <1>1, <1>3, <2>1
    <3>. HIDE DEF V
    <3>. QED  BY <3>1, <3>2
  <2>3. CASE frac(y) # 0
    <3>1. V(y) <= 100 * t[low(y) + 1] /\ V(y) \in Int
      <4>. HIDE DEF V
      <4>. QED  BY <1>6, <2>3
    <3>2. t[m] \in Int /\ t[low(y) + 1] \in Int /\ t[low(y) + 1] <= t[m]
      BY <1>1, <1>3, <2>1, <2>3
    <3>. HIDE DEF V
    <3>. QED  BY <3>1, <3>2
  <2>. QED  BY <2>2, <2>3
<1>10. V(x) \in Int /\ V(y) \in Int
  BY <1>6, ZenonT(30)
<1>. HIDE DEF V
<1>. QED  BY <1>2, <1>7, <1>8, <1>9, <1>10 DEF t, m

(* What a sum comes to, element by element.                                   *)
Sums(P, s) ==
    /\ P \in [0 .. Len(s) -> Int]
    /\ P[0] = 0
    /\ \A n \in 1 .. Len(s) : P[n] = P[n - 1] + s[n]

(* The sum is the last of the sums, element by element.                       *)
LEMMA SumIs == \A s \in Seq(Int) : \E P : Sums(P, s) /\ SumOver(s) = P[Len(s)]
<1> SUFFICES ASSUME NEW s \in Seq(Int) PROVE \E P : Sums(P, s) /\ SumOver(s) = P[Len(s)]
  OBVIOUS
<1> DEFINE m == Len(s)
           L(g) == g = [n \in 0 .. m |-> IF n = 0 THEN 0 ELSE g[n - 1] + s[n]]
           step == [n \in 1 .. m |-> [v \in Int |-> v + s[n]]]
<1>1. m \in Nat /\ \A n \in 1 .. m : s[n] \in Int
  OBVIOUS
<1>. HIDE DEF m
<1>2. step \in [1 .. m -> [Int -> Int]]
  BY <1>1
<1>3. PICK f : Iterates(f, Int, 0, m, step)
  <2>. HIDE DEF step
  <2>1. 0 \in Int
    OBVIOUS
  <2>. QED  BY <1>1, <1>2, <2>1, Recursion
<1>4. f \in [0 .. m -> Int] /\ f[0] = 0 /\ \A n \in 1 .. m : f[n] = f[n - 1] + s[n]
  <2>1. f \in [0 .. m -> Int] /\ f[0] = 0 /\ \A n \in 1 .. m : f[n] = step[n][f[n - 1]]
    BY <1>3 DEF Iterates
  <2>2. ASSUME NEW n \in 1 .. m PROVE f[n] = f[n - 1] + s[n]
    <3>1. n - 1 \in 0 .. m
      BY <1>1
    <3>2. f[n - 1] \in Int
      BY <2>1, <3>1
    <3>. QED  BY <2>1, <3>2
  <2>. QED  BY <2>1, <2>2
<1>5. L(f)
  <2>1. \A n \in 0 .. m : f[n] = IF n = 0 THEN 0 ELSE f[n - 1] + s[n]
    BY <1>1, <1>4
  <2>. QED  BY <1>4, <2>1
<1>6. SumOver(s) = (CHOOSE g : L(g))[m]
  BY DEF SumOver, m
<1> DEFINE P == CHOOSE g : L(g)
<1>7. L(P)
  <2>. HIDE DEF L
  <2>. QED  BY <1>5
<1>. HIDE DEF P
<1>8. P[0] = 0 /\ \A n \in 1 .. m : P[n] = P[n - 1] + s[n]
  <2>1. ASSUME NEW n \in 0 .. m PROVE P[n] = IF n = 0 THEN 0 ELSE P[n - 1] + s[n]
    BY <1>7
  <2>2. 0 \in 0 .. m
    BY <1>1
  <2>3. ASSUME NEW n \in 1 .. m PROVE P[n] = P[n - 1] + s[n]
    <3>1. n \in 0 .. m /\ n # 0
      BY <1>1
    <3>. QED  BY <2>1, <3>1
  <2>. QED  BY <2>1, <2>2, <2>3
<1> DEFINE G == {n \in Nat : n <= m => P[n] \in Int}
<1>9. \A n \in Nat : n \in G
  <2>1. 0 \in G
    BY <1>8
  <2>2. ASSUME NEW n \in Nat, n \in G PROVE n + 1 \in G
    <3> SUFFICES ASSUME n + 1 <= m PROVE P[n + 1] \in Int
      OBVIOUS
    <3>1. n + 1 \in 1 .. m /\ (n + 1) - 1 = n
      BY <1>1
    <3>2. P[n + 1] = P[n] + s[n + 1]
      BY <1>8, <3>1
    <3>3. P[n] \in Int /\ s[n + 1] \in Int
      BY <1>1, <2>2, <3>1
    <3>. QED  BY <3>2, <3>3
  <2>3. G \in SUBSET Nat
    OBVIOUS
  <2>. HIDE DEF G
  <2>. QED  BY <2>1, <2>2, <2>3, Induction
<1>10. P \in [0 .. m -> Int]
  <2>1. P = [n \in 0 .. m |-> P[n]]
    BY <1>7
  <2>2. \A n \in 0 .. m : P[n] \in Int
    BY <1>1, <1>9
  <2>. QED  BY <2>1, <2>2
<1>. QED  BY <1>6, <1>8, <1>10 DEF Sums, P, m

(* There is one sum.                                                          *)
LEMMA SumOnly ==
    ASSUME NEW s \in Seq(Int), NEW Q, Sums(Q, s)
    PROVE  SumOver(s) = Q[Len(s)]
<1> DEFINE m == Len(s)
<1>1. m \in Nat /\ \A n \in 1 .. m : s[n] \in Int
  OBVIOUS
<1>2. PICK P : Sums(P, s) /\ SumOver(s) = P[m]
  BY SumIs
<1>3. /\ P[0] = 0 /\ \A n \in 1 .. m : P[n] = P[n - 1] + s[n]
      /\ Q[0] = 0 /\ \A n \in 1 .. m : Q[n] = Q[n - 1] + s[n]
  BY <1>2 DEF Sums
<1>. HIDE DEF m
<1> DEFINE G == {n \in Nat : n <= m => P[n] = Q[n]}
<1>4. \A n \in Nat : n \in G
  <2>1. 0 \in G
    BY <1>3
  <2>2. ASSUME NEW n \in Nat, n \in G PROVE n + 1 \in G
    <3> SUFFICES ASSUME n + 1 <= m PROVE P[n + 1] = Q[n + 1]
      OBVIOUS
    <3>1. n + 1 \in 1 .. m /\ (n + 1) - 1 = n
      BY <1>1
    <3>2. P[n] = Q[n]
      BY <1>1, <2>2
    <3>. QED  BY <1>3, <3>1, <3>2
  <2>3. G \in SUBSET Nat
    OBVIOUS
  <2>. HIDE DEF G
  <2>. QED  BY <2>1, <2>2, <2>3, Induction
<1>. QED  BY <1>1, <1>2, <1>4 DEF m

(* A sum is a number.                                                         *)
LEMMA SumTyped == ASSUME NEW s \in Seq(Int) PROVE SumOver(s) \in Int
<1>1. PICK P : Sums(P, s) /\ SumOver(s) = P[Len(s)]
  BY SumIs
<1>2. Len(s) \in 0 .. Len(s)
  OBVIOUS
<1>. QED  BY <1>1, <1>2 DEF Sums

(* The sum of what turned the other way round is that turned the other way.   *)
LEMMA SumNegated ==
    ASSUME NEW s \in Seq(Int), NEW t \in Seq(Int), Len(t) = Len(s),
           \A i \in 1 .. Len(s) : t[i] = -s[i]
    PROVE  SumOver(t) = -SumOver(s)
<1>1. PICK P : Sums(P, s) /\ SumOver(s) = P[Len(s)]
  BY SumIs
<1> DEFINE m == Len(s)
           Q == [n \in 0 .. m |-> -P[n]]
<1>2. m \in Nat /\ \A n \in 1 .. m : s[n] \in Int
  OBVIOUS
<1>3. P \in [0 .. m -> Int] /\ P[0] = 0 /\ \A n \in 1 .. m : P[n] = P[n - 1] + s[n]
  BY <1>1 DEF Sums
<1>4. Q \in [0 .. m -> Int] /\ Q[0] = 0
  BY <1>2, <1>3
<1>5. ASSUME NEW n \in 1 .. m PROVE Q[n] = Q[n - 1] + t[n]
  <2>1. n \in 0 .. m /\ n - 1 \in 0 .. m
    BY <1>2
  <2>2. P[n - 1] \in Int /\ s[n] \in Int /\ P[n] = P[n - 1] + s[n] /\ t[n] = -s[n]
    BY <1>2, <1>3, <2>1
  <2>3. Q[n] = -P[n] /\ Q[n - 1] = -P[n - 1]
    BY <2>1
  <2>. HIDE DEF Q, m
  <2>. QED  BY <2>2, <2>3
<1>6. Sums(Q, t)
  <2>. HIDE DEF Q
  <2>. QED  BY <1>4, <1>5 DEF Sums
<1>7. SumOver(t) = Q[m]
  <2>. HIDE DEF Q
  <2>. QED  BY <1>6, SumOnly
<1>. QED  BY <1>1, <1>2, <1>7

(* The sum of a vector is that of the vector read backwards.                  *)
LEMMA SumReversed ==
    ASSUME NEW s \in Seq(Int), NEW t \in Seq(Int), Len(t) = Len(s),
           \A i \in 1 .. Len(s) : t[i] = s[Len(s) - i + 1]
    PROVE  SumOver(t) = SumOver(s)
<1>1. PICK P : Sums(P, s) /\ SumOver(s) = P[Len(s)]
  BY SumIs
<1> DEFINE m == Len(s)
           Q == [n \in 0 .. m |-> P[m] - P[m - n]]
<1>2. m \in Nat /\ \A n \in 1 .. m : s[n] \in Int
  OBVIOUS
<1>3. P \in [0 .. m -> Int] /\ P[0] = 0 /\ \A n \in 1 .. m : P[n] = P[n - 1] + s[n]
  BY <1>1 DEF Sums
<1>4. Q \in [0 .. m -> Int] /\ Q[0] = 0 /\ Q[m] = P[m]
  <2>1. ASSUME NEW n \in 0 .. m PROVE P[m] - P[m - n] \in Int
    <3>1. m - n \in 0 .. m /\ m \in 0 .. m
      BY <1>2
    <3>2. P[m] \in Int /\ P[m - n] \in Int
      BY <1>3, <3>1
    <3>. QED  BY <3>2
  <2>2. P[m] \in Int /\ 0 \in 0 .. m /\ m \in 0 .. m /\ m - 0 = m /\ m - m = 0
    BY <1>2, <1>3
  <2>. HIDE DEF m
  <2>. QED  BY <1>3, <2>1, <2>2, SMTT(30)
<1>5. ASSUME NEW n \in 1 .. m PROVE Q[n] = Q[n - 1] + t[n]
  <2>1. n \in 0 .. m /\ n - 1 \in 0 .. m
    BY <1>2
  <2>2. Q[n] = P[m] - P[m - n] /\ Q[n - 1] = P[m] - P[m - (n - 1)]
    BY <2>1
  <2>. HIDE DEF Q
  <2> DEFINE k == m - n + 1
  <2>3. k \in 1 .. m /\ k - 1 = m - n /\ m - (n - 1) = k /\ m - n \in 0 .. m /\ k \in 0 .. m /\ m \in 0 .. m
    BY <1>2
  <2>4. t[n] = s[k]
    OBVIOUS
  <2>. HIDE DEF m, k
  <2>5. P[m] \in Int /\ P[k] \in Int /\ P[m - n] \in Int /\ s[k] \in Int
    BY <1>2, <1>3, <2>3
  <2>6. P[k] = P[m - n] + s[k]
    BY <1>3, <2>3
  <2>7. Q[n - 1] = P[m] - P[k]
    BY <2>2, <2>3
  <2>. QED  BY <2>2, <2>4, <2>5, <2>6, <2>7
<1>6. Sums(Q, t)
  <2>. HIDE DEF Q
  <2>. QED  BY <1>4, <1>5 DEF Sums
<1>7. SumOver(t) = Q[m]
  <2>. HIDE DEF Q
  <2>. QED  BY <1>6, SumOnly
<1>. QED  BY <1>1, <1>4, <1>7

(* No part of a sum of parts that are not negative is more than the whole.    *)
LEMMA SumBounds ==
    ASSUME NEW s \in Seq(Nat)
    PROVE  SumOver(s) \in Nat /\ \A i \in 1 .. Len(s) : s[i] <= SumOver(s)
<1> DEFINE m == Len(s)
<1>1. m \in Nat /\ s \in Seq(Int) /\ \A n \in 1 .. m : s[n] \in Nat
  OBVIOUS
<1>2. PICK P : Sums(P, s) /\ SumOver(s) = P[m]
  BY <1>1, SumIs
<1>3. P \in [0 .. m -> Int] /\ P[0] = 0 /\ \A n \in 1 .. m : P[n] = P[n - 1] + s[n]
  BY <1>2 DEF Sums
<1>. HIDE DEF m
<1> DEFINE G == {n \in Nat : n <= m => P[n] \in Nat /\ \A i \in 1 .. n : s[i] <= P[n]}
<1>4. \A n \in Nat : n \in G
  <2>1. 0 \in G
    BY <1>3
  <2>2. ASSUME NEW n \in Nat, n \in G PROVE n + 1 \in G
    <3> SUFFICES ASSUME n + 1 <= m PROVE P[n + 1] \in Nat /\ \A i \in 1 .. n + 1 : s[i] <= P[n + 1]
      OBVIOUS
    <3>1. n + 1 \in 1 .. m /\ (n + 1) - 1 = n /\ n <= m
      BY <1>1
    <3>2. P[n + 1] = P[n] + s[n + 1] /\ P[n] \in Nat /\ s[n + 1] \in Nat
      BY <1>1, <1>3, <2>2, <3>1
    <3>3. ASSUME NEW i \in 1 .. n + 1 PROVE s[i] <= P[n + 1]
      <4>1. CASE i = n + 1
        BY <3>2, <4>1
      <4>2. CASE i # n + 1
        <5>1. i \in 1 .. n /\ i \in 1 .. m
          <6>1. i \in Int /\ 1 <= i /\ i <= n + 1 /\ n \in Nat /\ n <= m /\ m \in Nat
            BY <1>1, <3>1
          <6>. QED  BY <4>2, <6>1
        <5>2. s[i] <= P[n] /\ s[i] \in Nat
          BY <1>1, <2>2, <3>1, <5>1
        <5>. QED  BY <3>2, <5>2
      <4>. QED  BY <4>1, <4>2
    <3>. QED  BY <3>2, <3>3
  <2>3. G \in SUBSET Nat
    OBVIOUS
  <2>. HIDE DEF G
  <2>. QED  BY <2>1, <2>2, <2>3, Induction
<1>. QED  BY <1>1, <1>2, <1>4 DEF m

(* Of two ascending vectors of the same values none is above the other.       *)
LEMMA NotAbove ==
    ASSUME NEW m \in Nat, NEW t, NEW u, \A n \in 1 .. m : t[n] \in Int /\ u[n] \in Int,
           NEW p \in Bijection(1 .. m, 1 .. m), \A n \in 1 .. m : t[n] = u[p[n]],
           \A k, n \in 1 .. m : k <= n => t[k] <= t[n],
           \A k, n \in 1 .. m : k <= n => u[k] <= u[n],
           NEW n \in 1 .. m
    PROVE  u[n] <= t[n]
<1> SUFFICES ASSUME ~(u[n] <= t[n]) PROVE FALSE
  OBVIOUS
<1> DEFINE S == {i \in 1 .. m : u[i] >= u[n]}
<1>1. n \in Nat /\ 1 <= n /\ n <= m
  OBVIOUS
<1>2. t[n] \in Int /\ u[n] \in Int /\ t[n] < u[n]
  OBVIOUS
<1>3. ASSUME NEW k \in 1 .. m, p[k] \in S PROVE k \in n + 1 .. m
  <2>1. t[k] >= u[n] /\ t[k] \in Int
    BY <1>3
  <2>2. ~(k <= n)
    <3> SUFFICES ASSUME k <= n PROVE FALSE
      OBVIOUS
    <3>1. t[k] <= t[n]
      OBVIOUS
    <3>. QED  BY <1>2, <2>1, <3>1
  <2>3. k \in Int /\ k <= m
    OBVIOUS
  <2>. QED  BY <1>1, <2>2, <2>3
<1>4. S \in SUBSET (1 .. m) /\ n + 1 \in 1 .. m + 1 /\ m \in 0 .. m /\ n + 1 <= m + 1
  BY <1>1
<1>5. n .. m \in SUBSET S
  <2>1. ASSUME NEW i \in n .. m PROVE i \in S
    <3>1. i \in 1 .. m /\ n <= i
      BY <1>1
    <3>2. u[n] <= u[i] /\ u[i] \in Int
      BY <3>1
    <3>. QED  BY <1>2, <3>1, <3>2
  <2>. QED  BY <2>1
<1>. HIDE DEF S
<1>6. IsFiniteSet(S) /\ Cardinality(S) \in Nat /\ Cardinality(S) <= m - (n + 1) + 1
  BY <1>3, <1>4, CountRearranged
<1>7. Cardinality(n .. m) = m - n + 1
  BY <1>1, FS_Interval
<1>8. Cardinality(n .. m) <= Cardinality(S)
  BY <1>5, <1>6, FS_Subset
<1>. QED  BY <1>1, <1>6, <1>7, <1>8

(* Values have one ascending order, whichever way they are read.              *)
LEMMA SortedReversed ==
    ASSUME NEW s \in Seq(Int), NEW t \in Seq(Int), Len(t) = Len(s),
           \A i \in 1 .. Len(s) : t[i] = s[Len(s) - i + 1]
    PROVE  Sorted(t) = Sorted(s)
<1> DEFINE m == Len(s)
           x == Sorted(s)
           y == Sorted(t)
           r == [i \in 1 .. m |-> m - i + 1]
<1>1. m \in Nat
  OBVIOUS
<1>2. x \in Seq(Int) /\ Len(x) = m /\ \A k, n \in 1 .. m : k <= n => x[k] <= x[n]
  BY SortedFits
<1>3. y \in Seq(Int) /\ Len(y) = m /\ \A k, n \in 1 .. m : k <= n => y[k] <= y[n]
  BY SortedFits
<1>4. PICK p \in Bijection(1 .. m, 1 .. m) : \A n \in 1 .. m : x[n] = s[p[n]]
  BY SortedFits
<1>5. PICK q \in Bijection(1 .. m, 1 .. m) : \A n \in 1 .. m : y[n] = t[q[n]]
  <2>. HIDE DEF y
  <2>. QED  BY SortedFits DEF y
<1>6. \A i \in 1 .. m : t[i] = s[m - i + 1] /\ m - i + 1 \in 1 .. m
  <2>1. \A i \in 1 .. m : t[i] = s[m - i + 1]
    OBVIOUS
  <2>. HIDE DEF m
  <2>. QED  BY <1>1, <2>1
<1>. HIDE DEF m, x, y
<1>7. p \in [1 .. m -> 1 .. m] /\ (\A i, j \in 1 .. m : p[i] = p[j] => i = j)
      /\ \A k \in 1 .. m : \E n \in 1 .. m : p[n] = k
  BY DEF Bijection, Injection, Surjection, IsInjective
<1>8. q \in [1 .. m -> 1 .. m] /\ (\A i, j \in 1 .. m : q[i] = q[j] => i = j)
      /\ \A k \in 1 .. m : \E n \in 1 .. m : q[n] = k
  BY DEF Bijection, Injection, Surjection, IsInjective
<1> DEFINE Of(n) == CHOOSE k \in 1 .. m : p[k] = m - q[n] + 1
           a == [n \in 1 .. m |-> Of(n)]
<1>9. ASSUME NEW n \in 1 .. m PROVE a[n] \in 1 .. m /\ p[a[n]] = m - q[n] + 1
  <2>1. m - q[n] + 1 \in 1 .. m
    BY <1>6, <1>8
  <2>2. \E k \in 1 .. m : p[k] = m - q[n] + 1
    BY <1>7, <2>1
  <2>3. Of(n) \in 1 .. m /\ p[Of(n)] = m - q[n] + 1
    BY <2>2
  <2>. HIDE DEF Of
  <2>. QED  BY <2>3
<1>10. a \in [1 .. m -> 1 .. m]
  <2>1. a = [n \in 1 .. m |-> a[n]]
    OBVIOUS
  <2>. HIDE DEF a
  <2>. QED  BY <1>9, <2>1
<1>. HIDE DEF a
<1>11. ASSUME NEW i \in 1 .. m, NEW j \in 1 .. m, a[i] = a[j] PROVE i = j
  <2>1. m - q[i] + 1 = m - q[j] + 1
    BY <1>9, <1>11
  <2>2. q[i] \in 1 .. m /\ q[j] \in 1 .. m
    BY <1>8
  <2>3. q[i] = q[j]
    BY <1>1, <2>1, <2>2
  <2>. QED  BY <1>8, <2>3
<1>12. ASSUME NEW k \in 1 .. m PROVE \E n \in 1 .. m : a[n] = k
  <2> DEFINE j == m - p[k] + 1
  <2>1. j \in 1 .. m /\ m - j + 1 = p[k]
    BY <1>1, <1>7, SMTT(30)
  <2>2. PICK n \in 1 .. m : q[n] = j
    BY <1>8, <2>1
  <2>3. p[a[n]] = p[k]
    BY <1>9, <2>1, <2>2
  <2>. QED  BY <1>7, <1>9, <2>3
<1>13. a \in Bijection(1 .. m, 1 .. m)
  BY <1>10, <1>11, <1>12 DEF Bijection, Injection, Surjection, IsInjective
<1>14. ASSUME NEW n \in 1 .. m PROVE y[n] = x[a[n]]
  <2>1. y[n] = t[q[n]] /\ q[n] \in 1 .. m
    BY <1>5, <1>8
  <2>2. t[q[n]] = s[m - q[n] + 1]
    BY <1>6, <2>1
  <2>3. x[a[n]] = s[p[a[n]]]
    BY <1>4, <1>9
  <2>. QED  BY <1>9, <2>1, <2>2, <2>3
<1> DEFINE Back(k) == CHOOSE n \in 1 .. m : a[n] = k
           b == [k \in 1 .. m |-> Back(k)]
<1>15. ASSUME NEW k \in 1 .. m PROVE b[k] \in 1 .. m /\ a[b[k]] = k
  <2>1. Back(k) \in 1 .. m /\ a[Back(k)] = k
    BY <1>12
  <2>. HIDE DEF Back
  <2>. QED  BY <2>1
<1>16. b \in [1 .. m -> 1 .. m]
  <2>1. b = [k \in 1 .. m |-> b[k]]
    OBVIOUS
  <2>. HIDE DEF b
  <2>. QED  BY <1>15, <2>1
<1>. HIDE DEF b
<1>17. b \in Bijection(1 .. m, 1 .. m)
  <2>1. \A i, j \in 1 .. m : b[i] = b[j] => i = j
    BY <1>15
  <2>2. \A n \in 1 .. m : \E k \in 1 .. m : b[k] = n
    <3>1. ASSUME NEW n \in 1 .. m PROVE b[a[n]] = n /\ a[n] \in 1 .. m
      BY <1>10, <1>11, <1>15, <1>16
    <3>. QED  BY <3>1
  <2>. QED  BY <1>16, <2>1, <2>2 DEF Bijection, Injection, Surjection, IsInjective
<1>18. ASSUME NEW k \in 1 .. m PROVE x[k] = y[b[k]]
  BY <1>14, <1>15
<1>19. \A n \in 1 .. m : x[n] \in Int /\ y[n] \in Int
  BY <1>2, <1>3
<1>20. ASSUME NEW n \in 1 .. m PROVE x[n] = y[n]
  <2>1. x[n] <= y[n]
    BY <1>1, <1>2, <1>3, <1>13, <1>14, <1>19, NotAbove
  <2>2. y[n] <= x[n]
    BY <1>1, <1>2, <1>3, <1>17, <1>18, <1>19, NotAbove
  <2>. QED  BY <1>19, <2>1, <2>2
<1>21. x = y
  BY <1>1, <1>2, <1>3, <1>20
<1>. QED  BY <1>21 DEF x, y

(* At least half of the values are within the deviation, and at least half    *)
(* are not nearer.                                                            *)
LEMMA MadHalves ==
    ASSUME NEW s \in Seq(Int), s # <<>>
    PROVE  LET med == MedianTwice(s)
               mad == MadTimes4(s)
               within == {i \in DOMAIN s : 2 * Magnitude(2 * s[i] - med) <= mad}
               without == {i \in DOMAIN s : 2 * Magnitude(2 * s[i] - med) >= mad}
           IN  /\ mad \in Int
               /\ Cardinality(within) \in Nat /\ 2 * Cardinality(within) >= Len(s)
               /\ Cardinality(without) \in Nat /\ 2 * Cardinality(without) >= Len(s)
<1> DEFINE m == Len(s)
           D == 1 .. m
           med == MedianTwice(s)
           dev == [i \in DOMAIN s |-> Magnitude(2 * s[i] - med)]
           mad == MadTimes4(s)
           within == {i \in D : 2 * dev[i] <= mad}
           without == {i \in D : 2 * dev[i] >= mad}
           below == {i \in D : 2 * dev[i] < mad}
           above == {i \in D : 2 * dev[i] > mad}
<1>1. m \in Nat /\ m # 0 /\ DOMAIN s = D /\ \A i \in D : s[i] \in Int
  OBVIOUS
<1>2. med \in Int
  BY MedianHalves
<1>. HIDE DEF m, med
<1>3. \A i \in D : dev[i] \in Int
  BY <1>1, <1>2 DEF Magnitude
<1>4. dev \in Seq(Int) /\ Len(dev) = m /\ DOMAIN dev = D /\ dev # <<>>
  <2>1. dev = [i \in 1 .. m |-> dev[i]]
    BY <1>1
  <2>. HIDE DEF dev
  <2>2. dev \in Seq(Int)
    BY <1>1, <1>3, <2>1
  <2>3. DOMAIN dev = 1 .. m
    BY <2>1, Zenon
  <2>4. Len(dev) = m
    BY <1>1, <2>2, <2>3
  <2>. QED  BY <1>1, <2>2, <2>3, <2>4
<1>5. mad = MedianTwice(dev)
  BY DEF MadTimes4, med
<1>6. /\ mad \in Int
      /\ Cardinality(below) \in Nat /\ 2 * Cardinality(below) <= m
      /\ Cardinality(above) \in Nat /\ 2 * Cardinality(above) <= m
  <2>1. below = {i \in DOMAIN dev : 2 * dev[i] < MedianTwice(dev)}
    BY <1>4, <1>5, Zenon
  <2>2. above = {i \in DOMAIN dev : 2 * dev[i] > MedianTwice(dev)}
    BY <1>4, <1>5, Zenon
  <2>. HIDE DEF dev, mad, below, above
  <2>3. LET b == {i \in DOMAIN dev : 2 * dev[i] < MedianTwice(dev)}
            a == {i \in DOMAIN dev : 2 * dev[i] > MedianTwice(dev)}
        IN  /\ MedianTwice(dev) \in Int
            /\ Cardinality(b) \in Nat /\ 2 * Cardinality(b) <= Len(dev)
            /\ Cardinality(a) \in Nat /\ 2 * Cardinality(a) <= Len(dev)
    BY <1>4, MedianHalves
  <2>. QED  BY <1>4, <1>5, <2>1, <2>2, <2>3, Zenon
<1>. HIDE DEF mad
<1>7. IsFiniteSet(D) /\ Cardinality(D) = m
  BY <1>1, FS_Interval
<1>8. within = D \ above /\ without = D \ below
  <2>. HIDE DEF dev
  <2>1. ASSUME NEW i \in D
        PROVE  /\ 2 * dev[i] <= mad <=> ~(2 * dev[i] > mad)
               /\ 2 * dev[i] >= mad <=> ~(2 * dev[i] < mad)
    <3>1. dev[i] \in Int /\ mad \in Int
      BY <1>3, <1>6
    <3>. QED  BY <3>1
  <2>2. \A i \in D : 2 * dev[i] >= mad <=> ~(2 * dev[i] < mad)
    BY <2>1
  <2>. QED  BY <2>1, <2>2
<1>9. ASSUME NEW X \in SUBSET D, 2 * Cardinality(X) <= m, Cardinality(X) \in Nat
      PROVE  Cardinality(D \ X) \in Nat /\ 2 * Cardinality(D \ X) >= m
  <2>. HIDE DEF D
  <2>1. IsFiniteSet(X) /\ IsFiniteSet(D \ X) /\ D \cap X = X
    BY <1>7, FS_Subset
  <2>2. Cardinality(D \ X) = m - Cardinality(X)
    BY <1>7, <2>1, FS_Difference
  <2>3. Cardinality(D \ X) \in Nat
    BY <2>1, FS_CardinalityType
  <2>. QED  BY <1>1, <1>9, <2>2, <2>3
<1>10. /\ Cardinality(within) \in Nat /\ 2 * Cardinality(within) >= m
       /\ Cardinality(without) \in Nat /\ 2 * Cardinality(without) >= m
  <2>1. above \in SUBSET D /\ below \in SUBSET D
    OBVIOUS
  <2>. HIDE DEF above, below, within, without, D
  <2>. QED  BY <1>6, <1>8, <1>9, <2>1
<1>11. within = {i \in DOMAIN s : 2 * Magnitude(2 * s[i] - med) <= mad}
  BY <1>1
<1>12. without = {i \in DOMAIN s : 2 * Magnitude(2 * s[i] - med) >= mad}
  BY <1>1
<1>. HIDE DEF within, without
<1>. QED  BY <1>6, <1>10, <1>11, <1>12 DEF mad, med, m

(* The 50th percentile is the median.                                         *)
LEMMA MiddlePercentile ==
    ASSUME NEW s \in Seq(Int), s # <<>>
    PROVE  Percentile100(s, 50) = 50 * MedianTwice(s)
<1> DEFINE m == Len(s)
           t == Sorted(s)
           rank == 50 * (m - 1)
           low == (rank \div 100) + 1
           frac == rank % 100
           a == (m + 1) \div 2
           b == (m \div 2) + 1
<1>1. m \in Nat /\ m # 0 /\ \A n \in 1 .. m : t[n] \in Int
  BY SortedFits
<1>2. Percentile100(s, 50) = IF frac = 0 THEN 100 * t[low]
                             ELSE (100 - frac) * t[low] + frac * t[low + 1]
  BY DEF Percentile100
<1>3. MedianTwice(s) = t[a] + t[b]
  BY DEF MedianTwice
<1>. HIDE DEF m, t
<1>4. CASE m % 2 = 1
  <2>1. frac = 0 /\ low = a /\ low = b /\ low \in 1 .. m
    BY <1>1, <1>4
  <2>. HIDE DEF frac, low, a, b
  <2>. QED  BY <1>1, <1>2, <1>3, <2>1
<1>5. CASE m % 2 = 0
  <2>1. frac = 50 /\ low = a /\ low + 1 = b /\ low \in 1 .. m /\ low + 1 \in 1 .. m
    BY <1>1, <1>5
  <2>. HIDE DEF frac, low, a, b
  <2>2. t[a] \in Int /\ t[b] \in Int
    BY <1>1, <2>1
  <2>3. Percentile100(s, 50) = 50 * t[a] + 50 * t[b]
    BY <1>2, <2>1
  <2>. QED  BY <1>3, <2>2, <2>3
<1>6. m % 2 \in {0, 1}
  BY <1>1
<1>. QED  BY <1>4, <1>5, <1>6

(* No value lies outside of the extremes.                                     *)
LEMMA Extremes ==
    ASSUME NEW s \in Seq(Int), s # <<>>, NEW i \in DOMAIN s
    PROVE  Sorted(s)[1] <= s[i] /\ s[i] <= Sorted(s)[Len(s)]
<1> DEFINE m == Len(s)
           t == Sorted(s)
<1>1. m \in Nat /\ m # 0 /\ i \in 1 .. m
  OBVIOUS
<1>2. PICK p \in Bijection(1 .. m, 1 .. m) : \A n \in 1 .. m : t[n] = s[p[n]]
  BY SortedFits
<1>3. \A k, n \in 1 .. m : k <= n => t[k] <= t[n]
  BY SortedFits
<1>. HIDE DEF m, t
<1>4. PICK n \in 1 .. m : p[n] = i
  BY <1>1 DEF Bijection, Surjection
<1>5. t[1] <= t[n] /\ t[n] <= t[m]
  BY <1>1, <1>3
<1>. QED  BY <1>2, <1>4, <1>5 DEF t, m

(* Read backwards a vector has the same spread, and its slope is turned.      *)
LEMMA SlopeTurned ==
    ASSUME NEW s \in Seq(Int), NEW t \in Seq(Int), Len(t) = Len(s),
           \A i \in 1 .. Len(s) : t[i] = s[Len(s) - i + 1]
    PROVE  /\ SlopeRise(s) \in Int /\ SlopeRise(t) = -SlopeRise(s)
           /\ SlopeRun(t) = SlopeRun(s)
<1> DEFINE m == Len(s)
           c == SumOver(s)
           D == 1 .. m
           w(i) == 2 * i - m - 1
           x == [i \in D |-> w(i) * (m * s[i] - c)]
           y == [i \in D |-> w(i) * (m * t[i] - c)]
           z == [i \in D |-> x[m - i + 1]]
<1>1. m \in Nat /\ DOMAIN s = D /\ DOMAIN t = D
  OBVIOUS
<1>2. \A i \in D : s[i] \in Int /\ t[i] \in Int
  OBVIOUS
<1>3. c \in Int /\ SumOver(t) = c
  BY SumTyped, SumReversed
<1>4. SlopeRise(s) = SumOver(x)
  BY <1>1 DEF SlopeRise
<1>5. SlopeRise(t) = SumOver(y)
  BY <1>1, <1>3 DEF SlopeRise
<1>6. SlopeRun(t) = SlopeRun(s)
  BY <1>1 DEF SlopeRun
<1>7. \A i \in D : t[i] = s[m - i + 1]
  OBVIOUS
<1>. HIDE DEF m, c
<1>8. \A i \in D : w(i) \in Int /\ m - i + 1 \in D /\ w(m - i + 1) = -w(i)
  BY <1>1
<1>9. ASSUME NEW i \in D PROVE w(i) * (m * s[i] - c) \in Int /\ w(i) * (m * t[i] - c) \in Int
  <2>1. w(i) \in Int /\ m * s[i] - c \in Int /\ m * t[i] - c \in Int
    BY <1>1, <1>2, <1>3, <1>8, SMTT(30)
  <2>. HIDE DEF w
  <2>. QED  BY <2>1, SMTT(30)
<1>10. x \in Seq(Int) /\ Len(x) = m /\ y \in Seq(Int) /\ Len(y) = m
  <2>. HIDE DEF w
  <2>. QED  BY <1>1, <1>9
<1>11. z \in Seq(Int) /\ Len(z) = m
  <2>1. \A i \in D : x[m - i + 1] \in Int
    <3>. HIDE DEF x
    <3>. QED  BY <1>8, <1>10
  <2>. HIDE DEF x
  <2>2. z \in [1 .. m -> Int]
    BY <2>1
  <2>. HIDE DEF z
  <2>. QED  BY <1>1, <2>2, VectorOf
<1>12. ASSUME NEW i \in D PROVE y[i] = -z[i]
  <2> DEFINE j == m - i + 1
             u == w(i)
             d == m * t[i] - c
  <2>1. j \in D /\ w(j) = -u /\ u \in Int /\ t[i] = s[j]
    BY <1>7, <1>8
  <2>2. z[i] = w(j) * (m * s[j] - c) /\ y[i] = w(i) * (m * t[i] - c)
    BY <2>1
  <2>3. y[i] = u * d /\ z[i] = (-u) * d
    BY <2>1, <2>2
  <2>4. d \in Int
    BY <1>1, <1>2, <1>3
  <2>. HIDE DEF u, d, y, z
  <2>. QED  BY <2>1, <2>3, <2>4
<1>13. \A i \in D : z[i] = x[m - i + 1]
  <2>. HIDE DEF x
  <2>. QED  OBVIOUS
<1>. HIDE DEF x, y, z, w
<1>14. SumOver(z) = SumOver(x)
  BY <1>10, <1>11, <1>13, SumReversed
<1>15. SumOver(y) = -SumOver(z)
  BY <1>10, <1>11, <1>12, SumNegated
<1>16. SumOver(x) \in Int
  BY <1>10, SumTyped
<1>. QED  BY <1>4, <1>5, <1>6, <1>14, <1>15, <1>16

(* Two positions differ.                                                      *)
LEMMA RunPositive ==
    ASSUME NEW s \in Seq(Int), Len(s) >= 2
    PROVE  SlopeRun(s) \in Nat /\ SlopeRun(s) > 0
<1> DEFINE m == Len(s)
           w(i) == 2 * i - m - 1
           x == [i \in 1 .. m |-> w(i) * w(i)]
<1>1. m \in Nat /\ DOMAIN s = 1 .. m /\ m >= 2
  OBVIOUS
<1>2. SlopeRun(s) = SumOver(x)
  BY <1>1 DEF SlopeRun
<1>. HIDE DEF m
<1>3. ASSUME NEW i \in 1 .. m PROVE w(i) * w(i) \in Nat
  <2>1. w(i) \in Int
    BY <1>1
  <2>. HIDE DEF w
  <2>2. w(i) >= 0 \/ -w(i) >= 0
    BY <2>1
  <2>3. ASSUME NEW n \in Nat PROVE n * n \in Nat
    OBVIOUS
  <2>4. CASE w(i) >= 0
    BY <2>1, <2>3, <2>4
  <2>5. CASE -w(i) >= 0
    <3>1. (-w(i)) * (-w(i)) \in Nat
      BY <2>1, <2>3, <2>5
    <3>2. (-w(i)) * (-w(i)) = w(i) * w(i)
      BY <2>1
    <3>. QED  BY <3>1, <3>2
  <2>. QED  BY <2>2, <2>4, <2>5
<1>4. x \in Seq(Nat) /\ Len(x) = m
  <2>. HIDE DEF w
  <2>. QED  BY <1>1, <1>3
<1>5. x[1] = (1 - m) * (1 - m) /\ 1 \in 1 .. m
  <2>1. w(1) = 1 - m /\ 1 \in 1 .. m
    BY <1>1
  <2>2. x[1] = w(1) * w(1)
    BY <2>1
  <2>. HIDE DEF w, x
  <2>. QED  BY <2>1, <2>2
<1>6. (1 - m) * (1 - m) \in Nat /\ (1 - m) * (1 - m) > 0
  <2> DEFINE k == m - 1
  <2>1. k \in Nat /\ k > 0 /\ 1 - m = -k
    BY <1>1
  <2>. HIDE DEF k
  <2>2. k * k \in Nat /\ k * k > 0
    BY <2>1
  <2>3. (-k) * (-k) = k * k
    BY <2>1
  <2>. QED  BY <2>1, <2>2, <2>3
<1>. HIDE DEF x
<1>7. SumOver(x) \in Nat /\ x[1] <= SumOver(x)
  BY <1>4, <1>5, SumBounds
<1>. QED  BY <1>2, <1>5, <1>6, <1>7

(* Seen backwards a rise is a fall.                                           *)
LEMMA TrendTurned ==
    ASSUME NEW s \in Seq(Int), s # <<>>, NEW t \in Seq(Int), Len(t) = Len(s),
           \A i \in 1 .. Len(s) : t[i] = s[Len(s) - i + 1]
    PROVE  <<Trend(s), Trend(t)>>
               \in {<<"flat", "flat">>, <<"rising", "falling">>, <<"falling", "rising">>}
<1> DEFINE m == Len(s)
           p50 == Magnitude(Percentile100(s, 50))
           least == IF p50 > 20 THEN p50 ELSE 20
           rise == SlopeRise(s)
           run == SlopeRun(s)
<1>1. m \in Nat
  OBVIOUS
<1>2. rise \in Int /\ SlopeRise(t) = -rise /\ SlopeRun(t) = run
  BY SlopeTurned
<1>3. Percentile100(t, 50) = Percentile100(s, 50)
  <2>1. Sorted(t) = Sorted(s)
    BY SortedReversed
  <2>. QED  BY <2>1 DEF Percentile100
<1>4. p50 \in Int
  <2>1. Percentile100(s, 50) \in Int
    <3>1. 50 \in 0 .. 100 /\ 50 <= 50
      OBVIOUS
    <3>. QED  BY <3>1, PercentilesAscend
  <2>. QED  BY <2>1 DEF Magnitude
<1>5. Magnitude(SlopeRise(t)) = Magnitude(rise)
  <2>. HIDE DEF rise
  <2>. QED  BY <1>2 DEF Magnitude
<1>6. IsFlat(s) <=> m < 2 \/ 4000 * Magnitude(rise) < m * run * least
  BY DEF IsFlat
<1>7. IsFlat(t) <=> m < 2 \/ 4000 * Magnitude(rise) < m * run * least
  <2>1. Len(t) = m
    OBVIOUS
  <2>2. IsFlat(t) <=> Len(t) < 2 \/ 4000 * Magnitude(SlopeRise(t)) < Len(t) * SlopeRun(t) *
                         (IF Magnitude(Percentile100(t, 50)) > 20 THEN Magnitude(Percentile100(t, 50)) ELSE 20)
    BY DEF IsFlat
  <2>3. SlopeRun(t) = run /\ Magnitude(Percentile100(t, 50)) = p50
    BY <1>2, <1>3
  <2>. HIDE DEF m, rise, run, p50
  <2>4. IsFlat(t) <=> m < 2 \/ 4000 * Magnitude(rise) < m * run * (IF p50 > 20 THEN p50 ELSE 20)
    BY <1>5, <2>1, <2>2, <2>3
  <2>. QED  BY <2>4
<1>. HIDE DEF m, p50, rise, run
<1>8. ~IsFlat(s) => rise # 0
  <2> SUFFICES ASSUME ~IsFlat(s), rise = 0 PROVE FALSE
    OBVIOUS
  <2>1. m >= 2 /\ ~(4000 * Magnitude(rise) < m * run * least)
    BY <1>1, <1>6
  <2>2. run \in Nat /\ run > 0
    BY <2>1, RunPositive DEF m, run
  <2>3. 4000 * Magnitude(rise) = 0
    BY DEF Magnitude
  <2>4. least \in Nat /\ least > 0
    BY <1>4
  <2>. HIDE DEF least
  <2>5. m * run \in Nat /\ m * run > 0
    BY <1>1, <2>1, <2>2
  <2> DEFINE k == m * run
  <2>. HIDE DEF k
  <2>6. k \in Nat /\ k > 0
    BY <2>5 DEF k
  <2>7. k * least > 0
    BY <2>4, <2>6
  <2>. QED  BY <2>1, <2>3, <2>7 DEF k
<1>9. (IsFlat(s) <=> IsFlat(t))
  BY <1>6, <1>7
<1>10. Trend(s) = IF IsFlat(s) THEN "flat" ELSE IF rise > 0 THEN "rising" ELSE "falling"
  BY DEF Trend, rise
<1>11. Trend(t) = IF IsFlat(s) THEN "flat" ELSE IF -rise > 0 THEN "rising" ELSE "falling"
  BY <1>2, <1>9 DEF Trend
<1>. QED  BY <1>2, <1>8, <1>10, <1>11

-------------------------------------------------------------------------------
(* Histories and their statistics.                                            *)

(* What the statistics make of a history: with it the trend of the same       *)
(* values newest first.                                                       *)
Looked(h) ==
    [stats |-> SampleStats(h), median |-> MedianTwice(h),
     mad |-> MadTimes4(h), back |-> Trend(Reverse(h))]

(* A history is one of those there are, and once it is read the output is its *)
(* statistics.                                                                *)
HistoryRight ==
    input.kind = "history" => input.data \in Histories /\ (read => output = Looked(input.data))

(* Reversed, a vector has its i-th value in the i-th place from the end.      *)
LEMMA BackIs ==
    ASSUME NEW s \in Seq(Int)
    PROVE  /\ Reverse(s) \in Seq(Int) /\ Len(Reverse(s)) = Len(s)
           /\ \A i \in 1 .. Len(s) : Reverse(s)[i] = s[Len(s) - i + 1]
<1> DEFINE m == Len(s)
           f == [i \in 1 .. m |-> s[m - i + 1]]
<1>1. Reverse(s) = f
  BY DEF Reverse
<1>2. m \in Nat /\ \A i \in 1 .. m : s[i] \in Int
  OBVIOUS
<1>. HIDE DEF m
<1>3. f \in [1 .. m -> Int] /\ \A i \in 1 .. m : f[i] = s[m - i + 1]
  <2>1. ASSUME NEW i \in 1 .. m PROVE m - i + 1 \in 1 .. m
    BY <1>2
  <2>. QED  BY <1>2, <2>1
<1>. HIDE DEF f
<1>. QED  BY <1>1, <1>2, <1>3, VectorOf DEF m

(* Statistics that are those of the history are as the values say (StatsFit). *)
LEMMA HistoryFits ==
    ASSUME HistoryRight PROVE StatsFit
<1> SUFFICES ASSUME Done("history") PROVE StatsFit
  BY DEF StatsFit
<1> DEFINE h == input.data
           med == MedianTwice(h)
           mad == MadTimes4(h)
<1>1. h \in Seq(Int) /\ h # <<>> /\ output = Looked(h)
  BY HistoriesAssumption DEF Done, HistoryRight
<1>2. /\ output.median = med /\ output.mad = mad /\ output.stats = SampleStats(h)
      /\ output.back = Trend(Reverse(h))
  BY <1>1 DEF Looked
<1>. HIDE DEF h
<1>3. /\ 2 * Cardinality({i \in DOMAIN h : 2 * h[i] < med}) <= Len(h)
      /\ 2 * Cardinality({i \in DOMAIN h : 2 * h[i] > med}) <= Len(h)
  <2>. HIDE DEF med
  <2>. QED  BY <1>1, MedianHalves DEF med
<1>4. /\ 2 * Cardinality({i \in DOMAIN h : 2 * Magnitude(2 * h[i] - med) <= mad}) >= Len(h)
      /\ 2 * Cardinality({i \in DOMAIN h : 2 * Magnitude(2 * h[i] - med) >= mad}) >= Len(h)
  BY <1>1, MadHalves
<1> DEFINE s == output.stats
<1>5. /\ s.p50 = Percentile100(h, 50) /\ s.p95 = Percentile100(h, 95) /\ s.p99 = Percentile100(h, 99)
      /\ s.min = 100 * Sorted(h)[1] /\ s.max = 100 * Sorted(h)[Len(h)]
      /\ s.trend = Trend(h)
  BY <1>2 DEF SampleStats
<1>6. s.p50 = 50 * med
  BY <1>1, <1>5, MiddlePercentile
<1>7. s.min <= s.p50 /\ s.p50 <= s.p95 /\ s.p95 <= s.p99 /\ s.p99 <= s.max
  <2>1. 50 \in 0 .. 100 /\ 95 \in 0 .. 100 /\ 99 \in 0 .. 100 /\ 50 <= 95 /\ 95 <= 99
    OBVIOUS
  <2>2. 100 * Sorted(h)[1] <= Percentile100(h, 50) /\ Percentile100(h, 50) <= Percentile100(h, 95)
    BY <1>1, <2>1, PercentilesAscend
  <2>3. Percentile100(h, 95) <= Percentile100(h, 99) /\ Percentile100(h, 99) <= 100 * Sorted(h)[Len(h)]
    BY <1>1, <2>1, PercentilesAscend
  <2>. QED  BY <1>5, <2>2, <2>3
<1>8. ASSUME NEW v \in ToSet(h) PROVE s.min <= 100 * v /\ 100 * v <= s.max
  <2>1. PICK i \in DOMAIN h : v = h[i]
    BY DEF ToSet
  <2> DEFINE a == Sorted(h)[1]
             b == Sorted(h)[Len(h)]
  <2>2. a <= v /\ v <= b
    BY <1>1, <2>1, Extremes
  <2>3. v \in Int /\ Len(h) \in 1 .. Len(h) /\ 1 \in 1 .. Len(h)
    BY <1>1, <2>1
  <2>4. a \in Int /\ b \in Int
    BY <1>1, <2>3, SortedFits
  <2>. HIDE DEF a, b
  <2>5. 100 * a <= 100 * v /\ 100 * v <= 100 * b
    BY <2>2, <2>3, <2>4
  <2>. QED  BY <1>5, <2>5 DEF a, b
<1>9. <<s.trend, output.back>> \in {<<"flat", "flat">>, <<"rising", "falling">>, <<"falling", "rising">>}
  BY <1>1, <1>2, <1>5, BackIs, TrendTurned
<1>. HIDE DEF med, mad, s
<1>. QED  BY <1>2, <1>3, <1>4, <1>6, <1>7, <1>8, <1>9, Zenon DEF StatsFit, h, s

-------------------------------------------------------------------------------
(* Conversions: a report that is written, read back and shown.                *)

(* A value after JSON: a number is a float.                                   *)
FloatOf(w) == IF IsNumber(w) THEN Value("float", w.v) ELSE w

(* A report after it was written and read back: every number is a float.      *)
Floated(r) ==
    [host |-> r.host,
     signals |-> [i \in DOMAIN r.signals |->
                     [id |-> r.signals[i].id, value |-> FloatOf(r.signals[i].value),
                      samples |-> r.signals[i].samples]],
     findings |-> [i \in DOMAIN r.findings |->
                     [summary |-> r.findings[i].summary, observed |-> FloatOf(r.findings[i].observed)]],
     results |-> r.results]

(* What is written of samples.                                                *)
WrittenSamples(q) == IF q = Unsampled THEN Null ELSE [i \in DOMAIN q |-> WrittenNumber(q[i])]

(* The document of a report, part by part.                                    *)
Document2(r) ==
    [host |-> r.host,
     signals |-> [i \in DOMAIN r.signals |->
                     [id |-> r.signals[i].id, value |-> Written(r.signals[i].value),
                      samples |-> WrittenSamples(r.signals[i].samples)]],
     findings |-> [i \in DOMAIN r.findings |->
                     [summary |-> r.findings[i].summary, observed |-> Written(r.findings[i].observed)]],
     results |-> r.results]

(* A report has a host, signals, findings and results, each signal an id, a   *)
(* value and samples.                                                         *)
LEMMA ReportParts ==
    ASSUME NEW r, IsReport(r)
    PROVE  /\ r = [host |-> r.host, signals |-> r.signals,
                   findings |-> r.findings, results |-> r.results]
           /\ \A i \in DOMAIN r.signals :
                 /\ r.signals[i] = [id |-> r.signals[i].id, value |-> r.signals[i].value,
                                    samples |-> r.signals[i].samples]
                 /\ IsValue(r.signals[i].value)
                 /\ r.signals[i].samples = Unsampled \/ r.signals[i].samples \in Seq({Infinite} \cup Int)
           /\ \A i \in DOMAIN r.findings :
                 /\ r.findings[i] = [summary |-> r.findings[i].summary, observed |-> r.findings[i].observed]
                 /\ IsVector(r.findings[i].summary) /\ IsValue(r.findings[i].observed)
<1>1. r = [host |-> r.host, signals |-> r.signals, findings |-> r.findings, results |-> r.results]
  BY DEF IsReport
<1>2. ASSUME NEW i \in DOMAIN r.signals
      PROVE  /\ r.signals[i] = [id |-> r.signals[i].id, value |-> r.signals[i].value,
                                samples |-> r.signals[i].samples]
             /\ IsValue(r.signals[i].value)
             /\ r.signals[i].samples = Unsampled \/ r.signals[i].samples \in Seq({Infinite} \cup Int)
  <2>1. r.signals[i] \in ToSet(r.signals)
    BY DEF ToSet
  <2>2. \A s \in ToSet(r.signals) :
          /\ s = [id |-> s.id, value |-> s.value, samples |-> s.samples]
          /\ IsValue(s.value)
          /\ s.samples = Unsampled \/ s.samples \in Seq({Infinite} \cup Int)
    BY DEF IsReport
  <2>. QED  BY <2>1, <2>2
<1>3. ASSUME NEW i \in DOMAIN r.findings
      PROVE  /\ r.findings[i] = [summary |-> r.findings[i].summary, observed |-> r.findings[i].observed]
             /\ IsVector(r.findings[i].summary) /\ IsValue(r.findings[i].observed)
  <2>1. r.findings[i] \in ToSet(r.findings)
    BY DEF ToSet
  <2>2. \A f \in ToSet(r.findings) :
          /\ f = [summary |-> f.summary, observed |-> f.observed]
          /\ IsVector(f.summary) /\ IsValue(f.observed)
    BY DEF IsReport
  <2>. QED  BY <2>1, <2>2
<1>. QED  BY <1>1, <1>2, <1>3, Zenon

(* Replacing the signals and findings of a report leaves host and results.    *)
LEMMA PartsReplaced ==
    ASSUME NEW r, NEW x, NEW y,
           r = [host |-> r.host, signals |-> r.signals, findings |-> r.findings, results |-> r.results]
    PROVE  [r EXCEPT !.signals = x, !.findings = y] =
               [host |-> r.host, signals |-> x, findings |-> y, results |-> r.results]
<1> DEFINE a == r.host
           b == r.signals
           c == r.findings
           d == r.results
<1>0. r = [host |-> a, signals |-> b, findings |-> c, results |-> d]
  OBVIOUS
<1>. HIDE DEF a, b, c, d
<1> DEFINE D == {"host", "signals", "findings", "results"}
           e == [r EXCEPT !.signals = x, !.findings = y]
           g == [host |-> a, signals |-> x, findings |-> y, results |-> d]
<1>1. DOMAIN r = D
  BY <1>0
<1>2. e = [k \in D |-> e[k]] /\ g = [k \in D |-> g[k]]
  BY <1>1
<1>3. \A k \in D : e[k] = g[k]
  <2>1. e["host"] = a /\ e["signals"] = x /\ e["findings"] = y /\ e["results"] = d
    BY <1>0, <1>1
  <2>2. g["host"] = a /\ g["signals"] = x /\ g["findings"] = y /\ g["results"] = d
    OBVIOUS
  <2>. HIDE DEF e, g
  <2>. QED  BY <2>1, <2>2
<1>. HIDE DEF e, D, g
<1>4. e = g
  BY <1>2, <1>3
<1>. QED  BY <1>4 DEF e, g, a, d

(* The parts of the document.                                                 *)
LEMMA DocumentIs == ASSUME NEW r, IsReport(r) PROVE Serialized(r) = Document2(r)
<1> DEFINE S == [i \in DOMAIN r.signals |-> WrittenSignal(r.signals[i])]
           F == [i \in DOMAIN r.findings |-> WrittenFinding(r.findings[i])]
           T == [i \in DOMAIN r.signals |->
                     [id |-> r.signals[i].id, value |-> Written(r.signals[i].value),
                      samples |-> WrittenSamples(r.signals[i].samples)]]
           G == [i \in DOMAIN r.findings |->
                     [summary |-> r.findings[i].summary, observed |-> Written(r.findings[i].observed)]]
<1>1. Serialized(r) = [r EXCEPT !.signals = S, !.findings = F]
  BY DEF Serialized
<1>2. ASSUME NEW s, s = [id |-> s.id, value |-> s.value, samples |-> s.samples]
      PROVE  WrittenSignal(s) = [id |-> s.id, value |-> Written(s.value), samples |-> WrittenSamples(s.samples)]
  <2>1. WrittenSignal(s) = [s EXCEPT !.value = Written(s.value), !.samples = WrittenSamples(s.samples)]
    BY DEF WrittenSignal, WrittenSamples
  <2>. QED  BY <1>2, <2>1
<1>3. ASSUME NEW f, f = [summary |-> f.summary, observed |-> f.observed]
      PROVE  WrittenFinding(f) = [summary |-> f.summary, observed |-> Written(f.observed)]
  BY <1>3 DEF WrittenFinding
<1>4. S = T
  BY <1>2, ReportParts
<1>5. F = G
  BY <1>3, ReportParts
<1>. HIDE DEF S, F, T, G
<1>6. [r EXCEPT !.signals = S, !.findings = F] =
      [host |-> r.host, signals |-> S, findings |-> F, results |-> r.results]
  <2>2. r = [host |-> r.host, signals |-> r.signals, findings |-> r.findings, results |-> r.results]
    BY ReportParts
  <2>. QED  BY <2>2, PartsReplaced, Zenon
<1>7. Serialized(r) = [host |-> r.host, signals |-> T, findings |-> G, results |-> r.results]
  BY <1>1, <1>4, <1>5, <1>6, Zenon
<1>. QED  BY <1>7, Zenon DEF Document2, T, G

(* What has become a float is written as it was.                              *)
LEMMA FloatWritten ==
    ASSUME NEW w, IsValue(w)
    PROVE  /\ Written(FloatOf(w)) = Written(w) /\ IsValue(FloatOf(w))
           /\ FloatOf(w).v = w.v
           /\ (IsNumber(FloatOf(w)) <=> IsNumber(w))
           /\ (FloatOf(w).type = "text" <=> w.type = "text")
           /\ w.type = "text" => FloatOf(w) = w
<1>1. CASE IsNumber(w)
  <2>1. FloatOf(w) = Value("float", w.v)
    BY <1>1 DEF FloatOf
  <2>2. Value("float", w.v).type = "float" /\ Value("float", w.v).v = w.v
    BY DEF Value
  <2>3. IsNumber(FloatOf(w)) /\ w.type # "text" /\ FloatOf(w).type = "float" /\ FloatOf(w).v = w.v
    BY <1>1, <2>1, <2>2 DEF IsNumber
  <2>4. w.v \in {Infinite} \cup Int
    BY <1>1 DEF IsNumber, IsValue
  <2>5. IsValue(FloatOf(w))
    BY <2>1, <2>3, <2>4 DEF IsValue
  <2>6. Written(FloatOf(w)) = Value("number", WrittenNumber(FloatOf(w).v))
    BY <2>3 DEF Written
  <2>7. Written(w) = Value("number", WrittenNumber(w.v))
    BY <1>1 DEF Written
  <2>. QED  BY <1>1, <2>3, <2>5, <2>6, <2>7
<1>2. CASE ~IsNumber(w)
  <2>1. FloatOf(w) = w
    BY <1>2 DEF FloatOf
  <2>. QED  BY <2>1
<1>. QED  BY <1>1, <1>2

(* A report that was read back is a report, and is written as before.         *)
LEMMA FloatedIs ==
    ASSUME NEW r, IsReport(r)
    PROVE  IsReport(Floated(r)) /\ Serialized(Floated(r)) = Serialized(r)
<1> DEFINE f == Floated(r)
           S == [i \in DOMAIN r.signals |->
                     [id |-> r.signals[i].id, value |-> FloatOf(r.signals[i].value),
                      samples |-> r.signals[i].samples]]
           F == [i \in DOMAIN r.findings |->
                     [summary |-> r.findings[i].summary, observed |-> FloatOf(r.findings[i].observed)]]
<1>1. f.host = r.host /\ f.signals = S /\ f.findings = F /\ f.results = r.results
      /\ f = [host |-> f.host, signals |-> f.signals, findings |-> f.findings, results |-> f.results]
  BY Zenon DEF Floated
<1>2. ASSUME NEW i \in DOMAIN r.signals
      PROVE  /\ S[i] = [id |-> S[i].id, value |-> S[i].value, samples |-> S[i].samples]
             /\ S[i].id = r.signals[i].id /\ S[i].value = FloatOf(r.signals[i].value)
             /\ S[i].samples = r.signals[i].samples
  OBVIOUS
<1>3. ASSUME NEW i \in DOMAIN r.findings
      PROVE  /\ F[i] = [summary |-> F[i].summary, observed |-> F[i].observed]
             /\ F[i].summary = r.findings[i].summary /\ F[i].observed = FloatOf(r.findings[i].observed)
  OBVIOUS
<1>4. IsVector(S) /\ IsVector(F)
  <2>1. DOMAIN S = DOMAIN r.signals /\ DOMAIN F = DOMAIN r.findings
    OBVIOUS
  <2>2. S = [i \in DOMAIN r.signals |-> S[i]] /\ F = [i \in DOMAIN r.findings |-> F[i]]
    OBVIOUS
  <2>3. IsVector(r.signals) /\ IsVector(r.findings)
    BY DEF IsReport
  <2>. HIDE DEF S, F
  <2>. QED  BY <2>1, <2>2, <2>3, MadeOf
<1>5. DOMAIN S = DOMAIN r.signals /\ DOMAIN F = DOMAIN r.findings
  OBVIOUS
<1>. HIDE DEF f, S, F
<1>6. ASSUME NEW s \in ToSet(S)
      PROVE  /\ s = [id |-> s.id, value |-> s.value, samples |-> s.samples]
             /\ IsValue(s.value)
             /\ s.samples = Unsampled \/ s.samples \in Seq({Infinite} \cup Int)
  <2>1. PICK i \in DOMAIN r.signals : s = S[i]
    BY <1>5 DEF ToSet
  <2>. QED  BY <1>2, <2>1, ReportParts, FloatWritten
<1>7. ASSUME NEW s \in ToSet(F)
      PROVE  /\ s = [summary |-> s.summary, observed |-> s.observed]
             /\ IsVector(s.summary) /\ IsValue(s.observed)
  <2>1. PICK i \in DOMAIN r.findings : s = F[i]
    BY <1>5 DEF ToSet
  <2>. QED  BY <1>3, <2>1, ReportParts, FloatWritten
<1>8. IsReport(f)
  <2>1. IsVector(r.results) /\ \A ran \in ToSet(r.results) :
          IsVector(ran) /\ \A c \in ToSet(ran) : IsVector(c.stdout)
    BY DEF IsReport
  <2>2. r.host = [name |-> r.host.name, uname |-> r.host.uname]
    BY DEF IsReport
  <2>. QED  BY <1>1, <1>4, <1>6, <1>7, <2>1, <2>2, Zenon DEF IsReport
<1>9. Serialized(f) = Document2(f)
  BY <1>8, DocumentIs
<1> DEFINE W(q) == [i \in DOMAIN q |->
                     [id |-> q[i].id, value |-> Written(q[i].value),
                      samples |-> WrittenSamples(q[i].samples)]]
           V(q) == [i \in DOMAIN q |->
                     [summary |-> q[i].summary, observed |-> Written(q[i].observed)]]
<1>10. W(S) = W(r.signals)
  <2>1. \A i \in DOMAIN r.signals : Written(S[i].value) = Written(r.signals[i].value)
    BY <1>2, ReportParts, FloatWritten
  <2>. QED  BY <1>2, <1>5, <2>1
<1>11. V(F) = V(r.findings)
  <2>1. \A i \in DOMAIN r.findings : Written(F[i].observed) = Written(r.findings[i].observed)
    BY <1>3, ReportParts, FloatWritten
  <2>. QED  BY <1>3, <1>5, <2>1
<1>12. Document2(f) = [host |-> r.host, signals |-> W(S), findings |-> V(F), results |-> r.results]
  BY <1>1, Zenon DEF Document2
<1>13. Document2(r) = [host |-> r.host, signals |-> W(r.signals), findings |-> V(r.findings), results |-> r.results]
  BY Zenon DEF Document2
<1>. HIDE DEF W, V
<1>14. Document2(f) = Document2(r)
  BY <1>10, <1>11, <1>12, <1>13, Zenon
<1>. QED  BY <1>8, <1>9, <1>14, DocumentIs DEF f

(* A signal whose numbers JSON can write; a report of them, with findings     *)
(* likewise.                                                                  *)
FiniteSignal(s) ==
    s.value.v # Infinite /\ (s.samples # Unsampled => ~Contains(s.samples, Infinite))

(* A report whose numbers JSON can write.                                     *)
ReadableReport(r) ==
    /\ \A s \in ToSet(r.signals) : FiniteSignal(s)
    /\ \A f \in ToSet(r.findings) : f.observed.v # Infinite

(* A value that can be read again.                                            *)
LEMMA ValueRead ==
    ASSUME NEW w, IsValue(w), Written(w) # Value("number", Null)
    PROVE  Read(Written(w)) = FloatOf(w) /\ w.v # Infinite
<1>1. CASE IsNumber(w)
  <2>1. Written(w) = Value("number", WrittenNumber(w.v))
    BY <1>1 DEF Written
  <2>2. w.v # Infinite
    BY <2>1 DEF WrittenNumber
  <2>3. Written(w) = Value("number", w.v)
    BY <2>1, <2>2 DEF WrittenNumber
  <2>4. Value("number", w.v).type = "number" /\ Value("number", w.v).v = w.v
    BY DEF Value
  <2>. QED  BY <1>1, <2>2, <2>3, <2>4 DEF Read, FloatOf
<1>2. CASE ~IsNumber(w)
  <2>1. Written(w) = w /\ FloatOf(w) = w
    BY <1>2 DEF Written, FloatOf
  <2>2. w.type \in {"bool", "text"} /\ w.v # Infinite
    BY <1>2 DEF IsValue, IsNumber
  <2>. QED  BY <2>1, <2>2 DEF Read
<1>. QED  BY <1>1, <1>2

(* Samples that can be read again.                                            *)
LEMMA SamplesRead ==
    ASSUME NEW q, q = Unsampled \/ q \in Seq({Infinite} \cup Int),
           LET w == WrittenSamples(q) IN w = Null \/ ~Contains(w, Null)
    PROVE  /\ (IF WrittenSamples(q) = Null THEN Unsampled ELSE WrittenSamples(q)) = q
           /\ q # Unsampled => ~Contains(q, Infinite)
<1> DEFINE w == WrittenSamples(q)
<1>1. CASE q = Unsampled
  BY <1>1 DEF WrittenSamples
<1>2. CASE q # Unsampled
  <2>1. q \in Seq({Infinite} \cup Int)
    BY <1>2
  <2>2. w = [i \in DOMAIN q |-> WrittenNumber(q[i])]
    BY <1>2 DEF WrittenSamples
  <2>3. Len(q) \in Nat /\ DOMAIN q = 1 .. Len(q) /\ \A i \in 1 .. Len(q) : q[i] \in {Infinite} \cup Int
    BY <2>1
  <2>4. \A i \in 1 .. Len(q) : WrittenNumber(q[i]) \in {Null} \cup Int
    BY <2>3 DEF WrittenNumber
  <2> DEFINE m == Len(q)
  <2>. HIDE DEF w
  <2>5. w \in [1 .. m -> {Null} \cup Int]
    BY <2>2, <2>3, <2>4
  <2>6. w \in Seq({Null} \cup Int) /\ Len(w) = m
    BY <2>3, <2>5
  <2>7. w # Null
    BY <2>6, NullAssumption
  <2>8. ~Contains(w, Null)
    BY <2>7 DEF w
  <2>9. \A i \in 1 .. m : w[i] # Null
    BY <2>6, <2>8 DEF Contains
  <2>10. \A i \in 1 .. m : w[i] = WrittenNumber(q[i])
    BY <2>2, <2>3
  <2>11. \A i \in 1 .. m : q[i] # Infinite /\ w[i] = q[i]
    BY <2>9, <2>10 DEF WrittenNumber
  <2>12. w = q
    <3>1. w = [i \in 1 .. m |-> w[i]] /\ q = [i \in 1 .. m |-> q[i]]
      BY <2>1, <2>3, <2>5
    <3>. HIDE DEF m
    <3>. QED  BY <2>11, <3>1
  <2>13. ~Contains(q, Infinite)
    BY <2>11 DEF Contains
  <2>. QED  BY <2>7, <2>12, <2>13 DEF w
<1>. QED  BY <1>1, <1>2

(* Whatever can be read again is what was written, numbers as floats.         *)
LEMMA ReadBack ==
    ASSUME NEW r, IsReport(r), Deserialized(Serialized(r)) # NoReport
    PROVE  Deserialized(Serialized(r)) = Floated(r) /\ ReadableReport(r)
<1> DEFINE doc == Serialized(r)
           nulled == Value("number", Null)
           S == [i \in DOMAIN r.signals |->
                     [id |-> r.signals[i].id, value |-> Written(r.signals[i].value),
                      samples |-> WrittenSamples(r.signals[i].samples)]]
           F == [i \in DOMAIN r.findings |->
                     [summary |-> r.findings[i].summary, observed |-> Written(r.findings[i].observed)]]
           T == [i \in DOMAIN r.signals |->
                     [id |-> r.signals[i].id, value |-> FloatOf(r.signals[i].value),
                      samples |-> r.signals[i].samples]]
           G == [i \in DOMAIN r.findings |->
                     [summary |-> r.findings[i].summary, observed |-> FloatOf(r.findings[i].observed)]]
<1>1. doc = [host |-> r.host, signals |-> S, findings |-> F, results |-> r.results]
  BY DocumentIs, Zenon DEF Document2
<1>2. doc.host = r.host /\ doc.signals = S /\ doc.findings = F /\ doc.results = r.results
  <2>. HIDE DEF doc, S, F
  <2>. QED  BY <1>1
<1>3. /\ Deserialized(doc) = ReadReport(doc)
      /\ \A s \in ToSet(doc.signals) : s.value # nulled /\ (s.samples = Null \/ ~Contains(s.samples, Null))
      /\ \A f \in ToSet(doc.findings) : f.observed # nulled
  <2>. HIDE DEF doc
  <2>1. Deserialized(doc) # NoReport
    BY DEF doc
  <2>. QED  BY <2>1, Zenon DEF Deserialized
<1>. HIDE DEF doc
<1>4. ASSUME NEW i \in DOMAIN r.signals
      PROVE  /\ S[i].value # nulled /\ (S[i].samples = Null \/ ~Contains(S[i].samples, Null))
             /\ S[i].value = Written(r.signals[i].value)
             /\ S[i].samples = WrittenSamples(r.signals[i].samples)
             /\ S[i] = [id |-> S[i].id, value |-> S[i].value, samples |-> S[i].samples]
             /\ S[i].id = r.signals[i].id
  <2>1. DOMAIN S = DOMAIN r.signals
    OBVIOUS
  <2>2. S[i] \in ToSet(S)
    <3>. HIDE DEF S
    <3>. QED  BY <2>1 DEF ToSet
  <2>3. S[i].value # nulled /\ (S[i].samples = Null \/ ~Contains(S[i].samples, Null))
    <3>. HIDE DEF S, nulled
    <3>. QED  BY <1>2, <1>3, <2>2
  <2>4. S[i] = [id |-> r.signals[i].id, value |-> Written(r.signals[i].value),
                samples |-> WrittenSamples(r.signals[i].samples)]
    OBVIOUS
  <2>. HIDE DEF S
  <2>. QED  BY <2>3, <2>4
<1>5. ASSUME NEW i \in DOMAIN r.findings
      PROVE  /\ F[i].observed # nulled
             /\ F[i].observed = Written(r.findings[i].observed)
             /\ F[i] = [summary |-> F[i].summary, observed |-> F[i].observed]
             /\ F[i].summary = r.findings[i].summary
  <2>1. DOMAIN F = DOMAIN r.findings
    OBVIOUS
  <2>2. F[i] \in ToSet(F)
    <3>. HIDE DEF F
    <3>. QED  BY <2>1 DEF ToSet
  <2>3. F[i].observed # nulled
    <3>. HIDE DEF F, nulled
    <3>. QED  BY <1>2, <1>3, <2>2
  <2>4. F[i] = [summary |-> r.findings[i].summary, observed |-> Written(r.findings[i].observed)]
    OBVIOUS
  <2>. HIDE DEF F
  <2>. QED  BY <2>3, <2>4
<1>6. ASSUME NEW i \in DOMAIN r.signals
      PROVE  FiniteSignal(r.signals[i]) /\ ReadSignal(S[i]) = T[i]
  <2> DEFINE s == r.signals[i]
             x == S[i]
  <2>1. IsValue(s.value) /\ (s.samples = Unsampled \/ s.samples \in Seq({Infinite} \cup Int))
    BY ReportParts
  <2>2. T[i] = [id |-> s.id, value |-> FloatOf(s.value), samples |-> s.samples]
    OBVIOUS
  <2>. HIDE DEF T, x, s
  <2>3. /\ x.value # nulled /\ (x.samples = Null \/ ~Contains(x.samples, Null))
        /\ x.value = Written(s.value) /\ x.samples = WrittenSamples(s.samples)
        /\ x = [id |-> x.id, value |-> x.value, samples |-> x.samples] /\ x.id = s.id
    BY <1>4 DEF x, s
  <2>4. Read(x.value) = FloatOf(s.value) /\ s.value.v # Infinite
    BY <2>1, <2>3, ValueRead
  <2>5. /\ (IF x.samples = Null THEN Unsampled ELSE x.samples) = s.samples
        /\ s.samples # Unsampled => ~Contains(s.samples, Infinite)
    BY <2>1, <2>3, SamplesRead
  <2>6. ReadSignal(x) = [x EXCEPT !.value = FloatOf(s.value), !.samples = s.samples]
    <3>1. ReadSignal(x) = [x EXCEPT !.value = Read(x.value),
                                    !.samples = IF x.samples = Null THEN Unsampled ELSE x.samples]
      BY DEF ReadSignal
    <3>. QED  BY <2>4, <2>5, <3>1, Zenon
  <2>7. ReadSignal(x) = [id |-> s.id, value |-> FloatOf(s.value), samples |-> s.samples]
    BY <2>3, <2>6
  <2>. QED  BY <2>2, <2>4, <2>5, <2>7, Zenon DEF FiniteSignal, x, s
<1>7. ASSUME NEW i \in DOMAIN r.findings
      PROVE  r.findings[i].observed.v # Infinite /\ ReadFinding(F[i]) = G[i]
  <2> DEFINE f == r.findings[i]
             x == F[i]
  <2>1. IsValue(f.observed)
    BY ReportParts
  <2>2. G[i] = [summary |-> f.summary, observed |-> FloatOf(f.observed)]
    OBVIOUS
  <2>. HIDE DEF G, x, f
  <2>3. /\ x.observed # nulled /\ x.observed = Written(f.observed)
        /\ x = [summary |-> x.summary, observed |-> x.observed] /\ x.summary = f.summary
    BY <1>5 DEF x, f
  <2>4. Read(x.observed) = FloatOf(f.observed) /\ f.observed.v # Infinite
    BY <2>1, <2>3, ValueRead
  <2>6. ReadFinding(x) = [x EXCEPT !.observed = FloatOf(f.observed)]
    <3>1. ReadFinding(x) = [x EXCEPT !.observed = Read(x.observed)]
      BY DEF ReadFinding
    <3>. QED  BY <2>4, <3>1, Zenon
  <2>7. ReadFinding(x) = [summary |-> f.summary, observed |-> FloatOf(f.observed)]
    BY <2>3, <2>6
  <2>. QED  BY <2>2, <2>4, <2>7, Zenon DEF x, f
<1>8. [i \in DOMAIN S |-> ReadSignal(S[i])] = T
  <2>1. DOMAIN S = DOMAIN r.signals /\ T = [i \in DOMAIN r.signals |-> T[i]]
    OBVIOUS
  <2>. HIDE DEF S, T
  <2>. QED  BY <1>6, <2>1
<1>9. [i \in DOMAIN F |-> ReadFinding(F[i])] = G
  <2>1. DOMAIN F = DOMAIN r.findings /\ G = [i \in DOMAIN r.findings |-> G[i]]
    OBVIOUS
  <2>. HIDE DEF F, G
  <2>. QED  BY <1>7, <2>1
<1>10. ReadReport(doc) = [doc EXCEPT !.signals = [i \in DOMAIN doc.signals |-> ReadSignal(doc.signals[i])],
                                     !.findings = [i \in DOMAIN doc.findings |-> ReadFinding(doc.findings[i])]]
  BY DEF ReadReport
<1>. HIDE DEF S, F, T, G
<1>11. ReadReport(doc) = [doc EXCEPT !.signals = T, !.findings = G]
  BY <1>2, <1>8, <1>9, <1>10, Zenon
<1>12. ReadReport(doc) = [host |-> r.host, signals |-> T, findings |-> G, results |-> r.results]
  BY <1>1, <1>2, <1>11, PartsReplaced, Zenon
<1>13. ReadReport(doc) = Floated(r)
  BY <1>12, Zenon DEF Floated, T, G
<1>14. ReadableReport(r)
  <2>1. \A s \in ToSet(r.signals) : FiniteSignal(s)
    BY <1>6 DEF ToSet
  <2>2. \A f \in ToSet(r.findings) : f.observed.v # Infinite
    BY <1>7 DEF ToSet
  <2>. QED  BY <2>1, <2>2 DEF ReadableReport
<1>. QED  BY <1>3, <1>13, <1>14 DEF doc

(* What the document for language models shows, with or without redaction.    *)
Shown(w, redact) == IF redact THEN RedactValue(w) ELSE w

(* The parts of the LLM output: host, signals, findings and excerpts,         *)
(* redacted or not.                                                           *)
HeadOf(r, redact) ==
    [name |-> IF redact THEN HashOf[r.host.name] ELSE r.host.name, kernel |-> r.host.uname,
     cpus |-> HostNumber(r, "cpu_count")]

(* The signals of the LLM output.                                             *)
LlmSignals(r, redact) ==
    [i \in DOMAIN r.signals |->
        [id |-> r.signals[i].id, value |-> Shown(r.signals[i].value, redact)]]
LlmFindings(r, redact) ==
    [i \in DOMAIN r.findings |->
        [summary |-> IF redact THEN RedactText(r.findings[i].summary, Addresses) ELSE r.findings[i].summary,
         observed |-> Shown(r.findings[i].observed, redact)]]
LlmExcerpts(r, redact) ==
    IF redact THEN [i \in DOMAIN Excerpts(r) |-> RedactExcerpt(Excerpts(r)[i], r.host.name)] ELSE Excerpts(r)

(* A document with its parts exchanged.                                       *)
LEMMA DocumentReplaced ==
    ASSUME NEW r, NEW x, NEW y,
           r = [host |-> r.host, signals |-> r.signals, findings |-> r.findings, excerpts |-> r.excerpts]
    PROVE  [r EXCEPT !.signals = x, !.findings = y] =
               [host |-> r.host, signals |-> x, findings |-> y, excerpts |-> r.excerpts]
<1> DEFINE a == r.host
           b == r.signals
           c == r.findings
           d == r.excerpts
<1>0. r = [host |-> a, signals |-> b, findings |-> c, excerpts |-> d]
  OBVIOUS
<1>. HIDE DEF a, b, c, d
<1> DEFINE D == {"host", "signals", "findings", "excerpts"}
           e == [r EXCEPT !.signals = x, !.findings = y]
           g == [host |-> a, signals |-> x, findings |-> y, excerpts |-> d]
<1>1. DOMAIN r = D
  BY <1>0
<1>2. e = [k \in D |-> e[k]] /\ g = [k \in D |-> g[k]]
  BY <1>1
<1>3. \A k \in D : e[k] = g[k]
  <2>1. e["host"] = a /\ e["signals"] = x /\ e["findings"] = y /\ e["excerpts"] = d
    BY <1>0, <1>1
  <2>2. g["host"] = a /\ g["signals"] = x /\ g["findings"] = y /\ g["excerpts"] = d
    OBVIOUS
  <2>. HIDE DEF e, g
  <2>. QED  BY <2>1, <2>2
<1>. HIDE DEF e, D, g
<1>4. e = g
  BY <1>2, <1>3
<1>. QED  BY <1>4 DEF e, g, a, d

(* Redaction part by part: the name of the host is hashed, and taken out of   *)
(* the excerpts.                                                              *)
LEMMA RedactedIs ==
    ASSUME NEW out, out = [host |-> [name |-> out.host.name, kernel |-> out.host.kernel, cpus |-> out.host.cpus],
                           signals |-> out.signals, findings |-> out.findings, excerpts |-> out.excerpts]
    PROVE  Redact(out) =
               [host |-> [name |-> HashOf[out.host.name], kernel |-> out.host.kernel, cpus |-> out.host.cpus],
                signals |-> [i \in DOMAIN out.signals |-> RedactSignal(out.signals[i])],
                findings |-> [i \in DOMAIN out.findings |-> RedactFinding(out.findings[i])],
                excerpts |-> [i \in DOMAIN out.excerpts |-> RedactExcerpt(out.excerpts[i], out.host.name)]]
<1> DEFINE a == out.host.name
           z == out.host.cpus
           o == out.host.kernel
           b == out.signals
           c == out.findings
           d == out.excerpts
           u == HashOf[a]
           x == [i \in DOMAIN b |-> RedactSignal(b[i])]
           y == [i \in DOMAIN c |-> RedactFinding(c[i])]
           w == [i \in DOMAIN d |-> RedactExcerpt(d[i], a)]
<1>1. Redact(out) = [out EXCEPT !.host.name = u, !.excerpts = w, !.findings = y, !.signals = x]
  BY DEF Redact
<1>2. out = [host |-> [name |-> a, kernel |-> o, cpus |-> z], signals |-> b, findings |-> c, excerpts |-> d]
  OBVIOUS
<1>. HIDE DEF a, z, o, b, c, d, u, x, y, w
<1> DEFINE h == [name |-> a, kernel |-> o, cpus |-> z]
           k == [name |-> u, kernel |-> o, cpus |-> z]
<1>3. [h EXCEPT !.name = u] = k
  OBVIOUS
<1> DEFINE D == {"host", "signals", "findings", "excerpts"}
           e == [out EXCEPT !.host.name = u, !.excerpts = w, !.findings = y, !.signals = x]
           g == [host |-> k, signals |-> x, findings |-> y, excerpts |-> w]
<1>4. DOMAIN out = D /\ out.host = h
  BY <1>2
<1>. HIDE DEF h, k
<1>5. e = [j \in D |-> e[j]] /\ g = [j \in D |-> g[j]]
  BY <1>4
<1>6. \A j \in D : e[j] = g[j]
  <2>1. e["host"] = [h EXCEPT !.name = u] /\ e["signals"] = x /\ e["findings"] = y /\ e["excerpts"] = w
    BY <1>4
  <2>2. g["host"] = k /\ g["signals"] = x /\ g["findings"] = y /\ g["excerpts"] = w
    OBVIOUS
  <2>. HIDE DEF e, g
  <2>. QED  BY <1>3, <2>1, <2>2
<1>. HIDE DEF e, D, g
<1>7. e = g
  BY <1>5, <1>6
<1>. QED  BY <1>1, <1>7, Zenon DEF e, g, k, u, x, y, w, a, b, c, d, z, o

(* Both fields of a finding may be replaced at once.                          *)
LEMMA FindingReplaced ==
    ASSUME NEW q, NEW m, NEW n, q = [summary |-> m, observed |-> n], NEW x, NEW y
    PROVE  [q EXCEPT !.summary = x, !.observed = y] = [summary |-> x, observed |-> y]
<1> DEFINE D == {"summary", "observed"}
           e == [q EXCEPT !.summary = x, !.observed = y]
           g == [summary |-> x, observed |-> y]
<1>1. DOMAIN q = D
  OBVIOUS
<1>2. e = [k \in D |-> e[k]] /\ g = [k \in D |-> g[k]]
  BY <1>1
<1>3. \A k \in D : e[k] = g[k]
  <2>1. e["summary"] = x /\ e["observed"] = y
    BY <1>1
  <2>2. g["summary"] = x /\ g["observed"] = y
    OBVIOUS
  <2>. HIDE DEF e, g
  <2>. QED  BY <2>1, <2>2
<1>. HIDE DEF e, D, g
<1>4. e = g
  BY <1>2, <1>3
<1>. QED  BY <1>4 DEF e, g

(* The LLM output is made of these parts, and redacted when asked.            *)
LEMMA LlmIs ==
    ASSUME NEW r, IsReport(r), NEW redact \in BOOLEAN
    PROVE  LlmOutput(r, redact) =
               [host |-> HeadOf(r, redact), signals |-> LlmSignals(r, redact),
                findings |-> LlmFindings(r, redact), excerpts |-> LlmExcerpts(r, redact)]
<1> DEFINE a == r.host.name
           o == r.host.uname
           z == HostNumber(r, "cpu_count")
           b == [i \in DOMAIN r.signals |-> [id |-> r.signals[i].id, value |-> r.signals[i].value]]
           c == r.findings
           d == Excerpts(r)
           out == [host |-> [name |-> a, kernel |-> o, cpus |-> z], signals |-> b, findings |-> c, excerpts |-> d]
<1>1. LlmOutput(r, redact) = IF redact THEN Redact(out) ELSE out
  BY DEF LlmOutput
<1>2. \A i \in DOMAIN r.findings :
          c[i] = [summary |-> c[i].summary, observed |-> c[i].observed]
  BY ReportParts
<1>3. DOMAIN b = DOMAIN r.signals /\ DOMAIN c = DOMAIN r.findings
      /\ \A i \in DOMAIN r.signals : b[i] = [id |-> r.signals[i].id, value |-> r.signals[i].value]
  OBVIOUS
<1>4. CASE ~redact
  <2>1. HeadOf(r, redact) = [name |-> a, kernel |-> o, cpus |-> z]
    BY <1>4 DEF HeadOf
  <2>2. LlmSignals(r, redact) = b
    BY <1>4 DEF LlmSignals, Shown
  <2>3. LlmFindings(r, redact) = c
    <3>1. LlmFindings(r, redact) = [i \in DOMAIN c |-> [summary |-> c[i].summary, observed |-> c[i].observed]]
      BY <1>4 DEF LlmFindings, Shown
    <3>2. c = [i \in DOMAIN c |-> c[i]]
      <4>1. IsVector(c)
        BY DEF IsReport
      <4>. HIDE DEF c
      <4>. QED  BY <4>1 DEF IsVector
    <3>. HIDE DEF c
    <3>. QED  BY <1>2, <1>3, <3>1, <3>2
  <2>4. LlmExcerpts(r, redact) = d
    BY <1>4 DEF LlmExcerpts
  <2>5. LlmOutput(r, redact) = out
    BY <1>1, <1>4
  <2>. HIDE DEF a, b, c, d, z, o
  <2>. QED  BY <2>1, <2>2, <2>3, <2>4, <2>5, Zenon
<1>5. CASE redact
  <2>1. HeadOf(r, redact) = [name |-> HashOf[a], kernel |-> o, cpus |-> z]
    BY <1>5 DEF HeadOf
  <2>2. LlmSignals(r, redact) = [i \in DOMAIN b |-> RedactSignal(b[i])]
    <3>1. ASSUME NEW i \in DOMAIN r.signals
          PROVE  RedactSignal(b[i]) = [id |-> r.signals[i].id, value |-> Shown(r.signals[i].value, redact)]
      <4> DEFINE v == r.signals[i].value
                 n == r.signals[i].id
                 q == b[i]
      <4>1. q = [id |-> n, value |-> v]
        BY <1>3
      <4>. HIDE DEF v, n, q
      <4>2. q.value = v /\ [q EXCEPT !.value = RedactValue(v)] = [id |-> n, value |-> RedactValue(v)]
        BY <4>1
      <4>3. RedactSignal(q) = [q EXCEPT !.value = RedactValue(q.value)]
        BY DEF RedactSignal
      <4>4. RedactSignal(q) = [id |-> n, value |-> RedactValue(v)]
        BY <4>2, <4>3, Zenon
      <4>5. Shown(v, redact) = RedactValue(v)
        BY <1>5 DEF Shown
      <4>. QED  BY <4>4, <4>5, Zenon DEF v, n, q
    <3>. HIDE DEF b
    <3>. QED  BY <1>3, <3>1 DEF LlmSignals
  <2>3. LlmFindings(r, redact) = [i \in DOMAIN c |-> RedactFinding(c[i])]
    <3>1. ASSUME NEW i \in DOMAIN r.findings
          PROVE  RedactFinding(c[i]) =
                    [summary |-> IF redact THEN RedactText(r.findings[i].summary, Addresses) ELSE r.findings[i].summary,
                     observed |-> Shown(r.findings[i].observed, redact)]
      <4> DEFINE v == r.findings[i].observed
                 n == r.findings[i].summary
                 q == c[i]
      <4>1. q = [summary |-> n, observed |-> v]
        BY <1>2
      <4>. HIDE DEF v, n, q
      <4>2. q.observed = v /\ q.summary = n
            /\ [q EXCEPT !.summary = RedactText(n, Addresses), !.observed = RedactValue(v)] =
                   [summary |-> RedactText(n, Addresses), observed |-> RedactValue(v)]
        <5>1. q.observed = v /\ q.summary = n
          BY <4>1
        <5>. QED  BY <4>1, <5>1, FindingReplaced, Zenon
      <4>3. RedactFinding(q) = [q EXCEPT !.summary = RedactText(q.summary, Addresses),
                                         !.observed = RedactValue(q.observed)]
        BY DEF RedactFinding
      <4>4. RedactFinding(q) = [summary |-> RedactText(n, Addresses), observed |-> RedactValue(v)]
        BY <4>2, <4>3, Zenon
      <4>5. Shown(v, redact) = RedactValue(v) /\ (IF redact THEN RedactText(n, Addresses) ELSE n) = RedactText(n, Addresses)
        BY <1>5 DEF Shown
      <4>. QED  BY <4>4, <4>5, Zenon DEF v, n, q
    <3>. HIDE DEF c
    <3>. QED  BY <1>3, <3>1 DEF LlmFindings
  <2>4. LlmExcerpts(r, redact) = [i \in DOMAIN d |-> RedactExcerpt(d[i], a)]
    BY <1>5 DEF LlmExcerpts
  <2>5. LlmOutput(r, redact) = Redact(out)
    BY <1>1, <1>5
  <2>. HIDE DEF a, b, c, d, z, o
  <2>6. out.host.name = a /\ out.host.kernel = o /\ out.host.cpus = z /\ out.signals = b /\ out.findings = c /\ out.excerpts = d
    OBVIOUS
  <2>7. Redact(out) =
               [host |-> [name |-> HashOf[a], kernel |-> o, cpus |-> z],
                signals |-> [i \in DOMAIN b |-> RedactSignal(b[i])],
                findings |-> [i \in DOMAIN c |-> RedactFinding(c[i])],
                excerpts |-> [i \in DOMAIN d |-> RedactExcerpt(d[i], a)]]
    <3>1. out = [host |-> [name |-> out.host.name, kernel |-> out.host.kernel, cpus |-> out.host.cpus],
                 signals |-> out.signals, findings |-> out.findings, excerpts |-> out.excerpts]
      BY <2>6, Zenon
    <3>. HIDE DEF out
    <3>. QED  BY <2>6, <3>1, RedactedIs, Zenon
  <2>. HIDE DEF out
  <2>. QED  BY <2>1, <2>2, <2>3, <2>4, <2>5, <2>7, Zenon
<1>. QED  BY <1>4, <1>5

(* Vectors with the same positions are equally long.                          *)
LEMMA SameLength ==
    ASSUME NEW k \in Nat, NEW m \in Nat, 1 .. k = 1 .. m
    PROVE  k = m
<1>1. Cardinality(1 .. k) = k
  BY FS_Interval
<1>2. Cardinality(1 .. m) = m
  BY FS_Interval
<1>. QED  BY <1>1, <1>2

(* Two values show alike when they are the same, or numbers of the same size. *)
AlikeValues(a, b) == a = b \/ (IsNumber(a) /\ IsNumber(b) /\ a.v = b.v)

(* A value shows like its float, also after redaction.                        *)
LEMMA FloatAlike ==
    ASSUME NEW w, IsValue(w), NEW redact \in BOOLEAN
    PROVE  /\ AlikeValues(FloatOf(w), w)
           /\ AlikeValues(Shown(FloatOf(w), redact), Shown(w, redact))
<1>1. CASE IsNumber(w)
  <2>1. FloatOf(w).v = w.v /\ IsNumber(FloatOf(w)) /\ (FloatOf(w).type = "text" <=> w.type = "text")
    BY <1>1, FloatWritten
  <2>2. w.type # "text"
    BY <1>1 DEF IsNumber
  <2>3. Shown(FloatOf(w), redact) = FloatOf(w) /\ Shown(w, redact) = w
    BY <2>1, <2>2 DEF Shown, RedactValue
  <2>. QED  BY <1>1, <2>1, <2>3 DEF AlikeValues
<1>2. CASE ~IsNumber(w)
  BY <1>2 DEF FloatOf, AlikeValues
<1>. QED  BY <1>1, <1>2

(* The number of CPUs is the same after JSON.                                 *)
LEMMA HostNumberKept ==
    ASSUME NEW r, IsReport(r), NEW id
    PROVE  HostNumber(Floated(r), id) = HostNumber(r, id)
<1> DEFINE q == r.signals
           S == [i \in DOMAIN q |->
                     [id |-> q[i].id, value |-> FloatOf(q[i].value), samples |-> q[i].samples]]
           m == Len(q)
           I == {i \in 1 .. m : q[i].id = id}
           n == IF I # {} THEN Min(I) ELSE 0
<1>1. Floated(r).signals = S
  BY DEF Floated
<1>2. m \in Nat /\ DOMAIN q = 1 .. m
  <2>1. IsVector(q)
    BY DEF IsReport
  <2>. QED  BY <2>1, VectorElements
<1>3. IsVector(S) /\ DOMAIN S = DOMAIN q
  <2>1. IsVector(q)
    BY DEF IsReport
  <2>2. DOMAIN S = DOMAIN q /\ S = [i \in DOMAIN q |-> S[i]]
    OBVIOUS
  <2>. HIDE DEF S, q
  <2>. QED  BY <2>1, <2>2, MadeOf
<1>4. Len(S) = m
  <2>1. Len(S) \in Nat /\ DOMAIN S = 1 .. Len(S)
    <3>. HIDE DEF S
    <3>. QED  BY <1>3, VectorElements
  <2>. HIDE DEF S, m
  <2>. QED  BY <1>2, <1>3, <2>1, SameLength
<1>5. \A i \in 1 .. m : S[i].id = q[i].id /\ S[i].value = FloatOf(q[i].value)
  BY <1>2
<1>6. SelectInSeq(q, LAMBDA s : s.id = id) = n
  BY Zenon DEF SelectInSeq
<1>7. SelectInSeq(S, LAMBDA s : s.id = id) = n
  <2> DEFINE J == {i \in 1 .. Len(S) : S[i].id = id}
  <2>1. SelectInSeq(S, LAMBDA s : s.id = id) = IF J # {} THEN Min(J) ELSE 0
    BY Zenon DEF SelectInSeq
  <2>2. J = I
    <3>. HIDE DEF S, m, q
    <3>. QED  BY <1>4, <1>5
  <2>. HIDE DEF J, I, S
  <2>. QED  BY <2>1, <2>2, Zenon
<1>8. n # 0 => n \in 1 .. m
  <2> SUFFICES ASSUME I # {} PROVE Min(I) \in 1 .. m
    OBVIOUS
  <2>1. I \in SUBSET (1 .. m)
    OBVIOUS
  <2>. HIDE DEF I, m
  <2>2. \E x \in I : \A j \in I : x <= j
    BY <1>2, <2>1, FirstAndLast
  <2>3. Min(I) \in I
    BY <2>2 DEF Min
  <2>. QED  BY <2>1, <2>3
<1>9. n # 0 => IsValue(q[n].value)
  <2>. HIDE DEF n
  <2>. QED  BY <1>2, <1>8, ReportParts
<1>10. HostNumber(r, id) = IF n # 0 /\ IsNumber(q[n].value) THEN q[n].value.v ELSE 0
  <2>. HIDE DEF n
  <2>. QED  BY <1>6, Zenon DEF HostNumber
<1>11. HostNumber(Floated(r), id) = IF n # 0 /\ IsNumber(S[n].value) THEN S[n].value.v ELSE 0
  <2>. HIDE DEF n, S
  <2>. QED  BY <1>1, <1>7, Zenon DEF HostNumber
<1>. HIDE DEF n, S, q, m
<1>12. n # 0 => /\ (IsNumber(S[n].value) <=> IsNumber(q[n].value))
                /\ S[n].value.v = q[n].value.v
  <2> SUFFICES ASSUME n # 0 PROVE /\ (IsNumber(S[n].value) <=> IsNumber(q[n].value))
                                  /\ S[n].value.v = q[n].value.v
    OBVIOUS
  <2>1. S[n].value = FloatOf(q[n].value) /\ IsValue(q[n].value)
    BY <1>5, <1>8, <1>9
  <2>. QED  BY <2>1, FloatWritten
<1>. QED  BY <1>10, <1>11, <1>12

(* Excerpts are of what commands that succeeded have said, and not longer     *)
(* than they may be.                                                          *)
LEMMA ExcerptsFit ==
    ASSUME NEW r, IsReport(r)
    PROVE  \A e \in ToSet(Excerpts(r)) :
               /\ e = [command |-> e.command, output |-> e.output]
               /\ IsVector(e.output) /\ Len(e.output) <= MaxExcerpt
<1> DEFINE first == IF r.results = <<>> THEN <<>> ELSE r.results[1]
           W == {i \in DOMAIN first : first[i].status = "success"}
           well == Pick(first, W)
<1>1. Excerpts(r) = [i \in DOMAIN well |-> [command |-> well[i].command, output |-> Excerpt(well[i].stdout)]]
  BY Zenon DEF Excerpts
<1>2. IsVector(first) /\ \A i \in DOMAIN first : IsVector(first[i].stdout)
  <2>1. CASE r.results = <<>>
    BY <2>1, EmptyVector
  <2>2. CASE r.results # <<>>
    <3>1. IsVector(r.results) /\ \A ran \in ToSet(r.results) :
              IsVector(ran) /\ \A c \in ToSet(ran) : IsVector(c.stdout)
      BY DEF IsReport
    <3>2. 1 \in DOMAIN r.results
      BY <2>2, <3>1 DEF IsVector
    <3>3. r.results[1] \in ToSet(r.results)
      BY <3>2 DEF ToSet
    <3>4. IsVector(first) /\ \A c \in ToSet(first) : IsVector(c.stdout)
      BY <2>2, <3>1, <3>3
    <3>. HIDE DEF first
    <3>. QED  BY <3>4 DEF ToSet
  <2>. QED  BY <2>1, <2>2
<1>. HIDE DEF first
<1>3. W \in SUBSET DOMAIN first
  OBVIOUS
<1>. HIDE DEF W
<1>4. \A k \in DOMAIN well : \E i \in W : well[k] = first[i]
  BY <1>2, <1>3, PickElements
<1>. HIDE DEF well
<1>5. ASSUME NEW k \in DOMAIN well
      PROVE  IsVector(Excerpt(well[k].stdout)) /\ Len(Excerpt(well[k].stdout)) <= MaxExcerpt
  <2> DEFINE t == well[k].stdout
             K == {i \in DOMAIN t : t[i] # " " \/ (i > 1 /\ t[i - 1] # " " /\ \E j \in i..Len(t) : t[j] # " ")}
             x == Squeezed(t)
             m == MaxExcerpt
  <2>1. IsVector(t)
    BY <1>2, <1>3, <1>4
  <2>2. x = Pick(t, K)
    BY DEF Squeezed
  <2>3. K \in SUBSET DOMAIN t
    OBVIOUS
  <2>. HIDE DEF t, K, x
  <2>4. IsVector(x)
    BY <2>1, <2>2, <2>3, PickElements
  <2> DEFINE y == SubSeq(x, 1, m)
             z == CutOf(y[m])
  <2>5. Excerpt(t) = IF Len(x) <= m THEN x ELSE [y EXCEPT ![m] = z]
    BY DEF Excerpt, x
  <2>6. x \in Seq({x[i] : i \in DOMAIN x}) /\ Len(x) \in Nat
    BY <2>4, VectorElements
  <2>7. m \in Nat /\ m >= 1
    BY ExcerptAssumption
  <2> DEFINE T == {x[i] : i \in DOMAIN x}
             U == T \cup {z}
  <2>. HIDE DEF z, T
  <2>8. CASE Len(x) <= m
    BY <2>4, <2>5, <2>8 DEF t, m
  <2>9. CASE ~(Len(x) <= m)
    <3>. HIDE DEF m
    <3>1. x \in Seq(T)
      BY <2>6 DEF T
    <3>2. y \in Seq(T) /\ Len(y) = m
      BY <3>1, <2>6, <2>7, <2>9
    <3>. HIDE DEF y
    <3>3. y \in [1 .. m -> U]
      BY <3>2
    <3>4. [y EXCEPT ![m] = z] \in [1 .. m -> U]
      BY <3>3
    <3> DEFINE w == [y EXCEPT ![m] = z]
    <3>. HIDE DEF w, U
    <3>5. w \in [1 .. m -> U] /\ w \in Seq(U) /\ Len(w) = m
      <4>1. w \in [1 .. m -> U]
        BY <3>4 DEF w
      <4>. QED  BY <4>1, <2>7
    <3>6. IsVector(w)
      BY <3>5, VectorElements
    <3>. QED  BY <2>5, <2>7, <2>9, <3>5, <3>6 DEF t, w, m
  <2>. QED  BY <2>8, <2>9
<1>6. ASSUME NEW e \in ToSet(Excerpts(r))
      PROVE  /\ e = [command |-> e.command, output |-> e.output]
             /\ IsVector(e.output) /\ Len(e.output) <= MaxExcerpt
  <2>1. PICK k \in DOMAIN well : e = [command |-> well[k].command, output |-> Excerpt(well[k].stdout)]
    BY <1>1 DEF ToSet
  <2>. QED  BY <1>5, <2>1
<1>. QED  BY <1>6

(* A redacted text tells no name that it was redacted for.                    *)
LEMMA RedactedClean ==
    ASSUME NEW t, IsVector(t), NEW names, Hides(names)
    PROVE  ToSet(RedactText(t, names)) \cap names = {}
<1> DEFINE ws == [i \in DOMAIN t |-> IF t[i] \in names THEN Marked(t[i]) ELSE <<t[i]>>]
<1>1. RedactText(t, names) = FlattenSeq(ws)
  BY Zenon DEF RedactText
<1>2. ASSUME NEW i \in DOMAIN t
      PROVE  IsVector(ws[i]) /\ ToSet(ws[i]) \cap names = {}
  <2>1. CASE t[i] \in names
    <3>1. ws[i] = Marked(t[i])
      BY <2>1
    <3>2. IsVector(Marked(t[i]))
      <4> DEFINE h == HashOf[t[i]]
                 T == {"[redacted:", h, "]"}
      <4>1. Marked(t[i]) \in Seq(T)
        <5>. HIDE DEF h
        <5>1. <<"[redacted:", h, "]">> \in Seq(T)
          OBVIOUS
        <5>. QED  BY <5>1 DEF Marked, h
      <4>. HIDE DEF T
      <4>. QED  BY <4>1, VectorElements
    <3>. QED  BY <2>1, <3>1, <3>2 DEF Hides
  <2>2. CASE t[i] \notin names
    <3> DEFINE x == t[i]
    <3>1. ws[i] = <<x>>
      BY <2>2
    <3>. HIDE DEF ws
    <3>2. x \notin names
      BY <2>2
    <3>. HIDE DEF x
    <3>3. <<x>> \in Seq({x}) /\ DOMAIN <<x>> = {1} /\ <<x>>[1] = x
      OBVIOUS
    <3>4. IsVector(<<x>>)
      BY <3>3, VectorElements
    <3>5. ToSet(<<x>>) = {x}
      BY <3>3 DEF ToSet
    <3>. QED  BY <3>1, <3>2, <3>4, <3>5
  <2>. QED  BY <2>1, <2>2
<1>3. DOMAIN ws = DOMAIN t /\ ws = [i \in DOMAIN t |-> ws[i]]
  OBVIOUS
<1>. HIDE DEF ws
<1>4. IsVector(ws)
  BY <1>3, MadeOf
<1>5. ToSet(FlattenSeq(ws)) = UNION {ToSet(ws[i]) : i \in DOMAIN ws}
  BY <1>2, <1>3, <1>4, FlattenElements
<1>. QED  BY <1>1, <1>2, <1>3, <1>5

(* A redacted value that is a text tells no address.                          *)
LEMMA ValueClean ==
    ASSUME NEW w, IsValue(w), RedactValue(w).type = "text"
    PROVE  ToSet(RedactValue(w).v) \cap Addresses = {}
<1>1. w = [type |-> w.type, v |-> w.v] /\ (w.type = "text" => IsVector(w.v))
  BY DEF IsValue, Value
<1>2. CASE w.type = "text"
  <2> DEFINE z == RedactText(w.v, Addresses)
  <2>1. RedactValue(w) = [w EXCEPT !.v = z]
    BY <1>2 DEF RedactValue
  <2>. HIDE DEF z
  <2>2. RedactValue(w).v = z
    BY <1>1, <2>1
  <2>3. ToSet(z) \cap Addresses = {}
    BY <1>1, <1>2, HashAssumption, RedactedClean DEF z
  <2>. QED  BY <2>2, <2>3
<1>3. CASE w.type # "text"
  BY <1>3 DEF RedactValue
<1>. QED  BY <1>2, <1>3

(* What ConvertedShows asks of a document, but for the part that differs.     *)
ShowsAlike(shown, direct) ==
    /\ [shown EXCEPT !.signals = <<>>, !.findings = <<>>]
          = [direct EXCEPT !.signals = <<>>, !.findings = <<>>]
    /\ Len(shown.signals) = Len(direct.signals)
    /\ Len(shown.findings) = Len(direct.findings)
    /\ \A i \in DOMAIN direct.signals :
          /\ [shown.signals[i] EXCEPT !.value = 0] = [direct.signals[i] EXCEPT !.value = 0]
          /\ AlikeValues(shown.signals[i].value, direct.signals[i].value)
    /\ \A i \in DOMAIN direct.findings :
          /\ shown.findings[i].summary = direct.findings[i].summary
          /\ AlikeValues(shown.findings[i].observed, direct.findings[i].observed)

(* Of two vectors with an element for each place the one is as long.          *)
LEMMA AsLong ==
    ASSUME NEW q, IsVector(q), NEW p, DOMAIN p = DOMAIN q, p = [i \in DOMAIN q |-> p[i]]
    PROVE  Len(p) = Len(q)
<1>1. IsVector(p)
  BY MadeOf
<1>2. Len(p) \in Nat /\ DOMAIN p = 1 .. Len(p) /\ Len(q) \in Nat /\ DOMAIN q = 1 .. Len(q)
  BY <1>1, VectorElements
<1>. QED  BY <1>2, SameLength

(* A report shows like the one that was read back.                            *)
LEMMA FloatedAlike ==
    ASSUME NEW r, IsReport(r)
    PROVE  ShowsAlike(Floated(r), r)
<1> DEFINE f == Floated(r)
           S == [i \in DOMAIN r.signals |->
                     [id |-> r.signals[i].id, value |-> FloatOf(r.signals[i].value),
                      samples |-> r.signals[i].samples]]
           F == [i \in DOMAIN r.findings |->
                     [summary |-> r.findings[i].summary, observed |-> FloatOf(r.findings[i].observed)]]
<1>1. /\ f.host = r.host /\ f.signals = S /\ f.findings = F /\ f.results = r.results
      /\ f = [host |-> f.host, signals |-> f.signals, findings |-> f.findings, results |-> f.results]
  BY Zenon DEF Floated
<1>. HIDE DEF f
<1>2. [f EXCEPT !.signals = <<>>, !.findings = <<>>] = [r EXCEPT !.signals = <<>>, !.findings = <<>>]
  <2>1. [f EXCEPT !.signals = <<>>, !.findings = <<>>] =
            [host |-> f.host, signals |-> <<>>, findings |-> <<>>, results |-> f.results]
    BY <1>1, PartsReplaced, ZenonT(30)
  <2>2. [r EXCEPT !.signals = <<>>, !.findings = <<>>] =
            [host |-> r.host, signals |-> <<>>, findings |-> <<>>, results |-> r.results]
    <3>1. r = [host |-> r.host, signals |-> r.signals, findings |-> r.findings, results |-> r.results]
      BY ReportParts
    <3>. QED  BY <3>1, PartsReplaced, Zenon
  <2>. QED  BY <1>1, <2>1, <2>2, Zenon
<1>3. Len(S) = Len(r.signals) /\ Len(F) = Len(r.findings)
  <2>1. /\ DOMAIN S = DOMAIN r.signals /\ S = [i \in DOMAIN r.signals |-> S[i]]
        /\ DOMAIN F = DOMAIN r.findings /\ F = [i \in DOMAIN r.findings |-> F[i]]
    OBVIOUS
  <2>2. IsVector(r.signals) /\ IsVector(r.findings)
    BY DEF IsReport
  <2>. HIDE DEF S, F
  <2>. QED  BY <2>1, <2>2, AsLong
<1>4. ASSUME NEW i \in DOMAIN r.signals
      PROVE  /\ [S[i] EXCEPT !.value = 0] = [r.signals[i] EXCEPT !.value = 0]
             /\ AlikeValues(S[i].value, r.signals[i].value)
  <2> DEFINE s == r.signals[i]
             x == S[i]
             a == s.id
             b == s.value
             c == s.samples
             d == FloatOf(b)
  <2>1. x = [id |-> a, value |-> d, samples |-> c]
    OBVIOUS
  <2>2. s = [id |-> a, value |-> b, samples |-> c] /\ IsValue(b)
    BY ReportParts
  <2>3. AlikeValues(d, b)
    <3>. HIDE DEF b
    <3>. QED  BY <2>2, FloatAlike
  <2>. HIDE DEF x, s, a, b, c, d
  <2>4. [x EXCEPT !.value = 0] = [id |-> a, value |-> 0, samples |-> c]
    BY <2>1
  <2>5. [s EXCEPT !.value = 0] = [id |-> a, value |-> 0, samples |-> c]
    BY <2>2
  <2>6. x.value = d
    BY <2>1
  <2>7. [x EXCEPT !.value = 0] = [s EXCEPT !.value = 0] /\ AlikeValues(x.value, b)
    BY <2>3, <2>4, <2>5, <2>6, Zenon
  <2>. QED  BY <2>7, Zenon DEF x, s, b
<1>5. ASSUME NEW i \in DOMAIN r.findings
      PROVE  /\ F[i].summary = r.findings[i].summary
             /\ AlikeValues(F[i].observed, r.findings[i].observed)
  <2>1. F[i].summary = r.findings[i].summary /\ F[i].observed = FloatOf(r.findings[i].observed)
    OBVIOUS
  <2>2. IsValue(r.findings[i].observed)
    BY ReportParts
  <2>. HIDE DEF F
  <2>. QED  BY <2>1, <2>2, FloatAlike
<1>. HIDE DEF S, F
<1>. QED  BY <1>1, <1>2, <1>3, <1>4, <1>5, Zenon DEF ShowsAlike, f

(* So does its LLM output, redacted or not.                                   *)
LEMMA LlmAlike ==
    ASSUME NEW r, IsReport(r), IsReport(Floated(r)), NEW redact \in BOOLEAN
    PROVE  ShowsAlike(LlmOutput(Floated(r), redact), LlmOutput(r, redact))
<1> DEFINE f == Floated(r)
           S == [i \in DOMAIN r.signals |->
                     [id |-> r.signals[i].id, value |-> FloatOf(r.signals[i].value),
                      samples |-> r.signals[i].samples]]
           F == [i \in DOMAIN r.findings |->
                     [summary |-> r.findings[i].summary, observed |-> FloatOf(r.findings[i].observed)]]
           x == LlmOutput(f, redact)
           y == LlmOutput(r, redact)
<1>1. f.host = r.host /\ f.signals = S /\ f.findings = F /\ f.results = r.results
  BY Zenon DEF Floated
<1>2. /\ x = [host |-> HeadOf(f, redact), signals |-> LlmSignals(f, redact),
              findings |-> LlmFindings(f, redact), excerpts |-> LlmExcerpts(f, redact)]
      /\ y = [host |-> HeadOf(r, redact), signals |-> LlmSignals(r, redact),
              findings |-> LlmFindings(r, redact), excerpts |-> LlmExcerpts(r, redact)]
  BY LlmIs
<1>. HIDE DEF x, y
<1>3. HeadOf(f, redact) = HeadOf(r, redact)
  <2>1. HostNumber(f, "cpu_count") = HostNumber(r, "cpu_count")
    BY HostNumberKept
  <2>. HIDE DEF f
  <2>. QED  BY <1>1, <2>1, Zenon DEF HeadOf
<1>4. LlmExcerpts(f, redact) = LlmExcerpts(r, redact)
  <2>. HIDE DEF f
  <2>1. Excerpts(f) = Excerpts(r)
    <3> DEFINE First(q) == IF q = <<>> THEN <<>> ELSE q[1]
               Well(q) == Pick(First(q), {i \in DOMAIN First(q) : First(q)[i].status = "success"})
               Of(q) == [i \in DOMAIN Well(q) |->
                            [command |-> Well(q)[i].command, output |-> Excerpt(Well(q)[i].stdout)]]
    <3>1. Excerpts(f) = Of(f.results) /\ Excerpts(r) = Of(r.results)
      BY Zenon DEF Excerpts
    <3>. HIDE DEF Of
    <3>. QED  BY <1>1, <3>1, Zenon
  <2>. QED  BY <1>1, <2>1, Zenon DEF LlmExcerpts
<1> DEFINE A == LlmSignals(f, redact)
           B == LlmSignals(r, redact)
           C == LlmFindings(f, redact)
           D == LlmFindings(r, redact)
<1>5. x.signals = A /\ y.signals = B /\ x.findings = C /\ y.findings = D
      /\ x.host = y.host /\ x.excerpts = y.excerpts
  <2>1. x.host = HeadOf(f, redact) /\ y.host = HeadOf(r, redact)
        /\ x.excerpts = LlmExcerpts(f, redact) /\ y.excerpts = LlmExcerpts(r, redact)
    BY <1>2
  <2>2. x.signals = A /\ y.signals = B /\ x.findings = C /\ y.findings = D
    <3>. HIDE DEF A, B, C, D, f
    <3>. QED  BY <1>2 DEF A, B, C, D
  <2>. QED  BY <1>3, <1>4, <2>1, <2>2, Zenon
<1>6. [x EXCEPT !.signals = <<>>, !.findings = <<>>] = [y EXCEPT !.signals = <<>>, !.findings = <<>>]
  <2>1. /\ x = [host |-> x.host, signals |-> x.signals, findings |-> x.findings, excerpts |-> x.excerpts]
        /\ y = [host |-> y.host, signals |-> y.signals, findings |-> y.findings, excerpts |-> y.excerpts]
    BY <1>2
  <2>2. [x EXCEPT !.signals = <<>>, !.findings = <<>>] =
            [host |-> x.host, signals |-> <<>>, findings |-> <<>>, excerpts |-> x.excerpts]
    BY <2>1, DocumentReplaced, ZenonT(30)
  <2>3. [y EXCEPT !.signals = <<>>, !.findings = <<>>] =
            [host |-> y.host, signals |-> <<>>, findings |-> <<>>, excerpts |-> y.excerpts]
    BY <2>1, DocumentReplaced, ZenonT(30)
  <2>. QED  BY <1>5, <2>2, <2>3, Zenon
<1>7. DOMAIN S = DOMAIN r.signals /\ DOMAIN F = DOMAIN r.findings
  OBVIOUS
<1>8. ASSUME NEW i \in DOMAIN r.signals
      PROVE  /\ A[i] = [id |-> r.signals[i].id, value |-> Shown(FloatOf(r.signals[i].value), redact)]
             /\ B[i] = [id |-> r.signals[i].id, value |-> Shown(r.signals[i].value, redact)]
  <2>1. S[i].id = r.signals[i].id /\ S[i].value = FloatOf(r.signals[i].value)
    OBVIOUS
  <2>. HIDE DEF S, f
  <2>2. A[i] = [id |-> S[i].id, value |-> Shown(S[i].value, redact)]
    BY <1>1, <1>7 DEF LlmSignals
  <2>3. B[i] = [id |-> r.signals[i].id, value |-> Shown(r.signals[i].value, redact)]
    BY DEF LlmSignals
  <2>. QED  BY <2>1, <2>2, <2>3, Zenon
<1>9. ASSUME NEW i \in DOMAIN r.findings
      PROVE  /\ C[i].summary = D[i].summary
             /\ C[i].observed = Shown(FloatOf(r.findings[i].observed), redact)
             /\ D[i].observed = Shown(r.findings[i].observed, redact)
  <2>1. F[i].summary = r.findings[i].summary /\ F[i].observed = FloatOf(r.findings[i].observed)
    OBVIOUS
  <2>. HIDE DEF F, f
  <2>2. C[i] = [summary |-> IF redact THEN RedactText(F[i].summary, Addresses) ELSE F[i].summary,
                observed |-> Shown(F[i].observed, redact)]
    BY <1>1, <1>7 DEF LlmFindings
  <2>3. D[i] = [summary |-> IF redact THEN RedactText(r.findings[i].summary, Addresses) ELSE r.findings[i].summary,
                observed |-> Shown(r.findings[i].observed, redact)]
    BY DEF LlmFindings
  <2>. HIDE DEF C, D
  <2>. QED  BY <2>1, <2>2, <2>3
<1>10. /\ Len(A) = Len(r.signals) /\ Len(B) = Len(r.signals) /\ DOMAIN B = DOMAIN r.signals
       /\ Len(C) = Len(r.findings) /\ Len(D) = Len(r.findings) /\ DOMAIN D = DOMAIN r.findings
  <2>1. /\ DOMAIN A = DOMAIN r.signals /\ A = [i \in DOMAIN r.signals |-> A[i]]
        /\ DOMAIN B = DOMAIN r.signals /\ B = [i \in DOMAIN r.signals |-> B[i]]
    <3>. HIDE DEF S, f
    <3>. QED  BY <1>1, <1>7 DEF LlmSignals
  <2>2. /\ DOMAIN C = DOMAIN r.findings /\ C = [i \in DOMAIN r.findings |-> C[i]]
        /\ DOMAIN D = DOMAIN r.findings /\ D = [i \in DOMAIN r.findings |-> D[i]]
    <3>. HIDE DEF F, f
    <3>. QED  BY <1>1, <1>7 DEF LlmFindings
  <2>3. IsVector(r.signals) /\ IsVector(r.findings)
    BY DEF IsReport
  <2>. HIDE DEF A, B, C, D
  <2>. QED  BY <2>1, <2>2, <2>3, AsLong
<1>. HIDE DEF A, B, C, D, S, F, f
<1>11. ASSUME NEW i \in DOMAIN r.signals
       PROVE  /\ [A[i] EXCEPT !.value = 0] = [B[i] EXCEPT !.value = 0]
              /\ AlikeValues(A[i].value, B[i].value)
  <2> DEFINE a == A[i]
             b == B[i]
             n == r.signals[i].id
             u == Shown(FloatOf(r.signals[i].value), redact)
             v == Shown(r.signals[i].value, redact)
  <2>1. a = [id |-> n, value |-> u] /\ b = [id |-> n, value |-> v]
    BY <1>8
  <2>2. IsValue(r.signals[i].value)
    BY ReportParts
  <2>3. AlikeValues(u, v)
    BY <2>2, FloatAlike
  <2>. HIDE DEF a, b, n, u, v
  <2>4. [a EXCEPT !.value = 0] = [b EXCEPT !.value = 0] /\ a.value = u /\ b.value = v
    BY <2>1
  <2>5. [a EXCEPT !.value = 0] = [b EXCEPT !.value = 0] /\ AlikeValues(a.value, b.value)
    BY <2>3, <2>4, Zenon
  <2>. QED  BY <2>5, Zenon DEF a, b
<1>12. ASSUME NEW i \in DOMAIN r.findings
       PROVE  C[i].summary = D[i].summary /\ AlikeValues(C[i].observed, D[i].observed)
  <2>1. IsValue(r.findings[i].observed)
    BY ReportParts
  <2>. QED  BY <1>9, <2>1, FloatAlike
<1>. QED  BY <1>5, <1>6, <1>10, <1>11, <1>12, Zenon DEF ShowsAlike, x, y, f

(* What the document tells, if it is redacted.                                *)
LEMMA LlmClean ==
    ASSUME NEW r, IsReport(r), Hides(Addresses \cup {r.host.name}), NEW redact \in BOOLEAN
    PROVE  LET x == LlmOutput(r, redact)
           IN  /\ x.host.kernel = r.host.uname
               /\ ~redact => \A e \in ToSet(x.excerpts) : Len(e.output) <= MaxExcerpt
               /\ redact =>
                     /\ \A e \in ToSet(x.excerpts) : ToSet(e.output) \cap (Addresses \cup {r.host.name}) = {}
                     /\ \A g \in ToSet(x.findings) :
                           /\ ToSet(g.summary) \cap Addresses = {}
                           /\ g.observed.type = "text" => ToSet(g.observed.v) \cap Addresses = {}
                     /\ \A s \in ToSet(x.signals) :
                           s.value.type = "text" => ToSet(s.value.v) \cap Addresses = {}
<1> DEFINE x == LlmOutput(r, redact)
<1>1. x = [host |-> HeadOf(r, redact), signals |-> LlmSignals(r, redact),
           findings |-> LlmFindings(r, redact), excerpts |-> LlmExcerpts(r, redact)]
  BY LlmIs
<1>. HIDE DEF x
<1>2. x.signals = LlmSignals(r, redact) /\ x.findings = LlmFindings(r, redact)
      /\ x.excerpts = LlmExcerpts(r, redact)
  BY <1>1
<1>0. x.host.kernel = r.host.uname
  BY <1>1 DEF HeadOf
<1>3. CASE ~redact
  <2>1. x.excerpts = Excerpts(r)
    BY <1>2, <1>3 DEF LlmExcerpts
  <2>2. \A e \in ToSet(x.excerpts) : Len(e.output) <= MaxExcerpt
    BY <2>1, ExcerptsFit
  <2>. QED  BY <1>0, <1>3, <2>2 DEF x
<1>4. CASE redact
  <2>1. ASSUME NEW e \in ToSet(x.excerpts)
        PROVE  ToSet(e.output) \cap (Addresses \cup {r.host.name}) = {}
    <3> DEFINE E == Excerpts(r)
               names == Addresses \cup {r.host.name}
    <3>1. x.excerpts = [i \in DOMAIN E |-> RedactExcerpt(E[i], r.host.name)]
      BY <1>2, <1>4 DEF LlmExcerpts
    <3>. HIDE DEF E
    <3>2. PICK i \in DOMAIN E : e = RedactExcerpt(E[i], r.host.name)
      BY <3>1 DEF ToSet
    <3> DEFINE d == E[i]
               t == d.output
               u == RedactText(t, names)
    <3>3. d \in ToSet(E)
      BY DEF ToSet
    <3>4. d = [command |-> d.command, output |-> t] /\ IsVector(t)
      <4>. HIDE DEF d
      <4>. QED  BY <3>3, ExcerptsFit DEF E
    <3>5. e = [d EXCEPT !.output = u]
      BY <3>2 DEF RedactExcerpt
    <3>6. ToSet(u) \cap names = {}
      <4>1. Hides(names)
        OBVIOUS
      <4>. HIDE DEF names, t
      <4>. QED  BY <3>4, <4>1, RedactedClean
    <3>. HIDE DEF u, d
    <3>7. e.output = u
      BY <3>4, <3>5
    <3>. QED  BY <3>4, <3>6, <3>7
  <2>2. ASSUME NEW g \in ToSet(x.findings)
        PROVE  /\ ToSet(g.summary) \cap Addresses = {}
               /\ g.observed.type = "text" => ToSet(g.observed.v) \cap Addresses = {}
    <3>1. PICK i \in DOMAIN r.findings :
              g = [summary |-> RedactText(r.findings[i].summary, Addresses),
                   observed |-> RedactValue(r.findings[i].observed)]
      BY <1>2, <1>4 DEF ToSet, LlmFindings, Shown
    <3>2. IsVector(r.findings[i].summary) /\ IsValue(r.findings[i].observed)
      BY ReportParts
    <3>3. g.summary = RedactText(r.findings[i].summary, Addresses)
          /\ g.observed = RedactValue(r.findings[i].observed)
      BY <3>1
    <3>4. ToSet(g.summary) \cap Addresses = {}
      BY <3>2, <3>3, HashAssumption, RedactedClean
    <3>5. g.observed.type = "text" => ToSet(g.observed.v) \cap Addresses = {}
      BY <3>2, <3>3, ValueClean
    <3>. QED  BY <3>4, <3>5
  <2>3. ASSUME NEW s \in ToSet(x.signals), s.value.type = "text"
        PROVE  ToSet(s.value.v) \cap Addresses = {}
    <3>1. PICK i \in DOMAIN r.signals :
              s = [id |-> r.signals[i].id, value |-> RedactValue(r.signals[i].value)]
      BY <1>2, <1>4 DEF ToSet, LlmSignals, Shown
    <3>2. IsValue(r.signals[i].value) /\ s.value = RedactValue(r.signals[i].value)
      BY <3>1, ReportParts
    <3>. QED  BY <2>3, <3>2, ValueClean
  <2>. QED  BY <1>0, <1>4, <2>1, <2>2, <2>3 DEF x
<1>. QED  BY <1>3, <1>4

(* How far a conversion is: until the target is opened it keeps what it held, *)
(* the document that was read is then shown in full, and only then the        *)
(* conversion succeeds.                                                       *)
Converting ==
    input.kind = "conversion" =>
        LET c == input.data
            back == Deserialized(Document)
        IN  /\ c \in Conversions
            /\ target = [state |-> target.state, shows |-> target.shows]
            /\ ~read /\ stage = "asked" => target.state = "earlier"
            /\ ~read /\ stage = "read" => target.state = "earlier"
            /\ ~read /\ stage \in {"read", "open"} => output = back /\ back # NoReport
            /\ ~read /\ stage = "open" => target.state = "empty"
            /\ read => /\ output.ok <=> target.state = "whole"
                       /\ target.state # "earlier" => back # NoReport
                       /\ target.state = "whole" => target.shows = Rendered(back, c.output, c.redact)

(* At first nothing is converted yet.                                         *)
LEMMA StartConverting == Init => Converting
<1> SUFFICES ASSUME Init PROVE Converting
  OBVIOUS
<1>1. read = FALSE /\ stage = "asked" /\ target.state = "earlier"
      /\ target = [state |-> target.state, shows |-> target.shows]
  BY DEF Init
<1>2. ASSUME input.kind = "conversion" PROVE input.data \in Conversions
  <2>. QED  BY <1>2 DEF Init, IsInput
<1>. QED  BY <1>1, <1>2 DEF Converting

(* Every step of a conversion keeps to this (cli/mod.rs: the target is opened *)
(* after the source was read).                                                *)
LEMMA StepConverting == Converting /\ [Next]_vars => Converting'
<1> SUFFICES ASSUME Converting, [Next]_vars PROVE Converting'
  OBVIOUS
<1> USE DEF Converting
<1>1. CASE RefuseDocument
  BY <1>1 DEF RefuseDocument, Converts, Ends, Document
<1>2. CASE ReadDocument
  BY <1>2 DEF ReadDocument, Converts, Document
<1>3. CASE OpenConverted
  <2>1. CASE Ends(FALSE) /\ UNCHANGED target
    BY <1>3, <2>1 DEF OpenConverted, Converts, Ends, Document
  <2>2. CASE /\ target' = [target EXCEPT !.state = "empty"]
             /\ stage' = "open"
             /\ UNCHANGED <<input, read, output>>
    <3>1. target'.state = "empty" /\ target' = [state |-> target'.state, shows |-> target'.shows]
      <4>1. input.kind = "conversion"
        BY <1>3 DEF OpenConverted, Converts
      <4>2. target = [state |-> target.state, shows |-> target.shows]
        BY <4>1
      <4>. QED  BY <2>2, <4>2
    <3>. QED  BY <1>3, <2>2, <3>1 DEF OpenConverted, Converts, Document
  <2>. QED  BY <1>3, <2>1, <2>2 DEF OpenConverted
<1>4. CASE WriteConverted
  BY <1>4 DEF WriteConverted, Converts, Ends, Document
<1>5. CASE ConversionFails
  BY <1>5 DEF ConversionFails, Converts, Ends, Document
<1>6. CASE UNCHANGED vars
  BY <1>6 DEF vars, Document
<1>7. ASSUME NEW k, NEW v, Reads(k, v), k # "conversion" PROVE Converting'
  BY <1>7 DEF Reads
<1>. QED
  BY <1>1, <1>2, <1>3, <1>4, <1>5, <1>6, <1>7
     DEF Next, ReadPredicate, ReadRules, ReadPatterns, ReadResults, ReadInterrupts, ReadCgroup, ReadBpf,
         ReadCpuFreq, ReadHost, ReadTables, ReadHistory

(* A conversion that keeps to this shows the document like the report itself  *)
(* (ConvertedShows).                                                          *)
LEMMA ConversionShows == Converting => ConvertedShows
<1> SUFFICES ASSUME Converting, Done("conversion") PROVE ConvertedShows
  BY DEF ConvertedShows
<1> DEFINE c == input.data
           r == c.report
           back == Deserialized(Document)
<1>1. /\ IsReport(r) /\ Hides(Addresses \cup {r.host.name})
      /\ output.ok <=> target.state = "whole"
      /\ target.state # "earlier" => back # NoReport
      /\ target.state = "whole" => target.shows = Rendered(back, c.output, c.redact)
      /\ c.redact \in BOOLEAN
  BY ConversionsAssumption DEF Converting, Done
<1>2. back # NoReport => back = Floated(r) /\ ReadableReport(r)
  BY <1>1, ReadBack DEF Document
<1>. HIDE DEF back, c
<1>3. ~ReadableReport(r) => ~output.ok /\ target.state = "earlier"
  BY <1>1, <1>2
<1> DEFINE shown == target.shows
           direct == Rendered(r, c.output, c.redact)
<1>4. ASSUME target.state = "whole"
      PROVE  /\ ShowsAlike(shown, direct)
             /\ c.output = "json" => Deserialized(Serialized(shown)) = shown
             /\ c.output = "llm" =>
                   /\ shown.host.kernel = r.host.uname
                   /\ ~c.redact => \A e \in ToSet(shown.excerpts) : Len(e.output) <= MaxExcerpt
                   /\ c.redact =>
                         /\ \A e \in ToSet(shown.excerpts) : ToSet(e.output) \cap (Addresses \cup {r.host.name}) = {}
                         /\ \A g \in ToSet(shown.findings) :
                               /\ ToSet(g.summary) \cap Addresses = {}
                               /\ g.observed.type = "text" => ToSet(g.observed.v) \cap Addresses = {}
                         /\ \A s \in ToSet(shown.signals) :
                               s.value.type = "text" => ToSet(s.value.v) \cap Addresses = {}
  <2>1. back # NoReport /\ back = Floated(r) /\ shown = Rendered(Floated(r), c.output, c.redact)
    BY <1>1, <1>2, <1>4
  <2> DEFINE f == Floated(r)
  <2>2. IsReport(f) /\ Serialized(f) = Serialized(r) /\ f.host = r.host
    <3>1. f.host = r.host
      BY DEF Floated
    <3>. QED  BY <1>1, <3>1, FloatedIs
  <2>. HIDE DEF f, r
  <2>3. CASE c.output = "llm"
    <3>1. shown = LlmOutput(f, c.redact) /\ direct = LlmOutput(r, c.redact)
      BY <2>1, <2>3 DEF Rendered, f
    <3>2. ShowsAlike(shown, direct)
      <4>. HIDE DEF shown, direct
      <4>. QED  BY <1>1, <2>2, <3>1, LlmAlike DEF f
    <3>. HIDE DEF shown, direct
    <3>. QED  BY <1>1, <2>2, <2>3, <3>1, <3>2, LlmClean
  <2>4. CASE c.output # "llm"
    <3>1. shown = f /\ direct = r
      BY <2>1, <2>4 DEF Rendered, f
    <3>2. ShowsAlike(shown, direct)
      <4>. HIDE DEF shown, direct
      <4>. QED  BY <1>1, <3>1, FloatedAlike DEF f
    <3>3. Deserialized(Serialized(shown)) = shown
      <4>1. Deserialized(Serialized(r)) = f
        BY <2>1, <1>2 DEF back, f, Document, r, c
      <4>. HIDE DEF shown, direct
      <4>. QED  BY <2>2, <3>1, <4>1
    <3>. QED  BY <2>4, <3>2, <3>3
  <2>. QED  BY <2>3, <2>4
<1> DEFINE texts == {e.output : e \in ToSet(shown.excerpts)}
                    \cup {g.summary : g \in ToSet(shown.findings)}
                    \cup {v.v : v \in {w \in {s.value : s \in ToSet(shown.signals)}
                                             \cup {g.observed : g \in ToSet(shown.findings)} :
                                       w.type = "text"}}
<1>5. ASSUME target.state = "whole", c.output = "llm", c.redact, NEW t \in texts
      PROVE  ToSet(t) \cap Addresses = {}
  <2>. HIDE DEF shown, direct, r
  <2>1. /\ \A e \in ToSet(shown.excerpts) : ToSet(e.output) \cap (Addresses \cup {r.host.name}) = {}
        /\ \A g \in ToSet(shown.findings) :
              /\ ToSet(g.summary) \cap Addresses = {}
              /\ g.observed.type = "text" => ToSet(g.observed.v) \cap Addresses = {}
        /\ \A s \in ToSet(shown.signals) :
              s.value.type = "text" => ToSet(s.value.v) \cap Addresses = {}
    BY <1>4, <1>5
  <2>2. \/ \E e \in ToSet(shown.excerpts) : t = e.output
        \/ \E g \in ToSet(shown.findings) : t = g.summary
        \/ \E s \in ToSet(shown.signals) : s.value.type = "text" /\ t = s.value.v
        \/ \E g \in ToSet(shown.findings) : g.observed.type = "text" /\ t = g.observed.v
    BY <1>5
  <2>. QED  BY <2>1, <2>2
<1>6. ReadableReport(r) <=>
         /\ \A s \in ToSet(r.signals) :
               s.value.v # Infinite /\ (s.samples # Unsampled => ~Contains(s.samples, Infinite))
         /\ \A f \in ToSet(r.findings) : f.observed.v # Infinite
  BY DEF ReadableReport, FiniteSignal
<1>7. target.state = "whole" =>
         /\ ShowsAlike(shown, direct)
         /\ c.output = "json" => Deserialized(Serialized(shown)) = shown
         /\ c.output = "llm" =>
               /\ shown.host.kernel = r.host.uname
               /\ ~c.redact => \A e \in ToSet(shown.excerpts) : Len(e.output) <= MaxExcerpt
               /\ c.redact => /\ \A t \in texts : ToSet(t) \cap Addresses = {}
                              /\ \A e \in ToSet(shown.excerpts) : r.host.name \notin ToSet(e.output)
  <2>. HIDE DEF texts, shown, direct, r
  <2>. QED  BY <1>4, <1>5
<1>. HIDE DEF texts, shown, direct
<1>. QED
  BY <1>1, <1>3, <1>6, <1>7, Zenon DEF ConvertedShows, ShowsAlike, AlikeValues, texts, shown, direct, c

-------------------------------------------------------------------------------
(* Probes: interrupts, histograms, control groups and CPUs.                   *)

(* A sum of n values none of which is above c is at most n times c.           *)
LEMMA SumAtMost ==
    ASSUME NEW s \in Seq(Int), NEW c \in Int, \A i \in 1 .. Len(s) : s[i] <= c
    PROVE  SumOver(s) \in Int /\ SumOver(s) <= Len(s) * c
<1>1. PICK P : Sums(P, s) /\ SumOver(s) = P[Len(s)]
  BY SumIs
<1> DEFINE m == Len(s)
           S == {n \in Nat : n <= m => P[n] \in Int /\ P[n] <= n * c}
<1>2. m \in Nat
  OBVIOUS
<1>3. 0 \in S
  BY <1>1 DEF Sums
<1>4. ASSUME NEW n \in Nat, n \in S PROVE n + 1 \in S
  <2> SUFFICES ASSUME n + 1 <= m PROVE P[n + 1] \in Int /\ P[n + 1] <= (n + 1) * c
    OBVIOUS
  <2>1. P[n] \in Int /\ P[n] <= n * c
    BY <1>2, <1>4
  <2>2. P[n + 1] = P[n] + s[n + 1]
    <3>1. n + 1 \in 1 .. m /\ (n + 1) - 1 = n
      BY <1>2
    <3>. QED  BY <1>1, <3>1 DEF Sums
  <2>3. n + 1 \in 1 .. m /\ s[n + 1] \in Int /\ s[n + 1] <= c
    BY <1>2
  <2>4. (n + 1) * c = n * c + c
    OBVIOUS
  <2>5. n * c \in Int
    OBVIOUS
  <2>. HIDE DEF m, S
  <2>. QED  BY <2>1, <2>2, <2>3, <2>4, <2>5
<1>5. m \in S
  <2>. HIDE DEF S
  <2>1. \A n \in Nat : n \in S
    BY <1>3, <1>4, Induction
  <2>. QED  BY <1>2, <2>1
<1>. QED  BY <1>1, <1>2, <1>5

(* A sum of numbers is zero only if each of them is.                          *)
LEMMA SumNone ==
    ASSUME NEW s \in Seq(Nat)
    PROVE  SumOver(s) \in Nat /\ (SumOver(s) = 0 <=> \A i \in 1 .. Len(s) : s[i] = 0)
<1>1. SumOver(s) \in Nat /\ \A i \in 1 .. Len(s) : s[i] <= SumOver(s)
  BY SumBounds
<1>2. s \in Seq(Int) /\ \A i \in 1 .. Len(s) : s[i] \in Nat
  OBVIOUS
<1>3. ASSUME \A i \in 1 .. Len(s) : s[i] = 0 PROVE SumOver(s) = 0
  <2>1. SumOver(s) <= Len(s) * 0
    BY <1>2, <1>3, SumAtMost
  <2>. QED  BY <1>1, <2>1
<1>. QED  BY <1>1, <1>2, <1>3

(* In front of the first field that is no number, and of what is behind the   *)
(* last CPU, the counts of a row are its fields.                              *)
LEMMA CountsAre ==
    ASSUME NEW row, row.fields \in Seq(Nat \cup {Junk}), NEW cpus \in Nat, NEW c \in 1 .. cpus
    PROVE  LET v == OrZero(NumberAt(Counts(row, cpus), c))
               fits == c \in 1 .. Len(row.fields) /\ \A k \in 1 .. c : row.fields[k] # Junk
           IN  /\ v \in Nat
               /\ v > 0 <=> fits /\ row.fields[c] > 0
<1> DEFINE f == row.fields
           n == Len(f)
           ends == {i \in 1 .. n : f[i] = Junk} \cup {n + 1, cpus + 1}
           e == Min(ends)
           q == Counts(row, cpus)
<1>1. n \in Nat /\ DOMAIN f = 1 .. n /\ \A i \in 1 .. n : f[i] \in Nat \cup {Junk}
  OBVIOUS
<1>. HIDE DEF f
<1>2. e \in ends /\ \A i \in ends : e <= i
  <2>1. ends \in SUBSET (1 .. (n + cpus + 1)) /\ ends # {}
    BY <1>1
  <2>2. n + cpus + 1 \in Nat
    BY <1>1
  <2>. HIDE DEF ends
  <2>3. \E x \in ends : \A j \in ends : x <= j
    BY <2>1, <2>2, FirstAndLast
  <2>. QED  BY <2>3, Zenon DEF Min
<1>3. e \in 1 .. n + 1 /\ e <= cpus + 1 /\ \A i \in 1 .. n : f[i] = Junk => e <= i
  BY <1>1, <1>2
<1>4. e = n + 1 \/ e = cpus + 1 \/ (e \in 1 .. n /\ f[e] = Junk)
  BY <1>2
<1>. HIDE DEF e, ends
<1>5. q = SubSeq(f, 1, e - 1)
  BY DEF Counts, e, ends, f, n
<1>6. Len(q) = e - 1 /\ DOMAIN q = 1 .. (e - 1) /\ \A i \in 1 .. (e - 1) : q[i] = f[i]
  <2>1. f \in Seq(Nat \cup {Junk})
    BY DEF f
  <2>2. 1 \in 1 .. Len(f) + 1 /\ e - 1 \in 0 .. Len(f)
    BY <1>1, <1>3
  <2>. HIDE DEF q, n
  <2>. QED  BY <1>5, <2>1, <2>2
<1>. HIDE DEF q, n
<1>7. CASE c < e
  <2>1. c \in DOMAIN q /\ q[c] = f[c] /\ c \in 1 .. n
    BY <1>1, <1>3, <1>6, <1>7
  <2>2. \A k \in 1 .. c : f[k] # Junk
    BY <1>1, <1>3, <1>7
  <2>3. q[c] \in Nat /\ NumberAt(q, c) = q[c]
    BY <1>1, <2>1, <2>2 DEF NumberAt
  <2>4. OrZero(NumberAt(q, c)) = f[c]
    BY <2>1, <2>3, MarkersAssumption DEF OrZero
  <2>. QED  BY <2>1, <2>2, <2>3, <2>4 DEF f, n, q
<1>8. CASE ~(c < e)
  <2>1. c \notin DOMAIN q
    BY <1>3, <1>6, <1>8
  <2>2. OrZero(NumberAt(q, c)) = 0
    BY <2>1 DEF NumberAt, OrZero
  <2>3. ~(c \in 1 .. n /\ \A k \in 1 .. c : f[k] # Junk)
    BY <1>1, <1>3, <1>4, <1>8
  <2>. QED  BY <2>2, <2>3 DEF f, n, q
<1>. QED  BY <1>1, <1>3, <1>7, <1>8

(* The interrupts of a CPU are zero only if no row of the network has one.    *)
LEMMA PerCpuIs ==
    ASSUME NEW cpus \in Nat, NEW rows \in Seq([nic : BOOLEAN, fields : Seq(Nat \cup {Junk})])
    PROVE  /\ PerCpu(rows, cpus) \in Seq(Nat) /\ Len(PerCpu(rows, cpus)) = cpus
           /\ \A c \in 1 .. cpus :
                 PerCpu(rows, cpus)[c] > 0 <=>
                    \E r \in ToSet(rows) :
                        /\ r.nic /\ c \in 1 .. Len(r.fields)
                        /\ \A k \in 1 .. c : r.fields[k] # Junk
                        /\ r.fields[c] > 0
<1> DEFINE per == PerCpu(rows, cpus)
           N == NicRows(rows)
           v(i, c) == OrZero(NumberAt(Counts(N[i], cpus), c))
           Fits(r, c) == /\ c \in 1 .. Len(r.fields)
                         /\ \A k \in 1 .. c : r.fields[k] # Junk
                         /\ r.fields[c] > 0
           R == [nic : BOOLEAN, fields : Seq(Nat \cup {Junk})]
           S == {i \in DOMAIN rows : rows[i].nic}
           Column(c) == [i \in DOMAIN N |-> v(i, c)]
<1>1. IsVector(rows) /\ S \in SUBSET DOMAIN rows /\ \A i \in DOMAIN rows : rows[i] \in R
  <2>1. rows \in Seq(R)
    OBVIOUS
  <2>. HIDE DEF R
  <2>2. IsVector(rows)
    BY <2>1, VectorElements
  <2>3. \A i \in DOMAIN rows : rows[i] \in R
    BY <2>1
  <2>4. S \in SUBSET DOMAIN rows
    OBVIOUS
  <2>. QED  BY <2>2, <2>3, <2>4
<1>2. IsVector(N) /\ ToSet(N) = {rows[i] : i \in S}
  BY <1>1, PickSet DEF NicRows
<1>3. ToSet(N) = {r \in ToSet(rows) : r.nic}
  BY <1>2 DEF ToSet
<1>4. Len(N) \in Nat /\ DOMAIN N = 1 .. Len(N)
  BY <1>2, VectorElements
<1>5. \A i \in DOMAIN N : N[i] \in ToSet(N) /\ N[i] \in R
  <2>1. \A i \in DOMAIN N : N[i] \in ToSet(N)
    BY DEF ToSet
  <2>2. \A r \in ToSet(N) : r \in R
    BY <1>1, <1>2
  <2>. QED  BY <2>1, <2>2
<1>. HIDE DEF N
<1>6. ASSUME NEW c \in 1 .. cpus
      PROVE  /\ Column(c) \in Seq(Nat) /\ Len(Column(c)) = Len(N)
             /\ \A i \in 1 .. Len(N) : Column(c)[i] \in Nat /\ (Column(c)[i] > 0 <=> Fits(N[i], c))
  <2>1. \A i \in DOMAIN N : v(i, c) \in Nat /\ (v(i, c) > 0 <=> Fits(N[i], c))
    <3>1. ASSUME NEW i \in DOMAIN N PROVE v(i, c) \in Nat /\ (v(i, c) > 0 <=> Fits(N[i], c))
      <4>1. N[i].fields \in Seq(Nat \cup {Junk})
        BY <1>5
      <4>. QED  BY <4>1, CountsAre
    <3>. QED  BY <3>1
  <2>. HIDE DEF v, Fits
  <2>2. Column(c) \in [1 .. Len(N) -> Nat]
    BY <1>4, <2>1
  <2>3. \A i \in 1 .. Len(N) : Column(c)[i] = v(i, c)
    BY <1>4
  <2>. HIDE DEF Column
  <2>. QED  BY <1>4, <2>1, <2>2, <2>3, VectorOf
<1>7. per = [c \in 1 .. cpus |-> SumOver(Column(c))]
  BY DEF PerCpu, N
<1>8. ASSUME NEW c \in 1 .. cpus
      PROVE  per[c] \in Nat /\ (per[c] > 0 <=> \E i \in 1 .. Len(N) : Fits(N[i], c))
  <2>1. per[c] = SumOver(Column(c))
    BY <1>7
  <2>2. /\ Column(c) \in Seq(Nat) /\ Len(Column(c)) = Len(N)
        /\ \A i \in 1 .. Len(N) : Column(c)[i] \in Nat /\ (Column(c)[i] > 0 <=> Fits(N[i], c))
    BY <1>6
  <2> DEFINE col == Column(c)
             W(i) == Fits(N[i], c)
  <2>3. /\ per[c] = SumOver(col) /\ col \in Seq(Nat) /\ Len(col) = Len(N)
        /\ \A i \in 1 .. Len(N) : col[i] \in Nat /\ (col[i] > 0 <=> W(i))
    BY <2>1, <2>2
  <2>. HIDE DEF per, col, W
  <2>4. SumOver(col) \in Nat /\ (SumOver(col) = 0 <=> \A i \in 1 .. Len(col) : col[i] = 0)
    BY <2>3, SumNone
  <2>5. per[c] \in Nat /\ (per[c] > 0 <=> \E i \in 1 .. Len(N) : W(i))
    BY <2>3, <2>4, SMTT(30)
  <2>. QED  BY <2>5 DEF W
<1>9. per \in Seq(Nat) /\ Len(per) = cpus
  <2>1. per \in [1 .. cpus -> Nat]
    BY <1>7, <1>8
  <2>. HIDE DEF per
  <2>. QED  BY <2>1, VectorOf
<1>10. ASSUME NEW c \in 1 .. cpus
       PROVE  per[c] > 0 <=> \E r \in ToSet(rows) : r.nic /\ Fits(r, c)
  <2>1. (\E i \in 1 .. Len(N) : Fits(N[i], c)) <=> \E r \in ToSet(N) : Fits(r, c)
    BY <1>4 DEF ToSet
  <2>. QED  BY <1>3, <1>8, <2>1
<1>. QED  BY <1>9, <1>10

(* The busiest CPU.                                                           *)
LEMMA BusiestIs ==
    ASSUME NEW cpus \in Nat, NEW rows \in Seq([nic : BOOLEAN, fields : Seq(Nat \cup {Junk})])
    PROVE  LET m == MaxCpuIrq(rows, cpus)
           IN  /\ m # Missing <=> \E c \in 1 .. cpus : PerCpu(rows, cpus)[c] > 0
               /\ m # Missing => m.num <= m.den /\ m.den <= cpus * m.num
<1> DEFINE per == PerCpu(rows, cpus)
           sum == SumOver(per)
           top == Sorted(per)[cpus]
<1>1. per \in Seq(Nat) /\ Len(per) = cpus /\ per \in Seq(Int)
  <2>1. per \in Seq(Nat) /\ Len(per) = cpus
    BY PerCpuIs
  <2>. HIDE DEF per
  <2>. QED  BY <2>1
<1>2. MaxCpuIrq(rows, cpus) = IF cpus = 0 \/ sum = 0 THEN Missing ELSE [num |-> top, den |-> sum]
  BY DEF MaxCpuIrq
<1>. HIDE DEF per
<1>3. sum \in Nat /\ (sum = 0 <=> \A i \in 1 .. cpus : per[i] = 0)
  BY <1>1, SumNone
<1>4. \A i \in 1 .. cpus : per[i] \in Nat
  BY <1>1
<1>5. ASSUME cpus # 0 PROVE top \in Int /\ top <= sum /\ sum <= cpus * top
  <2>1. per # <<>> /\ DOMAIN per = 1 .. cpus /\ cpus \in 1 .. cpus
    BY <1>1, <1>5
  <2>2. top \in Int /\ \E i \in 1 .. cpus : top = per[i]
    <3>1. Len(Sorted(per)) = cpus /\ Sorted(per) \in Seq(Int)
      BY <1>1, SortedFits
    <3>2. PICK p \in Bijection(1 .. cpus, 1 .. cpus) : \A n \in 1 .. cpus : Sorted(per)[n] = per[p[n]]
      BY <1>1, SortedFits
    <3>3. p[cpus] \in 1 .. cpus
      BY <2>1, <3>2 DEF Bijection, Injection
    <3>. QED  BY <1>4, <2>1, <3>1, <3>2, <3>3
  <2>3. \A i \in 1 .. cpus : per[i] <= sum
    BY <1>1, SumBounds
  <2>4. \A i \in 1 .. cpus : per[i] <= top
    BY <1>1, <2>1, Extremes
  <2>. HIDE DEF top
  <2>5. sum <= cpus * top
    BY <1>1, <2>2, <2>4, SumAtMost
  <2>. QED  BY <2>2, <2>3, <2>5
<1>. HIDE DEF sum, top
<1>6. ASSUME cpus # 0, sum # 0
      PROVE  [num |-> top, den |-> sum] # Missing
  BY <1>3, <1>5, <1>6, MarkersAssumption
<1>7. cpus = 0 \/ sum = 0 <=> ~\E c \in 1 .. cpus : per[c] > 0
  BY <1>3, <1>4
<1>. QED  BY <1>2, <1>5, <1>6, <1>7 DEF per

(* The interrupts are one of the tables there are, and once they are read the *)
(* output is their share.                                                     *)
InterruptsRight ==
    input.kind = "interrupts" =>
        /\ input.data \in Interrupts
        /\ read => output = MaxCpuIrq(input.data.rows, input.data.cpus)

(* The share is then that of the busiest CPU (IrqShareFits).                  *)
LEMMA InterruptsFit == InterruptsRight => IrqShareFits
<1> SUFFICES ASSUME InterruptsRight, Done("interrupts") PROVE IrqShareFits
  BY DEF IrqShareFits
<1> DEFINE cpus == input.data.cpus
           rows == input.data.rows
           nic == {r \in ToSet(rows) : r.nic}
           Some == \E r \in nic : \E i \in DOMAIN r.fields :
                       /\ i <= cpus
                       /\ \A k \in 1..i : r.fields[k] # Junk
                       /\ r.fields[i] > 0
<1>1. cpus \in Nat /\ rows \in Seq([nic : BOOLEAN, fields : Seq(Nat \cup {Junk})])
  BY InterruptsAssumption DEF Done, InterruptsRight
<1>2. output = MaxCpuIrq(rows, cpus)
  BY DEF Done, InterruptsRight
<1>. HIDE DEF cpus, rows
<1>3. Some <=> \E c \in 1 .. cpus : PerCpu(rows, cpus)[c] > 0
  <2>1. \A r \in ToSet(rows) : Len(r.fields) \in Nat /\ DOMAIN r.fields = 1 .. Len(r.fields)
    BY <1>1 DEF ToSet
  <2>2. Some <=> \E c \in 1 .. cpus : \E r \in ToSet(rows) :
                        /\ r.nic /\ c \in 1 .. Len(r.fields)
                        /\ \A k \in 1 .. c : r.fields[k] # Junk
                        /\ r.fields[c] > 0
    <3>1. ASSUME NEW r \in nic, NEW i \in DOMAIN r.fields, i <= cpus
          PROVE  i \in 1 .. cpus /\ i \in 1 .. Len(r.fields) /\ r \in ToSet(rows) /\ r.nic
      BY <1>1, <2>1, <3>1
    <3>2. ASSUME NEW c \in 1 .. cpus, NEW r \in ToSet(rows), r.nic, c \in 1 .. Len(r.fields)
          PROVE  r \in nic /\ c \in DOMAIN r.fields /\ c <= cpus
      BY <1>1, <2>1, <3>2
    <3>. HIDE DEF nic
    <3>. QED  BY <3>1, <3>2
  <2>. HIDE DEF Some
  <2>. QED  BY <1>1, <2>2, PerCpuIs
<1>4. /\ output # Missing <=> Some
      /\ Some => output.num <= output.den /\ output.den <= cpus * output.num
  <2>. HIDE DEF Some
  <2>. QED  BY <1>1, <1>2, <1>3, BusiestIs
<1>. HIDE DEF Some
<1>. QED  BY <1>4, Zenon DEF IrqShareFits, Some, nic, cpus, rows

(* What is counted in a flattened vector is counted in its parts.             *)
LEMMA FlattenCounts ==
    ASSUME NEW T, NEW qs, IsVector(qs), \A i \in DOMAIN qs : qs[i] \in Seq(T), NEW W,
           NEW f, \A i \in DOMAIN qs : f[i] \in Nat /\ f[i] = CountAt(qs[i], DOMAIN qs[i], W)
    PROVE  /\ FlattenSeq(qs) \in Seq(T)
           /\ CountAt(FlattenSeq(qs), DOMAIN FlattenSeq(qs), W) = Sum(f, DOMAIN qs)
<1> DEFINE L == Len(qs)
           C(q) == CountAt(q, DOMAIN q, W)
<1>1. L \in Nat /\ DOMAIN qs = 1 .. L
  BY VectorElements
<1>2. PICK P : Grows(P, T, qs) /\ FlattenSeq(qs) = P[L]
  BY Flattening
<1> DEFINE M == {n \in Nat : n <= L => C(P[n]) = Sum(f, 1 .. n)}
<1>3. 0 \in M
  <2>1. P[0] = <<>> /\ 1 .. 0 = {}
    BY <1>2 DEF Grows
  <2>2. C(P[0]) = 0
    <3>1. {i \in DOMAIN P[0] : P[0][i] \in W} = {}
      BY <2>1
    <3>. QED  BY <3>1, FS_EmptySet DEF CountAt
  <2>. QED  BY <2>1, <2>2, SumOfNone
<1>4. ASSUME NEW n \in Nat, n \in M PROVE n + 1 \in M
  <2> SUFFICES ASSUME n + 1 <= L PROVE C(P[n + 1]) = Sum(f, 1 .. n + 1)
    OBVIOUS
  <2>1. n + 1 \in 1 .. L /\ (n + 1) - 1 = n /\ n \in 0 .. L /\ n <= L
    BY <1>1
  <2>2. P[n + 1] = P[n] \o qs[n + 1] /\ P[n] \in Seq(T) /\ qs[n + 1] \in Seq(T)
    BY <1>1, <1>2, <2>1 DEF Grows
  <2>3. C(P[n + 1]) = C(P[n]) + f[n + 1]
    <3>1. C(P[n] \o qs[n + 1]) = C(P[n]) + C(qs[n + 1])
      <4> DEFINE a == P[n]
                 b == qs[n + 1]
      <4>1. a \in Seq(T) /\ b \in Seq(T)
        BY <2>2
      <4>. HIDE DEF a, b
      <4>2. CountAt(a \o b, DOMAIN (a \o b), W) = CountAt(a, DOMAIN a, W) + CountAt(b, DOMAIN b, W)
        BY <4>1, ConcatCounts
      <4>. QED  BY <4>2 DEF a, b
    <3>. QED  BY <1>1, <2>1, <2>2, <3>1
  <2>4. /\ IsFiniteSet(1 .. n) /\ n + 1 \notin 1 .. n /\ 1 .. n + 1 = (1 .. n) \cup {n + 1}
        /\ \A c \in (1 .. n) \cup {n + 1} : f[c] \in Nat
    <3>1. \A c \in 1 .. n + 1 : c \in DOMAIN qs
      BY <1>1, <2>1
    <3>2. 1 .. n + 1 = (1 .. n) \cup {n + 1} /\ n + 1 \notin 1 .. n
      OBVIOUS
    <3>3. IsFiniteSet(1 .. n)
      BY FirstNumbers
    <3>. QED  BY <3>1, <3>2, <3>3
  <2>5. Sum(f, 1 .. n + 1) = f[n + 1] + Sum(f, 1 .. n) /\ Sum(f, 1 .. n) \in Nat
    <3>1. Sum(f, (1 .. n) \cup {n + 1}) = f[n + 1] + Sum(f, 1 .. n) /\ Sum(f, 1 .. n) \in Nat
      BY <2>4, SumAdds
    <3>. QED  BY <2>4, <3>1, Zenon
  <2>6. C(P[n]) = Sum(f, 1 .. n) /\ f[n + 1] \in Nat
    BY <1>1, <1>4, <2>1
  <2>. HIDE DEF C
  <2>. QED  BY <2>3, <2>5, <2>6
<1>5. L \in M
  <2>. HIDE DEF M
  <2>. QED  BY <1>1, <1>3, <1>4, Induction
<1>6. P[L] \in Seq(T)
  BY <1>1, <1>2 DEF Grows
<1>. QED  BY <1>1, <1>2, <1>5, <1>6

(* The buckets a histogram can have.                                          *)
BucketSet == {k \in [lo : Nat, hi : Nat, count : Nat] : k.lo <= k.hi}

(* The samples of a histogram count what its buckets do.                      *)
LEMMA SamplesCount ==
    ASSUME NEW lines, Buckets(lines) \in Seq(BucketSet)
    PROVE  LET buckets == Buckets(lines)
               s == HistogramSamples(lines)
               counts == [i \in DOMAIN buckets |-> buckets[i].count]
           IN  /\ s \in Seq(Int) /\ Len(s) = Sum(counts, DOMAIN buckets)
               /\ \A W : CountAt(s, DOMAIN s, W) =
                            Sum([i \in DOMAIN buckets |->
                                   IF buckets[i].lo + buckets[i].hi \in W THEN counts[i] ELSE 0], DOMAIN buckets)
<1> DEFINE B == Buckets(lines)
           q(i) == [n \in 1 .. B[i].count |-> B[i].lo + B[i].hi]
           qs == [i \in DOMAIN B |-> q(i)]
           s == HistogramSamples(lines)
           counts == [i \in DOMAIN B |-> B[i].count]
           F(W) == [i \in DOMAIN B |-> IF B[i].lo + B[i].hi \in W THEN counts[i] ELSE 0]
<1>1. /\ Len(B) \in Nat /\ DOMAIN B = 1 .. Len(B)
      /\ \A i \in DOMAIN B : B[i].count \in Nat /\ B[i].lo + B[i].hi \in Int
  <2>1. \A i \in DOMAIN B : B[i] \in BucketSet
    OBVIOUS
  <2>. QED  BY <2>1 DEF BucketSet
<1>2. s = FlattenSeq(qs)
  BY DEF HistogramSamples
<1>. HIDE DEF B
<1>3. \A i \in DOMAIN B : q(i) \in Seq(Int) /\ DOMAIN q(i) = 1 .. B[i].count
  BY <1>1
<1>4. IsVector(qs) /\ DOMAIN qs = DOMAIN B /\ \A i \in DOMAIN qs : qs[i] = q(i)
  <2>. HIDE DEF q
  <2>1. DOMAIN qs = DOMAIN B /\ \A i \in DOMAIN qs : qs[i] = q(i)
    OBVIOUS
  <2>2. qs \in Seq({q(i) : i \in DOMAIN B})
    BY <1>1
  <2>. HIDE DEF qs
  <2>3. IsVector(qs)
    BY <2>2, VectorElements
  <2>. QED  BY <2>1, <2>3
<1>. HIDE DEF qs
<1>5. ASSUME NEW W, NEW i \in DOMAIN B
      PROVE  F(W)[i] \in Nat /\ F(W)[i] = CountAt(q(i), DOMAIN q(i), W)
  <2> DEFINE n == B[i].count
             m == B[i].lo + B[i].hi
             D == {k \in DOMAIN q(i) : q(i)[k] \in W}
  <2>1. n \in Nat /\ F(W)[i] = IF m \in W THEN n ELSE 0
    BY <1>1
  <2>2. D = IF m \in W THEN 1 .. n ELSE {}
    OBVIOUS
  <2>3. CountAt(q(i), DOMAIN q(i), W) = Cardinality(D)
    BY DEF CountAt
  <2>. HIDE DEF n, m, D, F
  <2>4. Cardinality(1 .. n) = n /\ Cardinality({}) = 0
    BY <2>1, FS_Interval, FS_EmptySet
  <2>. QED  BY <2>1, <2>2, <2>3, <2>4
<1>6. ASSUME NEW W
      PROVE  s \in Seq(Int) /\ CountAt(s, DOMAIN s, W) = Sum(F(W), DOMAIN B)
  <2>1. \A i \in DOMAIN qs : F(W)[i] \in Nat /\ F(W)[i] = CountAt(qs[i], DOMAIN qs[i], W)
    <3>1. ASSUME NEW i \in DOMAIN qs
          PROVE  F(W)[i] \in Nat /\ F(W)[i] = CountAt(qs[i], DOMAIN qs[i], W)
      <4>1. i \in DOMAIN B /\ qs[i] = q(i)
        BY <1>4
      <4>2. F(W)[i] \in Nat /\ F(W)[i] = CountAt(q(i), DOMAIN q(i), W)
        BY <1>5, <4>1
      <4>. HIDE DEF F, q
      <4>. QED  BY <4>1, <4>2, Zenon
    <3>. QED  BY <3>1
  <2>2. \A i \in DOMAIN qs : qs[i] \in Seq(Int)
    BY <1>3, <1>4
  <2>. HIDE DEF F, q
  <2>. QED  BY <1>2, <1>4, <2>1, <2>2, FlattenCounts
<1>7. Len(s) = Sum(counts, DOMAIN B)
  <2>1. s \in Seq(Int) /\ CountAt(s, DOMAIN s, Int) = Sum(F(Int), DOMAIN B)
    BY <1>6
  <2>2. F(Int) = counts
    BY <1>1
  <2>3. CountAt(s, DOMAIN s, Int) = Len(s)
    <3>. HIDE DEF s
    <3>1. {i \in DOMAIN s : s[i] \in Int} = 1 .. Len(s) /\ Len(s) \in Nat
      BY <2>1
    <3>2. Cardinality(1 .. Len(s)) = Len(s)
      <4>1. \A n \in Nat : Cardinality(1 .. n) = n
        BY FS_Interval
      <4>. QED  BY <3>1, <4>1
    <3>. QED  BY <3>1, <3>2, Zenon DEF CountAt
  <2>. HIDE DEF F, counts, s
  <2>. QED  BY <2>1, <2>2, <2>3, Zenon
<1>. QED  BY <1>6, <1>7 DEF B

(* At most half of the events are in buckets above the median, and at most half *)
(* below.                                                                     *)
LEMMA MedianBetween ==
    ASSUME NEW lines, Buckets(lines) \in Seq(BucketSet), HistogramSamples(lines) # <<>>
    PROVE  LET buckets == Buckets(lines)
               counts == [i \in DOMAIN buckets |-> buckets[i].count]
               m == Percentile100(HistogramSamples(lines), 50)
           IN  /\ 2 * Sum(counts, {i \in DOMAIN buckets : 200 * buckets[i].lo > m}) <= Sum(counts, DOMAIN buckets)
               /\ 2 * Sum(counts, {i \in DOMAIN buckets : 200 * buckets[i].hi < m}) <= Sum(counts, DOMAIN buckets)
<1> DEFINE B == Buckets(lines)
           s == HistogramSamples(lines)
           counts == [i \in DOMAIN B |-> B[i].count]
           F(W) == [i \in DOMAIN B |-> IF B[i].lo + B[i].hi \in W THEN counts[i] ELSE 0]
           med == MedianTwice(s)
           m == Percentile100(s, 50)
           Above == {i \in DOMAIN B : 200 * B[i].lo > m}
           Below == {i \in DOMAIN B : 200 * B[i].hi < m}
           Up == {v \in Int : 2 * v > med}
           Down == {v \in Int : 2 * v < med}
<1>1. /\ s \in Seq(Int) /\ Len(s) = Sum(counts, DOMAIN B)
      /\ \A W : CountAt(s, DOMAIN s, W) = Sum(F(W), DOMAIN B)
  BY SamplesCount
<1>2. /\ Len(B) \in Nat /\ DOMAIN B = 1 .. Len(B)
      /\ \A i \in DOMAIN B : B[i].count \in Nat /\ B[i].lo \in Nat /\ B[i].hi \in Nat /\ B[i].lo <= B[i].hi
  <2>1. \A i \in DOMAIN B : B[i] \in BucketSet
    OBVIOUS
  <2>. QED  BY <2>1 DEF BucketSet
<1>. HIDE DEF B, s
<1>3. /\ med \in Int /\ m = 50 * med
      /\ 2 * Cardinality({i \in DOMAIN s : 2 * s[i] < med}) <= Len(s)
      /\ 2 * Cardinality({i \in DOMAIN s : 2 * s[i] > med}) <= Len(s)
  <2>1. s # <<>>
    BY DEF s
  <2>2. m = 50 * med
    BY <1>1, <2>1, MiddlePercentile
  <2>. HIDE DEF m
  <2>. QED  BY <1>1, <2>1, <2>2, MedianHalves
<1>4. 2 * Sum(F(Up), DOMAIN B) <= Sum(counts, DOMAIN B) /\ 2 * Sum(F(Down), DOMAIN B) <= Sum(counts, DOMAIN B)
  <2>1. \A i \in DOMAIN s : s[i] \in Int
    BY <1>1
  <2>2. {i \in DOMAIN s : s[i] \in Up} = {i \in DOMAIN s : 2 * s[i] > med}
    BY <2>1
  <2>3. {i \in DOMAIN s : s[i] \in Down} = {i \in DOMAIN s : 2 * s[i] < med}
    BY <2>1
  <2>4. CountAt(s, DOMAIN s, Up) = Cardinality({i \in DOMAIN s : 2 * s[i] > med})
    BY <2>2, Zenon DEF CountAt
  <2>5. CountAt(s, DOMAIN s, Down) = Cardinality({i \in DOMAIN s : 2 * s[i] < med})
    BY <2>3, Zenon DEF CountAt
  <2>6. CountAt(s, DOMAIN s, Up) = Sum(F(Up), DOMAIN B) /\ CountAt(s, DOMAIN s, Down) = Sum(F(Down), DOMAIN B)
    BY <1>1
  <2>. HIDE DEF F, Up, Down, counts, med
  <2>. QED  BY <1>1, <1>3, <2>4, <2>5, <2>6
<1>5. ASSUME NEW W, NEW S \in SUBSET DOMAIN B, \A i \in S : B[i].lo + B[i].hi \in W
      PROVE  Sum(counts, S) <= Sum(F(W), DOMAIN B) /\ Sum(counts, S) \in Nat /\ Sum(F(W), DOMAIN B) \in Nat
  <2> DEFINE h == [i \in S |-> i]
             g == F(W)
             D == DOMAIN B
  <2>1. IsFiniteSet(D) /\ IsFiniteSet(S)
    <3>1. IsFiniteSet(1 .. Len(B))
      BY <1>2, FS_Interval
    <3>. QED  BY <1>2, <3>1, FS_Subset
  <2>2. \A i \in S : counts[i] \in Nat /\ h[i] \in D /\ counts[i] <= g[h[i]]
    BY <1>2, <1>5
  <2>3. \A i \in D : g[i] \in Nat
    BY <1>2
  <2>4. \A i, j \in S : h[i] = h[j] => i = j
    OBVIOUS
  <2>. HIDE DEF counts, g, h, D
  <2>5. Sum(counts, S) <= Sum(g, D)
    BY <2>1, <2>2, <2>3, <2>4, SumCompares
  <2>6. Sum(counts, S) \in Nat
    BY <2>1, <2>2, SumIsCount
  <2>7. Sum(g, D) \in Nat
    BY <2>1, <2>3, SumIsCount
  <2>. QED  BY <2>5, <2>6, <2>7 DEF g, D
<1>6. \A i \in Above : B[i].lo + B[i].hi \in Up
  <2> SUFFICES ASSUME NEW i \in Above PROVE B[i].lo + B[i].hi \in Up
    OBVIOUS
  <2>1. 200 * B[i].lo > 50 * med /\ B[i].lo \in Nat /\ B[i].hi \in Nat /\ B[i].lo <= B[i].hi
    BY <1>2, <1>3
  <2>. HIDE DEF med
  <2>. QED  BY <1>3, <2>1
<1>7. \A i \in Below : B[i].lo + B[i].hi \in Down
  <2> SUFFICES ASSUME NEW i \in Below PROVE B[i].lo + B[i].hi \in Down
    OBVIOUS
  <2>1. 200 * B[i].hi < 50 * med /\ B[i].lo \in Nat /\ B[i].hi \in Nat /\ B[i].lo <= B[i].hi
    BY <1>2, <1>3
  <2>. HIDE DEF med
  <2>. QED  BY <1>3, <2>1
<1>8. Above \in SUBSET DOMAIN B /\ Below \in SUBSET DOMAIN B
  OBVIOUS
<1>9. Sum(counts, DOMAIN B) \in Nat
  BY <1>1
<1>10. 2 * Sum(counts, Above) <= Sum(counts, DOMAIN B)
  <2>. HIDE DEF Above, Up, counts, F
  <2>1. Sum(counts, Above) <= Sum(F(Up), DOMAIN B) /\ Sum(counts, Above) \in Nat /\ Sum(F(Up), DOMAIN B) \in Nat
    BY <1>5, <1>6, <1>8
  <2>. QED  BY <1>4, <1>9, <2>1
<1>11. 2 * Sum(counts, Below) <= Sum(counts, DOMAIN B)
  <2>. HIDE DEF Below, Down, counts, F
  <2>1. Sum(counts, Below) <= Sum(F(Down), DOMAIN B) /\ Sum(counts, Below) \in Nat /\ Sum(F(Down), DOMAIN B) \in Nat
    BY <1>5, <1>7, <1>8
  <2>. QED  BY <1>4, <1>9, <2>1
<1>. QED  BY <1>10, <1>11, Zenon DEF B, s

(* A binary is the tool itself or the one of a distribution, if it is there.  *)
LEMMA ResolvedIs ==
    ASSUME NEW t, NEW path, \A s \in {"", "-bpfcc"} : <<t, s>> # Missing
    PROVE  LET b == ResolveTool(t, path)
           IN  /\ b # Missing <=> \E s \in {"", "-bpfcc"} : <<t, s>> \in path
               /\ b # Missing => b \in {<<t, "">>, <<t, "-bpfcc">>}
<1>1. CASE <<t, "">> \in path
  <2>1. ResolveTool(t, path) = <<t, "">>
    BY <1>1 DEF ResolveTool
  <2>. QED  BY <1>1, <2>1
<1>2. CASE <<t, "">> \notin path /\ <<t, "-bpfcc">> \in path
  <2>1. ResolveTool(t, path) = <<t, "-bpfcc">>
    BY <1>2 DEF ResolveTool
  <2>. QED  BY <1>2, <2>1
<1>3. CASE <<t, "">> \notin path /\ <<t, "-bpfcc">> \notin path
  <2>1. ResolveTool(t, path) = Missing
    BY <1>3 DEF ResolveTool
  <2>. QED  BY <1>3, <2>1
<1>. QED  BY <1>1, <1>2, <1>3

(* What is shown of the tools.                                                *)
LEMMA BpfShows ==
    ASSUME NEW path, NEW printed, NEW t \in ToSet(Tools)
    PROVE  LET out == BpfSignals(path, printed)
               binary == ResolveTool(t, path)
               found == IF binary = Missing THEN Missing ELSE RunHistogramTool(t, printed[binary])
           IN  /\ out[<<t, "available">>] = (binary # Missing)
               /\ <<t, "usecs">> \in DOMAIN out <=> found # Missing
               /\ found # Missing => out[<<t, "usecs">>] = found
<1> DEFINE X == ToSet(Tools) \X {"available", "usecs"}
           f == [i \in X |-> IF i[2] = "available" THEN ResolveTool(i[1], path) # Missing
                             ELSE IF ResolveTool(i[1], path) = Missing THEN Missing
                             ELSE RunHistogramTool(i[1], printed[ResolveTool(i[1], path)])]
           a == <<t, "available">>
           u == <<t, "usecs">>
<1>1. BpfSignals(path, printed) = Present(f)
  BY DEF BpfSignals
<1>2. a \in X /\ u \in X /\ a[1] = t /\ u[1] = t /\ a[2] = "available" /\ u[2] = "usecs"
  OBVIOUS
<1>3. f[a] = (ResolveTool(t, path) # Missing) /\ DOMAIN f = X
  BY <1>2
<1>4. f[u] = IF ResolveTool(t, path) = Missing THEN Missing
             ELSE RunHistogramTool(t, printed[ResolveTool(t, path)])
  BY <1>2
<1>. HIDE DEF f, a, u, X
<1>5. /\ DOMAIN Present(f) = {i \in DOMAIN f : f[i] # Missing}
      /\ \A i \in DOMAIN Present(f) : Present(f)[i] = f[i]
  BY DEF Present, Restrict
<1>6. (ResolveTool(t, path) # Missing) # Missing
  BY MarkersAssumption
<1>. QED  BY <1>1, <1>2, <1>3, <1>4, <1>5, <1>6, Zenon DEF a, u

(* The output of a tracing tool is one of those there are, and once it is     *)
(* read the signals are its medians.                                          *)
BpfRight ==
    input.kind = "bpf" =>
        /\ input.data \in BpfHosts
        /\ read => output = BpfSignals(input.data.path, input.data.output)

(* The lines a histogram can have, those that are no bucket included.         *)
LineSet == {Junk} \cup {k \in [lo : Nat, hi : Nat, count : Nat \cup {Junk}] : k.lo <= k.hi}

(* The buckets of what a tool printed.                                        *)
LEMMA BucketsTyped ==
    ASSUME NEW lines \in Seq(LineSet)
    PROVE  Buckets(lines) \in Seq(BucketSet)
<1> DEFINE S == {i \in DOMAIN lines : lines[i] # Junk /\ lines[i].count # Junk}
           B == Buckets(lines)
<1>1. IsVector(lines) /\ S \in SUBSET DOMAIN lines /\ \A i \in DOMAIN lines : lines[i] \in LineSet
  <2>1. IsVector(lines)
    BY VectorElements
  <2>. QED  BY <2>1
<1>2. IsVector(B) /\ \A k \in DOMAIN B : \E i \in S : B[k] = lines[i]
  BY <1>1, PickElements DEF Buckets
<1>3. \A i \in S : lines[i] \in BucketSet
  <2> SUFFICES ASSUME NEW i \in S PROVE lines[i] \in BucketSet
    OBVIOUS
  <2>1. lines[i] \in [lo : Nat, hi : Nat, count : Nat \cup {Junk}] /\ lines[i].lo <= lines[i].hi
        /\ lines[i].count # Junk
    BY <1>1 DEF LineSet
  <2>. QED  BY <2>1 DEF BucketSet
<1>. HIDE DEF B, S
<1>4. \A k \in DOMAIN B : B[k] \in BucketSet
  BY <1>2, <1>3
<1>. QED  BY <1>2, <1>4 DEF IsVector, B

(* What is shown of a tool that printed something.                            *)
LEMMA HistogramIs ==
    ASSUME NEW t, NEW lines \in Seq(LineSet) \cup {Missing}
    PROVE  LET found == RunHistogramTool(t, lines)
               buckets == IF lines = Missing THEN <<>> ELSE Buckets(lines)
               counts == [i \in DOMAIN buckets |-> buckets[i].count]
           IN  /\ found # Missing <=> t \in Histograms /\ Sum(counts, DOMAIN buckets) > 0
               /\ found # Missing =>
                     /\ 2 * Sum(counts, {i \in DOMAIN buckets : 200 * buckets[i].lo > found.value})
                           <= Sum(counts, DOMAIN buckets)
                     /\ 2 * Sum(counts, {i \in DOMAIN buckets : 200 * buckets[i].hi < found.value})
                           <= Sum(counts, DOMAIN buckets)
<1>1. CASE lines = Missing
  <2>1. DOMAIN <<>> = {} /\ RunHistogramTool(t, lines) = Missing
    BY <1>1 DEF RunHistogramTool
  <2>2. Sum([i \in DOMAIN <<>> |-> <<>>[i].count], DOMAIN <<>>) = 0
    BY <2>1, SumOfNone
  <2>. QED  BY <1>1, <2>1, <2>2
<1>2. CASE lines # Missing
  <2> DEFINE B == Buckets(lines)
             counts == [i \in DOMAIN B |-> B[i].count]
             s == HistogramSamples(lines)
             m == Percentile100(s, 50)
             found == RunHistogramTool(t, lines)
  <2>1. B \in Seq(BucketSet)
    BY <1>2, BucketsTyped
  <2>2. s \in Seq(Int) /\ Len(s) = Sum(counts, DOMAIN B)
    BY <2>1, SamplesCount
  <2>3. found = IF t \notin Histograms \/ s = <<>> THEN Missing ELSE [samples |-> s, value |-> m]
    BY <1>2 DEF RunHistogramTool
  <2>4. s # <<>> <=> Sum(counts, DOMAIN B) > 0
    <3>. HIDE DEF s, counts, B
    <3>1. s # <<>> <=> Len(s) > 0
      BY <2>2
    <3>. QED  BY <2>2, <3>1
  <2>5. ASSUME s # <<>> PROVE m \in Int
    <3>. HIDE DEF s
    <3>1. m = 50 * MedianTwice(s) /\ MedianTwice(s) \in Int
      BY <2>2, <2>5, MiddlePercentile, MedianHalves
    <3>. HIDE DEF m
    <3>. QED  BY <3>1
  <2>6. ASSUME s # <<>> PROVE [samples |-> s, value |-> m] # Missing
    <3>1. s \in Seq(Int) /\ m \in Int
      BY <2>2, <2>5, <2>6
    <3>. HIDE DEF s, m
    <3>. QED  BY <3>1, MarkersAssumption
  <2>7. ASSUME s # <<>>
        PROVE  /\ 2 * Sum(counts, {i \in DOMAIN B : 200 * B[i].lo > m}) <= Sum(counts, DOMAIN B)
               /\ 2 * Sum(counts, {i \in DOMAIN B : 200 * B[i].hi < m}) <= Sum(counts, DOMAIN B)
    BY <2>1, <2>7, MedianBetween
  <2>. HIDE DEF found, counts, s, m
  <2>8. found # Missing <=> t \in Histograms /\ Sum(counts, DOMAIN B) > 0
    BY <2>3, <2>4, <2>6
  <2>9. found # Missing => s # <<>> /\ found.value = m
    BY <2>3
  <2>. QED  BY <1>2, <2>7, <2>8, <2>9 DEF found, counts
<1>. QED  BY <1>1, <1>2

(* The median is then in a bucket with half of the events below and above     *)
(* (MedianFits).                                                              *)
LEMMA BpfFit == BpfRight => MedianFits
<1> SUFFICES ASSUME BpfRight, Done("bpf"), NEW t \in ToSet(Tools)
             PROVE  LET binary == ResolveTool(t, input.data.path)
                        lines == IF binary = Missing THEN Missing ELSE input.data.output[binary]
                        buckets == IF lines = Missing THEN <<>> ELSE Buckets(lines)
                        counts == [i \in DOMAIN buckets |-> buckets[i].count]
                        Count(S) == MapThenSumSet(LAMBDA i : counts[i], S)
                        Above(m) == {i \in DOMAIN buckets : 200 * buckets[i].lo > m}
                        Below(m) == {i \in DOMAIN buckets : 200 * buckets[i].hi < m}
                        id == <<t, "usecs">>
                    IN  /\ output[<<t, "available">>] <=> \E s \in {"", "-bpfcc"} : <<t, s>> \in input.data.path
                        /\ id \in DOMAIN output <=> t \in Histograms /\ Count(DOMAIN buckets) > 0
                        /\ id \in DOMAIN output =>
                              /\ 2 * Count(Above(output[id].value)) <= Count(DOMAIN buckets)
                              /\ 2 * Count(Below(output[id].value)) <= Count(DOMAIN buckets)
  BY Zenon DEF MedianFits
<1> DEFINE path == input.data.path
           printed == input.data.output
           binary == ResolveTool(t, path)
           lines == IF binary = Missing THEN Missing ELSE printed[binary]
           buckets == IF lines = Missing THEN <<>> ELSE Buckets(lines)
           counts == [i \in DOMAIN buckets |-> buckets[i].count]
           Above(m) == {i \in DOMAIN buckets : 200 * buckets[i].lo > m}
           Below(m) == {i \in DOMAIN buckets : 200 * buckets[i].hi < m}
           id == <<t, "usecs">>
           found == RunHistogramTool(t, lines)
<1>1. output = BpfSignals(path, printed) /\ printed \in [ToSet(Tools) \X {"", "-bpfcc"} -> {Missing} \cup Seq(LineSet)]
  BY BpfAssumption DEF Done, BpfRight, LineSet
<1>2. \A s \in {"", "-bpfcc"} : <<t, s>> # Missing
  <2>1. ASSUME NEW s \in {"", "-bpfcc"} PROVE <<t, s>> \in ToSet(Tools) \X {"", "-bpfcc"}
    OBVIOUS
  <2>. QED  BY <2>1, ToolsAssumption
<1>3. /\ binary # Missing <=> \E s \in {"", "-bpfcc"} : <<t, s>> \in path
      /\ binary # Missing => binary \in {<<t, "">>, <<t, "-bpfcc">>}
  BY <1>2, ResolvedIs
<1>. HIDE DEF path, printed
<1>4. lines \in Seq(LineSet) \cup {Missing}
  BY <1>1, <1>3
<1>5. binary = Missing => found = Missing
  BY DEF RunHistogramTool
<1>6. /\ output[<<t, "available">>] = (binary # Missing)
      /\ id \in DOMAIN output <=> found # Missing
      /\ found # Missing => output[id] = found
  BY <1>1, <1>5, BpfShows
<1>7. /\ found # Missing <=> t \in Histograms /\ Sum(counts, DOMAIN buckets) > 0
      /\ found # Missing =>
            /\ 2 * Sum(counts, Above(found.value)) <= Sum(counts, DOMAIN buckets)
            /\ 2 * Sum(counts, Below(found.value)) <= Sum(counts, DOMAIN buckets)
  BY <1>4, HistogramIs, ZenonT(30)
<1>. HIDE DEF binary, lines, found, buckets, counts, id, Above, Below
<1>8. /\ output[<<t, "available">>] <=> \E s \in {"", "-bpfcc"} : <<t, s>> \in path
      /\ id \in DOMAIN output <=> t \in Histograms /\ Sum(counts, DOMAIN buckets) > 0
      /\ id \in DOMAIN output =>
            /\ 2 * Sum(counts, Above(output[id].value)) <= Sum(counts, DOMAIN buckets)
            /\ 2 * Sum(counts, Below(output[id].value)) <= Sum(counts, DOMAIN buckets)
  BY <1>3, <1>6, <1>7
<1>. QED  BY <1>8, Zenon DEF Sum, binary, lines, buckets, counts, Above, Below, id, path, printed

(* A control group is one of those there are, and once it is read the output  *)
(* is its limits and pressure.                                                *)
CgroupRight ==
    input.kind = "cgroup" =>
        /\ input.data \in Cgroups
        /\ read => output = CgroupSignals(input.data.named, input.data.lines, input.data.groups)

(* What of a function is not missing.                                         *)
LEMMA PresentIs ==
    ASSUME NEW f
    PROVE  /\ DOMAIN Present(f) = {i \in DOMAIN f : f[i] # Missing}
           /\ \A i \in DOMAIN Present(f) : Present(f)[i] = f[i] /\ f[i] # Missing
           /\ (\A i \in DOMAIN f : f[i] = Missing) => Present(f) = <<>>
<1>1. Present(f) = [i \in {i \in DOMAIN f : f[i] # Missing} |-> f[i]]
  BY DEF Present, Restrict
<1>2. ASSUME \A i \in DOMAIN f : f[i] = Missing PROVE Present(f) = <<>>
  <2>1. {i \in DOMAIN f : f[i] # Missing} = {}
    BY <1>2
  <2>2. Present(f) = [i \in {} |-> f[i]]
    BY <1>1, <2>1
  <2>3. [i \in {} |-> f[i]] = <<>>
    OBVIOUS
  <2>. QED  BY <2>2, <2>3
<1>. QED  BY <1>1, <1>2

(* What a group of version 2 says.                                            *)
LEMMA SecondSays ==
    ASSUME NEW g, IsV2(g)
    PROVE  LET out == Present(CollectV2(g))
           IN  /\ "memory_limit_bytes" \in DOMAIN out /\ out.memory_limit_bytes # 0 =>
                     out.memory_limit_bytes = File(g, "memory.max") /\ out.memory_limit_bytes # Missing
               /\ "memory_bytes" \in DOMAIN out =>
                     out.memory_bytes = File(g, "memory.current") /\ out.memory_bytes # Missing
<1> DEFINE f == CollectV2(g)
           out == Present(f)
<1>1. /\ f.memory_limit_bytes = ReadMax(g, "memory.max")
      /\ f.memory_bytes = ReadNumber(g, "memory.current")
  BY DEF CollectV2
<1>2. ReadMax(g, "memory.max") \in {0, Missing, File(g, "memory.max")}
  BY Zenon DEF ReadMax
<1>3. ReadNumber(g, "memory.current") \in {Missing, File(g, "memory.current")}
  BY Zenon DEF ReadNumber
<1>. HIDE DEF f
<1>4. \A i \in DOMAIN out : out[i] = f[i] /\ f[i] # Missing
  BY PresentIs
<1>. HIDE DEF out
<1>. QED  BY <1>1, <1>2, <1>3, <1>4 DEF out, f

(* What a group of version 1 says.                                            *)
LEMMA FirstSays ==
    ASSUME NEW g, ReadNumber(g, "memory/memory.limit_in_bytes") \in Nat \cup {Missing}
    PROVE  LET out == Present(CollectV1(g))
           IN  /\ "memory_limit_bytes" \in DOMAIN out /\ out.memory_limit_bytes # 0 =>
                     /\ out.memory_limit_bytes = File(g, "memory/memory.limit_in_bytes")
                     /\ out.memory_limit_bytes # Missing /\ ~(out.memory_limit_bytes > NoLimit)
               /\ "memory_bytes" \in DOMAIN out =>
                     /\ out.memory_bytes = File(g, "memory/memory.usage_in_bytes")
                     /\ out.memory_bytes # Missing
               /\ "oom_kills" \notin DOMAIN out
<1> DEFINE f == CollectV1(g)
           out == Present(f)
           limit == ReadNumber(g, "memory/memory.limit_in_bytes")
           usage == ReadNumber(g, "memory/memory.usage_in_bytes")
<1>1. /\ f.memory_limit_bytes = IF limit # Missing /\ limit > NoLimit THEN 0 ELSE limit
      /\ f.memory_bytes = usage
      /\ "oom_kills" \notin DOMAIN f
  BY DEF CollectV1
<1>2. limit \in {Missing, File(g, "memory/memory.limit_in_bytes")}
  BY Zenon DEF ReadNumber
<1>3. usage \in {Missing, File(g, "memory/memory.usage_in_bytes")}
  BY Zenon DEF ReadNumber
<1>. HIDE DEF f, limit, usage
<1>4. DOMAIN out \subseteq DOMAIN f /\ \A i \in DOMAIN out : out[i] = f[i] /\ f[i] # Missing
  BY PresentIs
<1>. HIDE DEF out
<1>. QED  BY <1>1, <1>2, <1>3, <1>4 DEF out, f

(* A group that is not there says nothing.                                    *)
LEMMA NoneSays == ~IsV2(<<>>) /\ Present(CollectV1(<<>>)) = <<>>
<1>1. \A n : n \notin DOMAIN <<>>
  OBVIOUS
<1>2. \A n : File(<<>>, n) = Missing
  BY <1>1 DEF File
<1>3. \A n : ReadNumber(<<>>, n) = Missing
  BY <1>2 DEF ReadNumber
<1>4. \A i \in DOMAIN CollectV1(<<>>) : CollectV1(<<>>)[i] = Missing
  BY <1>3 DEF CollectV1
<1>. QED  BY <1>1, <1>4, PresentIs DEF IsV2

(* The part of LimitsFit that is about groups.                                *)
GroupsFit ==
    Done("cgroup") =>
          LET group == IF input.data.named # Missing THEN input.data.named
                       ELSE Detect(input.data.lines, input.data.groups)
              Of(names) == {File(input.data.groups[group], n) : n \in names} \ {Missing}
              said == output.memory_limit_bytes
          IN  IF group \notin DOMAIN input.data.groups THEN output = <<>>
              ELSE /\ "memory_limit_bytes" \in DOMAIN output /\ said # 0 =>
                         /\ said \in Of({"memory.max", "memory/memory.limit_in_bytes"})
                         /\ said > NoLimit => IsV2(input.data.groups[group])
                   /\ "memory_bytes" \in DOMAIN output =>
                         output.memory_bytes \in Of({"memory.current", "memory/memory.usage_in_bytes"})
                   /\ "oom_kills" \in DOMAIN output => IsV2(input.data.groups[group])

(* The limits are then those nearest to the group, for both versions (the     *)
(* parts of LimitsFit about groups).                                          *)
LEMMA GroupFits == CgroupRight => GroupsFit
<1> SUFFICES ASSUME CgroupRight, Done("cgroup") PROVE GroupsFit
  BY DEF GroupsFit
<1> DEFINE groups == input.data.groups
           group == IF input.data.named # Missing THEN input.data.named
                    ELSE Detect(input.data.lines, groups)
           g == groups[group]
<1>1. /\ Missing \notin DOMAIN groups
      /\ \A d \in DOMAIN groups :
            ReadNumber(groups[d], "memory/memory.limit_in_bytes") \in Nat \cup {Missing}
  BY CgroupsAssumption DEF Done, CgroupRight
<1>2. output = LET own == IF group \in DOMAIN groups THEN g ELSE <<>>
               IN  IF group = Missing THEN <<>>
                   ELSE Present(IF IsV2(own) THEN CollectV2(own) ELSE CollectV1(own))
  BY DEF Done, CgroupRight, CgroupSignals
<1>. HIDE DEF group, groups
<1>3. CASE group \notin DOMAIN groups
  <2>1. output = <<>>
    BY <1>2, <1>3, NoneSays
  <2>. QED  BY <1>3, <2>1, Zenon DEF GroupsFit, group, groups
<1>4. CASE group \in DOMAIN groups
  <2>1. output = Present(IF IsV2(g) THEN CollectV2(g) ELSE CollectV1(g))
    BY <1>1, <1>2, <1>4
  <2>2. ReadNumber(g, "memory/memory.limit_in_bytes") \in Nat \cup {Missing}
    BY <1>1, <1>4
  <2>. HIDE DEF g
  <2> DEFINE Of(names) == {File(g, n) : n \in names} \ {Missing}
             said == output.memory_limit_bytes
  <2>3. /\ "memory_limit_bytes" \in DOMAIN output /\ said # 0 =>
              /\ said \in Of({"memory.max", "memory/memory.limit_in_bytes"})
              /\ said > NoLimit => IsV2(g)
        /\ "memory_bytes" \in DOMAIN output =>
              output.memory_bytes \in Of({"memory.current", "memory/memory.usage_in_bytes"})
        /\ "oom_kills" \in DOMAIN output => IsV2(g)
    <3>1. CASE IsV2(g)
      <4>1. output = Present(CollectV2(g))
        BY <2>1, <3>1
      <4>2. /\ "memory_limit_bytes" \in DOMAIN output /\ said # 0 =>
                  said = File(g, "memory.max") /\ said # Missing
            /\ "memory_bytes" \in DOMAIN output =>
                  output.memory_bytes = File(g, "memory.current") /\ output.memory_bytes # Missing
        BY <3>1, <4>1, SecondSays
      <4>. HIDE DEF said
      <4>. QED  BY <3>1, <4>2
    <3>2. CASE ~IsV2(g)
      <4>1. output = Present(CollectV1(g))
        BY <2>1, <3>2
      <4>2. /\ "memory_limit_bytes" \in DOMAIN output /\ said # 0 =>
                  /\ said = File(g, "memory/memory.limit_in_bytes")
                  /\ said # Missing /\ ~(said > NoLimit)
            /\ "memory_bytes" \in DOMAIN output =>
                  /\ output.memory_bytes = File(g, "memory/memory.usage_in_bytes")
                  /\ output.memory_bytes # Missing
            /\ "oom_kills" \notin DOMAIN output
        BY <2>2, <4>1, FirstSays
      <4>. HIDE DEF said
      <4>. QED  BY <4>2
    <3>. QED  BY <3>1, <3>2
  <2>. QED  BY <1>4, <2>3, Zenon DEF GroupsFit, g, group, groups
<1>. QED  BY <1>3, <1>4

(* Two differences of products with the same factors add up to one.           *)
LEMMA Distributes ==
    ASSUME NEW a \in Int, NEW b \in Int, NEW p \in Int, NEW q \in Int, NEW x \in Int, NEW y \in Int
    PROVE  /\ p + x \in Int /\ q + y \in Int
           /\ (a * p - b * q) + (a * x - b * y) = a * (p + x) - b * (q + y)
           /\ (a * p - b * q) + (a * x - b * y) \in Int
<1>1. a * (p + x) = a * p + a * x /\ b * (q + y) = b * q + b * y
  OBVIOUS
<1>2. a * p \in Int /\ a * x \in Int /\ b * q \in Int /\ b * y \in Int
  OBVIOUS
<1>. QED  BY <1>1, <1>2

(* Sums are linear.                                                           *)
Combines(u, a, s, b, t) ==
    /\ Len(s) = Len(u) /\ Len(t) = Len(u)
    /\ \A i \in 1 .. Len(u) : u[i] = a * s[i] - b * t[i]

(* A vector that is a linear combination of two others sums up to that        *)
(* combination of their sums.                                                 *)
SumCombines(u, a, s, b, t) ==
    (/\ u \in Seq(Int) /\ s \in Seq(Int) /\ t \in Seq(Int) /\ a \in Int /\ b \in Int
     /\ Combines(u, a, s, b, t)) =>
    SumOver(u) = a * SumOver(s) - b * SumOver(t)

(* It does for all vectors and factors.                                       *)
LEMMA SumLinear == \A u, a, s, b, t : SumCombines(u, a, s, b, t)
<1> TAKE u, a, s, b, t
<1> SUFFICES ASSUME u \in Seq(Int), s \in Seq(Int), t \in Seq(Int), a \in Int, b \in Int,
                    Combines(u, a, s, b, t)
             PROVE  SumOver(u) = a * SumOver(s) - b * SumOver(t)
  BY DEF SumCombines
<1> DEFINE m == Len(s)
<1>0. Len(t) = m /\ Len(u) = m /\ \A i \in 1 .. m : u[i] = a * s[i] - b * t[i]
  BY DEF Combines
<1>1. PICK P : Sums(P, s) /\ SumOver(s) = P[m]
  BY SumIs
<1>2. PICK Q : Sums(Q, t) /\ SumOver(t) = Q[m]
  BY <1>0, SumIs
<1>3. PICK R : Sums(R, u) /\ SumOver(u) = R[m]
  BY <1>0, SumIs
<1>4. m \in Nat
  OBVIOUS
<1> DEFINE S == {n \in Nat : n <= m => /\ P[n] \in Int /\ Q[n] \in Int /\ R[n] \in Int
                                      /\ R[n] = a * P[n] - b * Q[n]}
<1>5. 0 \in S
  BY <1>0, <1>1, <1>2, <1>3 DEF Sums
<1>6. ASSUME NEW n \in Nat, n \in S PROVE n + 1 \in S
  <2> SUFFICES ASSUME n + 1 <= m
               PROVE  /\ P[n + 1] \in Int /\ Q[n + 1] \in Int /\ R[n + 1] \in Int
                      /\ R[n + 1] = a * P[n + 1] - b * Q[n + 1]
    OBVIOUS
  <2>1. n + 1 \in 1 .. m /\ (n + 1) - 1 = n /\ n <= m
    BY <1>4
  <2>2. /\ P[n + 1] = P[n] + s[n + 1] /\ Q[n + 1] = Q[n] + t[n + 1] /\ R[n + 1] = R[n] + u[n + 1]
    BY <1>0, <1>1, <1>2, <1>3, <2>1 DEF Sums
  <2>3. /\ P[n] \in Int /\ Q[n] \in Int /\ R[n] \in Int
        /\ R[n] = a * P[n] - b * Q[n]
    BY <1>6, <2>1
  <2>4. /\ s[n + 1] \in Int /\ t[n + 1] \in Int /\ u[n + 1] \in Int
        /\ u[n + 1] = a * s[n + 1] - b * t[n + 1]
    BY <1>0, <2>1
  <2> DEFINE p == P[n]
             q == Q[n]
             x == s[n + 1]
             y == t[n + 1]
  <2>5. /\ p \in Int /\ q \in Int /\ x \in Int /\ y \in Int
        /\ P[n + 1] = p + x /\ Q[n + 1] = q + y /\ R[n + 1] = (a * p - b * q) + (a * x - b * y)
    BY <2>2, <2>3, <2>4
  <2>. HIDE DEF p, q, x, y
  <2>6. /\ p + x \in Int /\ q + y \in Int
        /\ (a * p - b * q) + (a * x - b * y) = a * (p + x) - b * (q + y)
        /\ (a * p - b * q) + (a * x - b * y) \in Int
    BY <2>5, Distributes
  <2>. QED  BY <2>5, <2>6
<1>7. m \in S
  <2>. HIDE DEF S
  <2>1. \A n \in Nat : n \in S
    BY <1>5, <1>6, Induction
  <2>. QED  BY <1>4, <2>1
<1>. QED  BY <1>1, <1>2, <1>3, <1>7

(* Not all of them are above the ratio of the sums, nor are all below.        *)
LEMMA RatioBetween ==
    ASSUME NEW s \in Seq(Int), NEW t \in Seq(Int), Len(t) = Len(s), Len(s) > 0
    PROVE  /\ \E i \in 1 .. Len(s) : s[i] * SumOver(t) <= SumOver(s) * t[i]
           /\ \E i \in 1 .. Len(s) : s[i] * SumOver(t) >= SumOver(s) * t[i]
<1> DEFINE m == Len(s)
           a == SumOver(s)
           b == SumOver(t)
           u == [i \in 1 .. m |-> b * s[i] - a * t[i]]
           v == [i \in 1 .. m |-> a * t[i] - b * s[i]]
<1>1. a \in Int /\ b \in Int /\ m \in Nat /\ m > 0
  BY SumTyped
<1>2. \A i \in 1 .. m : s[i] \in Int /\ t[i] \in Int
  OBVIOUS
<1>. HIDE DEF m, a, b
<1>3. \A i \in 1 .. m : /\ b * s[i] \in Int /\ a * t[i] \in Int
                        /\ b * s[i] = s[i] * b
  BY <1>1, <1>2
<1>4. /\ u \in [1 .. m -> Int] /\ v \in [1 .. m -> Int]
      /\ \A i \in 1 .. m : u[i] = b * s[i] - a * t[i] /\ v[i] = a * t[i] - b * s[i]
  BY <1>3, SMTT(30)
<1>. HIDE DEF u, v
<1>5. u \in Seq(Int) /\ Len(u) = m /\ v \in Seq(Int) /\ Len(v) = m
  BY <1>1, <1>4, VectorOf
<1>6. SumOver(u) = b * a - a * b
  <2>1. Len(s) = m /\ Len(t) = m /\ a = SumOver(s) /\ b = SumOver(t)
    BY DEF a, b, m
  <2>2. Combines(u, b, s, a, t)
    BY <1>4, <1>5, <2>1 DEF Combines
  <2>3. SumOver(u) = b * SumOver(s) - a * SumOver(t)
    <3>1. s \in Seq(Int) /\ t \in Seq(Int)
      OBVIOUS
    <3>2. SumCombines(u, b, s, a, t)
      BY SumLinear, Zenon
    <3>. QED  BY <1>1, <1>5, <2>2, <3>1, <3>2, Zenon DEF SumCombines
  <2>. QED  BY <2>1, <2>3
<1>7. SumOver(v) = a * b - b * a
  <2>1. Len(s) = m /\ Len(t) = m /\ a = SumOver(s) /\ b = SumOver(t)
    BY DEF a, b, m
  <2>2. Combines(v, a, t, b, s)
    BY <1>4, <1>5, <2>1 DEF Combines
  <2>3. SumOver(v) = a * SumOver(t) - b * SumOver(s)
    <3>1. s \in Seq(Int) /\ t \in Seq(Int)
      OBVIOUS
    <3>2. SumCombines(v, a, t, b, s)
      BY SumLinear, Zenon
    <3>. QED  BY <1>1, <1>5, <2>2, <3>1, <3>2, Zenon DEF SumCombines
  <2>. QED  BY <2>1, <2>3
<1>8. SumOver(u) = 0 /\ SumOver(v) = 0
  <2>1. a * b = b * a /\ a * b \in Int
    BY <1>1
  <2>. QED  BY <1>6, <1>7, <2>1
<1>9. ASSUME \A i \in 1 .. m : ~(s[i] * b <= a * t[i]) PROVE FALSE
  <2>1. \A i \in 1 .. m : v[i] <= -1
    BY <1>3, <1>4, <1>9, SMTT(30)
  <2>2. SumOver(v) <= m * (-1)
    BY <1>5, <2>1, SumAtMost
  <2>. QED  BY <1>1, <1>8, <2>2
<1>10. ASSUME \A i \in 1 .. m : ~(s[i] * b >= a * t[i]) PROVE FALSE
  <2>1. \A i \in 1 .. m : u[i] <= -1
    BY <1>3, <1>4, <1>10, SMTT(30)
  <2>2. SumOver(u) <= m * (-1)
    BY <1>5, <2>1, SumAtMost
  <2>. QED  BY <1>1, <1>8, <2>2
<1>. QED  BY <1>9, <1>10 DEF m, a, b

(* The CPUs are some there are, and once they are read the output is their    *)
(* frequencies and temperature.                                               *)
CpuRight ==
    input.kind = "cpufreq" =>
        /\ input.data \in CpuHosts
        /\ read => output = CpuFreqSignals(input.data.cpus, input.data.zones)

(* The ratio of the frequencies.                                              *)
LEMMA FreqBetween ==
    ASSUME NEW cpus \in Seq([cur : Nat \cup {Missing}, max : Nat \cup {Missing}]), FreqRatio(cpus) # Missing
    PROVE  LET shown == {c \in ToSet(cpus) : OrZero(c.max) > 0}
               r == FreqRatio(cpus)
           IN  /\ \E c \in shown : OrZero(c.cur) * r.den <= r.num * c.max
               /\ \E c \in shown : OrZero(c.cur) * r.den >= r.num * c.max
<1> DEFINE S == {i \in DOMAIN cpus : OrZero(cpus[i].max) > 0}
           p == Pick(cpus, S)
           m == Len(p)
           s == [i \in DOMAIN p |-> OrZero(p[i].cur)]
           t == [i \in DOMAIN p |-> p[i].max]
           r == FreqRatio(cpus)
           shown == {c \in ToSet(cpus) : OrZero(c.max) > 0}
<1>0. \A i \in DOMAIN cpus : cpus[i] \in [cur : Nat \cup {Missing}, max : Nat \cup {Missing}]
  <2> DEFINE R == [cur : Nat \cup {Missing}, max : Nat \cup {Missing}]
  <2>1. cpus \in Seq(R)
    OBVIOUS
  <2>. HIDE DEF R
  <2>2. \A i \in DOMAIN cpus : cpus[i] \in R
    BY <2>1
  <2>. QED  BY <2>2 DEF R
<1>1. IsVector(cpus) /\ S \in SUBSET DOMAIN cpus
  BY VectorElements
<1>2. IsVector(p) /\ ToSet(p) = {cpus[i] : i \in S}
  BY <1>1, PickSet
<1>3. ToSet(p) = shown
  BY <1>2 DEF ToSet
<1>4. FreqRatio(cpus) = IF p = <<>> THEN Missing ELSE [num |-> SumOver(s), den |-> SumOver(t)]
  BY DEF FreqRatio
<1>. HIDE DEF p
<1>5. p # <<>> /\ m \in Nat /\ DOMAIN p = 1 .. m /\ m > 0
  <2>1. m \in Nat /\ DOMAIN p = 1 .. m /\ p \in Seq({p[i] : i \in DOMAIN p})
    BY <1>2, VectorElements
  <2>2. p # <<>>
    BY <1>4
  <2>. QED  BY <2>1, <2>2
<1>6. \A i \in 1 .. m : p[i] \in shown
  BY <1>3, <1>5 DEF ToSet
<1>7. \A c \in shown : OrZero(c.cur) \in Int /\ c.max \in Int
  <2> SUFFICES ASSUME NEW c \in shown PROVE OrZero(c.cur) \in Int /\ c.max \in Int
    OBVIOUS
  <2>0. PICK i \in DOMAIN cpus : c = cpus[i]
    BY DEF ToSet
  <2>1. c \in [cur : Nat \cup {Missing}, max : Nat \cup {Missing}] /\ OrZero(c.max) > 0
    <3>1. cpus[i] \in [cur : Nat \cup {Missing}, max : Nat \cup {Missing}]
      BY <1>0, <2>0
    <3>2. OrZero(c.max) > 0
      OBVIOUS
    <3>. QED  BY <2>0, <3>1, <3>2
  <2>2. c.cur \in Nat \cup {Missing} /\ c.max \in Nat \cup {Missing}
    BY <2>1
  <2>3. c.max # Missing
    BY <2>1 DEF OrZero
  <2>. QED  BY <2>2, <2>3 DEF OrZero
<1>. HIDE DEF shown, m
<1>8. /\ s \in [1 .. m -> Int] /\ t \in [1 .. m -> Int]
      /\ \A i \in 1 .. m : s[i] = OrZero(p[i].cur) /\ t[i] = p[i].max
  BY <1>5, <1>6, <1>7
<1>9. r.num = SumOver(s) /\ r.den = SumOver(t)
  BY <1>4, <1>5
<1>. HIDE DEF s, t, r
<1>10. s \in Seq(Int) /\ Len(s) = m /\ t \in Seq(Int) /\ Len(t) = m
  BY <1>5, <1>8, VectorOf
<1>11. /\ \E i \in 1 .. m : s[i] * SumOver(t) <= SumOver(s) * t[i]
       /\ \E i \in 1 .. m : s[i] * SumOver(t) >= SumOver(s) * t[i]
  BY <1>5, <1>10, RatioBetween
<1>. QED  BY <1>6, <1>8, <1>9, <1>11 DEF r, shown

(* The highest temperature is that of a zone that could be read.              *)
LEMMA TempIs ==
    ASSUME NEW zones \in Seq(Int \cup {Junk})
    PROVE  MaxTemp(zones) # Missing <=> \E z \in ToSet(zones) : z # Junk
<1> DEFINE S == {i \in DOMAIN zones : zones[i] # Junk}
           n == Numeric(zones)
<1>1. IsVector(zones) /\ S \in SUBSET DOMAIN zones
  BY VectorElements
<1>2. IsVector(n) /\ ToSet(n) = {zones[i] : i \in S}
  BY <1>1, PickSet DEF Numeric
<1>3. MaxTemp(zones) = IF n = <<>> THEN Missing ELSE Sorted(n)[Len(n)]
  BY DEF MaxTemp
<1>. HIDE DEF n
<1>4. \A z \in ToSet(n) : z \in Int
  <2>1. \A i \in S : zones[i] \in Int
    OBVIOUS
  <2>. QED  BY <1>2, <2>1
<1>5. n \in Seq(Int) /\ (n # <<>> <=> ToSet(n) # {})
  <2>1. n \in Seq({n[i] : i \in DOMAIN n}) /\ \A i \in DOMAIN n : n[i] \in ToSet(n)
    BY <1>2 DEF IsVector, ToSet
  <2>2. n \in Seq(Int)
    BY <1>4, <2>1
  <2>3. n = <<>> => ToSet(n) = {}
    BY DEF ToSet
  <2>4. n # <<>> => 1 \in DOMAIN n
    BY <2>2
  <2>. QED  BY <2>1, <2>2, <2>3, <2>4
<1>6. ToSet(n) # {} <=> \E z \in ToSet(zones) : z # Junk
  <2>1. ToSet(n) # {} <=> \E i \in DOMAIN zones : zones[i] # Junk
    BY <1>2
  <2>. QED  BY <2>1 DEF ToSet
<1>7. ASSUME n # <<>> PROVE Sorted(n)[Len(n)] \in Int
  <2>1. Len(n) \in 1 .. Len(n)
    BY <1>5, <1>7
  <2>2. Sorted(n) \in Seq(Int) /\ Len(Sorted(n)) = Len(n)
    BY <1>5, SortedFits
  <2>. QED  BY <2>1, <2>2
<1>. QED  BY <1>3, <1>5, <1>6, <1>7, MarkersAssumption

(* The parts of LimitsFit that are about CPUs.                                *)
FrequenciesFit ==
    Done("cpufreq") /\ "freq_ratio" \in DOMAIN output =>
          LET shown == {c \in ToSet(input.data.cpus) : OrZero(c.max) > 0}
              r == output.freq_ratio
          IN  /\ \E c \in shown : OrZero(c.cur) * r.den <= r.num * c.max
              /\ \E c \in shown : OrZero(c.cur) * r.den >= r.num * c.max

(* A temperature is shown exactly when a zone has one.                        *)
TemperatureFits ==
    Done("cpufreq") =>
          ("temp_celsius" \in DOMAIN output <=> \E z \in ToSet(input.data.zones) : z # Junk)

(* Both parts hold of what is read.                                           *)
LEMMA CpuFits == CpuRight => FrequenciesFit /\ TemperatureFits
<1> SUFFICES ASSUME CpuRight, Done("cpufreq") PROVE FrequenciesFit /\ TemperatureFits
  BY DEF FrequenciesFit, TemperatureFits
<1> DEFINE cpus == input.data.cpus
           zones == input.data.zones
           f == [freq_ratio |-> FreqRatio(cpus), temp_celsius |-> MaxTemp(zones)]
<1>1. /\ cpus \in Seq([cur : Nat \cup {Missing}, max : Nat \cup {Missing}])
      /\ zones \in Seq(Int \cup {Junk})
      /\ output = Present(f)
  BY CpuHostsAssumption DEF Done, CpuRight, CpuFreqSignals
<1>. HIDE DEF cpus, zones
<1>2. /\ "freq_ratio" \in DOMAIN f /\ "temp_celsius" \in DOMAIN f
      /\ f["freq_ratio"] = FreqRatio(cpus) /\ f["temp_celsius"] = MaxTemp(zones)
  OBVIOUS
<1>. HIDE DEF f
<1>3. /\ "freq_ratio" \in DOMAIN output <=> FreqRatio(cpus) # Missing
      /\ "temp_celsius" \in DOMAIN output <=> MaxTemp(zones) # Missing
      /\ "freq_ratio" \in DOMAIN output => output.freq_ratio = FreqRatio(cpus)
  BY <1>1, <1>2, PresentIs
<1>4. TemperatureFits
  <2>1. MaxTemp(zones) # Missing <=> \E z \in ToSet(zones) : z # Junk
    BY <1>1, TempIs
  <2>. QED  BY <1>3, <2>1 DEF TemperatureFits, zones
<1>5. FrequenciesFit
  <2> SUFFICES ASSUME "freq_ratio" \in DOMAIN output PROVE FrequenciesFit
    BY DEF FrequenciesFit
  <2> DEFINE shown == {c \in ToSet(cpus) : OrZero(c.max) > 0}
             r == output.freq_ratio
  <2>1. FreqRatio(cpus) # Missing /\ r = FreqRatio(cpus)
    BY <1>3
  <2>. HIDE DEF r
  <2>2. /\ \E c \in shown : OrZero(c.cur) * r.den <= r.num * c.max
        /\ \E c \in shown : OrZero(c.cur) * r.den >= r.num * c.max
    BY <1>1, <2>1, FreqBetween
  <2>. QED  BY <2>2, Zenon DEF FrequenciesFit, r, cpus
<1>. QED  BY <1>4, <1>5

(* All that ProbesFit asks holds of what is read.                             *)
LEMMA ProbesShow == InterruptsRight /\ BpfRight /\ CgroupRight /\ CpuRight => ProbesFit
<1> SUFFICES ASSUME InterruptsRight, BpfRight, CgroupRight, CpuRight PROVE ProbesFit
  OBVIOUS
<1>1. IrqShareFits /\ MedianFits
  BY InterruptsFit, BpfFit
<1>2. GroupsFit /\ FrequenciesFit /\ TemperatureFits
  BY GroupFits, CpuFits
<1>3. LimitsFit
  BY <1>2, Zenon DEF LimitsFit, GroupsFit, FrequenciesFit, TemperatureFits
<1>. QED  BY <1>1, <1>3 DEF ProbesFit

-------------------------------------------------------------------------------
(* Signals out of the lines of commands.                                      *)

(* The smallest number is the one that no other one is below.                 *)
LEMMA LeastIs ==
    ASSUME NEW S, S \subseteq Int, NEW x \in S, \A y \in S : x <= y
    PROVE  Min(S) = x
<1>1. \E z \in S : \A y \in S : z <= y
  OBVIOUS
<1>2. Min(S) \in S /\ \A y \in S : Min(S) <= y
  BY <1>1, Zenon DEF Min
<1> DEFINE z == Min(S)
<1>. HIDE DEF z
<1>3. z \in S /\ z <= x /\ x <= z
  BY <1>2 DEF z
<1>4. z \in Int /\ x \in Int
  BY <1>3
<1>5. z = x
  BY <1>3, <1>4
<1>. QED  BY <1>5 DEF z

(* A number that no other is above is the maximum.                            *)
LEMMA GreatestIs ==
    ASSUME NEW S, S \subseteq Int, NEW x \in S, \A y \in S : x >= y
    PROVE  Max(S) = x
<1>1. \E z \in S : \A y \in S : z >= y
  OBVIOUS
<1>2. Max(S) \in S /\ \A y \in S : Max(S) >= y
  BY <1>1, Zenon DEF Max
<1> DEFINE z == Max(S)
<1>. HIDE DEF z
<1>3. z \in S /\ z >= x /\ x >= z
  BY <1>2 DEF z
<1>4. z \in Int /\ x \in Int
  BY <1>3
<1>5. z = x
  BY <1>3, <1>4
<1>. QED  BY <1>5 DEF z

(* The lines of which a pattern does not say one of some things, those in     *)
(* which it finds a number, and those numbers; a line without one is zero.    *)
LinesWithout(lines, p, none) == {k \in DOMAIN lines : lines[k][p] \notin none}
NumbersIn(lines, p) == LinesWithout(lines, p, {NoMatch, NoNumber})
ValuesOf(lines, p) == {lines[k][p] : k \in NumbersIn(lines, p)}
ValuesOrNone(lines, p) == [k \in DOMAIN lines |-> IF k \in NumbersIn(lines, p) THEN lines[k][p] ELSE 0]

(* What is sought in the lines.                                               *)
SoughtIn(lines, p, aggregate) ==
    CASE aggregate = "count" -> Fraction(Cardinality(LinesWithout(lines, p, {NoMatch})), 1)
      [] aggregate = "last" -> Fraction(lines[Max(NumbersIn(lines, p))][p], 1)
      [] aggregate = "min" -> Fraction(Min(ValuesOf(lines, p)), 1)
      [] aggregate = "max" -> Fraction(Max(ValuesOf(lines, p)), 1)
      [] aggregate = "avg" -> Fraction(SumOver(ValuesOrNone(lines, p)), Cardinality(NumbersIn(lines, p)))

(* What is captured: the numbers, in the order of their lines.                *)
CapturedFrom(lines, p, c) ==
    LET S == NumbersIn(lines, p)
        n == Cardinality(S)
    IN  /\ S \in SUBSET (1 .. Len(lines)) /\ Len(lines) \in Nat /\ n \in Nat
        /\ c \in Seq(Int) /\ Len(c) = n
        /\ \A k \in 1 .. n : Nth(S, k) \in S /\ c[k] = lines[Nth(S, k)][p]
        /\ \A i \in S : lines[i][p] \in Int

(* Every number is captured, and nothing else.                                *)
LEMMA CapturedIs ==
    ASSUME NEW lines, IsVector(lines), NEW p,
           \A l \in ToSet(lines) : l[p] \in Int \cup {NoMatch, NoNumber}
    PROVE  CapturedFrom(lines, p, Captured(lines, p))
<1> DEFINE S == NumbersIn(lines, p)
           n == Cardinality(S)
           T == {lines[i] : i \in DOMAIN lines}
           with == Pick(lines, S)
           c == [i \in DOMAIN with |-> with[i][p]]
<1>1. lines \in Seq(T) /\ Len(lines) \in Nat /\ DOMAIN lines = 1 .. Len(lines)
  BY VectorElements
<1>2. S \in SUBSET (1 .. Len(lines))
  BY <1>1 DEF NumbersIn, LinesWithout
<1>3. n \in Nat
  BY <1>1, <1>2, NumbersFinite
<1>4. \A i \in S : lines[i][p] \in Int
  BY DEF NumbersIn, LinesWithout, ToSet
<1>5. Captured(lines, p) = c
  BY Zenon DEF Captured, NumbersIn, LinesWithout
<1>. HIDE DEF S, T
<1>6. with \in Seq(T) /\ Len(with) = n /\ \A k \in 1 .. n : Nth(S, k) \in S /\ with[k] = lines[Nth(S, k)]
  BY <1>1, <1>2, PickTyped
<1>. HIDE DEF with, n
<1>7. DOMAIN with = 1 .. n
  BY <1>6
<1>8. \A k \in 1 .. n : c[k] = lines[Nth(S, k)][p] /\ c[k] \in Int
  BY <1>4, <1>6, <1>7
<1>9. c \in [1 .. n -> Int]
  BY <1>7, <1>8
<1>. HIDE DEF c
<1>10. c \in Seq(Int) /\ Len(c) = n
  BY <1>3, <1>9, VectorOf
<1>. QED  BY <1>1, <1>2, <1>3, <1>4, <1>5, <1>6, <1>8, <1>10, Zenon DEF CapturedFrom, S, n

(* The values are those that were captured.                                   *)
LEMMA CapturedValues ==
    ASSUME NEW lines, NEW p, NEW c, CapturedFrom(lines, p, c)
    PROVE  ToSet(c) = ValuesOf(lines, p) /\ (c # <<>> <=> NumbersIn(lines, p) # {})
<1> DEFINE S == NumbersIn(lines, p)
           n == Cardinality(S)
           m == Len(lines)
<1>1. /\ S \in SUBSET (1 .. m) /\ m \in Nat /\ n \in Nat
      /\ c \in Seq(Int) /\ Len(c) = n
      /\ \A k \in 1 .. n : Nth(S, k) \in S /\ c[k] = lines[Nth(S, k)][p]
  BY Zenon DEF CapturedFrom
<1>. HIDE DEF S, m
<1>2. ASSUME NEW i \in S PROVE \E k \in 1 .. n : Nth(S, k) = i
  BY <1>1, NthIs
<1>. HIDE DEF n
<1>3. DOMAIN c = 1 .. n
  BY <1>1
<1>4. ASSUME NEW v PROVE v \in ToSet(c) <=> v \in {lines[k][p] : k \in S}
  <2>1. v \in ToSet(c) <=> \E k \in 1 .. n : c[k] = v
    BY <1>3 DEF ToSet
  <2>2. v \in {lines[k][p] : k \in S} <=> \E i \in S : lines[i][p] = v
    OBVIOUS
  <2>3. ASSUME NEW k \in 1 .. n, c[k] = v PROVE \E i \in S : lines[i][p] = v
    BY <1>1, <2>3, Zenon
  <2>4. ASSUME NEW i \in S, lines[i][p] = v PROVE \E k \in 1 .. n : c[k] = v
    <3>1. PICK k \in 1 .. n : Nth(S, k) = i
      BY <1>2
    <3>2. c[k] = lines[Nth(S, k)][p]
      BY <1>1
    <3>. QED  BY <2>4, <3>1, <3>2, Zenon
  <2>. QED  BY <2>1, <2>2, <2>3, <2>4, Zenon
<1>5. ToSet(c) = {lines[k][p] : k \in S}
  BY <1>4
<1>6. c # <<>> <=> S # {}
  <2>1. c # <<>> => 1 \in DOMAIN c
    BY <1>1
  <2>2. c = <<>> => DOMAIN c = {}
    OBVIOUS
  <2>. QED  BY <1>1, <1>2, <1>3, <2>1, <2>2
<1>. QED  BY <1>5, <1>6 DEF ValuesOf, S

(* What was captured last is what the last line with a number says.           *)
LEMMA CapturedLast ==
    ASSUME NEW lines, NEW p, NEW c, CapturedFrom(lines, p, c), c # <<>>
    PROVE  c[Len(c)] = lines[Max(NumbersIn(lines, p))][p]
<1> DEFINE S == NumbersIn(lines, p)
           n == Cardinality(S)
           m == Len(lines)
<1>1. /\ S \in SUBSET (1 .. m) /\ m \in Nat /\ n \in Nat /\ Len(c) = n
      /\ \A k \in 1 .. n : c[k] = lines[Nth(S, k)][p]
  BY Zenon DEF CapturedFrom
<1>2. S # {}
  BY CapturedValues
<1>. HIDE DEF S, m
<1>3. PICK x \in S : \A j \in S : j <= x
  BY <1>1, <1>2, FirstAndLast
<1>4. {j \in S : j <= x} = S
  BY <1>3
<1>5. n \in 1 .. n /\ Nth(S, n) = x
  <2>1. LET k == Cardinality({j \in S : j <= x}) IN k \in 1 .. Cardinality(S) /\ Nth(S, k) = x
    BY <1>1, NthIs
  <2>. QED  BY <1>4, <2>1
<1>6. Max(S) = x
  <2>1. S \subseteq Int
    BY <1>1
  <2>2. \A y \in S : x >= y
    BY <1>3, <2>1
  <2>. QED  BY <2>1, <2>2, GreatestIs
<1>. QED  BY <1>1, <1>5, <1>6 DEF S

(* The sum of what was captured is that over all lines.                       *)
LEMMA CapturedSum ==
    ASSUME NEW lines, IsVector(lines), NEW p, NEW c, CapturedFrom(lines, p, c)
    PROVE  SumOver(c) = SumOver(ValuesOrNone(lines, p))
<1> DEFINE S == NumbersIn(lines, p)
           n == Cardinality(S)
           m == Len(lines)
           d == ValuesOrNone(lines, p)
           Upto(i) == {j \in S : j <= i}
           C(i) == Cardinality(Upto(i))
<1>1. /\ S \in SUBSET (1 .. m) /\ m \in Nat /\ n \in Nat
      /\ c \in Seq(Int) /\ Len(c) = n
      /\ \A k \in 1 .. n : Nth(S, k) \in S /\ c[k] = lines[Nth(S, k)][p]
      /\ \A i \in S : lines[i][p] \in Int
  BY Zenon DEF CapturedFrom
<1>2. DOMAIN lines = 1 .. m
  BY VectorElements
<1>3. \A i \in 1 .. m : d[i] = IF i \in S THEN lines[i][p] ELSE 0
  BY <1>2 DEF ValuesOrNone
<1>4. d = [i \in 1 .. m |-> d[i]]
  BY <1>2 DEF ValuesOrNone
<1>. HIDE DEF S, m, n, d
<1>5. d \in [1 .. m -> Int]
  BY <1>1, <1>3, <1>4
<1>6. d \in Seq(Int) /\ Len(d) = m
  BY <1>1, <1>5, VectorOf
<1>7. PICK P : Sums(P, c) /\ SumOver(c) = P[n]
  BY <1>1, SumIs
<1>8. PICK Q : Sums(Q, d) /\ SumOver(d) = Q[m]
  BY <1>6, SumIs
<1>9. /\ P[0] = 0 /\ \A k \in 1 .. n : P[k] = P[k - 1] + c[k]
      /\ Q[0] = 0 /\ \A k \in 1 .. m : Q[k] = Q[k - 1] + d[k]
      /\ P \in [0 .. n -> Int] /\ Q \in [0 .. m -> Int]
  BY <1>1, <1>6, <1>7, <1>8 DEF Sums
<1>10. IsFiniteSet(S) /\ Cardinality(S) = n
  BY <1>1, NumbersFinite DEF n
<1>11. ASSUME NEW i \in 0 .. m PROVE C(i) \in 0 .. n
  <2>1. Upto(i) \in SUBSET S
    OBVIOUS
  <2>. HIDE DEF Upto
  <2>2. IsFiniteSet(Upto(i)) /\ Cardinality(Upto(i)) <= Cardinality(S)
    BY <1>10, <2>1, FS_Subset
  <2>3. Cardinality(Upto(i)) \in Nat
    BY <2>2, FS_CardinalityType
  <2>. QED  BY <1>1, <1>10, <2>2, <2>3
<1> DEFINE G == {i \in Nat : i <= m => Q[i] = P[C(i)]}
<1>12. 0 \in G
  <2>1. Upto(0) = {}
    <3>1. ASSUME NEW j \in S PROVE ~(j <= 0)
      BY <1>1
    <3>. QED  BY <3>1
  <2>2. C(0) = 0
    BY <2>1, FS_EmptySet
  <2>. HIDE DEF C
  <2>. QED  BY <1>9, <2>2
<1>13. ASSUME NEW i \in Nat, i \in G PROVE i + 1 \in G
  <2> SUFFICES ASSUME i + 1 <= m PROVE Q[i + 1] = P[C(i + 1)]
    OBVIOUS
  <2>1. i + 1 \in 1 .. m /\ i \in 0 .. m /\ (i + 1) - 1 = i
    BY <1>1
  <2>2. Q[i + 1] = P[C(i)] + d[i + 1] /\ Q[i] = P[C(i)]
    <3>. HIDE DEF C
    <3>1. Q[i] = P[C(i)]
      BY <1>1, <1>13, <2>1
    <3>2. Q[i + 1] = Q[i] + d[i + 1]
      BY <1>9, <2>1
    <3>. QED  BY <3>1, <3>2
  <2>3. C(i) \in 0 .. n /\ P[C(i)] \in Int
    <3>1. C(i) \in 0 .. n
      BY <1>11, <2>1
    <3>. HIDE DEF C
    <3>. QED  BY <1>9, <3>1
  <2>4. CASE i + 1 \notin S
    <3>1. ASSUME NEW j \in S PROVE j <= i + 1 <=> j <= i
      <4>1. j \in Nat /\ j # i + 1
        BY <1>1, <2>4
      <4>. QED  BY <4>1
    <3>2. Upto(i + 1) = Upto(i)
      BY <3>1
    <3>3. d[i + 1] = 0
      BY <1>3, <2>1, <2>4
    <3>4. C(i + 1) = C(i)
      BY <3>2
    <3>. HIDE DEF C
    <3>. QED  BY <2>2, <2>3, <3>3, <3>4
  <2>5. CASE i + 1 \in S
    <3> DEFINE k == C(i + 1)
    <3>1. k \in 1 .. n /\ Nth(S, k) = i + 1
      <4>1. LET h == Cardinality({j \in S : j <= i + 1}) IN h \in 1 .. Cardinality(S) /\ Nth(S, h) = i + 1
        BY <1>1, <2>5, NthIs
      <4>. QED  BY <1>10, <4>1
    <3>2. C(i) = k - 1
      <4>1. ASSUME NEW j \in S PROVE j <= i + 1 /\ j # i + 1 <=> j <= i
        <5>1. j \in Nat
          BY <1>1
        <5>. QED  BY <5>1
      <4>2. Upto(i) = Upto(i + 1) \ {i + 1}
        BY <4>1
      <4>3. i + 1 \in Upto(i + 1)
        BY <2>5
      <4>4. Upto(i + 1) \in SUBSET S
        OBVIOUS
      <4> DEFINE U == Upto(i + 1)
      <4>. HIDE DEF U
      <4>5. IsFiniteSet(U)
        BY <1>10, <4>4, FS_Subset DEF U
      <4>6. Cardinality(U \ {i + 1}) = Cardinality(U) - 1
        BY <4>3, <4>5, FS_RemoveElement DEF U
      <4>. QED  BY <4>2, <4>6 DEF U
    <3>. HIDE DEF k, C
    <3>3. P[k] = P[k - 1] + c[k]
      BY <1>9, <3>1
    <3>4. c[k] = lines[i + 1][p] /\ d[i + 1] = lines[i + 1][p]
      BY <1>1, <1>3, <2>1, <2>5, <3>1
    <3>. QED  BY <2>2, <3>2, <3>3, <3>4 DEF k
  <2>. QED  BY <2>4, <2>5
<1>14. \A i \in Nat : i \in G
  <2>. HIDE DEF G
  <2>. QED  BY <1>12, <1>13, Induction
<1>15. Upto(m) = S
  <2>1. ASSUME NEW j \in S PROVE j <= m
    BY <1>1
  <2>. QED  BY <2>1
<1>16. Q[m] = P[n]
  <2>1. C(m) = n
    BY <1>10, <1>15
  <2>. HIDE DEF C
  <2>. QED  BY <1>1, <1>14, <2>1
<1>. QED  BY <1>7, <1>8, <1>16 DEF d

(* A pattern is found in as many lines as it matches.                         *)
LEMMA MatchingCounts ==
    ASSUME NEW lines, IsVector(lines), NEW p
    PROVE  Len(Matching(lines, p)) = Cardinality(LinesWithout(lines, p, {NoMatch}))
<1> DEFINE S == {k \in DOMAIN lines : lines[k][p] # NoMatch}
           T == {lines[i] : i \in DOMAIN lines}
<1>1. lines \in Seq(T) /\ DOMAIN lines = 1 .. Len(lines)
  BY VectorElements
<1>2. S \in SUBSET (1 .. Len(lines))
  BY <1>1
<1>. HIDE DEF S, T
<1>3. Len(Pick(lines, S)) = Cardinality(S)
  BY <1>1, <1>2, PickTyped
<1>4. S = LinesWithout(lines, p, {NoMatch})
  BY DEF LinesWithout, S
<1>. QED  BY <1>3, <1>4 DEF Matching, S

(* The first and the last of the sorted values.                               *)
LEMMA EndsAre ==
    ASSUME NEW c \in Seq(Int), c # <<>>
    PROVE  /\ Sorted(c)[1] = Min(ToSet(c)) /\ Sorted(c)[Len(c)] = Max(ToSet(c))
           /\ Min(ToSet(c)) \in Int /\ Max(ToSet(c)) \in Int
           /\ \A i \in 1 .. Len(c) : Min(ToSet(c)) <= c[i] /\ c[i] <= Max(ToSet(c))
<1> DEFINE m == Len(c)
           a == Sorted(c)[1]
           b == Sorted(c)[m]
<1>1. m \in Nat /\ m > 0 /\ DOMAIN c = 1 .. m /\ \A i \in 1 .. m : c[i] \in Int
  OBVIOUS
<1>2. PICK p \in Bijection(1 .. m, 1 .. m) : \A n \in 1 .. m : Sorted(c)[n] = c[p[n]]
  BY SortedFits
<1>3. \A n \in 1 .. m : p[n] \in 1 .. m
  BY <1>2 DEF Bijection, Injection
<1>4. 1 \in 1 .. m /\ m \in 1 .. m
  BY <1>1
<1>5. a \in ToSet(c) /\ b \in ToSet(c)
  BY <1>1, <1>2, <1>3, <1>4 DEF ToSet
<1>6. \A i \in 1 .. m : a <= c[i] /\ c[i] <= b
  BY <1>1, Extremes
<1>7. ToSet(c) \subseteq Int
  BY <1>1 DEF ToSet
<1>. HIDE DEF a, b
<1>8. \A y \in ToSet(c) : a <= y /\ b >= y
  <2> SUFFICES ASSUME NEW y \in ToSet(c) PROVE a <= y /\ b >= y
    OBVIOUS
  <2>1. PICK i \in DOMAIN c : y = c[i]
    BY DEF ToSet
  <2>2. a \in Int /\ b \in Int /\ y \in Int
    BY <1>5, <1>7
  <2>. QED  BY <1>1, <1>6, <2>1, <2>2
<1>9. Min(ToSet(c)) = a
  BY <1>5, <1>7, <1>8, LeastIs
<1>10. Max(ToSet(c)) = b
  BY <1>5, <1>7, <1>8, GreatestIs
<1>. QED  BY <1>5, <1>6, <1>7, <1>9, <1>10 DEF a, b, m

(* What an aggregate makes of what was captured is what is sought.            *)
LEMMA AggregatedFits ==
    ASSUME NEW lines, IsVector(lines), NEW p, NEW c, CapturedFrom(lines, p, c), c # <<>>,
           NEW how \in Aggregates \ {"count"}
    PROVE  Aggregated(c, how) = SoughtIn(lines, p, how)
<1> DEFINE m == Len(c)
<1>1. c \in Seq(Int) /\ m = Cardinality(NumbersIn(lines, p))
  BY Zenon DEF CapturedFrom
<1>2. ToSet(c) = ValuesOf(lines, p)
  BY CapturedValues
<1>3. Sorted(c)[1] = Min(ToSet(c)) /\ Sorted(c)[m] = Max(ToSet(c))
  BY <1>1, EndsAre
<1>4. Last(c) = lines[Max(NumbersIn(lines, p))][p]
  BY CapturedLast DEF Last
<1>5. SumOver(c) = SumOver(ValuesOrNone(lines, p))
  BY CapturedSum
<1>6. how \in {"last", "max", "min", "avg"}
  BY DEF Aggregates
<1>7. CASE how = "last"
  <2>1. Aggregated(c, how) = Fraction(Last(c), 1)
    BY <1>7 DEF Aggregated
  <2>2. SoughtIn(lines, p, how) = Fraction(lines[Max(NumbersIn(lines, p))][p], 1)
    BY <1>7 DEF SoughtIn
  <2>. QED  BY <1>4, <2>1, <2>2
<1>8. CASE how = "max"
  <2>1. Aggregated(c, how) = Fraction(Sorted(c)[m], 1)
    BY <1>8 DEF Aggregated
  <2>2. SoughtIn(lines, p, how) = Fraction(Max(ValuesOf(lines, p)), 1)
    BY <1>8 DEF SoughtIn
  <2>. QED  BY <1>2, <1>3, <2>1, <2>2
<1>9. CASE how = "min"
  <2>1. Aggregated(c, how) = Fraction(Sorted(c)[1], 1)
    BY <1>9 DEF Aggregated
  <2>2. SoughtIn(lines, p, how) = Fraction(Min(ValuesOf(lines, p)), 1)
    BY <1>9 DEF SoughtIn
  <2>. QED  BY <1>2, <1>3, <2>1, <2>2
<1>10. CASE how = "avg"
  <2>1. Aggregated(c, how) = Fraction(SumOver(c), m)
    BY <1>10 DEF Aggregated
  <2>2. SoughtIn(lines, p, how) = Fraction(SumOver(ValuesOrNone(lines, p)), Cardinality(NumbersIn(lines, p)))
    BY <1>10 DEF SoughtIn
  <2>. QED  BY <1>1, <1>5, <2>1, <2>2
<1>. QED  BY <1>6, <1>7, <1>8, <1>9, <1>10

(* What an extract shows of the lines.                                        *)
FitsExtract(lines, e, v) == v = SoughtIn(lines, e.pattern, e.aggregate)

(* An extraction shows something when it counts, or when a line has a number  *)
(* for its pattern.                                                           *)
ShowsExtract(lines, e) == e.aggregate = "count" \/ NumbersIn(lines, e.pattern) # {}

(* An extraction has one of the aggregates, and every line a value, no match  *)
(* or no number for its pattern.                                              *)
ExtractTyped(lines, e) ==
    e.aggregate \in Aggregates /\ \A l \in ToSet(lines) : l[e.pattern] \in Int \cup {NoMatch, NoNumber}

(* What an extract that shows takes out of the lines.                         *)
TakenOut(lines, e) ==
    Signal(e.id,
           Number(IF e.aggregate = "count" THEN Fraction(Len(Matching(lines, e.pattern)), 1)
                  ELSE Aggregated(Captured(lines, e.pattern), e.aggregate)),
           NoSamples)

(* What is taken out of the lines is what the aggregate says, under the id of *)
(* the extraction.                                                            *)
LEMMA TakenFits ==
    ASSUME NEW lines, IsVector(lines), NEW e, ExtractTyped(lines, e), ShowsExtract(lines, e)
    PROVE  TakenOut(lines, e).id = e.id /\ FitsExtract(lines, e, TakenOut(lines, e).value.v)
<1> DEFINE n == IF e.aggregate = "count" THEN Fraction(Len(Matching(lines, e.pattern)), 1)
                ELSE Aggregated(Captured(lines, e.pattern), e.aggregate)
           s == TakenOut(lines, e)
           p == e.pattern
           c == Captured(lines, p)
<1>1. s.id = e.id /\ s.value.v = n
  <2>. HIDE DEF n
  <2>1. s = Signal(e.id, Number(n), NoSamples)
    BY Zenon DEF TakenOut, n
  <2>. QED  BY <2>1 DEF Signal, Number
<1>. HIDE DEF s
<1>2. CASE e.aggregate = "count"
  <2>1. n = Fraction(Len(Matching(lines, p)), 1)
    BY <1>2
  <2>2. Len(Matching(lines, p)) = Cardinality(LinesWithout(lines, p, {NoMatch}))
    BY MatchingCounts
  <2>. HIDE DEF n
  <2>3. SoughtIn(lines, p, e.aggregate) = Fraction(Cardinality(LinesWithout(lines, p, {NoMatch})), 1)
    BY <1>2 DEF SoughtIn
  <2>4. n = SoughtIn(lines, p, e.aggregate)
    BY <2>1, <2>2, <2>3
  <2>. QED  BY <1>1, <2>4 DEF FitsExtract, s
<1>3. CASE e.aggregate # "count"
  <2>1. n = Aggregated(c, e.aggregate)
    BY <1>3
  <2>0. \A l \in ToSet(lines) : l[p] \in Int \cup {NoMatch, NoNumber}
    BY DEF ExtractTyped
  <2>2. CapturedFrom(lines, p, c)
    BY <2>0, CapturedIs, Zenon
  <2>3. c # <<>> /\ e.aggregate \in Aggregates \ {"count"}
    <3>1. NumbersIn(lines, p) # {} /\ e.aggregate \in Aggregates
      BY <1>3 DEF ShowsExtract, ExtractTyped
    <3>. HIDE DEF c, p
    <3>2. c # <<>>
      BY <2>2, <3>1, CapturedValues
    <3>. QED  BY <1>3, <3>1, <3>2
  <2>. HIDE DEF n, c
  <2>4. n = SoughtIn(lines, p, e.aggregate)
    BY <2>1, <2>2, <2>3, AggregatedFits
  <2>. QED  BY <1>1, <2>4, Zenon DEF FitsExtract, s
<1>. QED  BY <1>2, <1>3

(* The signals of a command are those of the extracts that show.              *)
LEMMA CommandMatches ==
    ASSUME NEW lines, NEW extracts, IsVector(lines), IsVector(extracts),
           \A e \in ToSet(extracts) : ExtractTyped(lines, e),
           NEW W, W = [k \in DOMAIN extracts |-> W[k]], NEW F, NEW R,
           \A k \in DOMAIN extracts :
               /\ W[k] \in F <=> ShowsExtract(lines, extracts[k])
               /\ W[k] \in F => <<TakenOut(lines, extracts[k]), W[k]>> \in R
    PROVE  PairedBy(ExtractSignals(lines, extracts), Sieved(W, F), R) /\ IsVector(ExtractSignals(lines, extracts))
<1> DEFINE S == {i \in DOMAIN extracts :
                   extracts[i].aggregate = "count" \/ Captured(lines, extracts[i].pattern) # <<>>}
           taken == Pick(extracts, S)
           o == ExtractSignals(lines, extracts)
           n == Cardinality(S)
<1>1. /\ extracts \in Seq({extracts[i] : i \in DOMAIN extracts})
      /\ Len(extracts) \in Nat /\ DOMAIN extracts = 1 .. Len(extracts)
  BY VectorElements
<1>2. S \in SUBSET (1 .. Len(extracts))
  BY <1>1
<1>3. S = {i \in DOMAIN W : W[i] \in F}
  <2>1. ASSUME NEW i \in DOMAIN extracts
        PROVE  Captured(lines, extracts[i].pattern) # <<>>
                   <=> NumbersIn(lines, extracts[i].pattern) # {}
    <3> DEFINE p == extracts[i].pattern
    <3>1. ExtractTyped(lines, extracts[i])
      BY DEF ToSet
    <3>2. \A l \in ToSet(lines) : l[p] \in Int \cup {NoMatch, NoNumber}
      BY <3>1 DEF ExtractTyped
    <3>. HIDE DEF p
    <3>3. Captured(lines, p) # <<>> <=> NumbersIn(lines, p) # {}
      <4>1. CapturedFrom(lines, p, Captured(lines, p))
        BY <3>2, CapturedIs, Zenon
      <4>. QED  BY <4>1, CapturedValues
    <3>. QED  BY <3>3 DEF p
  <2>2. \A i \in DOMAIN extracts :
            extracts[i].aggregate = "count" \/ Captured(lines, extracts[i].pattern) # <<>>
                <=> ShowsExtract(lines, extracts[i])
    BY <2>1, Zenon DEF ShowsExtract
  <2>3. DOMAIN W = DOMAIN extracts
    OBVIOUS
  <2>. QED  BY <2>2, <2>3, Zenon
<1>4. \A i \in S : W[i] \in F /\ ExtractTyped(lines, extracts[i])
  BY <1>3 DEF ToSet
<1>5. o = [i \in DOMAIN taken |-> TakenOut(lines, taken[i])]
  BY Zenon DEF ExtractSignals, TakenOut
<1>. HIDE DEF S, o
<1>6. taken \in Seq({extracts[i] : i \in DOMAIN extracts}) /\ Len(taken) = n
      /\ \A k \in 1 .. n : Nth(S, k) \in S /\ taken[k] = extracts[Nth(S, k)]
  BY <1>1, <1>2, PickTyped
<1>7. n \in Nat
  BY <1>1, <1>2, NumbersFinite
<1>. HIDE DEF taken, n
<1>8. DOMAIN taken = 1 .. n
  BY <1>6
<1> DEFINE V == {o[k] : k \in 1 .. n}
<1>9. o \in [1 .. n -> V] /\ \A k \in 1 .. n : o[k] = TakenOut(lines, taken[k])
  BY <1>5, <1>8
<1>. HIDE DEF V
<1>10. o \in Seq(V) /\ Len(o) = n
  BY <1>7, <1>9
<1>11. Sieved(W, F) = [k \in 1 .. n |-> W[Nth(S, k)]]
  BY <1>3, Zenon DEF Sieved, Pick, n
<1> DEFINE K == [k \in 1 .. n |-> W[Nth(S, k)]]
           U == {W[i] : i \in DOMAIN extracts}
<1>12. Len(K) = n /\ \A k \in 1 .. n : K[k] = W[Nth(S, k)]
  <2>1. \A k \in 1 .. n : Nth(S, k) \in DOMAIN extracts
    BY <1>1, <1>2, <1>6
  <2>2. K \in [1 .. n -> U]
    BY <2>1
  <2>3. \A k \in 1 .. n : K[k] = W[Nth(S, k)]
    OBVIOUS
  <2>. HIDE DEF K, U
  <2>4. Len(K) = n
    BY <1>7, <2>2
  <2>. QED  BY <2>3, <2>4
<1>. HIDE DEF K
<1>13. ASSUME NEW k \in 1 .. n PROVE <<o[k], K[k]>> \in R
  <2>1. Nth(S, k) \in S /\ Nth(S, k) \in DOMAIN extracts
    BY <1>1, <1>2, <1>6
  <2>2. <<TakenOut(lines, extracts[Nth(S, k)]), W[Nth(S, k)]>> \in R
    BY <1>4, <2>1
  <2>3. o[k] = TakenOut(lines, extracts[Nth(S, k)]) /\ K[k] = W[Nth(S, k)]
    BY <1>6, <1>9, <1>12
  <2>. QED  BY <2>2, <2>3
<1>14. PairedBy(o, K, R)
  BY <1>10, <1>12, <1>13 DEF PairedBy
<1>15. IsVector(o)
  BY <1>10, VectorElements
<1>. QED  BY <1>11, <1>14, <1>15, Zenon DEF o, K

(* The signals are those of the first repetition.                             *)
ResultsRight ==
    input.kind = "results" =>
        /\ input.data \in Results
        /\ read => output = ExtractedSignals(input.data)

(* The commands that ran, and what is asked of their output.                  *)
FirstOf(data) == IF data = <<>> THEN <<>> ELSE data[1]

(* What is asked of the commands that ran, what each answers, and which       *)
(* extractions show something.                                                *)
AskedOf(ran) == [i \in DOMAIN ran |-> [k \in DOMAIN ran[i].extracts |-> <<i, ran[i].extracts[k]>>]]

(* The signals of each command that ran.                                      *)
AnsweredOf(ran) == [i \in DOMAIN ran |->
    IF ran[i].status = "success" THEN ExtractSignals(ran[i].lines, ran[i].extracts) ELSE <<>>]

(* An extraction is of a command that succeeded, and shows something.         *)
ShowsAsked(ran, w) == ran[w[1]].status = "success" /\ ShowsExtract(ran[w[1]].lines, w[2])

(* Commands that ran, with their lines and extractions.                       *)
RanTyped(ran) ==
    /\ IsVector(ran)
    /\ \A i \in DOMAIN ran :
           /\ IsVector(ran[i].lines) /\ IsVector(ran[i].extracts)
           /\ \A e \in ToSet(ran[i].extracts) : ExtractTyped(ran[i].lines, e)

(* What is asked and shows is what is answered, all commands in their order.  *)
LEMMA AnswersFit ==
    ASSUME NEW ran, RanTyped(ran)
    PROVE  LET wanted == FlattenSeq(AskedOf(ran))
               F == {w \in ToSet(wanted) : ShowsAsked(ran, w)}
               R == {<<TakenOut(ran[w[1]].lines, w[2]), w>> : w \in F}
           IN  /\ PairedBy(FlattenSeq(AnsweredOf(ran)), Sieved(wanted, F), R)
               /\ IsVector(wanted)
               /\ \A w \in F : w[1] \in DOMAIN ran /\ w[2] \in ToSet(ran[w[1]].extracts)
<1> DEFINE ws == AskedOf(ran)
           qs == AnsweredOf(ran)
           wanted == FlattenSeq(ws)
           F == {w \in ToSet(wanted) : ShowsAsked(ran, w)}
           R == {<<TakenOut(ran[w[1]].lines, w[2]), w>> : w \in F}
           A == UNION {ToSet(qs[i]) : i \in DOMAIN ran}
           B == UNION {ToSet(ws[i]) : i \in DOMAIN ran}
<1>1. Len(ran) \in Nat /\ DOMAIN ran = 1 .. Len(ran)
  BY VectorElements DEF RanTyped
<1>2. /\ DOMAIN ws = DOMAIN ran /\ DOMAIN qs = DOMAIN ran
      /\ \A i \in DOMAIN ran : ws[i] = [k \in DOMAIN ran[i].extracts |-> <<i, ran[i].extracts[k]>>]
      /\ \A i \in DOMAIN ran : qs[i] = IF ran[i].status = "success"
                                       THEN ExtractSignals(ran[i].lines, ran[i].extracts) ELSE <<>>
  BY Zenon DEF AskedOf, AnsweredOf
<1>3. IsVector(ws) /\ IsVector(qs)
  <2>1. ws = [i \in 1 .. Len(ran) |-> ws[i]] /\ qs = [i \in 1 .. Len(ran) |-> qs[i]]
    BY <1>1 DEF AskedOf, AnsweredOf
  <2>. HIDE DEF ws, qs
  <2> DEFINE V == {ws[i] : i \in DOMAIN ran} \cup {qs[i] : i \in DOMAIN ran}
  <2>2. ws \in [1 .. Len(ran) -> V] /\ qs \in [1 .. Len(ran) -> V]
    BY <1>1, <2>1
  <2>. HIDE DEF V
  <2>3. ws \in Seq(V) /\ qs \in Seq(V)
    BY <1>1, <2>2, VectorOf
  <2>. QED  BY <2>3, VectorElements
<1>. HIDE DEF ws, qs
<1>4. ASSUME NEW i \in DOMAIN ran
      PROVE  /\ IsVector(ws[i]) /\ Len(ws[i]) \in Nat /\ DOMAIN ws[i] = DOMAIN ran[i].extracts
             /\ ws[i] \in Seq(ToSet(ws[i]))
             /\ ws[i] = [k \in DOMAIN ran[i].extracts |-> ws[i][k]]
             /\ \A k \in DOMAIN ran[i].extracts : ws[i][k] = <<i, ran[i].extracts[k]>>
  <2> DEFINE x == ran[i].extracts
             y == ws[i]
             T == ToSet(y)
  <2>1. Len(x) \in Nat /\ DOMAIN x = 1 .. Len(x)
    BY VectorElements DEF RanTyped
  <2>2. y = [k \in DOMAIN x |-> <<i, x[k]>>]
    BY <1>2
  <2>3. DOMAIN y = DOMAIN x /\ y = [k \in DOMAIN x |-> y[k]] /\ \A k \in DOMAIN x : y[k] = <<i, x[k]>>
    BY <2>2
  <2>. HIDE DEF x, y
  <2>4. y \in [1 .. Len(x) -> T]
    BY <2>1, <2>3 DEF ToSet
  <2>. HIDE DEF T
  <2>5. y \in Seq(T) /\ Len(y) = Len(x)
    BY <2>1, <2>4, VectorOf
  <2>6. IsVector(y)
    BY <2>5, VectorElements
  <2>. QED  BY <2>1, <2>3, <2>5, <2>6 DEF x, y, T
<1>5. ASSUME NEW i \in DOMAIN ran PROVE ws[i] \in Seq(B)
  <2>1. ws[i] \in Seq(ToSet(ws[i])) /\ ToSet(ws[i]) \subseteq B
    BY <1>4
  <2>. HIDE DEF B
  <2>. QED  BY <2>1
<1>6. ToSet(wanted) = B
  <2>1. \A i \in DOMAIN ws : IsVector(ws[i])
    BY <1>2, <1>4
  <2>2. ToSet(FlattenSeq(ws)) = UNION {ToSet(ws[i]) : i \in DOMAIN ws}
    BY <1>3, <2>1, FlattenElements
  <2>. QED  BY <1>2, <2>2
<1>. HIDE DEF wanted
<1>7. ASSUME NEW i \in DOMAIN ran, NEW k \in DOMAIN ran[i].extracts
      PROVE  ws[i][k] \in F <=> ran[i].status = "success" /\ ShowsExtract(ran[i].lines, ran[i].extracts[k])
  <2> DEFINE w == ws[i][k]
             e == ran[i].extracts[k]
  <2>1. w = <<i, e>> /\ w \in B
    <3>1. k \in DOMAIN ws[i] /\ ws[i][k] = <<i, ran[i].extracts[k]>>
      BY <1>4
    <3>2. ws[i][k] \in ToSet(ws[i])
      BY <3>1 DEF ToSet
    <3>. QED  BY <3>1, <3>2
  <2>2. w[1] = i /\ w[2] = e
    BY <2>1
  <2>. HIDE DEF w, e, B
  <2>3. w \in F <=> ShowsAsked(ran, w)
    BY <1>6, <2>1
  <2>4. ShowsAsked(ran, w) <=> ran[i].status = "success" /\ ShowsExtract(ran[i].lines, e)
    BY <2>2 DEF ShowsAsked
  <2>. QED  BY <2>3, <2>4 DEF w, e
<1>8. ASSUME NEW i \in DOMAIN ran, NEW k \in DOMAIN ran[i].extracts, ws[i][k] \in F
      PROVE  <<TakenOut(ran[i].lines, ran[i].extracts[k]), ws[i][k]>> \in R
  <2> DEFINE w == ws[i][k]
  <2>1. w[1] = i /\ w[2] = ran[i].extracts[k]
    <3>1. w = <<i, ran[i].extracts[k]>>
      BY <1>4
    <3>. HIDE DEF w
    <3>. QED  BY <3>1
  <2>. HIDE DEF F, w
  <2>2. <<TakenOut(ran[w[1]].lines, w[2]), w>> \in R
    BY <1>8 DEF w
  <2>. HIDE DEF R
  <2>3. <<TakenOut(ran[i].lines, ran[i].extracts[k]), w>> \in R
    BY <2>1, <2>2
  <2>. QED  BY <2>3 DEF w
<1>. HIDE DEF F, R
<1>9. ASSUME NEW i \in DOMAIN ran PROVE PairedBy(qs[i], Sieved(ws[i], F), R) /\ IsVector(qs[i])
  <2> DEFINE x == ran[i].extracts
             ls == ran[i].lines
             W == ws[i]
  <2>1. IsVector(x) /\ IsVector(ls) /\ \A e \in ToSet(x) : ExtractTyped(ls, e)
    BY DEF RanTyped
  <2>2. W = [k \in DOMAIN x |-> W[k]]
    BY <1>4
  <2>3. CASE ran[i].status = "success"
    <3>1. \A k \in DOMAIN x : /\ W[k] \in F <=> ShowsExtract(ls, x[k])
                              /\ W[k] \in F => <<TakenOut(ls, x[k]), W[k]>> \in R
      BY <1>7, <1>8, <2>3
    <3>. HIDE DEF x, ls, W
    <3>2. PairedBy(ExtractSignals(ls, x), Sieved(W, F), R) /\ IsVector(ExtractSignals(ls, x))
      BY <2>1, <2>2, <3>1, CommandMatches
    <3>3. qs[i] = ExtractSignals(ls, x)
      BY <1>2, <2>3, Zenon DEF ls, x
    <3>. QED  BY <3>2, <3>3 DEF W
  <2>4. CASE ran[i].status # "success"
    <3>1. {k \in DOMAIN W : W[k] \in F} = {}
      BY <1>4, <1>7, <2>4
    <3>2. Cardinality({}) = 0 /\ 1 .. 0 = {}
      BY FS_EmptySet
    <3>3. Sieved(W, F) = [k \in 1 .. 0 |-> W[Nth({}, k)]]
      BY <3>1, <3>2, Zenon DEF Sieved, Pick
    <3>4. Sieved(W, F) = <<>>
      <4> DEFINE g == [k \in 1 .. 0 |-> W[Nth({}, k)]]
      <4>1. DOMAIN g = {}
        BY <3>2
      <4>. QED  BY <3>2, <3>3, <4>1
    <3>5. qs[i] = <<>>
      BY <1>2, <2>4, Zenon
    <3>6. PairedBy(<<>>, <<>>, R)
      BY DEF PairedBy
    <3>. HIDE DEF W
    <3>. QED  BY <3>4, <3>5, <3>6, EmptyVector DEF W
  <2>. QED  BY <2>3, <2>4
<1>10. ASSUME NEW i \in DOMAIN ran PROVE qs[i] \in Seq(A)
  <2>1. qs[i] \in Seq({qs[i][j] : j \in DOMAIN qs[i]})
    BY <1>9, VectorElements
  <2>2. {qs[i][j] : j \in DOMAIN qs[i]} \subseteq A
    BY DEF ToSet
  <2>. HIDE DEF A
  <2>. QED  BY <2>1, <2>2
<1>. HIDE DEF A, B
<1>11. PairedBy(FlattenSeq(qs), Sieved(FlattenSeq(ws), F), R)
  <2>1. \A i \in DOMAIN qs : qs[i] \in Seq(A) /\ ws[i] \in Seq(B) /\ PairedBy(qs[i], Sieved(ws[i], F), R)
    BY <1>2, <1>5, <1>9, <1>10
  <2>. QED  BY <1>2, <1>3, <2>1, FlattenMatches
<1>12. IsVector(wanted)
  <2>1. \A i \in DOMAIN ws : IsVector(ws[i])
    BY <1>2, <1>4
  <2>. QED  BY <1>3, <2>1, FlattenElements DEF wanted
<1>13. ASSUME NEW w \in F PROVE w[1] \in DOMAIN ran /\ w[2] \in ToSet(ran[w[1]].extracts)
  <2>1. PICK i \in DOMAIN ran : w \in ToSet(ws[i])
    BY <1>6 DEF F, B
  <2>2. PICK k \in DOMAIN ran[i].extracts : w = ws[i][k]
    BY <1>4, <2>1 DEF ToSet
  <2>3. w = <<i, ran[i].extracts[k]>>
    BY <1>4, <2>2
  <2>4. w[1] = i /\ w[2] = ran[i].extracts[k]
    BY <2>3
  <2>5. ran[i].extracts[k] \in ToSet(ran[i].extracts)
    BY DEF ToSet
  <2>. QED  BY <2>4, <2>5
<1>. QED  BY <1>11, <1>12, <1>13, Zenon DEF wanted, qs, ws, F, R

(* What the first repetition holds is typed.                                  *)
LEMMA FirstTyped ==
    ASSUME NEW r \in Results
    PROVE  RanTyped(FirstOf(r)) /\ ExtractedSignals(r) = FlattenSeq(AnsweredOf(FirstOf(r)))
<1>1. CASE r = <<>>
  <2>1. FirstOf(r) = <<>> /\ ExtractedSignals(r) = <<>>
    BY <1>1, Zenon DEF FirstOf, ExtractedSignals
  <2>2. AnsweredOf(<<>>) = <<>>
    <3> DEFINE f(i) == IF <<>>[i].status = "success" THEN ExtractSignals(<<>>[i].lines, <<>>[i].extracts) ELSE <<>>
    <3>1. AnsweredOf(<<>>) = [i \in DOMAIN <<>> |-> f(i)]
      BY Zenon DEF AnsweredOf
    <3>. HIDE DEF f
    <3>. QED  BY <3>1
  <2>3. FlattenSeq(<<>>) = <<>>
    <3>1. IsVector(<<>>) /\ \A i \in DOMAIN <<>> : <<>>[i] \in Seq({})
      BY EmptyVector
    <3>2. PICK P : Grows(P, {}, <<>>) /\ FlattenSeq(<<>>) = P[Len(<<>>)]
      BY <3>1, Flattening
    <3>. QED  BY <3>2 DEF Grows
  <2>4. RanTyped(<<>>)
    BY EmptyVector DEF RanTyped
  <2>. QED  BY <2>1, <2>2, <2>3, <2>4
<1>2. CASE r # <<>>
  <2>1. FirstOf(r) = r[1] /\ ExtractedSignals(r) = FlattenSeq(AnsweredOf(r[1]))
    BY <1>2, Zenon DEF FirstOf, ExtractedSignals, AnsweredOf
  <2>2. RanTyped(r[1])
    BY <1>2, ResultsAssumption, Zenon DEF RanTyped, ExtractTyped
  <2>. QED  BY <2>1, <2>2
<1>. QED  BY <1>1, <1>2

(* What was taken out shows what is asked and shows, in its order.            *)
ShowsAll(ran, wanted, out) ==
    LET shown == Pick(wanted, {i \in DOMAIN wanted : ShowsAsked(ran, wanted[i])})
    IN  /\ Len(out) = Len(shown)
        /\ \A i \in DOMAIN shown : /\ out[i].id = shown[i][2].id
                                   /\ FitsExtract(ran[shown[i][1]].lines, shown[i][2], out[i].value.v)

(* The signals that were extracted are those that are expected.               *)
LEMMA ResultsFit == ResultsRight => ExtractionFits
<1> SUFFICES ASSUME ResultsRight, Done("results") PROVE ExtractionFits
  BY Zenon DEF ExtractionFits
<1> DEFINE ran == FirstOf(input.data)
           wanted == FlattenSeq(AskedOf(ran))
           F == {w \in ToSet(wanted) : ShowsAsked(ran, w)}
           R == {<<TakenOut(ran[w[1]].lines, w[2]), w>> : w \in F}
           shown == Sieved(wanted, F)
<1>1. RanTyped(ran) /\ output = FlattenSeq(AnsweredOf(ran))
  BY FirstTyped DEF ResultsRight, Done
<1>. HIDE DEF ran
<1>2. /\ PairedBy(output, shown, R) /\ IsVector(wanted)
      /\ \A w \in F : w[1] \in DOMAIN ran /\ w[2] \in ToSet(ran[w[1]].extracts)
  BY <1>1, AnswersFit, Zenon
<1>3. shown = Pick(wanted, {i \in DOMAIN wanted : ShowsAsked(ran, wanted[i])})
  <2>1. {i \in DOMAIN wanted : wanted[i] \in F} = {i \in DOMAIN wanted : ShowsAsked(ran, wanted[i])}
    BY DEF ToSet
  <2>. HIDE DEF wanted, F
  <2>. QED  BY <2>1 DEF Sieved
<1>4. IsVector(shown)
  <2> DEFINE S == {i \in DOMAIN wanted : ShowsAsked(ran, wanted[i])}
  <2>1. S \in SUBSET DOMAIN wanted
    OBVIOUS
  <2>. HIDE DEF wanted, S
  <2>2. IsVector(Pick(wanted, S))
    BY <1>2, <2>1, PickSet
  <2>. QED  BY <1>3, <2>2 DEF S
<1>5. ASSUME NEW w \in F
      PROVE  /\ TakenOut(ran[w[1]].lines, w[2]).id = w[2].id
             /\ FitsExtract(ran[w[1]].lines, w[2], TakenOut(ran[w[1]].lines, w[2]).value.v)
  <2> DEFINE ls == ran[w[1]].lines
             e == w[2]
  <2>1. w[1] \in DOMAIN ran /\ e \in ToSet(ran[w[1]].extracts)
    BY <1>2
  <2>2. ShowsAsked(ran, w)
    OBVIOUS
  <2>3. IsVector(ls) /\ ExtractTyped(ls, e) /\ ShowsExtract(ls, e)
    BY <1>1, <2>1, <2>2 DEF RanTyped, ShowsAsked
  <2>. HIDE DEF ls, e
  <2>4. TakenOut(ls, e).id = e.id /\ FitsExtract(ls, e, TakenOut(ls, e).value.v)
    BY <2>3, TakenFits
  <2>. QED  BY <2>4 DEF ls, e
<1>. HIDE DEF F, shown
<1>6. Len(output) = Len(shown) /\ DOMAIN shown = 1 .. Len(shown)
  BY <1>2, <1>4, VectorElements DEF PairedBy
<1>7. ASSUME NEW i \in DOMAIN shown
      PROVE  /\ output[i].id = shown[i][2].id
             /\ FitsExtract(ran[shown[i][1]].lines, shown[i][2], output[i].value.v)
  <2> DEFINE o == output[i]
             x == shown[i]
  <2>1. <<o, x>> \in R
    BY <1>2, <1>6 DEF PairedBy
  <2>. HIDE DEF o, x
  <2>2. PICK w \in F : <<o, x>> = <<TakenOut(ran[w[1]].lines, w[2]), w>>
    BY <2>1
  <2>3. o = TakenOut(ran[w[1]].lines, w[2]) /\ x = w
    BY <2>2
  <2>4. o.id = x[2].id /\ FitsExtract(ran[x[1]].lines, x[2], o.value.v)
    BY <1>5, <2>3
  <2>. QED  BY <2>4 DEF o, x
<1> DEFINE place == {i \in DOMAIN wanted : ShowsAsked(ran, wanted[i])}
           sh == Pick(wanted, place)
<1>8. /\ Len(output) = Len(sh)
      /\ \A i \in DOMAIN sh : /\ output[i].id = sh[i][2].id
                               /\ FitsExtract(ran[sh[i][1]].lines, sh[i][2], output[i].value.v)
  <2>. HIDE DEF wanted
  <2>. QED  BY <1>3, <1>6, <1>7
<1>9. ShowsAll(ran, wanted, output)
  BY <1>8, Zenon DEF ShowsAll
<1>. HIDE DEF wanted
<1>10. ExtractionFits = (Done("results") => ShowsAll(FirstOf(input.data), FlattenSeq(AskedOf(FirstOf(input.data))), output))
  BY Zenon DEF ExtractionFits, ShowsAll, FirstOf, AskedOf, ShowsAsked, ShowsExtract, FitsExtract, SoughtIn,
               ValuesOf, ValuesOrNone, NumbersIn, LinesWithout
<1>. QED  BY <1>9, <1>10, Zenon DEF wanted, ran

-------------------------------------------------------------------------------
(* Tables of the platform: the numbers below the columns.                     *)

(* A table that is printed is numbers throughout, each under its column.      *)
PrintsAs(p, columns, values) ==
    /\ IsVector(p) /\ DOMAIN p = DOMAIN columns /\ Len(p) = Len(columns)
    /\ Len(p) \in Nat /\ DOMAIN p = 1 .. Len(p)
    /\ Numeric(p) = p
    /\ \A i \in DOMAIN columns : p[i] = values[columns[i]] /\ p[i] \in Nat /\ NumberAt(p, i) = p[i]
    /\ \A i : i \notin DOMAIN columns => NumberAt(p, i) = Missing

(* A printed table has a value below each of its columns.                     *)
LEMMA PrintedIs ==
    ASSUME NEW columns, NEW values, Counted(columns, values)
    PROVE  PrintsAs(Printed(columns, values), columns, values)
<1> DEFINE p == Printed(columns, values)
           n == Len(columns)
<1>1. n \in Nat /\ DOMAIN columns = 1 .. n
  BY VectorElements DEF Counted
<1>2. DOMAIN p = DOMAIN columns /\ p = [i \in DOMAIN columns |-> p[i]]
      /\ \A i \in DOMAIN columns : p[i] = values[columns[i]]
  BY DEF Printed
<1>3. \A i \in DOMAIN columns : values[columns[i]] \in Nat
  BY DEF Counted, ToSet
<1>. HIDE DEF p, n
<1>4. p \in [1 .. n -> Nat]
  BY <1>1, <1>2, <1>3
<1>5. p \in Seq(Nat) /\ Len(p) = n
  BY <1>1, <1>4, VectorOf
<1>6. IsVector(p)
  BY <1>5, VectorElements
<1>7. \A i \in DOMAIN columns : p[i] \in Nat /\ p[i] # Junk
  BY <1>2, <1>3, MarkersAssumption
<1>8. {i \in DOMAIN p : p[i] # Junk} = DOMAIN p
  BY <1>2, <1>7
<1>9. Numeric(p) = p
  BY <1>6, <1>8, PickAll DEF Numeric
<1>10. \A i \in DOMAIN columns : NumberAt(p, i) = p[i]
  BY <1>2, <1>7 DEF NumberAt
<1>11. \A i : i \notin DOMAIN columns => NumberAt(p, i) = Missing
  BY <1>2 DEF NumberAt
<1>. QED  BY <1>1, <1>2, <1>5, <1>6, <1>7, <1>9, <1>10, <1>11 DEF PrintsAs, p, n

(* Where a name stands, or zero.                                              *)
PlaceOf(s, name) == LET I == {i \in 1 .. Len(s) : s[i] = name} IN IF I # {} THEN Min(I) ELSE 0

(* The place of a name in a vector, or 0 when it is not there.                *)
LEMMA PlaceIs ==
    ASSUME NEW s, IsVector(s), NEW name
    PROVE  IF name \in ToSet(s) THEN PlaceOf(s, name) \in DOMAIN s /\ s[PlaceOf(s, name)] = name
           ELSE PlaceOf(s, name) = 0
<1> DEFINE I == {i \in 1 .. Len(s) : s[i] = name}
<1>1. Len(s) \in Nat /\ DOMAIN s = 1 .. Len(s)
  BY VectorElements
<1>2. name \in ToSet(s) <=> I # {}
  BY <1>1 DEF ToSet
<1>3. CASE I # {}
  <2>1. \E x \in I : \A j \in I : x <= j
    <3>1. I \in SUBSET (1 .. Len(s))
      OBVIOUS
    <3>. HIDE DEF I
    <3>. QED  BY <1>1, <1>3, <3>1, FirstAndLast
  <2>2. Min(I) \in I
    <3>. HIDE DEF I
    <3>. QED  BY <2>1, Zenon DEF Min
  <2>3. PlaceOf(s, name) = Min(I)
    BY <1>3 DEF PlaceOf
  <2>. QED  BY <1>1, <1>2, <1>3, <2>2, <2>3
<1>4. CASE I = {}
  BY <1>2, <1>4 DEF PlaceOf
<1>. QED  BY <1>3, <1>4

(* What a table shows under a name.                                           *)
ColumnShown(columns, values, name) == IF name \in ToSet(columns) THEN values[name] ELSE 0

(* Every number of the cpu line of /proc/stat is the one below its column.    *)
LEMMA CpuShows ==
    ASSUME NEW m \in Machines
    PROVE  LET out == ParseCpuLine(Printed(m.cpuColumns, m.cpu))
           IN  \A c \in DOMAIN out : out[c] = ColumnShown(m.cpuColumns, m.cpu, c)
<1> DEFINE cols == m.cpuColumns
           p == Printed(cols, m.cpu)
           out == ParseCpuLine(p)
<1>1. /\ Counted(cols, m.cpu) /\ Len(cols) >= 4
      /\ \A i \in DOMAIN cols : IF i \in DOMAIN CpuColumns THEN cols[i] = CpuColumns[i]
                                ELSE cols[i] \notin ToSet(CpuColumns)
  BY MachinesAssumption, Zenon
<1>. HIDE DEF cols
<1>0. PrintsAs(p, cols, m.cpu)
  BY <1>1, PrintedIs
<1>. HIDE DEF p
<1>2. /\ Len(p) = Len(cols) /\ Len(p) \in Nat /\ Numeric(p) = p
      /\ \A i \in DOMAIN cols : p[i] = m.cpu[cols[i]] /\ p[i] \in Nat /\ NumberAt(p, i) = p[i]
      /\ \A i : i \notin DOMAIN cols => NumberAt(p, i) = Missing
  BY <1>0 DEF PrintsAs
<1>3. out = [c \in ToSet(CpuColumns) |-> OrZero(NumberAt(p, PlaceOf(CpuColumns, c)))]
  <2>1. ~(Len(p) < 4)
    BY <1>1, <1>2
  <2>2. ParseCpuLine(p) = IF Len(Numeric(p)) < 4 THEN Missing
                          ELSE [c \in ToSet(CpuColumns) |-> OrZero(NumberAt(Numeric(p), PlaceOf(CpuColumns, c)))]
    BY Zenon DEF ParseCpuLine, SelectInSeq, PlaceOf
  <2>. QED  BY <1>2, <2>1, <2>2
<1>. HIDE DEF out
<1>4. IsVector(CpuColumns)
  <2>1. CpuColumns = [i \in 1 .. 8 |-> CpuColumns[i]]
    BY DEF CpuColumns
  <2>2. CpuColumns \in [1 .. 8 -> ToSet(CpuColumns)]
    BY <2>1 DEF ToSet
  <2>3. CpuColumns \in Seq(ToSet(CpuColumns))
    BY <2>2, VectorOf
  <2>. QED  BY <2>3, VectorElements
<1>5. \A i \in DOMAIN CpuColumns, j \in DOMAIN CpuColumns : CpuColumns[i] = CpuColumns[j] => i = j
  BY DEF CpuColumns
<1>6. ASSUME NEW c \in ToSet(CpuColumns)
      PROVE  OrZero(NumberAt(p, PlaceOf(CpuColumns, c))) = ColumnShown(cols, m.cpu, c)
  <2> DEFINE i == PlaceOf(CpuColumns, c)
  <2>1. i \in DOMAIN CpuColumns /\ CpuColumns[i] = c
    BY <1>4, PlaceIs
  <2>. HIDE DEF i
  <2>2. CASE i \in DOMAIN cols
    <3>1. cols[i] = c /\ p[i] = m.cpu[c] /\ NumberAt(p, i) = p[i] /\ p[i] \in Nat
      BY <1>1, <1>2, <2>1, <2>2
    <3>2. c \in ToSet(cols)
      BY <2>2, <3>1 DEF ToSet
    <3>3. OrZero(NumberAt(p, i)) = m.cpu[c]
      BY <3>1, MarkersAssumption DEF OrZero
    <3>. QED  BY <3>2, <3>3 DEF ColumnShown, i
  <2>3. CASE i \notin DOMAIN cols
    <3>1. OrZero(NumberAt(p, i)) = 0
      BY <1>2, <2>3 DEF OrZero
    <3>2. ASSUME NEW j \in DOMAIN cols, cols[j] = c PROVE FALSE
      <4>1. j \in DOMAIN CpuColumns /\ CpuColumns[j] = c
        BY <1>1, <3>2
      <4>2. j = i
        BY <1>5, <2>1, <4>1
      <4>. QED  BY <2>3, <4>2
    <3>3. c \notin ToSet(cols)
      BY <3>2 DEF ToSet
    <3>. QED  BY <3>1, <3>3 DEF ColumnShown, i
  <2>. QED  BY <2>2, <2>3
<1>. QED  BY <1>3, <1>6 DEF out, p, cols

(* A value below a name is the one that was counted.                          *)
LEMMA BelowIs ==
    ASSUME NEW cols, NEW values, Counted(cols, values), NEW name
    PROVE  OrZero(NumberAt(Printed(cols, values), PlaceOf(cols, name))) = ColumnShown(cols, values, name)
<1> DEFINE p == Printed(cols, values)
           i == PlaceOf(cols, name)
<1>0. PrintsAs(p, cols, values)
  BY PrintedIs
<1>1. /\ \A k \in DOMAIN cols : p[k] = values[cols[k]] /\ p[k] \in Nat /\ NumberAt(p, k) = p[k]
      /\ \A k : k \notin DOMAIN cols => NumberAt(p, k) = Missing
  BY <1>0, Zenon DEF PrintsAs
<1>2. IF name \in ToSet(cols) THEN i \in DOMAIN cols /\ cols[i] = name ELSE i = 0
  BY PlaceIs DEF Counted
<1>3. 0 \notin DOMAIN cols
  <2>1. Len(cols) \in Nat /\ DOMAIN cols = 1 .. Len(cols)
    BY VectorElements DEF Counted
  <2>. QED  BY <2>1
<1>. HIDE DEF p, i
<1>4. CASE name \in ToSet(cols)
  <2>1. NumberAt(p, i) = values[name] /\ NumberAt(p, i) \in Nat
    BY <1>1, <1>2, <1>4
  <2>2. OrZero(NumberAt(p, i)) = values[name]
    BY <2>1, MarkersAssumption DEF OrZero
  <2>. QED  BY <1>4, <2>2 DEF ColumnShown, p, i
<1>5. CASE name \notin ToSet(cols)
  <2>1. OrZero(NumberAt(p, i)) = 0
    BY <1>1, <1>2, <1>3, <1>5 DEF OrZero
  <2>. QED  BY <1>5, <2>1 DEF ColumnShown, p, i
<1>. QED  BY <1>4, <1>5

(* Every number of the Tcp lines of /proc/net/snmp is the one below its       *)
(* column.                                                                    *)
LEMMA TcpShows ==
    ASSUME NEW m \in Machines
    PROVE  LET out == ParseTcpSnmp(m.tcpColumns, Printed(m.tcpColumns, m.tcp))
           IN  \A t \in DOMAIN out : out[t] = ColumnShown(m.tcpColumns, m.tcp, t)
<1> DEFINE cols == m.tcpColumns
           p == Printed(cols, m.tcp)
           names == {"OutSegs", "RetransSegs", "AttemptFails", "EstabResets"}
           Below(name) == IF \E i \in DOMAIN cols : cols[i] = name
                          THEN OrZero(NumberAt(p, PlaceOf(cols, name))) ELSE 0
           out == ParseTcpSnmp(cols, p)
<1>1. Counted(cols, m.tcp)
  BY MachinesAssumption, Zenon
<1>. HIDE DEF cols
<1>2. Len(cols) = Len(p)
  <2>1. PrintsAs(p, cols, m.tcp)
    BY <1>1, PrintedIs
  <2>. QED  BY <2>1, Zenon DEF PrintsAs
<1>3. out = [name \in names |-> IF Len(cols) = Len(p) THEN Below(name) ELSE 0]
  BY Zenon DEF ParseTcpSnmp, SelectInSeq, PlaceOf
<1>4. ASSUME NEW t \in names PROVE Below(t) = ColumnShown(cols, m.tcp, t)
  <2>1. OrZero(NumberAt(p, PlaceOf(cols, t))) = ColumnShown(cols, m.tcp, t)
    BY <1>1, BelowIs
  <2>2. (\E i \in DOMAIN cols : cols[i] = t) <=> t \in ToSet(cols)
    BY DEF ToSet
  <2>. HIDE DEF p
  <2>. QED  BY <2>1, <2>2 DEF ColumnShown
<1>. HIDE DEF Below, p, names, out
<1>5. \A t \in DOMAIN out : out[t] = ColumnShown(cols, m.tcp, t)
  BY <1>2, <1>3, <1>4
<1>. QED  BY <1>5 DEF out, p, cols

(* A snapshot of memory: what is free is no more than what there is.          *)
IsMemory(s) == {"total", "free"} \subseteq DOMAIN s /\ s.total \in Nat /\ s.free \in Nat /\ s.free <= s.total

(* The share of memory that is free is told of what there is, and is none above *)
(* a hundred percent.                                                         *)
LEMMA FreeFits ==
    ASSUME NEW s, IsMemory(s)
    PROVE  LET out == MemSignals(s)
           IN  /\ "free_pct" \in DOMAIN out <=> out.total > 0
               /\ "free_pct" \in DOMAIN out => out.free_pct.num <= 100 * out.free_pct.den
<1> DEFINE share == [num |-> 100 * s.free, den |-> s.total]
           pct == IF s.total > 0 THEN share ELSE Missing
           f == [i \in DOMAIN s \cup {"free_pct"} |-> IF i # "free_pct" THEN s[i] ELSE pct]
           out == Present(f)
<1>1. MemSignals(s) = out
  BY DEF MemSignals
<1>2. s.total \in Nat /\ s.free \in Nat /\ s.free <= s.total /\ "total" \in DOMAIN s
  BY DEF IsMemory
<1>3. 100 * s.free \in Int /\ 100 * s.free <= 100 * s.total
  BY <1>2
<1>4. share \in [num : Int, den : Int] /\ share.num = 100 * s.free /\ share.den = s.total
  BY <1>2, <1>3
<1>5. share # Missing
  BY <1>4, MarkersAssumption
<1>. HIDE DEF share
<1>. HIDE DEF pct
<1>6. /\ "total" \in DOMAIN f /\ f["total"] = s["total"]
      /\ "free_pct" \in DOMAIN f /\ f["free_pct"] = pct
  BY <1>2
<1>. HIDE DEF f
<1>7. /\ DOMAIN out = {i \in DOMAIN f : f[i] # Missing}
      /\ \A i \in DOMAIN out : out[i] = f[i]
  BY PresentIs
<1>. HIDE DEF out
<1>8. s["total"] # Missing
  BY <1>2, MarkersAssumption
<1>9. "total" \in DOMAIN out /\ out.total = s.total
  BY <1>6, <1>7, <1>8
<1>10. "free_pct" \in DOMAIN out <=> s.total > 0
  BY <1>5, <1>6, <1>7 DEF pct
<1>11. "free_pct" \in DOMAIN out => out.free_pct = share
  BY <1>6, <1>7, <1>10 DEF pct
<1>12. "free_pct" \in DOMAIN out => out.free_pct.num <= 100 * out.free_pct.den
  BY <1>3, <1>4, <1>11
<1>. QED  BY <1>1, <1>9, <1>10, <1>12

(* vm_stat: what is used and what is free are all there is.                   *)
LEMMA MacShows ==
    ASSUME NEW pages, \A n \in DOMAIN pages : pages[n] \in Nat
    PROVE  LET s == MacMemory(2, pages, Missing) IN IsMemory(s) /\ s.used + s.free = s.total
<1> DEFINE P(name) == IF name \in DOMAIN pages THEN pages[name] ELSE 0
           total == P("active") + P("inactive") + P("speculative") + P("wired down") + P("purgeable") + P("free")
           free == P("free") + P("speculative")
           s == MacMemory(2, pages, Missing)
<1>1. 2 # Missing
  BY MarkersAssumption
<1>2. s = [total |-> total * 2, free |-> free * 2, used |-> (total - free) * 2, available |-> Missing,
           swap_total |-> 0, swap_used |-> 0, swap_free |-> 0]
  BY <1>1 DEF MacMemory
<1>3. \A n : P(n) \in Nat
  OBVIOUS
<1>. HIDE DEF P, s
<1>4. total \in Nat /\ free \in Nat /\ free <= total
  <2>1. \A x, i, y, w, z, h \in Nat : /\ x + i + y + w + z + h \in Nat /\ h + y \in Nat
                                     /\ h + y <= x + i + y + w + z + h
    OBVIOUS
  <2>. QED  BY <1>3, <2>1, Zenon
<1>. HIDE DEF total, free
<1>5. /\ total * 2 \in Nat /\ free * 2 \in Nat /\ free * 2 <= total * 2
      /\ (total - free) * 2 + free * 2 = total * 2
  BY <1>4
<1>6. s.total = total * 2 /\ s.free = free * 2 /\ s.used = (total - free) * 2 /\ {"total", "free"} \subseteq DOMAIN s
  BY <1>2
<1>. QED  BY <1>5, <1>6 DEF IsMemory, s

(* free: what it shows under its names, but for what is available, which is   *)
(* what it shows in its sixth column, and missing where there is none.        *)
MemShown(m, out) ==
    /\ \A f \in {"total", "used", "free", "swap_total", "swap_used", "swap_free"} :
          out[f] = ColumnShown(m.memColumns \o m.swapColumns, m.mem, f)
    /\ out.available = IF Len(m.memColumns) >= 6 THEN m.mem[m.memColumns[6]] ELSE Missing

(* Memory and swap are those that `free` prints below its columns.            *)
LEMMA FreeShows ==
    ASSUME NEW m \in Machines
    PROVE  LET out == ParseFree(Printed(m.memColumns, m.mem), Printed(m.swapColumns, m.mem))
           IN  IsMemory(out) /\ MemShown(m, out)
<1> DEFINE a == m.memColumns
           b == m.swapColumns
           v == m.mem
           p == Printed(a, v)
           q == Printed(b, v)
           out == ParseFree(p, q)
<1>1. /\ Counted(a, v) /\ Len(a) >= 3 /\ a[1] = "total" /\ a[2] = "used" /\ a[3] = "free"
      /\ Counted(b, v) /\ b \in {<<>>, SwapColumns}
      /\ ToSet(a) \cap ToSet(SwapColumns) = {}
      /\ v.free <= v.total
  BY MachinesAssumption, Zenon
<1>. HIDE DEF a, b, v
<1>0. PrintsAs(p, a, v) /\ PrintsAs(q, b, v)
  BY <1>1, PrintedIs
<1>. HIDE DEF p, q
<1>2. /\ DOMAIN p = DOMAIN a /\ Len(p) = Len(a) /\ Len(p) \in Nat /\ DOMAIN p = 1 .. Len(p) /\ Numeric(p) = p
      /\ \A i \in DOMAIN a : p[i] = v[a[i]] /\ p[i] \in Nat /\ NumberAt(p, i) = p[i]
      /\ \A i : i \notin DOMAIN a => NumberAt(p, i) = Missing
  BY <1>0 DEF PrintsAs
<1>3. /\ DOMAIN q = DOMAIN b /\ Len(q) = Len(b) /\ Numeric(q) = q
      /\ \A i \in DOMAIN b : q[i] = v[b[i]] /\ q[i] \in Nat
  BY <1>0 DEF PrintsAs
<1>4. out = [total |-> p[1], used |-> p[2], free |-> p[3], available |-> NumberAt(p, 6),
             swap_total |-> IF Len(q) >= 3 THEN q[1] ELSE 0,
             swap_used |-> IF Len(q) >= 3 THEN q[2] ELSE 0,
             swap_free |-> IF Len(q) >= 3 THEN q[3] ELSE 0]
  <2>1. ~(Len(p) < 3)
    BY <1>1, <1>2
  <2>2. out = IF Len(Numeric(p)) < 3 THEN Missing
              ELSE [total |-> Numeric(p)[1], used |-> Numeric(p)[2], free |-> Numeric(p)[3],
                    available |-> NumberAt(Numeric(p), 6),
                    swap_total |-> IF Len(Numeric(q)) >= 3 THEN Numeric(q)[1] ELSE 0,
                    swap_used |-> IF Len(Numeric(q)) >= 3 THEN Numeric(q)[2] ELSE 0,
                    swap_free |-> IF Len(Numeric(q)) >= 3 THEN Numeric(q)[3] ELSE 0]
    BY Zenon DEF ParseFree
  <2>. QED  BY <1>2, <1>3, <2>1, <2>2
<1>. HIDE DEF out
<1>5. /\ {"total", "free"} \subseteq DOMAIN out
      /\ out["total"] = p[1] /\ out["used"] = p[2] /\ out["free"] = p[3] /\ out["available"] = NumberAt(p, 6)
      /\ Len(q) >= 3 => out["swap_total"] = q[1] /\ out["swap_used"] = q[2] /\ out["swap_free"] = q[3]
      /\ ~(Len(q) >= 3) => out["swap_total"] = 0 /\ out["swap_used"] = 0 /\ out["swap_free"] = 0
  BY <1>4
<1>6. 1 \in DOMAIN a /\ 2 \in DOMAIN a /\ 3 \in DOMAIN a
  BY <1>1, <1>2
<1>7. /\ p[1] = v["total"] /\ p[2] = v["used"] /\ p[3] = v["free"] /\ p[1] \in Nat /\ p[3] \in Nat
      /\ "total" \in ToSet(a) /\ "used" \in ToSet(a) /\ "free" \in ToSet(a)
  BY <1>1, <1>2, <1>6 DEF ToSet
<1>8. IsMemory(out)
  BY <1>1, <1>5, <1>7 DEF IsMemory
<1>9. out.available = IF Len(a) >= 6 THEN v[a[6]] ELSE Missing
  <2>1. 6 \in DOMAIN a <=> Len(a) >= 6
    BY <1>2
  <2>. QED  BY <1>2, <1>5, <2>1
<1>10. ToSet(a \o b) = ToSet(a) \cup ToSet(b)
  BY <1>1, ConcatVectors DEF Counted
<1>11. /\ "swap_total" \in ToSet(SwapColumns) /\ "swap_used" \in ToSet(SwapColumns) /\ "swap_free" \in ToSet(SwapColumns)
       /\ SwapColumns[1] = "swap_total" /\ SwapColumns[2] = "swap_used" /\ SwapColumns[3] = "swap_free"
       /\ Len(SwapColumns) = 3 /\ DOMAIN SwapColumns = 1 .. 3
  BY DEF SwapColumns, ToSet
<1>12. CASE b = SwapColumns
  <2>1. q[1] = v["swap_total"] /\ q[2] = v["swap_used"] /\ q[3] = v["swap_free"] /\ Len(q) >= 3
    <3>1. 1 \in DOMAIN b /\ 2 \in DOMAIN b /\ 3 \in DOMAIN b /\ Len(b) = 3
          /\ b[1] = "swap_total" /\ b[2] = "swap_used" /\ b[3] = "swap_free"
      BY <1>11, <1>12
    <3>. QED  BY <1>3, <3>1
  <2>. QED  BY <1>5, <1>7, <1>8, <1>9, <1>10, <1>11, <1>12, <2>1 DEF ColumnShown, MemShown, a, b, v, out, p, q
<1>13. CASE b = <<>>
  <2>1. ~(Len(q) >= 3) /\ ToSet(b) = {}
    BY <1>3, <1>13, EmptyVector
  <2>2. "swap_total" \notin ToSet(a) /\ "swap_used" \notin ToSet(a) /\ "swap_free" \notin ToSet(a)
    BY <1>1, <1>11
  <2>. QED  BY <1>5, <1>7, <1>8, <1>9, <1>10, <2>1, <2>2 DEF ColumnShown, MemShown, a, b, v, out, p, q
<1>. QED  BY <1>1, <1>12, <1>13

(* Drops by interface.                                                        *)
DropsShown(drops, out) ==
    /\ out = [d \in {x.name : x \in ToSet(drops)} |-> out[d]]
    /\ \A x \in ToSet(drops) : out[x.name] = x.drops

(* Drops of interfaces other than the loopback, each interface once.          *)
DropsTyped(drops) ==
    /\ IsVector(drops)
    /\ \A i \in DOMAIN drops : /\ drops[i].drops \in Nat /\ drops[i].name # "lo"
                               /\ \A j \in DOMAIN drops : drops[i].name = drops[j].name => i = j

(* The greatest of some positions is one of them.                             *)
LEMMA GreatestAmong ==
    ASSUME NEW m \in Nat, NEW S \in SUBSET (1 .. m), S # {}
    PROVE  Max(S) \in S
<1>1. \E x \in S : \A j \in S : j <= x
  BY FirstAndLast
<1>2. \A x \in S : x \in Int
  OBVIOUS
<1>3. \E x \in S : \A j \in S : x >= j
  BY <1>1, <1>2
<1>. QED  BY <1>3, Zenon DEF Max

(* The rows that are shown are those of the interfaces, k behind them.        *)
RowsAre(drops, rows, shown, k, value) ==
    /\ shown = {i + k : i \in DOMAIN drops}
    /\ \A i \in DOMAIN drops : rows[i + k].name = drops[i].name /\ value[i + k] = drops[i].drops

(* Of every name the last row counts.                                         *)
LastCounts(rows, shown, value, out) ==
    out = [d \in {rows[i].name : i \in shown} |-> value[Max({i \in shown : rows[i].name = d})]]

(* As every interface has one row, what counts is what was counted.           *)
LEMMA RowsShow ==
    ASSUME NEW drops, DropsTyped(drops), NEW rows, NEW shown, NEW k \in Nat, NEW value, NEW out,
           RowsAre(drops, rows, shown, k, value), LastCounts(rows, shown, value, out)
    PROVE  DropsShown(drops, out)
<1>. USE DEF RowsAre, LastCounts
<1>1. Len(drops) \in Nat /\ DOMAIN drops = 1 .. Len(drops)
  BY VectorElements DEF DropsTyped
<1>2. {rows[i].name : i \in shown} = {x.name : x \in ToSet(drops)}
  <2>1. {rows[i].name : i \in shown} = {rows[i + k].name : i \in DOMAIN drops}
    OBVIOUS
  <2>2. {rows[i + k].name : i \in DOMAIN drops} = {drops[i].name : i \in DOMAIN drops}
    OBVIOUS
  <2>3. {drops[i].name : i \in DOMAIN drops} = {x.name : x \in ToSet(drops)}
    BY DEF ToSet
  <2>. QED  BY <2>1, <2>2, <2>3
<1>3. ASSUME NEW x \in ToSet(drops) PROVE out[x.name] = x.drops
  <2>1. PICK i \in DOMAIN drops : x = drops[i]
    BY DEF ToSet
  <2> DEFINE S == {j \in shown : rows[j].name = x.name}
  <2>2. i + k \in S /\ i + k \in Int
    BY <1>1, <2>1
  <2>3. ASSUME NEW j \in S PROVE j = i + k
    <3>1. PICK h \in DOMAIN drops : j = h + k
      OBVIOUS
    <3>2. drops[h].name = drops[i].name
      BY <2>1, <3>1
    <3>3. h = i
      BY <3>2 DEF DropsTyped
    <3>. QED  BY <3>1, <3>3
  <2>. HIDE DEF S
  <2>4. S \subseteq Int /\ \A y \in S : i + k >= y
    BY <2>2, <2>3
  <2>5. Max(S) = i + k
    BY <2>2, <2>4, GreatestIs
  <2>6. out[x.name] = value[Max(S)]
    <3>1. x.name \in {rows[j].name : j \in shown}
      BY <1>2
    <3>. QED  BY <3>1 DEF S
  <2>. QED  BY <2>1, <2>5, <2>6
<1>4. out = [d \in {x.name : x \in ToSet(drops)} |-> out[d]]
  BY <1>2
<1>. QED  BY <1>3, <1>4 DEF DropsShown

(* parse_rx_drops: every interface but the loopback.                          *)
LEMMA RxDropsShow ==
    ASSUME NEW drops, DropsTyped(drops)
    PROVE  DropsShown(drops, ParseRxDrops(<<NetRow("lo", 5)>> \o
                                 [i \in DOMAIN drops |-> NetRow(drops[i].name, drops[i].drops)]))
<1> DEFINE n == Len(drops)
           a == <<NetRow("lo", 5)>>
           b == [i \in DOMAIN drops |-> NetRow(drops[i].name, drops[i].drops)]
           rows == a \o b
           V == {a[1]} \cup {b[i] : i \in DOMAIN drops}
           shown == {i \in DOMAIN rows : rows[i].name # "lo" /\ NumberAt(rows[i].fields, 4) # Missing}
           value == [i \in DOMAIN rows |-> rows[i].fields[4]]
           out == ParseRxDrops(rows)
<1>1. n \in Nat /\ DOMAIN drops = 1 .. n
  BY VectorElements DEF DropsTyped
<1>2. a \in Seq(V) /\ Len(a) = 1 /\ a[1] = NetRow("lo", 5)
  OBVIOUS
<1>3. b \in [1 .. n -> V] /\ \A i \in 1 .. n : b[i] = NetRow(drops[i].name, drops[i].drops)
  BY <1>1
<1>. HIDE DEF a, b, V, n
<1>4. b \in Seq(V) /\ Len(b) = n
  BY <1>1, <1>3, VectorOf
<1>5. Joins(rows, a, b) /\ rows \in Seq(V)
  BY <1>2, <1>4, ConcatIs
<1>. HIDE DEF rows
<1>6. /\ DOMAIN rows = 1 .. n + 1 /\ rows[1] = NetRow("lo", 5)
      /\ \A i \in 1 .. n : rows[i + 1] = NetRow(drops[i].name, drops[i].drops)
  <2>1. Len(rows) = 1 + n /\ DOMAIN rows = 1 .. Len(rows)
    BY <1>2, <1>4, <1>5 DEF Joins
  <2>2. \A j \in 1 .. 1 : rows[j] = a[j]
    BY <1>2, <1>5 DEF Joins
  <2>3. \A i \in 1 .. n : rows[1 + i] = b[i]
    BY <1>2, <1>4, <1>5 DEF Joins
  <2>4. \A i \in 1 .. n : 1 + i = i + 1
    BY <1>1
  <2>. QED  BY <1>1, <1>2, <1>3, <2>1, <2>2, <2>3, <2>4
<1>7. rows[1].name = "lo"
  BY <1>6 DEF NetRow
<1>8. ASSUME NEW i \in 1 .. n
      PROVE  /\ rows[i + 1].name = drops[i].name /\ rows[i + 1].fields[4] = drops[i].drops
             /\ NumberAt(rows[i + 1].fields, 4) # Missing /\ drops[i].name # "lo"
  <2> DEFINE x == drops[i].drops
             row == NetRow(drops[i].name, x)
  <2>1. x \in Nat /\ drops[i].name # "lo"
    BY <1>1 DEF DropsTyped
  <2>. HIDE DEF x
  <2>2. row.name = drops[i].name /\ row.fields = <<90, 91, 92, x, 93>>
    BY DEF NetRow
  <2>. HIDE DEF row
  <2>3. 4 \in DOMAIN row.fields /\ row.fields[4] = x
    BY <2>2
  <2>4. x # Junk /\ x # Missing
    BY <2>1, MarkersAssumption
  <2>5. NumberAt(row.fields, 4) # Missing
    BY <2>3, <2>4 DEF NumberAt
  <2>. QED  BY <1>6, <2>1, <2>2, <2>3, <2>5 DEF row, x
<1>9. shown = {i + 1 : i \in DOMAIN drops}
  <2>1. ASSUME NEW j \in shown PROVE j \in {i + 1 : i \in DOMAIN drops}
    <3>1. j \in 1 .. n + 1 /\ j # 1
      BY <1>6, <1>7
    <3>2. j - 1 \in DOMAIN drops /\ (j - 1) + 1 = j
      BY <1>1, <3>1
    <3>. QED  BY <3>2
  <2>2. ASSUME NEW i \in DOMAIN drops PROVE i + 1 \in shown
    <3>1. i \in 1 .. n /\ i + 1 \in DOMAIN rows
      BY <1>1, <1>6
    <3>. QED  BY <1>8, <3>1
  <2>. HIDE DEF shown
  <2>. QED  BY <2>1, <2>2
<1>10. \A i \in DOMAIN drops : rows[i + 1].name = drops[i].name /\ value[i + 1] = drops[i].drops
  BY <1>1, <1>6, <1>8
<1>11. out = [d \in {rows[i].name : i \in shown} |-> value[Max({i \in shown : rows[i].name = d})]]
  <2> DEFINE At(d) == Max({i \in shown : rows[i].name = d})
             names == {rows[i].name : i \in shown}
  <2>1. out = [d \in names |-> rows[At(d)].fields[4]]
    BY Zenon DEF ParseRxDrops
  <2>2. ASSUME NEW d \in names PROVE At(d) \in DOMAIN rows
    <3> DEFINE S == {i \in shown : rows[i].name = d}
    <3>1. S \in SUBSET (1 .. n + 1) /\ S # {}
      BY <1>6
    <3>. HIDE DEF S
    <3>2. n + 1 \in Nat
      BY <1>1
    <3>3. Max(S) \in S
      BY <3>1, <3>2, GreatestAmong
    <3>. QED  BY <1>6, <3>1, <3>3 DEF S
  <2>. HIDE DEF At, names
  <2>3. \A d \in names : rows[At(d)].fields[4] = value[At(d)]
    BY <2>2
  <2>4. out = [d \in names |-> value[At(d)]]
    BY <2>1, <2>3
  <2>. QED  BY <2>4, Zenon DEF At, names
<1>. HIDE DEF shown, value, out
<1>12. DropsShown(drops, out)
  <2>1. 1 \in Nat
    OBVIOUS
  <2>2. RowsAre(drops, rows, shown, 1, value)
    BY <1>9, <1>10, Zenon DEF RowsAre
  <2>3. LastCounts(rows, shown, value, out)
    BY <1>11, Zenon DEF LastCounts
  <2>. QED  BY <2>1, <2>2, <2>3, RowsShow
<1>. QED  BY <1>12 DEF out, rows, a, b

(* netstat: every interface but the loopback that has a row which ends in a   *)
(* number, and the last of those numbers.                                     *)
NetCounting(columns, net, name) ==
    {i \in DOMAIN net : net[i].name = name /\ net[i].shows[Last(columns)] # Junk}

NetNames(columns, net) ==
    {n \in {row.name : row \in ToSet(net)} \ {"lo0"} : NetCounting(columns, net, n) # {}}

NetShown(columns, net, out) ==
    /\ DOMAIN out = NetNames(columns, net)
    /\ \A n \in DOMAIN out : out[n] = net[Max(NetCounting(columns, net, n))].shows[Last(columns)]

(* What a table of netstat is.                                                *)
NetTyped(columns, net) ==
    /\ IsVector(columns) /\ columns # <<>> /\ IsVector(net)
    /\ \A row \in ToSet(net), c \in ToSet(columns) : row.shows[c] \in Nat \cup {Junk}

(* A row ends in what is shown in the last column.                            *)
LEMMA RowEnds ==
    ASSUME NEW columns, IsVector(columns), columns # <<>>, NEW shows,
           \A c \in ToSet(columns) : shows[c] \in Nat \cup {Junk}
    PROVE  LET f == Printed(columns, shows)
           IN  /\ Last(f) = shows[Last(columns)]
               /\ NumberAt(f, Len(f)) # Missing <=> shows[Last(columns)] # Junk
<1> DEFINE f == Printed(columns, shows)
           n == Len(columns)
           V == {shows[c] : c \in ToSet(columns)}
<1>1. n \in Nat /\ DOMAIN columns = 1 .. n /\ columns \in Seq({columns[i] : i \in DOMAIN columns})
  BY VectorElements
<1>2. n # 0
  <2> DEFINE W == {columns[i] : i \in DOMAIN columns}
  <2>1. columns \in Seq(W)
    BY <1>1
  <2>. HIDE DEF W
  <2>. QED  BY <2>1
<1>3. n \in DOMAIN columns /\ Last(columns) = columns[n]
  BY <1>1, <1>2 DEF Last
<1>4. DOMAIN f = 1 .. n /\ \A i \in 1 .. n : f[i] = shows[columns[i]]
  BY <1>1 DEF Printed
<1>5. f = [i \in 1 .. n |-> f[i]]
  BY <1>1 DEF Printed
<1>. HIDE DEF f, n, V
<1>6. f \in [1 .. n -> V]
  BY <1>1, <1>4, <1>5 DEF V, ToSet
<1>7. Len(f) = n
  BY <1>1, <1>6, VectorOf
<1>8. f[n] = shows[Last(columns)] /\ shows[Last(columns)] \in Nat \cup {Junk} /\ n \in DOMAIN f
  BY <1>1, <1>3, <1>4 DEF ToSet
<1>9. f[n] # Missing
  BY <1>8, MarkersAssumption
<1>10. Last(f) = f[n]
  BY <1>7, Zenon DEF Last
<1>11. NumberAt(f, n) # Missing <=> f[n] # Junk
  BY <1>8, <1>9 DEF NumberAt
<1>. QED  BY <1>7, <1>8, <1>10, <1>11 DEF f

(* parse_netstat_drops: what the rows end in.                                 *)
LEMMA NetstatDropsShow ==
    ASSUME NEW columns, NEW net, NetTyped(columns, net)
    PROVE  NetShown(columns, net, ParseNetstatDrops([i \in DOMAIN net |->
                        [name |-> net[i].name, fields |-> Printed(columns, net[i].shows)]]))
<1> DEFINE rows == [i \in DOMAIN net |-> [name |-> net[i].name, fields |-> Printed(columns, net[i].shows)]]
           shown == {i \in DOMAIN rows : /\ rows[i].name # "lo0"
                                         /\ NumberAt(rows[i].fields, Len(rows[i].fields)) # Missing}
           Of(d) == {i \in shown : rows[i].name = d}
           names == {rows[i].name : i \in shown}
           Ending(i) == net[i].shows[Last(columns)]
           out == ParseNetstatDrops(rows)
<1>1. Len(net) \in Nat /\ DOMAIN net = 1 .. Len(net)
  BY VectorElements DEF NetTyped
<1>2. DOMAIN rows = DOMAIN net
      /\ \A i \in DOMAIN net : rows[i].name = net[i].name /\ rows[i].fields = Printed(columns, net[i].shows)
  OBVIOUS
<1>3. ASSUME NEW i \in DOMAIN net
      PROVE  /\ Last(rows[i].fields) = Ending(i)
             /\ NumberAt(rows[i].fields, Len(rows[i].fields)) # Missing <=> Ending(i) # Junk
  <2> DEFINE w == net[i].shows
  <2>1. \A c \in ToSet(columns) : w[c] \in Nat \cup {Junk}
    BY DEF NetTyped, ToSet
  <2>. HIDE DEF w
  <2>2. IsVector(columns) /\ columns # <<>>
    BY DEF NetTyped
  <2>3. LET f == Printed(columns, w)
        IN  Last(f) = w[Last(columns)] /\ (NumberAt(f, Len(f)) # Missing <=> w[Last(columns)] # Junk)
    BY <2>1, <2>2, RowEnds
  <2>4. rows[i].fields = Printed(columns, w)
    BY DEF w
  <2>. HIDE DEF rows
  <2>. QED  BY <2>3, <2>4 DEF w
<1>4. out = [d \in names |-> Last(rows[Max(Of(d))].fields)]
  BY Zenon DEF ParseNetstatDrops
<1>. HIDE DEF rows, out
<1>5. shown = {i \in DOMAIN net : net[i].name # "lo0" /\ Ending(i) # Junk}
  <2>1. \A i : i \in shown <=> i \in DOMAIN net /\ net[i].name # "lo0" /\ Ending(i) # Junk
    BY <1>2, <1>3
  <2>. HIDE DEF shown, Ending
  <2>. QED  BY <2>1
<1>. HIDE DEF shown
<1>6. ASSUME NEW d, d # "lo0" PROVE Of(d) = NetCounting(columns, net, d)
  <2> DEFINE S == NetCounting(columns, net, d)
  <2>1. \A i : i \in Of(d) <=> i \in DOMAIN net /\ net[i].name = d /\ Ending(i) # Junk
    BY <1>2, <1>5, <1>6
  <2>2. \A i : i \in S <=> i \in DOMAIN net /\ net[i].name = d /\ Ending(i) # Junk
    BY DEF NetCounting
  <2>. HIDE DEF Of, Ending, S
  <2>3. Of(d) = S
    <3>1. \A i : i \in Of(d) <=> i \in S
      BY <2>1, <2>2
    <3>2. Of(d) \subseteq DOMAIN net /\ S \subseteq DOMAIN net
      BY <2>1, <2>2
    <3>. QED  BY <3>1, <3>2
  <2>. QED  BY <2>3 DEF S
<1>7. ASSUME NEW d PROVE d \in names <=> d \in NetNames(columns, net)
  <2>1. d \in names <=> \E i \in DOMAIN net : net[i].name = d /\ d # "lo0" /\ Ending(i) # Junk
    BY <1>2, <1>5
  <2>2. d \in NetNames(columns, net) <=> \E i \in DOMAIN net : net[i].name = d /\ d # "lo0" /\ Ending(i) # Junk
    BY DEF NetNames, NetCounting, ToSet
  <2>. QED  BY <2>1, <2>2
<1>8. names = NetNames(columns, net)
  <2>. HIDE DEF names
  <2>. QED  BY <1>7
<1>9. ASSUME NEW d \in names PROVE out[d] = Ending(Max(NetCounting(columns, net, d)))
  <2> DEFINE S == NetCounting(columns, net, d)
  <2>1. d # "lo0" /\ S # {} /\ S \in SUBSET (1 .. Len(net))
    BY <1>1, <1>8 DEF NetNames, NetCounting
  <2>2. Of(d) = S
    BY <1>6, <2>1
  <2>3. out[d] = Last(rows[Max(Of(d))].fields)
    <3>. HIDE DEF Of, names
    <3>. QED  BY <1>4
  <2>. HIDE DEF S, Of
  <2>4. Max(S) \in DOMAIN net
    BY <1>1, <2>1, GreatestAmong
  <2>. HIDE DEF Ending
  <2>5. Last(rows[Max(S)].fields) = Ending(Max(S))
    BY <1>3, <2>4
  <2>. QED  BY <2>2, <2>3, <2>5 DEF S
<1>10. DOMAIN out = names
  <2>. HIDE DEF names, Of
  <2>. QED  BY <1>4
<1>11. NetShown(columns, net, out)
  <2>. HIDE DEF names
  <2>. QED  BY <1>8, <1>9, <1>10 DEF NetShown
<1>. QED  BY <1>11 DEF out, rows

(* The record of a disk.                                                      *)
IsDisk(d) ==
    d \in [name : {d.name}, read_ios : Nat, write_ios : Nat, read_time : Nat, write_time : Nat, io_time : Nat]

(* parse_diskstats: the disks that were counted.                              *)
LEMMA DisksShow ==
    ASSUME NEW disks, IsVector(disks), \A d \in ToSet(disks) : IsDisk(d)
    PROVE  ParseDiskstats([i \in DOMAIN disks |-> DiskRow(disks[i])]) = disks
<1> DEFINE n == Len(disks)
           rows == [i \in DOMAIN disks |-> DiskRow(disks[i])]
           Column(r, i) == OrZero(NumberAt(r.fields, i))
           OfRow(r) == [name |-> r.name, read_ios |-> Column(r, 1), write_ios |-> Column(r, 5),
                       read_time |-> Column(r, 4), write_time |-> Column(r, 8), io_time |-> Column(r, 10)]
<1>1. n \in Nat /\ DOMAIN disks = 1 .. n /\ disks = [i \in 1 .. n |-> disks[i]]
  <2>1. n \in Nat /\ DOMAIN disks = 1 .. n /\ disks \in Seq({disks[i] : i \in DOMAIN disks})
    BY VectorElements
  <2> DEFINE T == {disks[i] : i \in DOMAIN disks}
  <2>. HIDE DEF T
  <2>2. disks = [i \in 1 .. Len(disks) |-> disks[i]]
    BY <2>1 DEF T
  <2>. QED  BY <2>1, <2>2
<1>2. DOMAIN rows = 1 .. n /\ \A i \in 1 .. n : rows[i] = DiskRow(disks[i])
  BY <1>1
<1>. HIDE DEF rows, n
<1>3. ASSUME NEW i \in 1 .. n PROVE Len(rows[i].fields) >= 11 /\ OfRow(rows[i]) = disks[i]
  <2> DEFINE d == disks[i]
             f == rows[i].fields
             a == d.read_ios
             b == d.read_time
             c == d.write_ios
             e == d.write_time
             t == d.io_time
  <2>1. IsDisk(d)
    BY <1>1 DEF ToSet
  <2>2. /\ a \in Nat /\ b \in Nat /\ c \in Nat /\ e \in Nat /\ t \in Nat
        /\ d = [name |-> d.name, read_ios |-> a, write_ios |-> c, read_time |-> b, write_time |-> e, io_time |-> t]
    <3>. HIDE DEF d
    <3>. QED  BY <2>1 DEF IsDisk
  <2>3. rows[i].name = d.name /\ f = <<a, 90, 91, b, c, 92, 93, e, 94, t, 95>>
    BY <1>2 DEF DiskRow
  <2>. HIDE DEF f, a, b, c, e, t
  <2>4. /\ Len(f) = 11 /\ DOMAIN f = 1 .. 11
        /\ f[1] = a /\ f[4] = b /\ f[5] = c /\ f[8] = e /\ f[10] = t
    BY <2>3
  <2>5. \A v \in Nat : v # Junk /\ v # Missing
    BY MarkersAssumption
  <2>6. /\ NumberAt(f, 1) = a /\ NumberAt(f, 4) = b /\ NumberAt(f, 5) = c /\ NumberAt(f, 8) = e
        /\ NumberAt(f, 10) = t
    BY <2>2, <2>4, <2>5 DEF NumberAt
  <2>7. /\ OrZero(NumberAt(f, 1)) = a /\ OrZero(NumberAt(f, 4)) = b /\ OrZero(NumberAt(f, 5)) = c
        /\ OrZero(NumberAt(f, 8)) = e /\ OrZero(NumberAt(f, 10)) = t
    BY <2>2, <2>5, <2>6 DEF OrZero
  <2>8. OfRow(rows[i]) = [name |-> rows[i].name, read_ios |-> OrZero(NumberAt(f, 1)),
                         write_ios |-> OrZero(NumberAt(f, 5)), read_time |-> OrZero(NumberAt(f, 4)),
                         write_time |-> OrZero(NumberAt(f, 8)), io_time |-> OrZero(NumberAt(f, 10))]
    BY Zenon DEF f
  <2>9. Len(f) >= 11
    BY <2>4
  <2>. HIDE DEF OfRow, d
  <2>10. OfRow(rows[i]) = d
    BY <2>2, <2>3, <2>7, <2>8
  <2>. QED  BY <2>9, <2>10 DEF f, d
<1>4. Pick(rows, {i \in DOMAIN rows : Len(rows[i].fields) >= 11}) = rows
  <2>1. {i \in DOMAIN rows : Len(rows[i].fields) >= 11} = DOMAIN rows
    BY <1>2, <1>3
  <2>2. IsVector(rows)
    <3> DEFINE V == {rows[i] : i \in 1 .. n}
    <3>1. rows \in [1 .. n -> V]
      BY <1>2 DEF rows
    <3>. HIDE DEF V
    <3>2. rows \in Seq(V)
      BY <1>1, <3>1
    <3>. QED  BY <3>2, VectorElements
  <2>. QED  BY <2>1, <2>2, PickAll
<1> DEFINE kept == Pick(rows, {i \in DOMAIN rows : Len(rows[i].fields) >= 11})
<1>5. ParseDiskstats(rows) = [i \in DOMAIN kept |-> OfRow(kept[i])]
  BY Zenon DEF ParseDiskstats
<1>. HIDE DEF kept, OfRow
<1>6. ParseDiskstats(rows) = [i \in 1 .. n |-> OfRow(rows[i])]
  BY <1>2, <1>4, <1>5 DEF kept
<1>7. [i \in 1 .. n |-> OfRow(rows[i])] = [i \in 1 .. n |-> disks[i]]
  BY <1>3
<1>. QED  BY <1>1, <1>6, <1>7 DEF rows

(* What ReadTables makes of a machine.                                        *)
Tabled(m) ==
    [cpu |-> ParseCpuLine(Printed(m.cpuColumns, m.cpu)),
     drops |-> ParseRxDrops(<<NetRow("lo", 5)>> \o
                   [i \in DOMAIN m.drops |-> NetRow(m.drops[i].name, m.drops[i].drops)]),
     tcp |-> ParseTcpSnmp(m.tcpColumns, Printed(m.tcpColumns, m.tcp)),
     mem |-> ParseFree(Printed(m.memColumns, m.mem), Printed(m.swapColumns, m.mem)),
     mac |-> MacMemory(2, m.pages, Missing),
     macDrops |-> ParseNetstatDrops([i \in DOMAIN m.net |->
                      [name |-> m.net[i].name, fields |-> Printed(m.netColumns, m.net[i].shows)]]),
     disks |-> ParseDiskstats([i \in DOMAIN m.disks |-> DiskRow(m.disks[i])])]

(* A machine is one of those there are, and once it is read the output is     *)
(* what the parsers make of its tables.                                       *)
TablesRight ==
    input.kind = "tables" =>
        /\ input.data \in Machines
        /\ read => output = Tabled(input.data)

(* The tables show what was counted.                                          *)
LEMMA TablesShow == TablesRight => TablesFit
<1> SUFFICES ASSUME TablesRight, Done("tables") PROVE TablesFit
  BY Zenon DEF TablesFit
<1> DEFINE m == input.data
<1>1. m \in Machines /\ output = Tabled(m)
  BY DEF TablesRight, Done
<1>2. /\ output.cpu = ParseCpuLine(Printed(m.cpuColumns, m.cpu))
      /\ output.drops = ParseRxDrops(<<NetRow("lo", 5)>> \o
                            [i \in DOMAIN m.drops |-> NetRow(m.drops[i].name, m.drops[i].drops)])
      /\ output.tcp = ParseTcpSnmp(m.tcpColumns, Printed(m.tcpColumns, m.tcp))
      /\ output.mem = ParseFree(Printed(m.memColumns, m.mem), Printed(m.swapColumns, m.mem))
      /\ output.mac = MacMemory(2, m.pages, Missing)
      /\ output.macDrops = ParseNetstatDrops([i \in DOMAIN m.net |->
                               [name |-> m.net[i].name, fields |-> Printed(m.netColumns, m.net[i].shows)]])
      /\ output.disks = ParseDiskstats([i \in DOMAIN m.disks |-> DiskRow(m.disks[i])])
  BY <1>1 DEF Tabled
<1>3. /\ DropsTyped(m.drops) /\ NetTyped(m.netColumns, m.net)
      /\ \A n \in DOMAIN m.pages : m.pages[n] \in Nat
      /\ IsVector(m.disks) /\ \A d \in ToSet(m.disks) : IsDisk(d)
  BY <1>1, MachinesAssumption, Zenon DEF DropsTyped, NetTyped, IsDisk
<1>. HIDE DEF m
<1>4. \A c \in DOMAIN output.cpu : output.cpu[c] = ColumnShown(m.cpuColumns, m.cpu, c)
  BY <1>1, <1>2, CpuShows, Zenon
<1>5. \A t \in DOMAIN output.tcp : output.tcp[t] = ColumnShown(m.tcpColumns, m.tcp, t)
  BY <1>1, <1>2, TcpShows, Zenon
<1>6. DropsShown(m.drops, output.drops) /\ NetShown(m.netColumns, m.net, output.macDrops)
  BY <1>2, <1>3, RxDropsShow, NetstatDropsShow, Zenon
<1>7. DOMAIN output.drops = {d.name : d \in ToSet(m.drops)}
  BY <1>6 DEF DropsShown
<1>8. \A d \in ToSet(m.drops) : output.drops[d.name] = d.drops
  BY <1>6 DEF DropsShown
<1>9. output.disks = m.disks
  BY <1>2, <1>3, DisksShow
<1>10. IsMemory(output.mem) /\ MemShown(m, output.mem)
  BY <1>1, <1>2, FreeShows, Zenon
<1>11. IsMemory(output.mac) /\ output.mac.used + output.mac.free = output.mac.total
  BY <1>2, <1>3, MacShows, Zenon
<1>12. \A s \in {MemSignals(output.mem), MemSignals(output.mac)} :
          /\ "free_pct" \in DOMAIN s <=> s.total > 0
          /\ "free_pct" \in DOMAIN s => s.free_pct.num <= 100 * s.free_pct.den
  <2> SUFFICES ASSUME NEW x \in {output.mem, output.mac}
               PROVE  /\ "free_pct" \in DOMAIN MemSignals(x) <=> MemSignals(x).total > 0
                      /\ "free_pct" \in DOMAIN MemSignals(x) =>
                            MemSignals(x).free_pct.num <= 100 * MemSignals(x).free_pct.den
    OBVIOUS
  <2>1. IsMemory(x)
    BY <1>10, <1>11
  <2>. QED  BY <2>1, FreeFits
<1>13. /\ \A f \in {"total", "used", "free", "swap_total", "swap_used", "swap_free"} :
             output.mem[f] = ColumnShown(m.memColumns \o m.swapColumns, m.mem, f)
       /\ output.mem.available = IF Len(m.memColumns) >= 6 THEN m.mem[m.memColumns[6]] ELSE Missing
  BY <1>10, Zenon DEF MemShown
<1>14. /\ DOMAIN output.macDrops = NetNames(m.netColumns, m.net)
       /\ \A n \in DOMAIN output.macDrops :
             output.macDrops[n] = m.net[Max(NetCounting(m.netColumns, m.net, n))].shows[Last(m.netColumns)]
  BY <1>6, Zenon DEF NetShown
<1>. QED
  BY <1>4, <1>5, <1>7, <1>8, <1>9, <1>11, <1>12, <1>13, <1>14, Zenon
     DEF TablesFit, ColumnShown, NetNames, NetCounting, m

-------------------------------------------------------------------------------
(* The parser of predicates, and files of rules.                              *)

(* White space.                                                               *)
Gap == " "

(* A blank beside an operator, and a text without those.                      *)
Drops(s, i) ==
    s[i] = Gap /\ ((i > 1 /\ s[i - 1] \in Ops) \/ (i < Len(s) /\ s[i + 1] \in Ops))

(* A text without them.                                                       *)
Bare(s) == Pick(s, {i \in DOMAIN s : ~Drops(s, i)})

(* Two texts between which no blank is beside an operator.                    *)
Parted(a, b) ==
    /\ a # <<>> /\ b # <<>>
    /\ ~(a[Len(a)] = Gap /\ b[1] \in Ops)
    /\ ~(a[Len(a)] \in Ops /\ b[1] = Gap)

(* They lose their blanks each by itself.                                     *)
LEMMA BareConcat ==
    ASSUME NEW T, NEW a \in Seq(T), NEW b \in Seq(T), Parted(a, b)
    PROVE  Bare(a \o b) = Bare(a) \o Bare(b)
<1> DEFINE c == a \o b
           m == Len(a)
           n == Len(b)
           U == {i \in DOMAIN c : ~Drops(c, i)}
<1>1. /\ m \in Nat /\ n \in Nat /\ DOMAIN a = 1 .. m /\ DOMAIN b = 1 .. n
      /\ c \in Seq(T) /\ Len(c) = m + n /\ DOMAIN c = 1 .. m + n
      /\ \A k \in 1 .. m : c[k] = a[k] /\ k \in 1 .. m + n
      /\ \A k \in 1 .. n : c[m + k] = b[k] /\ m + k \in 1 .. m + n
  OBVIOUS
<1>2. /\ m >= 1 /\ n >= 1
      /\ ~(a[m] = Gap /\ b[1] \in Ops)
      /\ ~(a[m] \in Ops /\ b[1] = Gap)
  <2>1. a # <<>> /\ b # <<>>
    BY DEF Parted
  <2>2. m >= 1 /\ n >= 1
    BY <1>1, <2>1
  <2>. QED  BY <2>2 DEF Parted
<1>. HIDE DEF c
<1>3. ASSUME NEW k \in 1 .. m PROVE Drops(c, k) <=> Drops(a, k)
  <2> HIDE DEF m, n
  <2>1. c[k] = a[k]
    BY <1>1
  <2>2. k > 1 => c[k - 1] = a[k - 1]
    BY <1>1
  <2>3. CASE k < m
    <3>1. c[k + 1] = a[k + 1] /\ k < Len(c) /\ k < Len(a)
      BY <1>1, <2>3 DEF m
    <3>. QED  BY <2>1, <2>2, <3>1 DEF Drops
  <2>4. CASE k = m
    <3>1. c[k + 1] = b[1] /\ ~(k < Len(a))
      <4>1. 1 \in 1 .. n
        BY <1>1, <1>2
      <4>2. c[m + 1] = b[1]
        BY <1>1, <4>1
      <4>. QED  BY <1>1, <2>4, <4>2 DEF m
    <3>2. a[k] = Gap => c[k + 1] \notin Ops
      BY <1>2, <2>4, <3>1
    <3>. QED  BY <2>1, <2>2, <3>1, <3>2 DEF Drops
  <2>. QED  BY <1>1, <2>3, <2>4
<1>4. ASSUME NEW k \in 1 .. n PROVE Drops(c, m + k) <=> Drops(b, k)
  <2> HIDE DEF m, n
  <2> DEFINE j == m + k
  <2>1. c[j] = b[k] /\ j \in 1 .. m + n
    BY <1>1
  <2>2. j < Len(c) /\ c[j + 1] \in Ops <=> k < Len(b) /\ b[k + 1] \in Ops
    <3>1. j < Len(c) <=> k < n
      BY <1>1
    <3>2. k < n => k + 1 \in 1 .. n /\ m + (k + 1) = j + 1
      BY <1>1
    <3>3. k < n => c[j + 1] = b[k + 1]
      BY <1>1, <3>2
    <3>. QED  BY <3>1, <3>3 DEF n
  <2>3. CASE k > 1
    <3>1. k - 1 \in 1 .. n /\ m + (k - 1) = j - 1 /\ j > 1
      BY <1>1, <2>3
    <3>2. c[j - 1] = b[k - 1]
      BY <1>1, <3>1
    <3>. HIDE DEF j
    <3>4. Drops(c, j) <=> Drops(b, k)
      BY <2>1, <2>2, <2>3, <3>1, <3>2 DEF Drops
    <3>. QED  BY <3>4 DEF j
  <2>4. CASE k = 1
    <3>1. j - 1 = m /\ m \in 1 .. m /\ ~(k > 1)
      BY <1>1, <1>2, <2>4
    <3>2. c[j - 1] = a[m]
      BY <1>1, <3>1
    <3>3. b[k] = Gap => c[j - 1] \notin Ops
      BY <1>2, <2>4, <3>2
    <3>. HIDE DEF j
    <3>4. Drops(c, j) <=> Drops(b, k)
      BY <2>1, <2>2, <3>1, <3>3 DEF Drops
    <3>. QED  BY <3>4 DEF j
  <2>. QED  BY <1>1, <2>3, <2>4
<1>5. /\ {k \in 1 .. m : k \in U} = {i \in DOMAIN a : ~Drops(a, i)}
      /\ {k \in 1 .. n : m + k \in U} = {i \in DOMAIN b : ~Drops(b, i)}
  <2>1. \A k \in 1 .. m : k \in U <=> ~Drops(a, k)
    BY <1>1, <1>3
  <2>2. \A k \in 1 .. n : m + k \in U <=> ~Drops(b, k)
    BY <1>1, <1>4
  <2>. HIDE DEF U, m, n
  <2>. QED  BY <1>1, <2>1, <2>2
<1>6. U \in SUBSET (1 .. Len(a) + Len(b))
  BY <1>1
<1>7. Pick(c, U) = Pick(a, {k \in 1 .. m : k \in U}) \o Pick(b, {k \in 1 .. n : m + k \in U})
  <2>. HIDE DEF U
  <2>1. PicksBoth(a, b, U)
    BY <1>6, PickConcat
  <2>. QED  BY <2>1, Zenon DEF PicksBoth, c, m, n
<1>8. Bare(c) = Pick(c, U)
  BY DEF Bare, U
<1>9. Bare(a) = Pick(a, {k \in 1 .. m : k \in U}) /\ Bare(b) = Pick(b, {k \in 1 .. n : m + k \in U})
  BY <1>5 DEF Bare
<1>. QED  BY <1>7, <1>8, <1>9 DEF c

(* A text without blanks, or without operators, loses nothing.                *)
LEMMA BareSame ==
    ASSUME NEW T, NEW s \in Seq(T),
           (\A i \in DOMAIN s : s[i] # Gap) \/ (\A i \in DOMAIN s : s[i] \notin Ops)
    PROVE  Bare(s) = s
<1>1. DOMAIN s = 1 .. Len(s) /\ Len(s) \in Nat /\ IsVector(s)
  BY VectorElements
<1>2. ASSUME NEW i \in DOMAIN s PROVE ~Drops(s, i)
  <2>1. i > 1 => i - 1 \in DOMAIN s
    BY <1>1
  <2>2. i < Len(s) => i + 1 \in DOMAIN s
    BY <1>1
  <2>. QED  BY <2>1, <2>2 DEF Drops
<1>3. {i \in DOMAIN s : ~Drops(s, i)} = DOMAIN s
  BY <1>2
<1>. QED  BY <1>1, <1>3, PickAll DEF Bare

(* The kinds of tokens are apart.                                             *)
LEMMA TokenKinds ==
    /\ Gap \in Tokens /\ "." \in Tokens /\ "ra" \in Tokens
    /\ Idents \subseteq Tokens /\ Ops \subseteq Tokens /\ Joints \subseteq Tokens
    /\ Truths \subseteq Tokens /\ Figures \subseteq Tokens /\ Strings \subseteq Tokens
    /\ Floats \subseteq Idents
    /\ Gap \notin Idents \cup Ops \cup Joints \cup Truths \cup Figures \cup Strings \cup {".", "ra"}
    /\ "." \notin Idents \cup Ops \cup Joints \cup Truths \cup Figures \cup Strings
    /\ \A x \in Ops : x \notin Idents \cup Joints \cup Truths \cup Figures \cup Strings
    /\ \A x \in Idents : x \notin Joints \cup Truths \cup Figures \cup Strings
    /\ \A x \in Strings : x \notin Truths \cup Figures
    /\ \A x \in Figures : x \notin Truths
<1>1. Floats = {"inf", "infra", "nan"}
  BY DEF Floats, AfterFloat
<1>2. Idents = {"cpu", "irq", "inf", "infra", "nan", "ra"}
  BY <1>1 DEF Idents, Names
<1> USE DEF Words, Tokens, Ops, Joints, Truths, Figures, Strings
<1>3. /\ Gap \in Tokens /\ "." \in Tokens /\ "ra" \in Tokens
      /\ Idents \subseteq Tokens /\ Ops \subseteq Tokens /\ Joints \subseteq Tokens
      /\ Truths \subseteq Tokens /\ Figures \subseteq Tokens /\ Strings \subseteq Tokens
  <2>1. "ra" \in Idents
    BY <1>2
  <2>. QED  BY <2>1, Zenon DEF Gap
<1>4. Floats \subseteq Idents
  BY <1>1, <1>2
<1>5. Gap \notin Idents \cup Ops \cup Joints \cup Truths \cup Figures \cup Strings \cup {".", "ra"}
  BY <1>2, Zenon DEF Gap
<1>6. "." \notin Idents \cup Ops \cup Joints \cup Truths \cup Figures \cup Strings
  BY <1>2
<1>7. \A x \in Ops : x \notin Idents \cup Joints \cup Truths \cup Figures \cup Strings
  BY <1>2
<1>8. \A x \in Idents : x \notin Joints \cup Truths \cup Figures \cup Strings
  BY <1>2
<1>9. /\ \A x \in Strings : x \notin Truths \cup Figures
      /\ \A x \in Figures : x \notin Truths
  OBVIOUS
<1>. QED  BY <1>3, <1>4, <1>5, <1>6, <1>7, <1>8, <1>9, Zenon

(* What the parser of floats leaves of a word that it takes.                  *)
LEMMA FloatLeaves == \A f \in Floats : AfterFloat[f] = <<>> \/ AfterFloat[f] = <<"ra">>
BY DEF Floats, AfterFloat

(* Odd numbers and their halves.                                              *)
LEMMA Halves ==
    /\ \A h \in Nat : h >= 1 => (2 * h - 1) % 2 = 1 /\ (2 * h) % 2 = 0 /\ (2 * h - 1 + 1) \div 2 = h
    /\ \A i \in Nat : i % 2 = 1 => \E h \in Nat : h >= 1 /\ i = 2 * h - 1 /\ (i + 1) \div 2 = h
    /\ \A i \in Nat : i % 2 \in {0, 1}
<1>1. \A h \in Nat : h >= 1 => (2 * h - 1) % 2 = 1 /\ (2 * h) % 2 = 0 /\ (2 * h - 1 + 1) \div 2 = h
  OBVIOUS
<1>2. ASSUME NEW i \in Nat, i % 2 = 1 PROVE \E h \in Nat : h >= 1 /\ i = 2 * h - 1 /\ (i + 1) \div 2 = h
  <2> DEFINE h == (i + 1) \div 2
  <2>1. h \in Nat /\ h >= 1 /\ i = 2 * h - 1
    BY <1>2
  <2>. QED  BY <2>1
<1>3. \A i \in Nat : i % 2 \in {0, 1}
  OBVIOUS
<1>. QED  BY <1>1, <1>2, <1>3

(* A path has a word or more.                                                 *)
IsPath(p) == p \in Seq(Idents) /\ p # <<>>

(* A text of neither operators nor blanks.                                    *)
Plain(s) == s \in Seq(Tokens) /\ s # <<>> /\ \A i \in DOMAIN s : s[i] \notin Ops /\ s[i] # Gap

(* A path is written with its words at the odd places and dots between them.  *)
LEMMA PathWritten ==
    ASSUME NEW p, IsPath(p)
    PROVE  /\ Len(p) \in Nat /\ Len(p) >= 1 /\ Plain(PathText(p))
           /\ Len(PathText(p)) = 2 * Len(p) - 1 /\ DOMAIN PathText(p) = 1 .. 2 * Len(p) - 1
           /\ \A h \in 1 .. Len(p) : PathText(p)[2 * h - 1] = p[h]
           /\ \A i \in DOMAIN PathText(p) : PathText(p)[i] \in (IF i % 2 = 1 THEN Idents ELSE {"."})
<1> DEFINE n == 2 * Len(p) - 1
           f == PathText(p)
<1>1. Len(p) \in Nat /\ Len(p) >= 1 /\ DOMAIN p = 1 .. Len(p) /\ \A h \in 1 .. Len(p) : p[h] \in Idents
  BY DEF IsPath
<1>2. f = [i \in 1 .. n |-> IF i % 2 = 1 THEN p[(i + 1) \div 2] ELSE "."]
  BY DEF PathText
<1>3. n \in Nat /\ n >= 1
  BY <1>1
<1>4. ASSUME NEW i \in 1 .. n PROVE f[i] \in (IF i % 2 = 1 THEN Idents ELSE {"."})
  <2>1. CASE i % 2 = 1
    <3>1. PICK h \in Nat : h >= 1 /\ i = 2 * h - 1 /\ (i + 1) \div 2 = h
      BY <2>1, Halves
    <3>2. h \in 1 .. Len(p)
      BY <1>1, <3>1
    <3>. QED  BY <1>1, <1>2, <2>1, <3>1, <3>2
  <2>2. CASE i % 2 # 1
    BY <1>2, <2>2
  <2>. QED  BY <2>1, <2>2
<1>5. ASSUME NEW h \in 1 .. Len(p) PROVE f[2 * h - 1] = p[h]
  <2>1. h \in Nat /\ h >= 1 /\ 2 * h - 1 \in 1 .. n
    BY <1>1
  <2>2. (2 * h - 1) % 2 = 1 /\ (2 * h - 1 + 1) \div 2 = h
    BY <2>1, Halves
  <2> DEFINE i == 2 * h - 1
  <2>3. i % 2 = 1 /\ (i + 1) \div 2 = h /\ i \in 1 .. n
    BY <2>1, <2>2
  <2>. HIDE DEF i
  <2>4. f[i] = p[h]
    BY <1>2, <2>3
  <2>. QED  BY <2>4 DEF i
<1>. HIDE DEF n
<1>6. \A i \in 1 .. n : f[i] \in Tokens /\ f[i] \notin Ops /\ f[i] # Gap
  <2>1. \A i \in 1 .. n : f[i] \in Idents \/ f[i] = "."
    BY <1>4
  <2>. HIDE DEF f
  <2>. QED  BY <2>1, TokenKinds
<1>7. DOMAIN f = 1 .. n
  BY <1>2
<1>8. f \in [1 .. n -> Tokens]
  BY <1>2, <1>6
<1>. HIDE DEF f
<1>9. f \in Seq(Tokens) /\ Len(f) = n
  BY <1>3, <1>8
<1>10. Plain(f)
  <2>1. f # <<>>
    BY <1>3, <1>9
  <2>. QED  BY <1>6, <1>7, <1>9, <2>1 DEF Plain
<1>. QED  BY <1>1, <1>4, <1>5, <1>7, <1>9, <1>10 DEF n, f

(* What the parser of paths takes, with the lengths that it may have.         *)
Takes(s, n) == \A k \in 1 .. n : s[k] \in (IF k % 2 = 1 THEN Idents ELSE {"."})

(* The lengths that a path at the beginning of a text may have.               *)
Lengths(s) == {n \in 1 .. Len(s) : n % 2 = 1 /\ Takes(s, n)}

(* The words of a path of that length.                                        *)
WordsOf(s, n) == [k \in 1 .. ((n + 1) \div 2) |-> s[2 * k - 1]]

(* It takes as much as it may.                                                *)
LEMMA PathIs ==
    ASSUME NEW s
    PROVE  Path(s) = IF Lengths(s) = {} THEN Fails
                     ELSE Gives(WordsOf(s, Max(Lengths(s))), SubSeq(s, Max(Lengths(s)) + 1, Len(s)))
BY Zenon DEF Path, Lengths, Takes, WordsOf

(* Of these lengths there is a greatest one.                                  *)
LEMMA LengthsEnd ==
    ASSUME NEW s \in Seq(Tokens), Lengths(s) # {}
    PROVE  Max(Lengths(s)) \in Lengths(s)
<1>1. Lengths(s) \in SUBSET (1 .. Len(s)) /\ Len(s) \in Nat
  BY DEF Lengths
<1>2. \E n \in Lengths(s) : \A k \in Lengths(s) : n >= k
  <2>. HIDE DEF Lengths
  <2> DEFINE L == Lengths(s)
  <2>1. L # {} /\ L \in SUBSET (1 .. Len(s))
    BY <1>1
  <2>. HIDE DEF L
  <2>2. \E n \in L : \A k \in L : k <= n
    BY <1>1, <2>1, FirstAndLast
  <2>3. \A n \in L : n \in Int
    BY <1>1, <2>1
  <2>4. \E n \in L : \A k \in L : n >= k
    BY <2>2, <2>3
  <2>. QED  BY <2>4 DEF L
<1>. QED  BY <1>2, Zenon DEF Max

(* A path that was taken is written at the beginning of the text, and the rest *)
(* is behind it.                                                              *)
Opens(s, p, rest) ==
    /\ IsPath(p) /\ rest \in Seq(Tokens)
    /\ s = PathText(p) \o rest
    /\ s # <<>> /\ s[1] = p[1]

(* What the parser of paths takes is written at the beginning of the text.    *)
LEMMA PathTaken ==
    ASSUME NEW s \in Seq(Tokens), Path(s).ok
    PROVE  \E p, rest : Path(s) = Gives(p, rest) /\ Opens(s, p, rest)
<1>1. Lengths(s) # {}
  <2>1. CASE Lengths(s) = {}
    <3>1. Path(s) = Fails
      BY <2>1, PathIs
    <3>. QED  BY <3>1 DEF Fails
  <2>. QED  BY <2>1
<1> DEFINE n == Max(Lengths(s))
<1>2. n \in Lengths(s)
  BY <1>1, LengthsEnd
<1>. HIDE DEF n
<1>3. /\ n \in 1 .. Len(s) /\ n % 2 = 1 /\ n \in Nat /\ Len(s) \in Nat /\ n >= 1
      /\ \A k \in 1 .. n : s[k] \in (IF k % 2 = 1 THEN Idents ELSE {"."})
  BY <1>2 DEF Lengths, Takes
<1>4. PICK h \in Nat : h >= 1 /\ n = 2 * h - 1 /\ (n + 1) \div 2 = h
  BY <1>3, Halves
<1> DEFINE p == WordsOf(s, n)
           rest == SubSeq(s, n + 1, Len(s))
<1>5. p = [k \in 1 .. h |-> s[2 * k - 1]]
  BY <1>4 DEF WordsOf
<1>6. \A k \in 1 .. h : s[2 * k - 1] \in Idents
  <2> SUFFICES ASSUME NEW k \in 1 .. h PROVE s[2 * k - 1] \in Idents
    OBVIOUS
  <2> DEFINE j == 2 * k - 1
  <2>1. j \in 1 .. n
    BY <1>4
  <2>2. j % 2 = 1
    <3>1. k \in Nat /\ k >= 1
      OBVIOUS
    <3>. QED  BY <3>1, Halves
  <2>. HIDE DEF j
  <2>3. s[j] \in Idents
    BY <1>3, <2>1, <2>2
  <2>. QED  BY <2>3 DEF j
<1>7. IsPath(p) /\ Len(p) = h /\ p[1] = s[1]
  <2>1. p \in [1 .. h -> Idents]
    BY <1>5, <1>6
  <2>2. p \in Seq(Idents) /\ Len(p) = h
    BY <2>1
  <2>3. p # <<>>
    BY <2>2, <1>4
  <2>4. p[1] = s[1]
    <3>1. 1 \in 1 .. h /\ 2 * 1 - 1 = 1
      BY <1>4
    <3>. QED  BY <1>5, <3>1
  <2>. QED  BY <2>2, <2>3, <2>4 DEF IsPath
<1>. HIDE DEF p
<1>8. /\ SubSeq(s, 1, n) \in Seq(Tokens) /\ rest \in Seq(Tokens)
      /\ s = SubSeq(s, 1, n) \o rest
  <2>1. n \in 0 .. Len(s)
    BY <1>3
  <2>. QED  BY <2>1, CutAt
<1>9. PathText(p) = SubSeq(s, 1, n)
  <2> DEFINE a == PathText(p)
             b == SubSeq(s, 1, n)
  <2>1. a \in Seq(Tokens) /\ Len(a) = n
    <3>1. Plain(a) /\ Len(a) = 2 * Len(p) - 1
      BY <1>7, PathWritten
    <3>. QED  BY <1>4, <1>7, <3>1 DEF Plain
  <2>2. Len(b) = n /\ \A i \in 1 .. n : b[i] = s[i]
    BY <1>3
  <2>3. ASSUME NEW i \in 1 .. n PROVE a[i] = b[i]
    <3>1. i \in DOMAIN a /\ \A k \in 1 .. h : a[2 * k - 1] = p[k]
      <4>1. DOMAIN a = 1 .. 2 * Len(p) - 1 /\ \A k \in 1 .. Len(p) : a[2 * k - 1] = p[k]
        BY <1>7, PathWritten
      <4>. HIDE DEF a
      <4>. QED  BY <1>4, <1>7, <4>1
    <3>2. a[i] \in (IF i % 2 = 1 THEN Idents ELSE {"."})
      BY <1>7, <3>1, PathWritten
    <3>3. CASE i % 2 = 1
      <4>1. i \in Nat
        OBVIOUS
      <4>2. PICK k \in Nat : k >= 1 /\ i = 2 * k - 1
        BY <3>3, <4>1, Halves
      <4>3. k \in 1 .. h
        BY <1>4, <4>2
      <4>4. a[i] = p[k] /\ p[k] = s[i]
        BY <3>1, <1>5, <4>2, <4>3
      <4>. QED  BY <2>2, <4>4
    <3>4. CASE i % 2 # 1
      <4>1. a[i] = "." /\ s[i] = "."
        BY <1>3, <3>2, <3>4
      <4>. QED  BY <2>2, <4>1
    <3>. QED  BY <3>3, <3>4
  <2>. HIDE DEF a, b
  <2>4. b \in Seq(Tokens) /\ Len(a) = Len(b) /\ \A i \in 1 .. Len(a) : a[i] = b[i]
    <3>1. b \in Seq(Tokens)
      BY <1>8 DEF b
    <3>. QED  BY <2>1, <2>2, <2>3, <3>1
  <2>5. a = b
    BY <2>1, <2>4, SeqEqual
  <2>. QED  BY <2>5 DEF a, b
<1>10. Path(s) = Gives(p, rest)
  BY <1>1, PathIs, Zenon DEF n, p
<1>11. s # <<>>
  BY <1>3
<1>. HIDE DEF rest
<1>12. Opens(s, p, rest)
  BY <1>7, <1>8, <1>9, <1>11 DEF Opens
<1>. QED  BY <1>10, <1>12

(* A path that is written, and that no dot follows, is taken.                 *)
LEMMA PathGiven ==
    ASSUME NEW p, IsPath(p), NEW rest \in Seq(Tokens), rest = <<>> \/ rest[1] # "."
    PROVE  Path(PathText(p) \o rest) = Gives(p, rest)
<1> DEFINE f == PathText(p)
           s == f \o rest
           h == Len(p)
           n == 2 * h - 1
<1>1. /\ h \in Nat /\ h >= 1 /\ f \in Seq(Tokens) /\ Len(f) = n
      /\ \A k \in 1 .. h : f[2 * k - 1] = p[k]
      /\ \A i \in 1 .. n : f[i] \in (IF i % 2 = 1 THEN Idents ELSE {"."})
  BY PathWritten DEF Plain
<1>2. n \in Nat /\ n >= 1 /\ n % 2 = 1 /\ (n + 1) % 2 = 0 /\ (n + 1) \div 2 = h /\ 2 * h = n + 1
  BY <1>1, Halves
<1>. HIDE DEF f
<1>3. /\ s \in Seq(Tokens) /\ Len(s) = n + Len(rest) /\ Len(rest) \in Nat
      /\ \A i \in 1 .. n : s[i] = f[i]
      /\ rest # <<>> => s[n + 1] = rest[1]
  <2>1. Len(f \o rest) = Len(f) + Len(rest) /\ f \o rest \in Seq(Tokens)
    BY <1>1, ConcatProperties
  <2>2. \A i \in 1 .. Len(f) : (f \o rest)[i] = f[i]
    BY <1>1
  <2>3. rest # <<>> => (f \o rest)[Len(f) + 1] = rest[1]
    BY <1>1
  <2>. QED  BY <1>1, <2>1, <2>2, <2>3
<1>. HIDE DEF s, n, h
<1>4. n \in Lengths(s)
  BY <1>1, <1>2, <1>3 DEF Lengths, Takes
<1>5. ASSUME NEW m \in Lengths(s) PROVE n >= m
  <2> SUFFICES ASSUME ~(n >= m) PROVE FALSE
    OBVIOUS
  <2>1. m \in 1 .. Len(s) /\ \A k \in 1 .. m : s[k] \in (IF k % 2 = 1 THEN Idents ELSE {"."})
    BY DEF Lengths, Takes
  <2> DEFINE j == n + 1
  <2>2. j \in 1 .. m /\ j % 2 # 1 /\ Len(rest) # 0
    BY <1>2, <1>3, <2>1
  <2>3. s[j] = "."
    BY <2>1, <2>2
  <2>4. rest # <<>> /\ s[j] = rest[1]
    BY <1>3, <2>2
  <2>. QED  BY <2>3, <2>4
<1>6. Max(Lengths(s)) = n
  <2>1. Lengths(s) \subseteq Int
    BY <1>3 DEF Lengths
  <2>. HIDE DEF Lengths
  <2>. QED  BY <1>4, <1>5, <2>1, GreatestIs
<1>7. WordsOf(s, n) = p
  <2>1. WordsOf(s, n) = [k \in 1 .. h |-> s[2 * k - 1]]
    BY <1>2 DEF WordsOf
  <2>2. ASSUME NEW k \in 1 .. h PROVE s[2 * k - 1] = p[k]
    <3> DEFINE j == 2 * k - 1
    <3>1. j \in 1 .. n
      BY <1>1, <1>2
    <3>2. f[j] = p[k]
      BY <1>1
    <3>. HIDE DEF j
    <3>3. s[j] = p[k]
      BY <1>3, <3>1, <3>2
    <3>. QED  BY <3>3 DEF j
  <2>3. p = [k \in 1 .. h |-> p[k]]
    BY DEF IsPath, h
  <2>. QED  BY <2>1, <2>2, <2>3
<1>8. SubSeq(s, n + 1, Len(s)) = rest
  <2>1. SubSeq(f \o rest, Len(f) + 1, Len(f \o rest)) = rest
    BY <1>1, Behind
  <2>. QED  BY <1>1, <2>1 DEF s
<1>9. Path(s) = Gives(p, rest)
  BY <1>4, <1>6, <1>7, <1>8, PathIs
<1>. QED  BY <1>9 DEF s, f

(* The first token of a text is taken off it.                                 *)
LEMMA TakeFirst ==
    ASSUME NEW s \in Seq(Tokens), s # <<>>
    PROVE  /\ Head(s) = s[1] /\ s[1] \in Tokens /\ Tail(s) \in Seq(Tokens)
           /\ s = <<s[1]>> \o Tail(s)
<1>1. Head(s) = s[1] /\ s[1] \in Tokens /\ Tail(s) \in Seq(Tokens)
  OBVIOUS
<1>2. s = <<s[1]>> \o Tail(s)
  <2> DEFINE a == <<s[1]>>
             r == Tail(s)
             c == a \o r
  <2>1. /\ a \in Seq(Tokens) /\ Len(a) = 1 /\ a[1] = s[1] /\ r \in Seq(Tokens)
        /\ Len(r) = Len(s) - 1 /\ \A i \in 1 .. Len(r) : r[i] = s[i + 1]
    BY <1>1
  <2>2. Len(s) \in Nat /\ Len(s) >= 1
    OBVIOUS
  <2>. HIDE DEF a, r
  <2>3. /\ c \in Seq(Tokens) /\ Len(c) = Len(s)
        /\ \A i \in 1 .. Len(s) : c[i] = IF i <= 1 THEN a[i] ELSE r[i - 1]
    <3>1. Len(a) + Len(r) = Len(s)
      BY <2>1, <2>2
    <3>2. /\ c \in Seq(Tokens) /\ Len(c) = Len(a) + Len(r)
          /\ \A i \in 1 .. Len(a) + Len(r) : c[i] = IF i <= Len(a) THEN a[i] ELSE r[i - Len(a)]
      <4>1. a \in Seq(Tokens) /\ r \in Seq(Tokens)
        BY <2>1
      <4>. QED  BY <4>1, ConcatProperties
    <3>. HIDE DEF c
    <3>. QED  BY <2>1, <3>1, <3>2
  <2>. HIDE DEF c
  <2>4. ASSUME NEW i \in 1 .. Len(s) PROVE c[i] = s[i]
    <3>1. CASE i = 1
      BY <2>1, <2>3, <3>1
    <3>2. CASE i # 1
      <4> DEFINE j == i - 1
      <4>1. j \in 1 .. Len(r) /\ j + 1 = i /\ ~(i <= 1)
        BY <2>1, <2>2, <3>2
      <4>. HIDE DEF j
      <4>2. r[j] = s[i]
        BY <2>1, <4>1
      <4>3. c[i] = r[j]
        BY <2>3, <4>1 DEF j
      <4>. QED  BY <4>2, <4>3
    <3>. QED  BY <3>1, <3>2
  <2>5. c = s
    BY <2>3, <2>4, SeqEqual
  <2>. QED  BY <2>5 DEF a, r, c
<1>. QED  BY <1>1, <1>2

(* A text that begins with a token.                                           *)
LEMMA PutFirst ==
    ASSUME NEW x \in Tokens, NEW r \in Seq(Tokens)
    PROVE  /\ <<x>> \o r \in Seq(Tokens) /\ <<x>> \o r # <<>>
           /\ Head(<<x>> \o r) = x /\ (<<x>> \o r)[1] = x /\ Tail(<<x>> \o r) = r
<1> DEFINE a == <<x>>
           c == a \o r
<1>1. a \in Seq(Tokens) /\ Len(a) = 1 /\ a[1] = x
  OBVIOUS
<1>. HIDE DEF a
<1>2. /\ c \in Seq(Tokens) /\ Len(c) = 1 + Len(r)
      /\ \A i \in 1 .. 1 + Len(r) : c[i] = IF i <= 1 THEN a[i] ELSE r[i - 1]
  <2>1. /\ c \in Seq(Tokens) /\ Len(c) = Len(a) + Len(r)
        /\ \A i \in 1 .. Len(a) + Len(r) : c[i] = IF i <= Len(a) THEN a[i] ELSE r[i - Len(a)]
    BY <1>1, ConcatProperties
  <2>. HIDE DEF c
  <2>. QED  BY <1>1, <2>1
<1>. HIDE DEF c
<1>3. Len(r) \in Nat
  OBVIOUS
<1>4. c # <<>> /\ c[1] = x /\ Head(c) = x
  BY <1>1, <1>2, <1>3
<1> DEFINE t == Tail(c)
<1>5. t \in Seq(Tokens) /\ Len(t) = Len(r) /\ \A i \in 1 .. Len(t) : t[i] = c[i + 1]
  BY <1>2, <1>3, <1>4
<1>. HIDE DEF t
<1>6. ASSUME NEW i \in 1 .. Len(t) PROVE t[i] = r[i]
  <2> DEFINE j == i + 1
  <2>1. j \in 1 .. 1 + Len(r) /\ ~(j <= 1) /\ j - 1 = i
    BY <1>3, <1>5
  <2>. HIDE DEF j
  <2>2. c[j] = r[i]
    BY <1>2, <2>1
  <2>. QED  BY <1>5, <2>2 DEF j
<1>7. t = r
  BY <1>5, <1>6, SeqEqual
<1>. QED  BY <1>2, <1>4, <1>7 DEF a, c, t

(* The values that a comparison can have.                                     *)
Values == {Absent} \cup {Boolean(b) : b \in BOOLEAN} \cup {Number(n) : n \in Figures \cup Floats}
          \cup {Text(t) : t \in Strings}

(* What a word is read as.                                                    *)
LEMMA ValueText ==
    /\ \A b \in BOOLEAN : RhsText([value |-> Boolean(b), to |-> <<>>]) = <<IF b THEN "TRUE" ELSE "FALSE">>
    /\ \A n : RhsText([value |-> Number(n), to |-> <<>>]) = <<n>>
    /\ \A t : RhsText([value |-> Text(t), to |-> <<>>]) = <<t>>
    /\ \A p : p # <<>> => RhsText([value |-> Absent, to |-> p]) = PathText(p)
<1>1. ASSUME NEW b \in BOOLEAN
      PROVE  RhsText([value |-> Boolean(b), to |-> <<>>]) = <<IF b THEN "TRUE" ELSE "FALSE">>
  BY DEF RhsText, Boolean
<1>2. ASSUME NEW n PROVE RhsText([value |-> Number(n), to |-> <<>>]) = <<n>>
  BY DEF RhsText, Number
<1>3. ASSUME NEW t PROVE RhsText([value |-> Text(t), to |-> <<>>]) = <<t>>
  BY DEF RhsText, Text
<1>4. ASSUME NEW p, p # <<>> PROVE RhsText([value |-> Absent, to |-> p]) = PathText(p)
  <2> DEFINE t == [value |-> Absent, to |-> p]
  <2>1. t.to = p /\ t.value.type = "none"
    BY DEF Absent
  <2>. HIDE DEF t
  <2>2. t.to # <<>> /\ t.value.type # "bool" /\ t.value.type \notin {"number", "text"}
    BY <1>4, <2>1
  <2>3. RhsText(t) = PathText(t.to)
    BY <2>2, Zenon DEF RhsText
  <2>4. RhsText(t) = PathText(p)
    BY <2>1, <2>3
  <2>. QED  BY <2>4 DEF t
<1>. QED  BY <1>1, <1>2, <1>3, <1>4

(* Which of the alternatives is taken.                                        *)
LEMMA RhsCases ==
    ASSUME NEW s
    PROVE  /\ Begins(s, Truths) => Rhs(s) = Gives([value |-> Boolean(Head(s) = "TRUE"), to |-> <<>>], Tail(s))
           /\ Begins(s, Figures) => Rhs(s) = Gives([value |-> Number(Head(s)), to |-> <<>>], Tail(s))
           /\ Begins(s, Floats) =>
                 Rhs(s) = Gives([value |-> Number(Head(s)), to |-> <<>>], AfterFloat[Head(s)] \o Tail(s))
           /\ Begins(s, Strings) => Rhs(s) = Gives([value |-> Text(Head(s)), to |-> <<>>], Tail(s))
           /\ ~Begins(s, Truths) /\ ~Begins(s, Figures) /\ ~Begins(s, Floats) /\ ~Begins(s, Strings) =>
                 Rhs(s) = IF Path(s).ok THEN Gives([value |-> Absent, to |-> Path(s).out], Path(s).rest)
                          ELSE Fails
<1>1. /\ Begins(s, Figures) => ~Begins(s, Truths)
      /\ Begins(s, Floats) => ~Begins(s, Truths) /\ ~Begins(s, Figures)
      /\ Begins(s, Strings) => ~Begins(s, Truths) /\ ~Begins(s, Figures) /\ ~Begins(s, Floats)
  BY TokenKinds DEF Begins
<1>. QED  BY <1>1 DEF Rhs

(* The parser of floats left the end of a word, with which nothing goes on.   *)
Stuck(rest) == rest # <<>> /\ rest[1] = "ra"

(* A side as the parser yields it, behind which the rest is.                  *)
IsMade(side) ==
    /\ side = [value |-> side.value, to |-> side.to]
    /\ side.value \in Values /\ side.to \in Seq(Idents)
    /\ side.to # <<>> => side.to[1] \notin Floats

(* A side is written at the beginning of the text, or the parser is stuck     *)
(* behind it.                                                                 *)
Answers(s, side, rest) ==
    /\ IsMade(side) /\ rest \in Seq(Tokens)
    /\ Stuck(rest) \/ (Plain(RhsText(side)) /\ s = RhsText(side) \o rest)

(* A text of one token.                                                       *)
LEMMA PlainToken ==
    ASSUME NEW x \in Tokens, x \notin Ops, x # Gap
    PROVE  Plain(<<x>>)
<1>1. <<x>> \in Seq(Tokens) /\ <<x>> # <<>> /\ DOMAIN <<x>> = {1} /\ <<x>>[1] = x
  OBVIOUS
<1>. QED  BY <1>1 DEF Plain

(* A value that one token shows.                                              *)
LEMMA AnswersToken ==
    ASSUME NEW s \in Seq(Tokens), s # <<>>, NEW v \in Values,
           s[1] \in Truths \cup Figures \cup Strings \cup Floats,
           RhsText([value |-> v, to |-> <<>>]) = <<s[1]>>
    PROVE  Answers(s, [value |-> v, to |-> <<>>], Tail(s))
<1>1. /\ s[1] \in Tokens /\ Tail(s) \in Seq(Tokens) /\ s = <<s[1]>> \o Tail(s)
  BY TakeFirst
<1>2. s[1] \notin Ops /\ s[1] # Gap
  BY TokenKinds
<1>3. Plain(<<s[1]>>)
  BY <1>1, <1>2, PlainToken
<1> DEFINE side == [value |-> v, to |-> <<>>]
<1>4. side.value = v /\ side.to = <<>> /\ side = [value |-> side.value, to |-> side.to]
  OBVIOUS
<1>. HIDE DEF side
<1>5. <<>> \in Seq(Idents)
  OBVIOUS
<1>6. IsMade(side)
  BY <1>4, <1>5 DEF IsMade
<1>7. Answers(s, side, Tail(s))
  BY <1>1, <1>3, <1>6 DEF Answers, side
<1>. QED  BY <1>7 DEF side

(* What was taken as a side is written at the beginning, or the parser is stuck.   *)
LEMMA RhsTaken ==
    ASSUME NEW s \in Seq(Tokens), Rhs(s).ok
    PROVE  \E side, rest : Rhs(s) = Gives(side, rest) /\ Answers(s, side, rest)
<1>1. CASE Begins(s, Truths)
  <2>1. s # <<>> /\ s[1] \in Truths /\ Head(s) = s[1]
    BY <1>1, TakeFirst DEF Begins
  <2> DEFINE v == Boolean(s[1] = "TRUE")
  <2>2. v \in Values
    BY DEF Values
  <2>3. RhsText([value |-> v, to |-> <<>>]) = <<s[1]>>
    <3>1. CASE s[1] = "TRUE"
      <4>1. RhsText([value |-> Boolean(TRUE), to |-> <<>>]) = <<"TRUE">>
        BY ValueText
      <4>. QED  BY <3>1, <4>1
    <3>2. CASE s[1] # "TRUE"
      <4>1. RhsText([value |-> Boolean(FALSE), to |-> <<>>]) = <<"FALSE">>
        BY ValueText
      <4>2. s[1] = "FALSE"
        BY <2>1, <3>2 DEF Truths
      <4>. QED  BY <3>2, <4>1, <4>2
    <3>. QED  BY <3>1, <3>2
  <2>4. Rhs(s) = Gives([value |-> v, to |-> <<>>], Tail(s))
    BY <1>1, <2>1, RhsCases
  <2>. HIDE DEF v
  <2>5. Answers(s, [value |-> v, to |-> <<>>], Tail(s))
    BY <2>1, <2>2, <2>3, AnswersToken
  <2>. QED  BY <2>4, <2>5
<1>2. CASE Begins(s, Figures)
  <2>1. s # <<>> /\ s[1] \in Figures /\ Head(s) = s[1]
    BY <1>2, TakeFirst DEF Begins
  <2> DEFINE v == Number(s[1])
  <2>2. v \in Values
    BY <2>1 DEF Values
  <2>3. RhsText([value |-> v, to |-> <<>>]) = <<s[1]>>
    BY ValueText
  <2>4. Rhs(s) = Gives([value |-> v, to |-> <<>>], Tail(s))
    BY <1>2, <2>1, RhsCases
  <2>. HIDE DEF v
  <2>5. Answers(s, [value |-> v, to |-> <<>>], Tail(s))
    BY <2>1, <2>2, <2>3, AnswersToken
  <2>. QED  BY <2>4, <2>5
<1>3. CASE Begins(s, Strings)
  <2>1. s # <<>> /\ s[1] \in Strings /\ Head(s) = s[1]
    BY <1>3, TakeFirst DEF Begins
  <2> DEFINE v == Text(s[1])
  <2>2. v \in Values
    BY <2>1 DEF Values
  <2>3. RhsText([value |-> v, to |-> <<>>]) = <<s[1]>>
    BY ValueText
  <2>4. Rhs(s) = Gives([value |-> v, to |-> <<>>], Tail(s))
    BY <1>3, <2>1, RhsCases
  <2>. HIDE DEF v
  <2>5. Answers(s, [value |-> v, to |-> <<>>], Tail(s))
    BY <2>1, <2>2, <2>3, AnswersToken
  <2>. QED  BY <2>4, <2>5
<1>4. CASE Begins(s, Floats)
  <2>1. s # <<>> /\ s[1] \in Floats /\ Head(s) = s[1] /\ Tail(s) \in Seq(Tokens)
    BY <1>4, TakeFirst DEF Begins
  <2> DEFINE v == Number(s[1])
             rest == AfterFloat[s[1]] \o Tail(s)
             side == [value |-> v, to |-> <<>>]
  <2>2. v \in Values
    BY <2>1 DEF Values
  <2>3. RhsText(side) = <<s[1]>>
    BY ValueText
  <2>4. Rhs(s) = Gives(side, rest)
    BY <1>4, <2>1, RhsCases
  <2>. HIDE DEF v
  <2>5. Answers(s, side, Tail(s))
    BY <2>1, <2>2, <2>3, AnswersToken
  <2>6. CASE AfterFloat[s[1]] = <<>>
    <3>1. rest = Tail(s)
      BY <2>1, <2>6, ConcatEmptySeq
    <3>. QED  BY <2>4, <2>5, <3>1
  <2>7. CASE AfterFloat[s[1]] = <<"ra">>
    <3>1. "ra" \in Tokens
      BY TokenKinds
    <3>2. <<"ra">> \o Tail(s) \in Seq(Tokens) /\ <<"ra">> \o Tail(s) # <<>> /\ (<<"ra">> \o Tail(s))[1] = "ra"
      BY <2>1, <3>1, PutFirst
    <3>3. rest \in Seq(Tokens) /\ Stuck(rest)
      BY <2>7, <3>2 DEF Stuck
    <3>. HIDE DEF rest, side
    <3>4. Answers(s, side, rest)
      BY <2>5, <3>3 DEF Answers
    <3>. QED  BY <2>4, <3>4
  <2>. QED  BY <2>1, <2>6, <2>7, FloatLeaves
<1>5. CASE ~Begins(s, Truths) /\ ~Begins(s, Figures) /\ ~Begins(s, Floats) /\ ~Begins(s, Strings)
  <2>1. Rhs(s) = IF Path(s).ok THEN Gives([value |-> Absent, to |-> Path(s).out], Path(s).rest) ELSE Fails
    BY <1>5, RhsCases
  <2>2. Path(s).ok
    BY <2>1 DEF Fails
  <2>3. PICK p, rest : Path(s) = Gives(p, rest) /\ Opens(s, p, rest)
    BY <2>2, PathTaken
  <2> DEFINE side == [value |-> Absent, to |-> p]
  <2>4. Rhs(s) = Gives(side, rest)
    <3>1. Path(s).out = p /\ Path(s).rest = rest
      BY <2>3 DEF Gives
    <3>. QED  BY <2>1, <2>2, <3>1
  <2>5. p # <<>> /\ p \in Seq(Idents) /\ IsPath(p) /\ s # <<>> /\ s[1] = p[1] /\ rest \in Seq(Tokens)
        /\ s = PathText(p) \o rest
    BY <2>3 DEF Opens, IsPath
  <2>6. p[1] \notin Floats
    <3>1. Head(s) = s[1]
      BY <2>5
    <3>. QED  BY <1>5, <2>5, <3>1 DEF Begins
  <2>7. RhsText(side) = PathText(p) /\ Plain(PathText(p))
    BY <2>5, ValueText, PathWritten
  <2>8. side.value = Absent /\ side.to = p /\ side = [value |-> side.value, to |-> side.to]
    OBVIOUS
  <2>. HIDE DEF side
  <2>9. IsMade(side)
    <3>1. Absent \in Values
      BY DEF Values
    <3>. QED  BY <2>5, <2>6, <2>8, <3>1 DEF IsMade
  <2>10. Answers(s, side, rest)
    BY <2>5, <2>7, <2>9 DEF Answers
  <2>. QED  BY <2>4, <2>10
<1>. QED  BY <1>1, <1>2, <1>3, <1>4, <1>5

(* A side that is written is taken, unless a number begins it, and it is plain. *)
LEMMA RhsGiven ==
    ASSUME NEW value, NEW to, IsSide(value, to), to # <<>> => to[1] \notin Floats,
           NEW rest \in Seq(Tokens), rest = <<>> \/ rest[1] = Gap
    PROVE  LET side == [value |-> value, to |-> to]
           IN  Plain(RhsText(side)) /\ Rhs(RhsText(side) \o rest) = Gives(side, rest)
<1> DEFINE side == [value |-> value, to |-> to]
           s == RhsText(side) \o rest
<1>1. CASE to # <<>>
  <2>1. IsPath(to) /\ value = Absent
    BY <1>1 DEF IsSide, IsPath
  <2>2. RhsText(side) = PathText(to) /\ Plain(PathText(to)) /\ Len(to) >= 1 /\ Len(to) \in Nat
    BY <1>1, <2>1, ValueText, PathWritten
  <2>3. s # <<>> /\ Head(s) = to[1]
    <3> DEFINE f == PathText(to)
    <3>1. f[1] = to[1] /\ f \in Seq(Tokens) /\ Len(f) = 2 * Len(to) - 1
      <4>1. 1 \in 1 .. Len(to) /\ 2 * 1 - 1 = 1
        BY <2>2
      <4>2. \A h \in 1 .. Len(to) : f[2 * h - 1] = to[h]
        BY <2>1, PathWritten
      <4>. HIDE DEF f
      <4>3. f[1] = to[1]
        BY <4>1, <4>2
      <4>. USE DEF f
      <4>. QED  BY <2>1, <2>2, <4>3, PathWritten DEF Plain
    <3>. HIDE DEF f
    <3>2. Len(f) \in Nat /\ Len(f) >= 1
      BY <2>2, <3>1
    <3>3. f \o rest # <<>> /\ Head(f \o rest) = f[1]
      BY <3>1, <3>2
    <3>. QED  BY <2>2, <3>1, <3>3 DEF f
  <2>4. to[1] \in Idents /\ to[1] \notin Floats
    <3>1. to[1] \in Idents
      BY <1>1, <2>1 DEF IsPath
    <3>. QED  BY <1>1, <3>1
  <2>. HIDE DEF s
  <2>5. ~Begins(s, Truths) /\ ~Begins(s, Figures) /\ ~Begins(s, Floats) /\ ~Begins(s, Strings)
    BY <2>3, <2>4, TokenKinds DEF Begins
  <2>6. Path(s) = Gives(to, rest)
    <3>1. rest = <<>> \/ rest[1] # "."
      BY TokenKinds
    <3>. QED  BY <2>1, <2>2, <3>1, PathGiven DEF s
  <2>7. Path(s).ok /\ Path(s).out = to /\ Path(s).rest = rest
    BY <2>6 DEF Gives
  <2>8. Rhs(s) = Gives(side, rest)
    BY <2>1, <2>5, <2>7, RhsCases
  <2>. QED  BY <2>2, <2>8 DEF s
<1>2. CASE to = <<>>
  <2>1. PICK x \in Truths \cup Figures \cup Strings \cup {f \in Floats : AfterFloat[f] = <<>>} :
           /\ RhsText(side) = <<x>>
           /\ \/ x \in Truths /\ value = Boolean(x = "TRUE")
              \/ x \in Figures \cup {f \in Floats : AfterFloat[f] = <<>>} /\ value = Number(x)
              \/ x \in Strings /\ value = Text(x)
    <3>1. CASE \E b \in BOOLEAN : value = Boolean(b)
      <4>1. PICK b \in BOOLEAN : value = Boolean(b)
        BY <3>1
      <4> DEFINE x == IF b THEN "TRUE" ELSE "FALSE"
      <4>2. RhsText(side) = <<x>>
        BY <1>2, <4>1, ValueText
      <4>3. x \in Truths /\ (x = "TRUE") = b
        BY <4>1 DEF Truths
      <4>. HIDE DEF x
      <4>. QED  BY <4>1, <4>2, <4>3
    <3>2. CASE \E n \in Figures \cup {f \in Floats : AfterFloat[f] = <<>>} : value = Number(n)
      <4>1. PICK n \in Figures \cup {f \in Floats : AfterFloat[f] = <<>>} : value = Number(n)
        BY <3>2
      <4>2. RhsText(side) = <<n>>
        BY <1>2, <4>1, ValueText
      <4>. QED  BY <4>1, <4>2
    <3>3. CASE \E t \in Strings : value = Text(t)
      <4>1. PICK t \in Strings : value = Text(t)
        BY <3>3
      <4>2. RhsText(side) = <<t>>
        BY <1>2, <4>1, ValueText
      <4>. QED  BY <4>1, <4>2
    <3>. QED  BY <1>2, <3>1, <3>2, <3>3 DEF IsSide
  <2>2. x \in Tokens /\ x \notin Ops /\ x # Gap
    BY TokenKinds
  <2>3. s # <<>> /\ Head(s) = x /\ Tail(s) = rest
    BY <2>1, <2>2, PutFirst
  <2>4. Plain(RhsText(side))
    BY <2>1, <2>2, PlainToken
  <2>. HIDE DEF s
  <2>5. CASE x \in Truths /\ value = Boolean(x = "TRUE")
    <3>1. Begins(s, Truths)
      BY <2>3, <2>5 DEF Begins
    <3>2. Rhs(s) = Gives([value |-> Boolean(x = "TRUE"), to |-> <<>>], rest)
      BY <2>3, <3>1, RhsCases
    <3>. QED  BY <1>2, <2>4, <2>5, <3>2 DEF s
  <2>6. CASE x \in Figures /\ value = Number(x)
    <3>1. Begins(s, Figures)
      BY <2>3, <2>6 DEF Begins
    <3>2. Rhs(s) = Gives([value |-> Number(x), to |-> <<>>], rest)
      BY <2>3, <3>1, RhsCases
    <3>. QED  BY <1>2, <2>4, <2>6, <3>2 DEF s
  <2>7. CASE x \in Floats /\ AfterFloat[x] = <<>> /\ value = Number(x)
    <3>1. Begins(s, Floats)
      BY <2>3, <2>7 DEF Begins
    <3>2. Rhs(s) = Gives([value |-> Number(x), to |-> <<>>], AfterFloat[x] \o rest)
      BY <2>3, <3>1, RhsCases
    <3>3. AfterFloat[x] \o rest = rest
      BY <2>7, ConcatEmptySeq
    <3>. QED  BY <1>2, <2>4, <2>7, <3>2, <3>3 DEF s
  <2>8. CASE x \in Strings /\ value = Text(x)
    <3>1. Begins(s, Strings)
      BY <2>3, <2>8 DEF Begins
    <3>2. Rhs(s) = Gives([value |-> Text(x), to |-> <<>>], rest)
      BY <2>3, <3>1, RhsCases
    <3>. QED  BY <1>2, <2>4, <2>8, <3>2 DEF s
  <2>. QED  BY <2>1, <2>5, <2>6, <2>7, <2>8
<1>. QED  BY <1>1, <1>2

(* The white space there may be.                                              *)
Blanks == {<<>>, <<Gap>>}

(* An operator loses the blanks around it.                                    *)
LEMMA BareOperator ==
    ASSUME NEW a \in Blanks, NEW b \in Blanks, NEW op \in Ops
    PROVE  Bare(a \o <<op>> \o b) = <<op>> /\ a \o <<op>> \o b \in Seq(Tokens)
<1> DEFINE m == a \o <<op>> \o b
           k == Len(a) + 1
<1>1. op \in Tokens /\ Gap \in Tokens /\ Gap # op /\ Gap \notin Ops
  BY TokenKinds
<1>2. /\ m \in Seq(Tokens) /\ k \in DOMAIN m /\ m[k] = op
      /\ \A i \in DOMAIN m : i # k => m[i] = Gap /\ (i = k - 1 \/ i = k + 1)
      /\ k \in Nat /\ DOMAIN m = 1 .. Len(m) /\ Len(m) \in Nat
  <2> DEFINE o == <<op>>
             c == a \o o
  <2>1. ASSUME NEW x \in Blanks
        PROVE  /\ x \in Seq(Tokens) /\ Len(x) \in {0, 1}
               /\ \A i \in 1 .. Len(x) : x[i] = Gap
    <3>1. CASE x = <<>>
      BY <3>1
    <3>2. CASE x = <<Gap>>
      BY <1>1, <3>2
    <3>. QED  BY <3>1, <3>2 DEF Blanks
  <2>2. o \in Seq(Tokens) /\ Len(o) = 1 /\ o[1] = op
    BY <1>1
  <2>3. /\ a \in Seq(Tokens) /\ Len(a) \in {0, 1} /\ (\A i \in 1 .. Len(a) : a[i] = Gap)
        /\ b \in Seq(Tokens) /\ Len(b) \in {0, 1} /\ (\A i \in 1 .. Len(b) : b[i] = Gap)
    BY <2>1
  <2>. HIDE DEF o
  <2>4. c \in Seq(Tokens) /\ Joins(c, a, o)
    BY <2>2, <2>3, ConcatIs
  <2>. HIDE DEF c
  <2>5. m \in Seq(Tokens) /\ Joins(m, c, b)
    <3>1. c \o b \in Seq(Tokens) /\ Joins(c \o b, c, b)
      BY <2>3, <2>4, ConcatIs
    <3>. QED  BY <3>1 DEF c, o
  <2>. HIDE DEF m
  <2>6. /\ Len(c) = Len(a) + 1 /\ Len(m) = Len(c) + Len(b) /\ Len(a) \in Nat /\ Len(b) \in Nat
        /\ \A i \in 1 .. Len(a) : c[i] = a[i]
        /\ \A i \in 1 .. 1 : c[Len(a) + i] = o[i]
        /\ \A i \in 1 .. Len(c) : m[i] = c[i]
        /\ \A i \in 1 .. Len(b) : m[Len(c) + i] = b[i]
    BY <2>2, <2>4, <2>5 DEF Joins
  <2>7. k = Len(c) /\ k \in Nat /\ k >= 1 /\ Len(m) \in Nat /\ DOMAIN m = 1 .. Len(m)
    BY <2>5, <2>6
  <2>8. m[k] = op
    <3>1. 1 \in 1 .. 1 /\ k \in 1 .. Len(c)
      BY <2>7
    <3>. QED  BY <2>2, <2>6, <2>7, <3>1
  <2>9. ASSUME NEW i \in DOMAIN m, i # k PROVE m[i] = Gap /\ (i = k - 1 \/ i = k + 1)
    <3>1. CASE i < k
      <4>1. i \in 1 .. Len(a) /\ i \in 1 .. Len(c) /\ i = k - 1
        BY <2>3, <2>6, <2>7, <3>1
      <4>. QED  BY <2>3, <2>6, <4>1
    <3>2. CASE i > k
      <4>1. 1 \in 1 .. Len(b) /\ i = Len(c) + 1
        BY <2>3, <2>6, <2>7, <3>2
      <4>. QED  BY <2>3, <2>6, <2>7, <4>1
    <3>. QED  BY <2>7, <2>9, <3>1, <3>2
  <2>. QED  BY <2>5, <2>6, <2>7, <2>8, <2>9
<1>. HIDE DEF m, k
<1>3. ~Drops(m, k)
  BY <1>1, <1>2 DEF Drops
<1>4. ASSUME NEW i \in DOMAIN m, i # k PROVE Drops(m, i)
  <2>1. m[i] = Gap /\ (i = k - 1 \/ i = k + 1)
    BY <1>2, <1>4
  <2>2. CASE i = k - 1
    <3>1. i + 1 = k /\ i < Len(m)
      BY <1>2, <2>2
    <3>. QED  BY <1>2, <2>1, <3>1 DEF Drops
  <2>3. CASE i = k + 1
    <3>1. i - 1 = k /\ i > 1
      BY <1>2, <2>3
    <3>. QED  BY <1>2, <2>1, <3>1 DEF Drops
  <2>. QED  BY <2>1, <2>2, <2>3
<1>5. {i \in DOMAIN m : ~Drops(m, i)} = {k}
  BY <1>2, <1>3, <1>4
<1>6. Pick(m, {k}) = <<op>>
  <2>1. Pick(m, {k}) = <<m[k]>>
    BY <1>2, PickOne
  <2>. QED  BY <1>2, <2>1
<1>7. Bare(m) = <<op>>
  BY <1>5, <1>6 DEF Bare
<1>. QED  BY <1>2, <1>7 DEF m

(* A text that neither begins nor ends with a blank or an operator, and what is *)
(* left of it.                                                                *)
ShownAs(w, bare) ==
    /\ w \in Seq(Tokens) /\ w # <<>> /\ Bare(w) = bare
    /\ w[1] \notin Ops /\ w[1] # Gap
    /\ w[Len(w)] \notin Ops /\ w[Len(w)] # Gap

(* So is a path, an operator and a side.                                      *)
LEMMA TermShown ==
    ASSUME NEW p, Plain(p), NEW a \in Blanks, NEW op \in Ops, NEW b \in Blanks, NEW r, Plain(r)
    PROVE  ShownAs(p \o a \o <<op>> \o b \o r, p \o <<>> \o <<op>> \o <<>> \o r)
<1> DEFINE m == a \o <<op>> \o b
<1>1. m \in Seq(Tokens) /\ Bare(m) = <<op>>
  BY BareOperator
<1>2. a \in Seq(Tokens) /\ b \in Seq(Tokens) /\ <<op>> \in Seq(Tokens)
  <2>1. op \in Tokens /\ Gap \in Tokens
    BY TokenKinds
  <2>2. <<>> \in Seq(Tokens) /\ <<Gap>> \in Seq(Tokens) /\ <<op>> \in Seq(Tokens)
    BY <2>1
  <2>. QED  BY <2>2 DEF Blanks
<1>3. /\ p \in Seq(Tokens) /\ p # <<>> /\ r \in Seq(Tokens) /\ r # <<>>
      /\ p[1] \notin Ops /\ p[1] # Gap /\ p[Len(p)] \notin Ops /\ p[Len(p)] # Gap
      /\ r[1] \notin Ops /\ r[1] # Gap /\ r[Len(r)] \notin Ops /\ r[Len(r)] # Gap
  <2>1. ASSUME NEW q, Plain(q)
        PROVE  /\ q \in Seq(Tokens) /\ q # <<>>
               /\ q[1] \notin Ops /\ q[1] # Gap /\ q[Len(q)] \notin Ops /\ q[Len(q)] # Gap
    <3>1. q \in Seq(Tokens) /\ q # <<>> /\ \A i \in DOMAIN q : q[i] \notin Ops /\ q[i] # Gap
      BY <2>1 DEF Plain
    <3>2. 1 \in DOMAIN q /\ Len(q) \in DOMAIN q
      BY <3>1
    <3>. QED  BY <3>1, <3>2
  <2>. QED  BY <2>1
<1>4. Bare(p) = p /\ Bare(r) = r
  <2>1. ASSUME NEW q, Plain(q) PROVE Bare(q) = q
    BY <2>1, BareSame DEF Plain
  <2>. QED  BY <2>1
<1>5. p \o a \o <<op>> \o b \o r = (p \o m) \o r
  <2>1. a \o <<op>> \in Seq(Tokens)
    BY <1>2, EndsOf
  <2>2. (p \o a) \o <<op>> = p \o (a \o <<op>>)
    BY <1>2, <1>3, ConcatAssociative
  <2>3. (p \o (a \o <<op>>)) \o b = p \o ((a \o <<op>>) \o b)
    BY <1>2, <1>3, <2>1, ConcatAssociative, SMTT(30)
  <2>. QED  BY <2>2, <2>3
<1>. HIDE DEF m
<1>6. m # <<>>
  <2>1. Bare(<<>>) = <<>>
    <3>1. IsVector(<<>>) /\ <<>> \in Seq(Tokens) /\ \A i \in DOMAIN <<>> : <<>>[i] # Gap
      BY EmptyVector
    <3>. QED  BY <3>1, BareSame
  <2>. QED  BY <1>1, <2>1
<1>7. Bare(p \o m) = p \o <<op>> /\ p \o m \in Seq(Tokens) /\ p \o m # <<>> /\ (p \o m)[1] = p[1]
  <2>1. Parted(p, m)
    BY <1>3, <1>6 DEF Parted
  <2>2. Bare(p \o m) = Bare(p) \o Bare(m)
    BY <1>1, <1>3, <2>1, BareConcat
  <2>. QED  BY <1>1, <1>3, <1>4, <2>2, EndsOf
<1>8. Bare((p \o m) \o r) = (p \o <<op>>) \o r
  <2>1. Parted(p \o m, r)
    BY <1>3, <1>7 DEF Parted
  <2>2. Bare((p \o m) \o r) = Bare(p \o m) \o Bare(r)
    BY <1>3, <1>7, <2>1, BareConcat
  <2>. QED  BY <1>4, <1>7, <2>2
<1>9. p \o <<>> \o <<op>> \o <<>> \o r = (p \o <<op>>) \o r
  <2>1. p \o <<>> = p
    BY <1>3, ConcatEmptySeq
  <2>2. (p \o <<op>>) \o <<>> = p \o <<op>>
    <3>1. p \o <<op>> \in Seq(Tokens)
      BY <1>2, <1>3, EndsOf
    <3>. QED  BY <3>1, ConcatEmptySeq
  <2>. QED  BY <2>1, <2>2
<1> DEFINE w == (p \o m) \o r
<1>10. w \in Seq(Tokens) /\ w # <<>> /\ w[1] = p[1] /\ w[Len(w)] = r[Len(r)]
  BY <1>3, <1>7, EndsOf
<1>. HIDE DEF w
<1>11. ShownAs(w, (p \o <<op>>) \o r)
  BY <1>3, <1>8, <1>10 DEF ShownAs, w
<1>. QED  BY <1>5, <1>9, <1>11 DEF w

(* White space is skipped.                                                    *)
LEMMA SpaceIs ==
    /\ Blank = Blanks
    /\ \A s : SkipSpace(s) = IF Begins(s, {Gap}) THEN Tail(s) ELSE s
BY Zenon DEF Blank, Blanks, Gap, SkipSpace

(* Skipping white space takes a blank, or nothing.                            *)
LEMMA SpaceTaken ==
    ASSUME NEW s \in Seq(Tokens)
    PROVE  SkipSpace(s) \in Seq(Tokens) /\ \E b \in Blanks : s = b \o SkipSpace(s)
<1>1. CASE Begins(s, {Gap})
  <2>1. s # <<>> /\ Head(s) = Gap
    BY <1>1 DEF Begins
  <2>2. Head(s) = s[1] /\ Tail(s) \in Seq(Tokens) /\ s = <<s[1]>> \o Tail(s)
    BY <2>1, TakeFirst
  <2>3. SkipSpace(s) = Tail(s)
    BY <1>1, SpaceIs
  <2>. QED  BY <2>1, <2>2, <2>3 DEF Blanks
<1>2. CASE ~Begins(s, {Gap})
  <2>1. SkipSpace(s) = s
    BY <1>2, SpaceIs
  <2>2. s = <<>> \o s
    BY ConcatEmptySeq
  <2>. QED  BY <2>1, <2>2 DEF Blanks
<1>. QED  BY <1>1, <1>2

(* A blank that is written is skipped, and no more than it.                   *)
LEMMA SpaceGiven ==
    ASSUME NEW b \in Blanks, NEW r \in Seq(Tokens), r # <<>> => r[1] # Gap
    PROVE  SkipSpace(b \o r) = r /\ b \o r \in Seq(Tokens)
<1>1. CASE b = <<>>
  <2>1. b \o r = r
    BY <1>1, ConcatEmptySeq
  <2>2. ~Begins(r, {Gap})
    <3>1. r # <<>> => Head(r) = r[1]
      OBVIOUS
    <3>. QED  BY <3>1 DEF Begins
  <2>. QED  BY <2>1, <2>2, SpaceIs
<1>2. CASE b = <<Gap>>
  <2>1. Gap \in Tokens
    BY TokenKinds
  <2>2. b \o r \in Seq(Tokens) /\ b \o r # <<>> /\ Head(b \o r) = Gap /\ Tail(b \o r) = r
    BY <1>2, <2>1, PutFirst
  <2>3. Begins(b \o r, {Gap})
    BY <2>2 DEF Begins
  <2>. QED  BY <2>2, <2>3, SpaceIs
<1>. QED  BY <1>1, <1>2 DEF Blanks

(* What a term is made of.                                                    *)
Compares(p, op, side) == [path |-> p, op |-> op, value |-> side.value, to |-> side.to]

(* A term is parsed as a path, an operator and a side, one behind the other.  *)
LEMMA TermIs ==
    ASSUME NEW s
    PROVE  LET u == SkipSpace(Path(s).rest)
               r == Rhs(SkipSpace(Tail(u)))
           IN  ParseTerm(s) = IF Path(s).ok /\ Begins(u, Ops)
                              THEN IF r.ok THEN Gives(Compares(Path(s).out, Head(u), r.out), r.rest) ELSE Fails
                              ELSE Fails
BY Zenon DEF ParseTerm, AfterPath, AfterOp, Compares

(* A term as the parser yields it, behind which the rest is.                  *)
IsMadeTerm(t) ==
    /\ t = [path |-> t.path, op |-> t.op, value |-> t.value, to |-> t.to]
    /\ IsPath(t.path) /\ t.op \in Ops
    /\ t.value \in Values /\ t.to \in Seq(Idents)
    /\ t.to # <<>> => t.to[1] \notin Floats

(* A term is written at the beginning of the text but for the blanks around   *)
(* its operator, or the parser is stuck behind it.                            *)
Yields(s, t, rest) ==
    /\ IsMadeTerm(t) /\ rest \in Seq(Tokens)
    /\ Stuck(rest) \/ \E w : s = w \o rest /\ ShownAs(w, TermText(t, <<>>, <<>>))

(* The text of a comparison by its parts.                                     *)
LEMMA SideText ==
    ASSUME NEW p, NEW op, NEW side, NEW a, NEW b
    PROVE  /\ RhsText(Compares(p, op, side)) = RhsText(side)
           /\ TermText(Compares(p, op, side), a, b) = PathText(p) \o a \o <<op>> \o b \o RhsText(side)
<1> DEFINE t == Compares(p, op, side)
<1>1. t.value = side.value /\ t.to = side.to /\ t.path = p /\ t.op = op
  BY DEF Compares
<1>. HIDE DEF t
<1>2. RhsText(t) = RhsText(side)
  BY <1>1, Zenon DEF RhsText
<1>3. TermText(t, a, b) = PathText(p) \o a \o <<op>> \o b \o RhsText(side)
  BY <1>1, <1>2, Zenon DEF TermText
<1>. QED  BY <1>2, <1>3 DEF t

(* What was taken as a term is written at the beginning, or the parser is stuck.    *)
LEMMA TermTaken ==
    ASSUME NEW s \in Seq(Tokens), ParseTerm(s).ok
    PROVE  \E t, rest : ParseTerm(s) = Gives(t, rest) /\ Yields(s, t, rest)
<1> DEFINE u == SkipSpace(Path(s).rest)
           v == SkipSpace(Tail(u))
<1>1. Path(s).ok /\ Begins(u, Ops) /\ Rhs(v).ok
      /\ ParseTerm(s) = Gives(Compares(Path(s).out, Head(u), Rhs(v).out), Rhs(v).rest)
  <2>1. ParseTerm(s) = IF Path(s).ok /\ Begins(u, Ops)
                       THEN IF Rhs(v).ok THEN Gives(Compares(Path(s).out, Head(u), Rhs(v).out), Rhs(v).rest)
                            ELSE Fails
                       ELSE Fails
    BY TermIs, Zenon
  <2>2. ~Fails.ok
    BY DEF Fails
  <2>3. ParseTerm(s) # Fails
    BY <2>2
  <2>. HIDE DEF u, v
  <2>. QED  BY <2>1, <2>3, Zenon
<1>2. PICK p, r1 : Path(s) = Gives(p, r1) /\ Opens(s, p, r1)
  BY <1>1, PathTaken
<1>3. /\ IsPath(p) /\ r1 \in Seq(Tokens) /\ s = PathText(p) \o r1
      /\ Path(s).out = p /\ Path(s).rest = r1
  BY <1>2 DEF Opens, Gives
<1>4. PICK a \in Blanks : r1 = a \o u /\ u \in Seq(Tokens)
  BY <1>3, SpaceTaken
<1> DEFINE op == Head(u)
<1>5. op \in Ops /\ op \in Tokens /\ u = <<op>> \o Tail(u) /\ Tail(u) \in Seq(Tokens)
  <2>1. u # <<>> /\ op \in Ops
    BY <1>1 DEF Begins
  <2>. HIDE DEF u
  <2>. QED  BY <1>4, <2>1, TakeFirst
<1>. HIDE DEF u
<1>6. PICK b \in Blanks : Tail(u) = b \o v /\ v \in Seq(Tokens)
  BY <1>5, SpaceTaken
<1>. HIDE DEF v
<1>7. PICK side, rest : Rhs(v) = Gives(side, rest) /\ Answers(v, side, rest)
  BY <1>1, <1>6, RhsTaken
<1> DEFINE t == Compares(p, op, side)
<1>8. ParseTerm(s) = Gives(t, rest)
  <2>1. Rhs(v).out = side /\ Rhs(v).rest = rest
    BY <1>7 DEF Gives
  <2>. QED  BY <1>1, <1>3, <2>1
<1>. HIDE DEF op
<1>9. IsMade(side) /\ rest \in Seq(Tokens) /\ IsMadeTerm(t)
  <2>1. IsMade(side) /\ rest \in Seq(Tokens)
    BY <1>7 DEF Answers
  <2>2. t.path = p /\ t.op = op /\ t.value = side.value /\ t.to = side.to
        /\ t = [path |-> t.path, op |-> t.op, value |-> t.value, to |-> t.to]
    BY DEF Compares
  <2>. HIDE DEF t
  <2>. QED  BY <1>3, <1>5, <2>1, <2>2 DEF IsMade, IsMadeTerm
<1>10. ASSUME Plain(RhsText(side)), v = RhsText(side) \o rest
       PROVE  \E w : s = w \o rest /\ ShownAs(w, TermText(t, <<>>, <<>>))
  <2> DEFINE P == PathText(p)
             o == <<op>>
             R == RhsText(side)
             w == P \o a \o o \o b \o R
  <2>1. P \in Seq(Tokens) /\ Plain(P) /\ o \in Seq(Tokens) /\ R \in Seq(Tokens)
    BY <1>3, <1>5, <1>10, PathWritten DEF Plain
  <2>2. a \in Seq(Tokens) /\ b \in Seq(Tokens)
    <3>1. Gap \in Tokens
      BY TokenKinds
    <3>2. <<>> \in Seq(Tokens) /\ <<Gap>> \in Seq(Tokens)
      BY <3>1
    <3>. QED  BY <3>2 DEF Blanks
  <2>3. s = P \o (a \o (o \o (b \o (R \o rest))))
    BY <1>3, <1>4, <1>5, <1>6, <1>10, Zenon DEF P, o, R
  <2>4. ShownAs(w, P \o <<>> \o o \o <<>> \o R)
    BY <1>5, <1>10, <2>1, TermShown
  <2>5. TermText(t, <<>>, <<>>) = P \o <<>> \o o \o <<>> \o R
    <3>1. \A x, y : TermText(Compares(p, op, side), x, y) = PathText(p) \o x \o <<op>> \o y \o RhsText(side)
      BY SideText
    <3>. QED  BY <3>1, Zenon DEF t, P, o, R
  <2>. HIDE DEF P, o, R, t
  <2>6. w \o rest = P \o (a \o (o \o (b \o (R \o rest))))
    <3>1. Regroups(P, a, o, b, R, rest)
      BY <1>9, <2>1, <2>2, FiveTogether
    <3>. QED  BY <3>1, Zenon DEF Regroups, w
  <2>. HIDE DEF w
  <2>. QED  BY <2>3, <2>4, <2>5, <2>6
<1>11. Yields(s, t, rest)
  <2>1. Stuck(rest) \/ \E w : s = w \o rest /\ ShownAs(w, TermText(t, <<>>, <<>>))
    BY <1>7, <1>10 DEF Answers
  <2>. HIDE DEF t
  <2>. QED  BY <1>9, <2>1 DEF Yields
<1>. QED  BY <1>8, <1>11

(* A term that is written is taken, if no number begins its right side; it neither  *)
(* begins nor ends with a blank or an operator.                               *)
LEMMA TermGiven ==
    ASSUME NEW t, IsTerm(t), t.to # <<>> => t.to[1] \notin Floats,
           NEW a \in Blanks, NEW b \in Blanks, NEW rest \in Seq(Tokens), rest = <<>> \/ rest[1] = Gap
    PROVE  /\ ShownAs(TermText(t, a, b), TermText(t, <<>>, <<>>))
           /\ ParseTerm(TermText(t, a, b) \o rest) = Gives(t, rest)
<1> DEFINE side == [value |-> t.value, to |-> t.to]
           P == PathText(t.path)
           o == <<t.op>>
           R == RhsText(side)
           r5 == R \o rest
           r4 == b \o r5
           r3 == o \o r4
           r2 == a \o r3
           w == P \o a \o o \o b \o R
           s == w \o rest
<1>1. /\ IsPath(t.path) /\ t.op \in Ops /\ t.op \in Tokens /\ t.op # Gap /\ t.op # "." /\ IsSide(t.value, t.to)
      /\ t = [path |-> t.path, op |-> t.op, value |-> t.value, to |-> t.to]
  BY TokenKinds DEF IsTerm, IsPath
<1>2. side.value = t.value /\ side.to = t.to /\ side = [value |-> side.value, to |-> side.to]
  OBVIOUS
<1>3. Plain(R) /\ Rhs(r5) = Gives(side, rest)
  BY <1>1, RhsGiven
<1>4. Compares(t.path, t.op, side) = t
  BY <1>1, <1>2 DEF Compares
<1>. HIDE DEF side
<1>5. TermText(t, a, b) = w /\ TermText(t, <<>>, <<>>) = P \o <<>> \o o \o <<>> \o R
  <2>1. \A x, y : TermText(Compares(t.path, t.op, side), x, y) = PathText(t.path) \o x \o <<t.op>> \o y \o RhsText(side)
    BY <1>2, SideText
  <2>. QED  BY <1>4, <2>1, Zenon DEF w, P, o, R
<1>6. P \in Seq(Tokens) /\ Plain(P) /\ o \in Seq(Tokens) /\ R \in Seq(Tokens) /\ R # <<>> /\ R[1] # Gap
  <2>1. P \in Seq(Tokens) /\ Plain(P) /\ o \in Seq(Tokens)
    BY <1>1, PathWritten DEF Plain
  <2>. HIDE DEF R
  <2>2. R \in Seq(Tokens) /\ R # <<>> /\ 1 \in DOMAIN R
    BY <1>3 DEF Plain
  <2>. QED  BY <1>3, <2>1, <2>2 DEF Plain
<1>7. ShownAs(w, P \o <<>> \o o \o <<>> \o R)
  BY <1>1, <1>3, <1>6, TermShown
<1>8. a \in Seq(Tokens) /\ b \in Seq(Tokens)
  <2>1. Gap \in Tokens
    BY TokenKinds
  <2>2. <<>> \in Seq(Tokens) /\ <<Gap>> \in Seq(Tokens)
    BY <2>1
  <2>. QED  BY <2>2 DEF Blanks
<1>. HIDE DEF P, R
<1>9. r5 \in Seq(Tokens) /\ r5 # <<>> /\ r5[1] # Gap
  BY <1>6, EndsOf
<1>. HIDE DEF r5
<1>10. SkipSpace(r4) = r5 /\ r4 \in Seq(Tokens)
  BY <1>9, SpaceGiven
<1>. HIDE DEF r4
<1>11. r3 \in Seq(Tokens) /\ r3 # <<>> /\ Head(r3) = t.op /\ r3[1] = t.op /\ Tail(r3) = r4
  BY <1>1, <1>10, PutFirst
<1>. HIDE DEF r3
<1>12. SkipSpace(r2) = r3 /\ r2 \in Seq(Tokens)
  BY <1>1, <1>11, SpaceGiven
<1>13. r2 = <<>> \/ r2[1] # "."
  <2>1. CASE a = <<>>
    <3>1. r2 = r3
      BY <1>11, <2>1, ConcatEmptySeq
    <3>. QED  BY <1>1, <1>11, <3>1
  <2>2. CASE a = <<Gap>>
    <3>1. r2[1] = Gap
      <4>1. Gap \in Tokens
        BY TokenKinds
      <4>2. (<<Gap>> \o r3)[1] = Gap
        BY <1>11, <4>1, PutFirst
      <4>. QED  BY <2>2, <4>2
    <3>. QED  BY <3>1, TokenKinds
  <2>. QED  BY <2>1, <2>2 DEF Blanks
<1>14. s = P \o r2
  <2>1. s = P \o (a \o (o \o (b \o (R \o rest))))
    <3>. HIDE DEF o
    <3>1. Regroups(P, a, o, b, R, rest)
      BY <1>6, <1>8, FiveTogether
    <3>. QED  BY <3>1, Zenon DEF Regroups, s, w
  <2>. QED  BY <2>1, Zenon DEF r2, r3, r4, r5
<1>. HIDE DEF r2
<1>15. Path(s) = Gives(t.path, r2)
  <2>1. Path(PathText(t.path) \o r2) = Gives(t.path, r2)
    BY <1>1, <1>12, <1>13, PathGiven
  <2>. QED  BY <1>14, <2>1, Zenon DEF P
<1>. HIDE DEF s
<1>16. Path(s).ok /\ Path(s).out = t.path /\ Path(s).rest = r2
  BY <1>15 DEF Gives
<1>17. Begins(r3, Ops)
  BY <1>1, <1>11 DEF Begins
<1>18. Rhs(r5).ok /\ Rhs(r5).out = side /\ Rhs(r5).rest = rest
  BY <1>3 DEF Gives
<1>19. ParseTerm(s) = Gives(t, rest)
  <2> DEFINE u == SkipSpace(Path(s).rest)
             v == SkipSpace(Tail(u))
  <2>1. ParseTerm(s) = IF Path(s).ok /\ Begins(u, Ops)
                       THEN IF Rhs(v).ok THEN Gives(Compares(Path(s).out, Head(u), Rhs(v).out), Rhs(v).rest)
                            ELSE Fails
                       ELSE Fails
    BY TermIs, Zenon
  <2>2. u = r3 /\ v = r5
    BY <1>10, <1>11, <1>12, <1>16
  <2>. HIDE DEF u, v
  <2>. QED  BY <1>4, <1>11, <1>16, <1>17, <1>18, <2>1, <2>2
<1>. QED  BY <1>5, <1>7, <1>19, Zenon DEF s

(* The terms and predicates that the parser makes.                            *)
MadeTerms ==
    {t \in [path : Seq(Idents), op : Ops, value : Values, to : Seq(Idents)] :
        t.path # <<>> /\ (t.to # <<>> => t.to[1] \notin Floats)}

(* The joins, the predicates, and the answers of the parser that holds them.  *)
MadeJoins == [and : BOOLEAN, term : MadeTerms]
MadeWhens == [first : MadeTerms, rest : Seq(MadeJoins)]
Parsed == [ok : {TRUE}, out : MadeWhens, rest : Seq(Tokens)]

(* A term that the parser yields is among them.                               *)
LEMMA MadeTerm ==
    ASSUME NEW t, IsMadeTerm(t)
    PROVE  t \in MadeTerms
BY DEF IsMadeTerm, IsPath, MadeTerms

(* A joint with the blanks on both of its sides.                              *)
Separator(joint) == <<Gap, joint, Gap>>

(* The join of a term.                                                        *)
Joining(joint, t) == [and |-> joint = "AND", term |-> t]

(* One more term is taken, or nothing.                                        *)
LEMMA JoinedIs ==
    ASSUME NEW e
    PROVE  LET s == e.rest
               term == ParseTerm(SubSeq(s, 4, Len(s)))
           IN  ParseJoined(e) =
                   IF (Len(s) > 3 /\ s[1] = Gap /\ s[2] \in Joints /\ s[3] = Gap) /\ term.ok
                   THEN Gives([e.out EXCEPT !.rest = Append(e.out.rest, Joining(s[2], term.out))], term.rest)
                   ELSE e
<1> DEFINE s == e.rest
           term == ParseTerm(SubSeq(s, 4, Len(s)))
           join == Joining(s[2], term.out)
<1>1. ParseJoined(e) = IF Len(s) > 3 /\ s[1] = Gap /\ s[2] \in Joints /\ s[3] = Gap
                       THEN JoinTerm(e, s[2], term) ELSE e
  BY Zenon DEF ParseJoined, Gap
<1>2. JoinTerm(e, s[2], term) =
         IF term.ok THEN Gives([e.out EXCEPT !.rest = Append(e.out.rest, join)], term.rest) ELSE e
  BY Zenon DEF JoinTerm, Joining
<1>. HIDE DEF s, term
<1>3. ParseJoined(e) = IF (Len(s) > 3 /\ s[1] = Gap /\ s[2] \in Joints /\ s[3] = Gap) /\ term.ok
                       THEN Gives([e.out EXCEPT !.rest = Append(e.out.rest, join)], term.rest) ELSE e
  BY <1>1, <1>2, Zenon
<1>. QED  BY <1>3, Zenon DEF s, term

(* A separator that is found.                                                 *)
LEMMA SeparatorTaken ==
    ASSUME NEW s \in Seq(Tokens), Len(s) > 3, s[1] = Gap, s[3] = Gap
    PROVE  /\ s = Separator(s[2]) \o SubSeq(s, 4, Len(s))
           /\ SubSeq(s, 4, Len(s)) \in Seq(Tokens)
<1> DEFINE a == SubSeq(s, 1, 3)
           b == SubSeq(s, 4, Len(s))
           g == Separator(s[2])
<1>1. 3 \in 0 .. Len(s) /\ 3 + 1 = 4
  OBVIOUS
<1>2. a \in Seq(Tokens) /\ b \in Seq(Tokens) /\ s = a \o b
  BY <1>1, CutAt
<1>3. a = g
  <2>1. s[2] \in Tokens /\ Gap \in Tokens
    BY TokenKinds
  <2>2. g \in Seq(Tokens) /\ Len(g) = 3 /\ g[1] = Gap /\ g[2] = s[2] /\ g[3] = Gap
    BY <2>1 DEF Separator
  <2>3. Len(a) = 3 /\ a[1] = s[1] /\ a[2] = s[2] /\ a[3] = s[3]
    OBVIOUS
  <2>. HIDE DEF a, g
  <2>4. \A i \in 1 .. 3 : a[i] = g[i]
    <3>1. \A i \in 1 .. 3 : i = 1 \/ i = 2 \/ i = 3
      OBVIOUS
    <3>. QED  BY <2>2, <2>3, <3>1
  <2>. QED  BY <1>2, <2>2, <2>3, <2>4, SeqEqual
<1>. QED  BY <1>2, <1>3

(* What one more term makes of what was parsed.                               *)
Grown(e, joint, t, rest) ==
    Gives([first |-> e.out.first, rest |-> Append(e.out.rest, Joining(joint, t))], rest)

(* A joint and a term behind it are taken.                                    *)
Continues(e, joint, t, rest, behind) ==
    /\ joint \in Joints
    /\ behind \in Seq(Tokens) /\ e.rest = Separator(joint) \o behind
    /\ Yields(behind, t, rest)
    /\ ParseJoined(e) = Grown(e, joint, t, rest)

(* One more step takes a joint and a term, or nothing.                        *)
LEMMA JoinTaken ==
    ASSUME NEW e \in Parsed
    PROVE  ParseJoined(e) = e \/ \E joint, t, rest, behind : Continues(e, joint, t, rest, behind)
<1> DEFINE s == e.rest
           behind == SubSeq(s, 4, Len(s))
           term == ParseTerm(behind)
           C == Len(s) > 3 /\ s[1] = Gap /\ s[2] \in Joints /\ s[3] = Gap
<1>1. ParseJoined(e) = IF C /\ term.ok
                       THEN Gives([e.out EXCEPT !.rest = Append(e.out.rest, Joining(s[2], term.out))], term.rest)
                       ELSE e
  BY JoinedIs, Zenon
<1>2. ASSUME C /\ term.ok PROVE \E joint, t, rest, b : Continues(e, joint, t, rest, b)
  <2>1. s \in Seq(Tokens) /\ e.out \in MadeWhens
    BY DEF Parsed
  <2>2. s = Separator(s[2]) \o behind /\ behind \in Seq(Tokens)
    BY <1>2, <2>1, SeparatorTaken
  <2>. HIDE DEF behind
  <2>3. PICK t, rest : term = Gives(t, rest) /\ Yields(behind, t, rest)
    BY <1>2, <2>2, TermTaken
  <2>4. term.out = t /\ term.rest = rest
    BY <2>3 DEF Gives
  <2>5. [e.out EXCEPT !.rest = Append(e.out.rest, Joining(s[2], t))]
          = [first |-> e.out.first, rest |-> Append(e.out.rest, Joining(s[2], t))]
    <3>1. ASSUME NEW x \in MadeWhens, NEW v
          PROVE  [x EXCEPT !.rest = v] = [first |-> x.first, rest |-> v]
      BY DEF MadeWhens
    <3>. QED  BY <2>1, <3>1, Zenon
  <2>6. ParseJoined(e) = Grown(e, s[2], t, rest)
    <3>. HIDE DEF C, term, s
    <3>1. ParseJoined(e) = Gives([e.out EXCEPT !.rest = Append(e.out.rest, Joining(s[2], term.out))], term.rest)
      BY <1>1, <1>2, Zenon
    <3>. QED  BY <2>4, <2>5, <3>1, Zenon DEF Grown
  <2>7. Continues(e, s[2], t, rest, behind)
    BY <1>2, <2>2, <2>3, <2>6, Zenon DEF Continues, C, s
  <2>. QED  BY <2>7
<1>. HIDE DEF C, term
<1>. QED  BY <1>1, <1>2

(* What is parsed stays of that kind.                                         *)
LEMMA GrownIsParsed ==
    ASSUME NEW e \in Parsed, NEW joint \in Joints, NEW t, IsMadeTerm(t), NEW rest \in Seq(Tokens)
    PROVE  /\ Grown(e, joint, t, rest) \in Parsed
           /\ Grown(e, joint, t, rest).rest = rest
           /\ Grown(e, joint, t, rest).out.first = e.out.first
           /\ Grown(e, joint, t, rest).out.rest = Append(e.out.rest, Joining(joint, t))
<1> DEFINE j == Joining(joint, t)
           q == Append(e.out.rest, j)
           w == [first |-> e.out.first, rest |-> q]
<1>1. j \in MadeJoins
  BY MadeTerm DEF Joining, MadeJoins
<1>2. e.out.first \in MadeTerms /\ e.out.rest \in Seq(MadeJoins)
  BY DEF Parsed, MadeWhens
<1>. HIDE DEF j
<1>3. q \in Seq(MadeJoins)
  BY <1>1, <1>2
<1>. HIDE DEF q
<1>4. w \in MadeWhens /\ w.first = e.out.first /\ w.rest = q
  BY <1>2, <1>3 DEF MadeWhens
<1>. HIDE DEF w
<1>5. Gives(w, rest) \in Parsed /\ Gives(w, rest).rest = rest /\ Gives(w, rest).out = w
  BY <1>4 DEF Parsed, Gives
<1>6. Grown(e, joint, t, rest) = Gives(w, rest)
  BY Zenon DEF Grown, w, q, j
<1>. QED  BY <1>4, <1>5, <1>6 DEF q, j

(* It leads to an answer of the parser.                                       *)
LEMMA JoinedIsParsed ==
    ASSUME NEW e \in Parsed
    PROVE  ParseJoined(e) \in Parsed
<1>1. ASSUME NEW joint, NEW t, NEW rest, NEW behind, Continues(e, joint, t, rest, behind)
      PROVE  ParseJoined(e) \in Parsed
  BY <1>1, GrownIsParsed DEF Continues, Yields
<1>. QED  BY <1>1, JoinTaken

(* What is parsed after each joined term.                                     *)
Afters(s) ==
    CHOOSE f : f = [n \in 0 .. Len(s) |->
        IF n = 0 THEN Gives(Only(ParseTerm(s).out), ParseTerm(s).rest) ELSE ParseJoined(f[n - 1])]

(* A predicate is parsed by as many steps as the text is long.                *)
LEMMA ExprIs ==
    ASSUME NEW s
    PROVE  Expr(s) = IF ParseTerm(s).ok THEN Afters(s)[Len(s)] ELSE Fails
BY Zenon DEF Expr, Afters

(* A first term is an answer of the parser.                                   *)
LEMMA FirstIsParsed ==
    ASSUME NEW t, IsMadeTerm(t), NEW rest \in Seq(Tokens)
    PROVE  Gives(Only(t), rest) \in Parsed
<1>1. t \in MadeTerms
  BY MadeTerm
<1>2. Only(t) \in MadeWhens
  BY <1>1 DEF Only, MadeWhens
<1>. QED  BY <1>2 DEF Gives, Parsed

(* Each step starts from the answer of the one before.                        *)
LEMMA AfterEach ==
    ASSUME NEW s \in Seq(Tokens), NEW t, NEW rest, ParseTerm(s) = Gives(t, rest), Yields(s, t, rest)
    PROVE  /\ Afters(s)[0] = Gives(Only(t), rest)
           /\ \A n \in 1 .. Len(s) : Afters(s)[n] = ParseJoined(Afters(s)[n - 1])
           /\ \A n \in 0 .. Len(s) : Afters(s)[n] \in Parsed
<1> DEFINE m == Len(s)
           first == Gives(Only(t), rest)
           step == [n \in 1 .. m |-> [e \in Parsed |-> ParseJoined(e)]]
<1>1. first \in Parsed
  BY FirstIsParsed DEF Yields
<1>2. m \in Nat
  OBVIOUS
<1>3. step \in [1 .. m -> [Parsed -> Parsed]]
  BY JoinedIsParsed
<1>4. PICK f : Iterates(f, Parsed, first, m, step)
  <2>. HIDE DEF step, first, m
  <2>. QED  BY <1>1, <1>2, <1>3, Recursion
<1>5. f \in [0 .. m -> Parsed] /\ f[0] = first /\ \A n \in 1 .. m : f[n] = step[n][f[n - 1]]
  BY <1>4, Zenon DEF Iterates
<1>. HIDE DEF m, first
<1>6. ASSUME NEW n \in 1 .. m PROVE f[n] = ParseJoined(f[n - 1])
  <2>1. n - 1 \in 0 .. m
    BY <1>2
  <2>2. f[n - 1] \in Parsed
    BY <1>5, <2>1
  <2>. QED  BY <1>5, <2>2
<1>. HIDE DEF step
<1> DEFINE Eq(g) == g = [n \in 0 .. m |-> IF n = 0 THEN first ELSE ParseJoined(g[n - 1])]
<1>7. Eq(f)
  <2>1. \A n \in 0 .. m : f[n] = IF n = 0 THEN first ELSE ParseJoined(f[n - 1])
    <3> SUFFICES ASSUME NEW n \in 0 .. m PROVE f[n] = IF n = 0 THEN first ELSE ParseJoined(f[n - 1])
      OBVIOUS
    <3>1. n = 0 \/ n \in 1 .. m
      BY <1>2
    <3>2. 0 \notin 1 .. m
      OBVIOUS
    <3>. QED  BY <1>5, <1>6, <3>1, <3>2
  <2>2. f = [n \in 0 .. m |-> f[n]]
    BY <1>5
  <2>. QED  BY <2>1, <2>2
<1>8. Eq(Afters(s))
  <2>1. Gives(Only(ParseTerm(s).out), ParseTerm(s).rest) = first
    BY DEF Gives, first
  <2>2. Afters(s) = CHOOSE g : Eq(g)
    BY <2>1, Zenon DEF Afters, m
  <2>. HIDE DEF Eq
  <2>. QED  BY <1>7, <2>2, Zenon
<1>9. \A n \in 0 .. m : Afters(s)[n] = IF n = 0 THEN first ELSE ParseJoined(Afters(s)[n - 1])
  BY <1>8
<1>10. Afters(s)[0] = first /\ \A n \in 1 .. m : Afters(s)[n] = ParseJoined(Afters(s)[n - 1])
  <2>1. 0 \in 0 .. m /\ \A n \in 1 .. m : n \in 0 .. m /\ n # 0
    BY <1>2
  <2>. QED  BY <1>9, <2>1
<1> DEFINE S == {n \in Nat : n <= m => Afters(s)[n] \in Parsed}
<1>11. 0 \in S
  BY <1>1, <1>10
<1>12. ASSUME NEW n \in Nat, n \in S PROVE n + 1 \in S
  <2> SUFFICES ASSUME n + 1 <= m PROVE Afters(s)[n + 1] \in Parsed
    OBVIOUS
  <2>1. n + 1 \in 1 .. m /\ (n + 1) - 1 = n /\ n <= m
    BY <1>2
  <2>2. Afters(s)[n + 1] = ParseJoined(Afters(s)[n])
    BY <1>10, <2>1
  <2>. QED  BY <1>12, <2>1, <2>2, JoinedIsParsed
<1>13. \A n \in Nat : n \in S
  <2>. HIDE DEF S
  <2>. QED  BY <1>11, <1>12, Induction
<1>14. \A n \in 0 .. m : Afters(s)[n] \in Parsed
  BY <1>2, <1>13
<1>. QED  BY <1>10, <1>14 DEF m, first

(* How a join is written, and a predicate.                                    *)
JoinText(j, a, b) == Separator(IF j.and THEN "AND" ELSE "OR") \o TermText(j.term, a, b)

(* The texts of the joins.                                                    *)
JoinTexts(js, a, b) == [i \in DOMAIN js |-> JoinText(js[i], a, b)]

(* A predicate is written as its first term with the joins behind it.         *)
LEMMA WriteIs ==
    \A when, a, b : Write(when, a, b) = TermText(when.first, a, b) \o FlattenSeq(JoinTexts(when.rest, a, b))
BY Zenon DEF Write, JoinTexts, JoinText, Separator, Gap

(* One join more has one text more.                                           *)
LEMMA JoinTextsAppend ==
    ASSUME NEW T, NEW js \in Seq(T), NEW j \in T, NEW a, NEW b
    PROVE  JoinTexts(Append(js, j), a, b) = Append(JoinTexts(js, a, b), JoinText(j, a, b))
<1> DEFINE L == Len(js)
           ks == Append(js, j)
           q == JoinTexts(js, a, b)
           X == {JoinText(k, a, b) : k \in T}
<1>1. /\ L \in Nat /\ DOMAIN js = 1 .. L /\ ks \in Seq(T) /\ DOMAIN ks = 1 .. L + 1
      /\ (\A i \in 1 .. L : ks[i] = js[i]) /\ ks[L + 1] = j /\ \A i \in 1 .. L : js[i] \in T
  OBVIOUS
<1>. HIDE DEF ks, L
<1>2. q = [i \in 1 .. L |-> JoinText(js[i], a, b)]
  BY <1>1 DEF JoinTexts
<1>3. q \in Seq(X) /\ Len(q) = L
  BY <1>1, <1>2
<1>. HIDE DEF q
<1> DEFINE r == Append(q, JoinText(j, a, b))
           u == JoinTexts(ks, a, b)
<1>4. r \in Seq(X) /\ Len(r) = L + 1 /\ (\A i \in 1 .. L : r[i] = q[i]) /\ r[L + 1] = JoinText(j, a, b)
  <2>1. JoinText(j, a, b) \in X
    OBVIOUS
  <2>. HIDE DEF X
  <2>2. r \in Seq(X) /\ Len(r) = Len(q) + 1 /\ (\A i \in 1 .. Len(q) : r[i] = q[i]) /\ r[Len(q) + 1] = JoinText(j, a, b)
    BY <1>3, <2>1, AppendProperties
  <2>. HIDE DEF r
  <2>. QED  BY <1>3, <2>2
<1>5. u = [i \in 1 .. L + 1 |-> JoinText(ks[i], a, b)]
  BY <1>1 DEF JoinTexts
<1>6. u \in Seq(X) /\ Len(u) = L + 1 /\ \A i \in 1 .. L + 1 : u[i] = JoinText(ks[i], a, b)
  <2>1. \A i \in 1 .. L + 1 : JoinText(ks[i], a, b) \in X
    <3>1. \A i \in 1 .. L + 1 : ks[i] \in T
      BY <1>1
    <3>. QED  BY <3>1
  <2>. HIDE DEF X, u
  <2>. QED  BY <1>1, <1>5, <2>1
<1>. HIDE DEF r, u, X
<1>8. ASSUME NEW i \in 1 .. L + 1 PROVE r[i] = u[i]
  <2>1. CASE i = L + 1
    BY <1>1, <1>4, <1>6, <2>1
  <2>2. CASE i # L + 1
    <3>1. i \in 1 .. L
      BY <1>1, <2>2
    <3>2. r[i] = q[i] /\ q[i] = JoinText(js[i], a, b)
      BY <1>2, <1>4, <3>1
    <3>3. u[i] = JoinText(ks[i], a, b) /\ ks[i] = js[i]
      BY <1>1, <1>6, <3>1
    <3>. QED  BY <3>2, <3>3
  <2>. QED  BY <2>1, <2>2
<1>7. u = r
  BY <1>4, <1>6, <1>8, SeqEqual
<1>. QED  BY <1>7 DEF ks, q, r, u

(* What is left of a text is one.                                             *)
LEMMA BareTyped ==
    ASSUME NEW T, NEW s \in Seq(T)
    PROVE  Bare(s) \in Seq(T)
<1>1. {i \in DOMAIN s : ~Drops(s, i)} \in SUBSET (1 .. Len(s))
  OBVIOUS
<1>. QED  BY <1>1, PickTyped DEF Bare

(* What follows a text is shown with it.                                      *)
LEMMA ShownGoesOn ==
    ASSUME NEW w, NEW x, ShownAs(w, x), NEW v, NEW y, ShownAs(v, y), NEW joint \in Joints
    PROVE  /\ ShownAs(w \o (Separator(joint) \o v), x \o (Separator(joint) \o y))
           /\ x \in Seq(Tokens) /\ Separator(joint) \o y \in Seq(Tokens)
<1> DEFINE g == Separator(joint)
           d == g \o v
           z == w \o d
<1>1. /\ w \in Seq(Tokens) /\ w # <<>> /\ Bare(w) = x /\ w[1] \notin Ops /\ w[1] # Gap
      /\ w[Len(w)] \notin Ops /\ w[Len(w)] # Gap
      /\ v \in Seq(Tokens) /\ v # <<>> /\ Bare(v) = y /\ v[1] \notin Ops /\ v[1] # Gap
      /\ v[Len(v)] \notin Ops /\ v[Len(v)] # Gap
  BY DEF ShownAs
<1>2. g \in Seq(Tokens) /\ g # <<>> /\ Bare(g) = g
  <2>1. joint \in Tokens /\ Gap \in Tokens /\ joint \notin Ops /\ Gap \notin Ops
    BY TokenKinds
  <2>2. g \in Seq(Tokens) /\ g # <<>> /\ \A i \in DOMAIN g : g[i] = Gap \/ g[i] = joint
    BY <2>1 DEF Separator
  <2>. HIDE DEF g
  <2>. QED  BY <2>1, <2>2, BareSame
<1>. HIDE DEF g
<1>3. d \in Seq(Tokens) /\ d # <<>> /\ d[Len(d)] = v[Len(v)] /\ Bare(d) = g \o y
  <2>1. Parted(g, v)
    BY <1>1, <1>2 DEF Parted
  <2>2. Bare(d) = Bare(g) \o Bare(v)
    BY <1>1, <1>2, <2>1, BareConcat
  <2>. QED  BY <1>1, <1>2, <2>2, EndsOf
<1>. HIDE DEF d
<1>4. z \in Seq(Tokens) /\ z # <<>> /\ z[1] = w[1] /\ z[Len(z)] = d[Len(d)] /\ Bare(z) = x \o (g \o y)
  <2>1. Parted(w, d)
    BY <1>1, <1>3 DEF Parted
  <2>2. Bare(z) = Bare(w) \o Bare(d)
    BY <1>1, <1>3, <2>1, BareConcat
  <2>. QED  BY <1>1, <1>3, <2>2, EndsOf
<1>. HIDE DEF z
<1>5. ShownAs(z, x \o (g \o y))
  BY <1>1, <1>3, <1>4 DEF ShownAs
<1>6. x \in Seq(Tokens) /\ g \o y \in Seq(Tokens)
  BY <1>1, <1>2, BareTyped, EndsOf
<1>. QED  BY <1>5, <1>6 DEF z, d, g

(* What was parsed is written at the beginning of the text, or the parser is stuck.   *)
Texts(when) ==
    /\ TermText(when.first, <<>>, <<>>) \in Seq(Tokens)
    /\ JoinTexts(when.rest, <<>>, <<>>) \in Seq(Seq(Tokens))

(* What was parsed is written at the beginning of the text but for blanks     *)
(* around operators.                                                          *)
Displays(s, e) ==
    \/ Stuck(e.rest)
    \/ Texts(e.out) /\ \E w : s = w \o e.rest /\ ShownAs(w, Write(e.out, <<>>, <<>>))

(* One join more is written behind.                                           *)
Extends(more, when, j) == more.first = when.first /\ more.rest = Append(when.rest, j)

(* One join more is written behind.                                           *)
LEMMA WriteGrows ==
    ASSUME NEW when \in MadeWhens, NEW more, NEW j \in MadeJoins, Texts(when),
           Extends(more, when, j),
           JoinText(j, <<>>, <<>>) \in Seq(Tokens)
    PROVE  /\ Write(more, <<>>, <<>>) = Write(when, <<>>, <<>>) \o JoinText(j, <<>>, <<>>)
           /\ Texts(more)
<1> DEFINE f == TermText(when.first, <<>>, <<>>)
           qs == JoinTexts(when.rest, <<>>, <<>>)
           x == JoinText(j, <<>>, <<>>)
<1>1. f \in Seq(Tokens) /\ qs \in Seq(Seq(Tokens)) /\ x \in Seq(Tokens)
  BY DEF Texts
<1>2. JoinTexts(more.rest, <<>>, <<>>) = Append(qs, x)
  <2>1. when.rest \in Seq(MadeJoins)
    BY DEF MadeWhens
  <2>. QED  BY <2>1, JoinTextsAppend DEF Extends
<1>3. /\ Write(when, <<>>, <<>>) = f \o FlattenSeq(qs)
      /\ Write(more, <<>>, <<>>) = f \o FlattenSeq(Append(qs, x))
      /\ TermText(more.first, <<>>, <<>>) = f
  <2>1. Write(when, <<>>, <<>>) = f \o FlattenSeq(qs)
    BY WriteIs, Zenon
  <2>2. TermText(more.first, <<>>, <<>>) = f
    BY DEF Extends
  <2>3. Write(more, <<>>, <<>>) = TermText(more.first, <<>>, <<>>) \o FlattenSeq(JoinTexts(more.rest, <<>>, <<>>))
    BY WriteIs, Zenon
  <2>. HIDE DEF f, qs, x
  <2>. QED  BY <1>2, <2>1, <2>2, <2>3, Zenon
<1>. HIDE DEF f, qs, x
<1>4. FlattenSeq(Append(qs, x)) = FlattenSeq(qs) \o x /\ FlattenSeq(qs) \in Seq(Tokens)
  BY <1>1, FlattenAppend
<1> DEFINE F == FlattenSeq(qs)
<1>. HIDE DEF F
<1>5. Associates(f, F, x)
  <2>1. F \in Seq(Tokens)
    BY <1>4 DEF F
  <2>. QED  BY <1>1, <2>1, ThreeTogether
<1>6. Write(more, <<>>, <<>>) = Write(when, <<>>, <<>>) \o x
  BY <1>3, <1>4, <1>5, Zenon DEF Associates, F
<1>7. Texts(more)
  <2>1. Append(qs, x) \in Seq(Seq(Tokens))
    BY <1>1, AppendProperties
  <2>. QED  BY <1>1, <1>2, <1>3, <2>1 DEF Texts
<1>. QED  BY <1>6, <1>7 DEF x

(* A joint and its term are written as the join of them.                      *)
LEMMA JointText ==
    ASSUME NEW joint \in Joints, NEW t
    PROVE  /\ Joining(joint, t).term = t
           /\ JoinText(Joining(joint, t), <<>>, <<>>) = Separator(joint) \o TermText(t, <<>>, <<>>)
<1> DEFINE j == Joining(joint, t)
<1>1. j.term = t /\ (IF j.and THEN "AND" ELSE "OR") = joint
  BY DEF Joining, Joints
<1>. HIDE DEF j
<1>2. JoinText(j, <<>>, <<>>) = Separator(joint) \o TermText(t, <<>>, <<>>)
  BY <1>1, Zenon DEF JoinText
<1>. QED  BY <1>1, <1>2 DEF j

(* One more term is still displayed.                                          *)
LEMMA JoinDisplays ==
    ASSUME NEW s \in Seq(Tokens), NEW e \in Parsed, Displays(s, e)
    PROVE  Displays(s, ParseJoined(e))
<1>1. CASE ParseJoined(e) = e
  BY <1>1
<1>2. ASSUME NEW joint, NEW t, NEW rest, NEW behind, Continues(e, joint, t, rest, behind)
      PROVE  Displays(s, ParseJoined(e))
  <2> DEFINE g == Grown(e, joint, t, rest)
             j == Joining(joint, t)
  <2>1. /\ joint \in Joints /\ behind \in Seq(Tokens) /\ e.rest = Separator(joint) \o behind
        /\ IsMadeTerm(t) /\ rest \in Seq(Tokens) /\ ParseJoined(e) = g
        /\ Stuck(rest) \/ \E w : behind = w \o rest /\ ShownAs(w, TermText(t, <<>>, <<>>))
    BY <1>2, Zenon DEF Continues, Yields
  <2>2. /\ g.rest = rest /\ g.out.first = e.out.first /\ g.out.rest = Append(e.out.rest, j)
    BY <2>1, GrownIsParsed
  <2>3. ~Stuck(e.rest)
    <3>1. joint \in Tokens /\ Gap \in Tokens /\ Gap # "ra"
      BY <2>1, TokenKinds
    <3>2. Separator(joint) \in Seq(Tokens) /\ Separator(joint) # <<>> /\ Separator(joint)[1] = Gap
      BY <3>1 DEF Separator
    <3>3. (Separator(joint) \o behind)[1] = Separator(joint)[1]
      BY <2>1, <3>2, EndsOf
    <3>. QED  BY <2>1, <3>1, <3>2, <3>3 DEF Stuck
  <2>4. PICK w : Texts(e.out) /\ s = w \o e.rest /\ ShownAs(w, Write(e.out, <<>>, <<>>))
    BY <2>3 DEF Displays
  <2>. HIDE DEF g, j
  <2>5. CASE Stuck(rest)
    BY <2>1, <2>2, <2>5 DEF Displays
  <2>6. ASSUME NEW v, behind = v \o rest, ShownAs(v, TermText(t, <<>>, <<>>))
        PROVE  Displays(s, g)
    <3> DEFINE x == Write(e.out, <<>>, <<>>)
               y == TermText(t, <<>>, <<>>)
               p == Separator(joint)
               z == w \o (p \o v)
    <3>1. ShownAs(z, x \o (p \o y)) /\ p \o y \in Seq(Tokens)
      BY <2>1, <2>4, <2>6, ShownGoesOn
    <3>2. JoinText(j, <<>>, <<>>) = p \o y /\ j \in MadeJoins
      <4>1. j \in MadeJoins
        BY <2>1, MadeTerm DEF j, Joining, MadeJoins
      <4>2. JoinText(j, <<>>, <<>>) = p \o y
        BY <2>1, JointText DEF j
      <4>. QED  BY <4>1, <4>2
    <3>3. Write(g.out, <<>>, <<>>) = x \o (p \o y) /\ Texts(g.out)
      <4>1. e.out \in MadeWhens
        BY DEF Parsed
      <4>. HIDE DEF x, y, p
      <4>2. Write(g.out, <<>>, <<>>) = Write(e.out, <<>>, <<>>) \o JoinText(j, <<>>, <<>>) /\ Texts(g.out)
        <5>1. JoinText(j, <<>>, <<>>) \in Seq(Tokens) /\ Texts(e.out) /\ j \in MadeJoins
          BY <2>4, <3>1, <3>2
        <5>2. Extends(g.out, e.out, j)
          BY <2>2 DEF Extends
        <5>. QED  BY <4>1, <5>1, <5>2, WriteGrows
      <4>. QED  BY <3>2, <4>2, Zenon DEF x
    <3>4. s = z \o rest
      <4>1. w \in Seq(Tokens) /\ v \in Seq(Tokens)
        BY <2>4, <2>6 DEF ShownAs
      <4>2. p \in Seq(Tokens)
        <5>1. joint \in Tokens /\ Gap \in Tokens
          BY <2>1, TokenKinds
        <5>. QED  BY <5>1 DEF Separator
      <4>. HIDE DEF p
      <4> DEFINE d == p \o v
      <4>3. Associates(p, v, rest) /\ d \in Seq(Tokens)
        BY <2>1, <4>1, <4>2, ThreeTogether, EndsOf
      <4>. HIDE DEF d
      <4>4. Associates(w, d, rest)
        BY <2>1, <4>1, <4>3, ThreeTogether
      <4>. QED  BY <2>1, <2>4, <2>6, <4>3, <4>4, Zenon DEF Associates, d, p
    <3>. HIDE DEF x, y, p, z
    <3>5. s = z \o g.rest /\ ShownAs(z, Write(g.out, <<>>, <<>>))
      BY <2>2, <3>1, <3>3, <3>4
    <3>. QED  BY <3>3, <3>5 DEF Displays
  <2>. QED  BY <2>1, <2>5, <2>6
<1>. QED  BY <1>1, <1>2, JoinTaken

(* What was taken is written, if the parser is not stuck.                     *)
LEMMA ExprTaken ==
    ASSUME NEW s \in Seq(Tokens), Expr(s).ok
    PROVE  Expr(s) \in Parsed /\ Displays(s, Expr(s))
<1>1. ParseTerm(s).ok /\ Expr(s) = Afters(s)[Len(s)]
  <2>1. ~Fails.ok
    BY DEF Fails
  <2>. QED  BY <2>1, ExprIs
<1>2. PICK t, rest : ParseTerm(s) = Gives(t, rest) /\ Yields(s, t, rest)
  BY <1>1, TermTaken
<1> DEFINE m == Len(s)
           A == Afters(s)
<1>3. /\ A[0] = Gives(Only(t), rest)
      /\ \A n \in 1 .. m : A[n] = ParseJoined(A[n - 1])
      /\ \A n \in 0 .. m : A[n] \in Parsed
  BY <1>2, AfterEach
<1>4. m \in Nat
  OBVIOUS
<1>. HIDE DEF A, m
<1> DEFINE S == {n \in Nat : n <= m => Displays(s, A[n])}
<1>5. 0 \in S
  <2> DEFINE e == Gives(Only(t), rest)
             f == TermText(t, <<>>, <<>>)
  <2>1. e.rest = rest /\ e.out.first = t /\ e.out.rest = <<>>
    BY DEF Gives, Only
  <2>. HIDE DEF e
  <2>3. ASSUME NEW w, s = w \o rest, ShownAs(w, f)
        PROVE  Displays(s, e)
    <3>1. f \in Seq(Tokens)
      BY <2>3, BareTyped DEF ShownAs
    <3>2. JoinTexts(e.out.rest, <<>>, <<>>) = <<>>
      <4>1. JoinTexts(e.out.rest, <<>>, <<>>) = [i \in {} |-> JoinText(<<>>[i], <<>>, <<>>)]
        BY <2>1 DEF JoinTexts
      <4>. QED  BY <4>1
    <3>3. FlattenSeq(<<>>) = <<>>
      BY DEF FlattenSeq
    <3>4. Write(e.out, <<>>, <<>>) = f
      <4>1. Write(e.out, <<>>, <<>>) = TermText(e.out.first, <<>>, <<>>) \o FlattenSeq(JoinTexts(e.out.rest, <<>>, <<>>))
        BY WriteIs, Zenon
      <4>2. f \o <<>> = f
        BY <3>1, ConcatEmptySeq
      <4>. HIDE DEF f
      <4>3. TermText(e.out.first, <<>>, <<>>) = f
        BY <2>1 DEF f
      <4>. QED  BY <3>2, <3>3, <4>1, <4>2, <4>3
    <3>5. Texts(e.out)
      <4>1. <<>> \in Seq(Seq(Tokens))
        OBVIOUS
      <4>. QED  BY <2>1, <3>1, <3>2, <4>1 DEF Texts
    <3>. HIDE DEF f
    <3>. QED  BY <2>1, <2>3, <3>4, <3>5 DEF Displays
  <2>4. Displays(s, e)
    <3>1. Stuck(rest) \/ \E w : s = w \o rest /\ ShownAs(w, f)
      BY <1>2, Zenon DEF Yields
    <3>2. CASE Stuck(rest)
      BY <2>1, <3>2 DEF Displays
    <3>. HIDE DEF f
    <3>. QED  BY <2>3, <3>1, <3>2
  <2>. QED  BY <1>3, <2>4 DEF e
<1>6. ASSUME NEW n \in Nat, n \in S PROVE n + 1 \in S
  <2> SUFFICES ASSUME n + 1 <= m PROVE Displays(s, A[n + 1])
    OBVIOUS
  <2>1. n + 1 \in 1 .. m /\ (n + 1) - 1 = n /\ n \in 0 .. m /\ Displays(s, A[n])
    BY <1>4, <1>6
  <2>2. A[n + 1] = ParseJoined(A[n]) /\ A[n] \in Parsed
    BY <1>3, <2>1
  <2>. QED  BY <2>1, <2>2, JoinDisplays
<1>7. \A n \in Nat : n \in S
  <2>. HIDE DEF S
  <2>. QED  BY <1>5, <1>6, Induction
<1>8. Displays(s, A[m]) /\ A[m] \in Parsed
  <2>1. m \in 0 .. m /\ m <= m
    BY <1>4
  <2>. QED  BY <1>3, <1>4, <1>7, <2>1
<1>. QED  BY <1>1, <1>8 DEF A, m

(* White space is a text of at most one blank.                                *)
LEMMA BlankTyped ==
    ASSUME NEW b \in Blanks
    PROVE  b \in Seq(Tokens) /\ Len(b) \in {0, 1} /\ \A i \in 1 .. Len(b) : b[i] = Gap
<1>1. Gap \in Tokens
  BY TokenKinds
<1>2. CASE b = <<>>
  BY <1>2
<1>3. CASE b = <<Gap>>
  BY <1>1, <1>3
<1>. QED  BY <1>2, <1>3 DEF Blanks

(* White space around a text is trimmed.                                      *)
LEMMA TrimIs ==
    \A s : Trim(s) = LET t == SkipSpace(s)
                     IN  IF t # <<>> /\ t[Len(t)] = Gap THEN SubSeq(t, 1, Len(t) - 1) ELSE t
BY Zenon DEF Trim, Last, Front, Gap

(* Trimming takes white space off both ends.                                  *)
LEMMA TrimTaken ==
    ASSUME NEW s \in Seq(Tokens)
    PROVE  /\ Trim(s) \in Seq(Tokens)
           /\ \E a, b \in Blanks : s = a \o (Trim(s) \o b)
<1> DEFINE t == SkipSpace(s)
<1>1. PICK a \in Blanks : s = a \o t /\ t \in Seq(Tokens)
  BY SpaceTaken
<1>2. Trim(s) = IF t # <<>> /\ t[Len(t)] = Gap THEN SubSeq(t, 1, Len(t) - 1) ELSE t
  BY TrimIs, Zenon
<1>. HIDE DEF t
<1>3. CASE t # <<>> /\ t[Len(t)] = Gap
  <2> DEFINE n == Len(t) - 1
             u == SubSeq(t, 1, n)
             v == SubSeq(t, n + 1, Len(t))
  <2>1. n \in 0 .. Len(t) /\ n + 1 = Len(t) /\ Len(t) \in Nat
    BY <1>1, <1>3
  <2>2. u \in Seq(Tokens) /\ v \in Seq(Tokens) /\ t = u \o v
    <3>. HIDE DEF n
    <3>. QED  BY <1>1, <2>1, CutAt
  <2>3. v = <<Gap>>
    <3>1. v = SubSeq(t, Len(t), Len(t))
      BY <2>1
    <3>2. Len(v) = 1 /\ v[1] = t[Len(t)]
      BY <1>1, <1>3, <2>1, <3>1
    <3>. HIDE DEF v
    <3>. QED  BY <1>3, <2>2, <3>2
  <2>4. Trim(s) = u
    BY <1>2, <1>3
  <2>. QED  BY <1>1, <2>2, <2>3, <2>4 DEF Blanks
<1>4. CASE ~(t # <<>> /\ t[Len(t)] = Gap)
  <2>1. Trim(s) = t
    BY <1>2, <1>4, Zenon
  <2>2. t = t \o <<>>
    BY <1>1, ConcatEmptySeq
  <2>. QED  BY <1>1, <2>1, <2>2 DEF Blanks
<1>. QED  BY <1>3, <1>4

(* Text that neither begins nor ends with white space is what trimming        *)
(* leaves.                                                                    *)
LEMMA TrimGiven ==
    ASSUME NEW t \in Seq(Tokens), t # <<>>, t[1] # Gap, t[Len(t)] # Gap, NEW b \in Blanks
    PROVE  Trim(b \o (t \o b)) = t /\ b \o (t \o b) \in Seq(Tokens)
<1> DEFINE x == t \o b
           s == b \o x
<1>1. b \in Seq(Tokens)
  BY BlankTyped
<1>2. x \in Seq(Tokens) /\ x # <<>> /\ x[1] = t[1]
  BY <1>1, EndsOf
<1>3. SkipSpace(s) = x /\ s \in Seq(Tokens)
  <2>. HIDE DEF x
  <2>. QED  BY <1>2, SpaceGiven
<1>4. Trim(s) = IF x # <<>> /\ x[Len(x)] = Gap THEN SubSeq(x, 1, Len(x) - 1) ELSE x
  <2>1. Trim(s) = LET u == SkipSpace(s)
                  IN  IF u # <<>> /\ u[Len(u)] = Gap THEN SubSeq(u, 1, Len(u) - 1) ELSE u
    BY TrimIs, Zenon
  <2>. HIDE DEF x, s
  <2>. QED  BY <1>3, <2>1
<1>. HIDE DEF s
<1>5. CASE b = <<>>
  <2>1. x = t
    BY <1>5, ConcatEmptySeq
  <2>. QED  BY <1>3, <1>4, <2>1 DEF s
<1>6. CASE b = <<Gap>>
  <2>1. Len(x) = Len(t) + 1 /\ x[Len(x)] = Gap /\ Len(t) \in Nat /\ Len(t) >= 1
        /\ \A i \in 1 .. Len(t) : x[i] = t[i]
    BY <1>1, <1>6
  <2> DEFINE u == SubSeq(x, 1, Len(t))
  <2>. HIDE DEF x
  <2>2. u \in Seq(Tokens) /\ Len(u) = Len(t) /\ \A i \in 1 .. Len(u) : u[i] = t[i]
    BY <1>2, <2>1
  <2>. HIDE DEF u
  <2>3. u = t
    BY <2>2, SeqEqual
  <2>4. Trim(s) = u
    <3>1. Len(x) - 1 = Len(t)
      BY <2>1
    <3>. QED  BY <1>2, <1>4, <2>1, <3>1 DEF u
  <2>. QED  BY <1>3, <2>3, <2>4 DEF s, x
<1>. QED  BY <1>5, <1>6 DEF Blanks

(* What is squeezed is what is trimmed and bare.                              *)
SaysNothing(s, i) == s[i] = Gap /\ (i \in {1, Len(s)} \/ {s[i - 1], s[i + 1]} \cap Ops # {})

(* Squeezing picks what says something.                                       *)
LEMMA SqueezeIs == \A s : Squeeze(s) = Pick(s, {i \in DOMAIN s : ~SaysNothing(s, i)})
BY Zenon DEF Squeeze, SaysNothing, Gap

(* Outer white space and the blanks beside operators are what squeezing takes *)
(* away.                                                                      *)
LEMMA SqueezeOuter ==
    ASSUME NEW t \in Seq(Tokens), t # <<>>, t[1] # Gap, t[Len(t)] # Gap,
           NEW a \in Blanks, NEW b \in Blanks
    PROVE  Squeeze(a \o (t \o b)) = Bare(t)
<1> DEFINE y == t \o b
           x == a \o y
           n == Len(t)
           la == Len(a)
           lb == Len(b)
           U == {i \in DOMAIN x : ~SaysNothing(x, i)}
           W == {k \in 1 .. n + lb : la + k \in U}
           V == {k \in 1 .. n : k \in W}
<1>1. /\ a \in Seq(Tokens) /\ la \in {0, 1} /\ (\A i \in 1 .. la : a[i] = Gap)
      /\ b \in Seq(Tokens) /\ lb \in {0, 1} /\ (\A i \in 1 .. lb : b[i] = Gap)
  BY BlankTyped
<1>2. n \in Nat /\ n >= 1
  OBVIOUS
<1>3. /\ y \in Seq(Tokens) /\ Len(y) = n + lb
      /\ \A i \in 1 .. n : y[i] = t[i]
      /\ \A i \in 1 .. lb : y[n + i] = b[i]
  <2>1. y \in Seq(Tokens) /\ Joins(y, t, b)
    BY <1>1, ConcatIs
  <2>. HIDE DEF y
  <2>. QED  BY <2>1 DEF Joins
<1>. HIDE DEF y
<1>4. /\ x \in Seq(Tokens) /\ Len(x) = la + (n + lb) /\ DOMAIN x = 1 .. la + (n + lb)
      /\ \A i \in 1 .. la : x[i] = a[i]
      /\ \A i \in 1 .. n + lb : x[la + i] = y[i]
  <2>1. x \in Seq(Tokens) /\ Joins(x, a, y)
    BY <1>1, <1>3, ConcatIs
  <2>. HIDE DEF x
  <2>. QED  BY <1>3, <2>1 DEF Joins
<1>. HIDE DEF x, n, la, lb
<1>5. {k \in 1 .. la : k \in U} = {}
  <2>1. ASSUME NEW k \in 1 .. la PROVE SaysNothing(x, k)
    <3>1. k = 1 /\ x[k] = Gap
      BY <1>1, <1>4
    <3>. QED  BY <3>1 DEF SaysNothing
  <2>. QED  BY <2>1
<1>6. {k \in 1 .. lb : n + k \in W} = {}
  <2> SUFFICES ASSUME NEW k \in 1 .. lb PROVE la + (n + k) \notin U
    OBVIOUS
  <2> DEFINE j == la + (n + k)
  <2>1. n + k \in 1 .. n + lb /\ j = Len(x)
    BY <1>1, <1>2, <1>4
  <2>2. x[j] = Gap
    <3>1. y[n + k] = Gap
      BY <1>1, <1>3
    <3>. QED  BY <1>4, <2>1, <3>1
  <2>. HIDE DEF j
  <2>3. SaysNothing(x, j)
    BY <2>1, <2>2 DEF SaysNothing
  <2>. QED  BY <2>3 DEF j
<1>7. V = {k \in DOMAIN t : ~Drops(t, k)}
  <2>1. DOMAIN t = 1 .. n
    BY DEF n
  <2>2. ASSUME NEW k \in 1 .. n PROVE la + k \in U <=> ~Drops(t, k)
    <3> DEFINE j == la + k
    <3>1. k \in 1 .. n + lb /\ j \in DOMAIN x /\ j \in Nat
      BY <1>1, <1>2, <1>4
    <3>2. x[j] = t[k]
      BY <1>3, <1>4, <3>1
    <3>3. CASE t[k] = Gap
      <4>1. k # 1 /\ k # n
        BY <3>3 DEF n
      <4>2. /\ k - 1 \in 1 .. n + lb /\ k + 1 \in 1 .. n + lb /\ k - 1 \in 1 .. n /\ k + 1 \in 1 .. n
            /\ la + (k - 1) = j - 1 /\ la + (k + 1) = j + 1 /\ j # 1 /\ j # Len(x) /\ k > 1 /\ k < n
        BY <1>1, <1>2, <1>4, <4>1, SMTT(30)
      <4>3. x[j - 1] = t[k - 1] /\ x[j + 1] = t[k + 1]
        BY <1>3, <1>4, <4>2
      <4>. HIDE DEF j
      <4>4. SaysNothing(x, j) <=> Drops(t, k)
        BY <3>2, <3>3, <4>2, <4>3 DEF SaysNothing, Drops, n
      <4>. QED  BY <3>1, <4>4 DEF j
    <3>4. CASE t[k] # Gap
      <4>. HIDE DEF j
      <4>1. ~SaysNothing(x, j) /\ ~Drops(t, k)
        BY <3>2, <3>4 DEF SaysNothing, Drops
      <4>. QED  BY <3>1, <4>1 DEF j
    <3>. QED  BY <3>3, <3>4
  <2>3. \A k \in 1 .. n : k \in 1 .. n + lb
    BY <1>1, <1>2
  <2>. HIDE DEF U
  <2>. QED  BY <2>1, <2>2, <2>3
<1>8. Pick(x, U) = Pick(y, W)
  <2>1. U \in SUBSET (1 .. la + Len(y))
    BY <1>3, <1>4
  <2>. HIDE DEF U
  <2>2. PicksBoth(a, y, U)
    BY <1>1, <1>3, <2>1, PickConcat DEF la
  <2>3. Pick(a \o y, U) = Pick(a, {k \in 1 .. la : k \in U}) \o Pick(y, {k \in 1 .. Len(y) : la + k \in U})
    BY <2>2, Zenon DEF PicksBoth, la
  <2>4. {k \in 1 .. Len(y) : la + k \in U} = W
    BY <1>3
  <2>5. Pick(y, W) \in Seq(Tokens)
    <3>1. W \in SUBSET (1 .. Len(y))
      BY <1>3
    <3>. HIDE DEF W
    <3>. QED  BY <1>3, <3>1, PickTyped
  <2>. HIDE DEF W
  <2>6. <<>> \o Pick(y, W) = Pick(y, W)
    BY <2>5, ConcatEmptySeq
  <2>7. Pick(a, {}) = <<>>
    BY PickNone
  <2>. QED  BY <1>5, <2>3, <2>4, <2>6, <2>7, Zenon DEF x
<1>. HIDE DEF U
<1>9. Pick(y, W) = Pick(t, V)
  <2>1. W \in SUBSET (1 .. Len(t) + Len(b))
    BY DEF n, lb
  <2>. HIDE DEF W
  <2>2. PicksBoth(t, b, W)
    BY <1>1, <2>1, PickConcat
  <2>3. Pick(t \o b, W) = Pick(t, {k \in 1 .. n : k \in W}) \o Pick(b, {k \in 1 .. lb : n + k \in W})
    BY <2>2, Zenon DEF PicksBoth, n, lb
  <2>4. Pick(t, V) \in Seq(Tokens)
    <3>1. V \in SUBSET (1 .. Len(t))
      BY DEF n
    <3>. HIDE DEF V
    <3>. QED  BY <3>1, PickTyped
  <2>. HIDE DEF V
  <2>5. Pick(t, V) \o <<>> = Pick(t, V)
    BY <2>4, ConcatEmptySeq
  <2>6. Pick(b, {}) = <<>>
    BY PickNone
  <2>. QED  BY <1>6, <2>3, <2>5, <2>6, Zenon DEF y, V
<1>. HIDE DEF V, W
<1>10. Squeeze(x) = Pick(t, V)
  <2>1. Squeeze(x) = Pick(x, U)
    BY SqueezeIs, Zenon DEF U
  <2>. QED  BY <1>8, <1>9, <2>1
<1>11. Squeeze(x) = Bare(t)
  BY <1>7, <1>10 DEF Bare
<1>. QED  BY <1>11 DEF x, y

(* What is accepted is what was written, but for white space.                 *)
LEMMA ParseTaken ==
    ASSUME NEW s \in Seq(Tokens), Parse(s).ok
    PROVE  /\ Parse(s).out \in MadeWhens
           /\ Write(Parse(s).out, <<>>, <<>>) = Squeeze(s)
<1> DEFINE t == Trim(s)
           e == Expr(t)
<1>1. t \in Seq(Tokens) /\ \E a, b \in Blanks : s = a \o (t \o b)
  BY TrimTaken
<1>. HIDE DEF t
<1>2. e.ok /\ e.rest = <<>> /\ Parse(s) = e
  <2>1. Parse(s) = IF e.ok /\ e.rest = <<>> THEN e ELSE Fails
    BY Zenon DEF Parse, AllTaken, t
  <2>2. ~Fails.ok
    BY DEF Fails
  <2>. HIDE DEF e
  <2>. QED  BY <2>1, <2>2
<1>3. e \in Parsed /\ Displays(t, e)
  BY <1>1, <1>2, ExprTaken
<1>. HIDE DEF e
<1>4. ~Stuck(e.rest)
  BY <1>2 DEF Stuck
<1>5. PICK w : t = w \o e.rest /\ ShownAs(w, Write(e.out, <<>>, <<>>))
  BY <1>3, <1>4 DEF Displays
<1>6. w = t
  <2>1. w \in Seq(Tokens)
    BY <1>5 DEF ShownAs
  <2>2. w \o <<>> = w
    BY <2>1, ConcatEmptySeq
  <2>. QED  BY <1>2, <1>5, <2>2
<1>7. t # <<>> /\ t[1] # Gap /\ t[Len(t)] # Gap /\ Bare(t) = Write(e.out, <<>>, <<>>)
  BY <1>5, <1>6 DEF ShownAs
<1>8. Squeeze(s) = Bare(t)
  BY <1>1, <1>7, SqueezeOuter
<1>9. e.out \in MadeWhens
  BY <1>3 DEF Parsed
<1>. QED  BY <1>2, <1>7, <1>8, <1>9

(* A side that is written is plain.                                           *)
LEMMA SideWritten ==
    ASSUME NEW value, NEW to, IsSide(value, to)
    PROVE  Plain(RhsText([value |-> value, to |-> to]))
<1> DEFINE side == [value |-> value, to |-> to]
<1>1. CASE to # <<>>
  <2>1. IsPath(to) /\ value = Absent
    BY <1>1 DEF IsSide, IsPath
  <2>2. RhsText(side) = PathText(to) /\ Plain(PathText(to))
    BY <1>1, <2>1, ValueText, PathWritten
  <2>. QED  BY <2>2
<1>2. CASE to = <<>>
  <2>1. ASSUME NEW x \in Truths \cup Figures \cup Strings \cup Floats, RhsText(side) = <<x>>
        PROVE  Plain(RhsText(side))
    <3>1. x \in Tokens /\ x \notin Ops /\ x # Gap
      BY TokenKinds
    <3>. QED  BY <2>1, <3>1, PlainToken
  <2>2. CASE \E b \in BOOLEAN : value = Boolean(b)
    <3>1. PICK b \in BOOLEAN : value = Boolean(b)
      BY <2>2
    <3> DEFINE x == IF b THEN "TRUE" ELSE "FALSE"
    <3>2. RhsText(side) = <<x>>
      BY <1>2, <3>1, ValueText
    <3>3. x \in Truths
      BY <3>1 DEF Truths
    <3>4. Plain(RhsText(side))
      BY <2>1, <3>2, <3>3, Zenon
    <3>. QED  BY <3>4
  <2>3. CASE \E n \in Figures \cup {f \in Floats : AfterFloat[f] = <<>>} : value = Number(n)
    <3>1. PICK n \in Figures \cup Floats : value = Number(n)
      BY <2>3
    <3>2. RhsText(side) = <<n>>
      BY <1>2, <3>1, ValueText
    <3>. QED  BY <2>1, <3>2
  <2>4. CASE \E t \in Strings : value = Text(t)
    <3>1. PICK t \in Strings : value = Text(t)
      BY <2>4
    <3>2. RhsText(side) = <<t>>
      BY <1>2, <3>1, ValueText
    <3>. QED  BY <2>1, <3>2
  <2>. QED  BY <1>2, <2>2, <2>3, <2>4 DEF IsSide
<1>. QED  BY <1>1, <1>2

(* A term that is written is shown.                                           *)
LEMMA TermWritten ==
    ASSUME NEW t, IsTerm(t), NEW a \in Blanks, NEW b \in Blanks
    PROVE  ShownAs(TermText(t, a, b), TermText(t, <<>>, <<>>))
<1> DEFINE side == [value |-> t.value, to |-> t.to]
           P == PathText(t.path)
           o == <<t.op>>
           R == RhsText(side)
<1>1. /\ IsPath(t.path) /\ t.op \in Ops /\ IsSide(t.value, t.to)
      /\ t = [path |-> t.path, op |-> t.op, value |-> t.value, to |-> t.to]
  BY DEF IsTerm, IsPath
<1>2. side.value = t.value /\ side.to = t.to /\ side = [value |-> side.value, to |-> side.to]
  OBVIOUS
<1>3. Plain(P) /\ Plain(R)
  BY <1>1, PathWritten, SideWritten
<1>4. Compares(t.path, t.op, side) = t
  BY <1>1, <1>2 DEF Compares
<1>. HIDE DEF side
<1>5. TermText(t, a, b) = P \o a \o o \o b \o R /\ TermText(t, <<>>, <<>>) = P \o <<>> \o o \o <<>> \o R
  <2>1. \A x, y : TermText(Compares(t.path, t.op, side), x, y) = PathText(t.path) \o x \o <<t.op>> \o y \o RhsText(side)
    BY <1>2, SideText
  <2>. QED  BY <1>4, <2>1, Zenon DEF P, o, R
<1>. HIDE DEF P, R
<1>6. ShownAs(P \o a \o o \o b \o R, P \o <<>> \o o \o <<>> \o R)
  BY <1>1, <1>3, TermShown
<1>. QED  BY <1>5, <1>6, Zenon

(* A predicate is made of terms and joins.                                    *)
IsJoin(j) == j = [and |-> j.and, term |-> j.term] /\ j.and \in BOOLEAN /\ IsTerm(j.term)

(* Of a predicate the first term and each of the joins are what they should   *)
(* be.                                                                        *)
LEMMA PredicateIs ==
    ASSUME NEW w, IsPredicate(w)
    PROVE  /\ w = [first |-> w.first, rest |-> w.rest] /\ IsTerm(w.first)
           /\ Len(w.rest) \in Nat /\ DOMAIN w.rest = 1 .. Len(w.rest)
           /\ w.rest \in Seq({w.rest[i] : i \in DOMAIN w.rest})
           /\ \A i \in 1 .. Len(w.rest) : IsJoin(w.rest[i])
<1>1. /\ w = [first |-> w.first, rest |-> w.rest] /\ IsTerm(w.first) /\ IsVector(w.rest)
      /\ \A j \in ToSet(w.rest) : IsJoin(j)
  BY Zenon DEF IsPredicate, IsJoin
<1>2. /\ Len(w.rest) \in Nat /\ DOMAIN w.rest = 1 .. Len(w.rest)
      /\ w.rest \in Seq({w.rest[i] : i \in DOMAIN w.rest})
  BY <1>1, VectorElements
<1>3. \A i \in DOMAIN w.rest : w.rest[i] \in ToSet(w.rest)
  BY Zenon DEF ToSet
<1>. QED  BY <1>1, <1>2, <1>3

(* The joint of a join.                                                       *)
Joint(j) == IF j.and THEN "AND" ELSE "OR"

(* A join is written as its joint and its term, which ends with no white      *)
(* space.                                                                     *)
LEMMA JoinWritten ==
    ASSUME NEW j, IsJoin(j), NEW a \in Blanks, NEW b \in Blanks
    PROVE  /\ Joint(j) \in Joints /\ Joining(Joint(j), j.term) = j /\ IsTerm(j.term)
           /\ JoinText(j, a, b) = Separator(Joint(j)) \o TermText(j.term, a, b)
           /\ Separator(Joint(j)) \in Seq(Tokens) /\ Len(Separator(Joint(j))) = 3 /\ Separator(Joint(j)) # <<>>
           /\ Separator(Joint(j))[1] = Gap /\ Separator(Joint(j))[2] = Joint(j) /\ Separator(Joint(j))[3] = Gap
           /\ TermText(j.term, a, b) \in Seq(Tokens) /\ TermText(j.term, a, b) # <<>>
           /\ TermText(j.term, a, b)[Len(TermText(j.term, a, b))] # Gap
<1> DEFINE x == TermText(j.term, a, b)
<1>1. j = [and |-> j.and, term |-> j.term] /\ j.and \in BOOLEAN /\ IsTerm(j.term)
  BY DEF IsJoin
<1>2. Joint(j) \in Joints /\ (Joint(j) = "AND") = j.and
  BY <1>1 DEF Joint, Joints
<1>3. Joining(Joint(j), j.term) = j
  BY <1>1, <1>2 DEF Joining
<1>4. JoinText(j, a, b) = Separator(Joint(j)) \o x
  BY Zenon DEF JoinText, Joint
<1>5. Joint(j) \in Tokens /\ Gap \in Tokens
  BY <1>2, TokenKinds
<1>6. /\ Separator(Joint(j)) \in Seq(Tokens) /\ Len(Separator(Joint(j))) = 3 /\ Separator(Joint(j)) # <<>>
      /\ Separator(Joint(j))[1] = Gap /\ Separator(Joint(j))[2] = Joint(j) /\ Separator(Joint(j))[3] = Gap
  BY <1>5 DEF Separator
<1>7. x \in Seq(Tokens) /\ x # <<>> /\ x[Len(x)] # Gap
  <2>1. ShownAs(x, TermText(j.term, <<>>, <<>>))
    BY <1>1, TermWritten
  <2>. HIDE DEF x
  <2>. QED  BY <2>1 DEF ShownAs
<1>. QED  BY <1>1, <1>2, <1>3, <1>4, <1>6, <1>7

(* A text that is empty, or begins with white space and does not end with it. *)
Ended(r) == r = <<>> \/ (r # <<>> /\ r[1] = Gap /\ r[Len(r)] # Gap)

(* What is still to be read behind the first n joins.                         *)
Still(R, w, a, b, n) ==
    /\ R[n] \in Seq(Tokens) /\ Len(R[n]) >= Len(w.rest) - n
    /\ Ended(R[n])
    /\ n >= 1 => R[n - 1] = Separator(Joint(w.rest[n])) \o (TermText(w.rest[n].term, a, b) \o R[n])

(* A join is written before what is still to be read.                         *)
Leads(q, j, a, b, r) ==
    /\ q \in Seq(Tokens) /\ Len(q) \in Nat /\ Len(q) >= Len(r) + 1
    /\ q # <<>> /\ q[1] = Gap /\ q[Len(q)] # Gap
    /\ q = Separator(Joint(j)) \o (TermText(j.term, a, b) \o r)

(* A join that is written leads what is behind it.                            *)
LEMMA StillBefore ==
    ASSUME NEW j, IsJoin(j), NEW a \in Blanks, NEW b \in Blanks, NEW r \in Seq(Tokens), Ended(r)
    PROVE  JoinText(j, a, b) \in Seq(Tokens) /\ Leads(JoinText(j, a, b) \o r, j, a, b, r)
<1> DEFINE g == Separator(Joint(j))
           x == TermText(j.term, a, b)
           y == x \o r
           q == JoinText(j, a, b) \o r
<1>0. r = <<>> \/ (r # <<>> /\ r[1] = Gap /\ r[Len(r)] # Gap)
  BY DEF Ended
<1>1. JoinText(j, a, b) = g \o x
  BY JoinWritten, Zenon
<1>2. /\ g \in Seq(Tokens) /\ Len(g) = 3 /\ g # <<>> /\ g[1] = Gap
      /\ x \in Seq(Tokens) /\ x # <<>> /\ x[Len(x)] # Gap
  BY JoinWritten
<1>. HIDE DEF g, x
<1>3. Associates(g, x, r)
  BY <1>2, ThreeTogether
<1>4. q = g \o y
  BY <1>1, <1>3, Zenon DEF Associates, y, q
<1>. HIDE DEF q
<1>5. y \in Seq(Tokens) /\ y # <<>> /\ y[Len(y)] # Gap /\ Len(y) = Len(x) + Len(r)
  <2>1. y \in Seq(Tokens) /\ y # <<>> /\ Len(y) = Len(x) + Len(r)
    BY <1>2, EndsOf
  <2>2. CASE r = <<>>
    <3>1. y = x
      BY <1>2, <2>2, ConcatEmptySeq
    <3>. QED  BY <1>2, <2>1, <3>1
  <2>3. CASE r # <<>>
    <3>1. y[Len(y)] = r[Len(r)]
      BY <1>2, <2>3, EndsOf
    <3>. QED  BY <1>0, <2>1, <2>3, <3>1
  <2>. QED  BY <2>2, <2>3
<1>. HIDE DEF y
<1>6. q \in Seq(Tokens) /\ q # <<>> /\ q[1] = g[1] /\ q[Len(q)] = y[Len(y)] /\ Len(q) = Len(g) + Len(y)
  <2> DEFINE c == g \o y
  <2>1. c \in Seq(Tokens) /\ c # <<>> /\ c[1] = g[1] /\ c[Len(c)] = y[Len(y)]
    BY <1>2, <1>5, EndsOf
  <2>2. Len(c) = Len(g) + Len(y)
    <3>1. Joins(c, g, y)
      BY <1>2, <1>5, ConcatIs
    <3>. QED  BY <3>1, Zenon DEF Joins
  <2>3. q = c
    BY <1>4
  <2>. HIDE DEF c
  <2>. QED  BY <2>1, <2>2, <2>3
<1>7. Len(x) \in Nat /\ Len(r) \in Nat /\ Len(y) \in Nat
  BY <1>2, <1>5
<1>8. JoinText(j, a, b) \in Seq(Tokens)
  BY <1>1, <1>2, EndsOf
<1>9. Leads(q, j, a, b, r)
  BY <1>2, <1>4, <1>5, <1>6, <1>7 DEF Leads, y, g, x
<1>. QED  BY <1>8, <1>9 DEF q

(* A predicate is written from its end.                                       *)
WrittenOut(R, w, a, b) ==
    /\ R[Len(w.rest)] = <<>> /\ R[0] = FlattenSeq(JoinTexts(w.rest, a, b))
    /\ \A n \in 0 .. Len(w.rest) : Still(R, w, a, b, n)

(* For each predicate there is what is still to be read behind each of its    *)
(* joins.                                                                     *)
LEMMA WrittenBehind ==
    ASSUME NEW w, IsPredicate(w), NEW a \in Blanks, NEW b \in Blanks
    PROVE  \E R : WrittenOut(R, w, a, b)
<1> DEFINE L == Len(w.rest)
           qs == JoinTexts(w.rest, a, b)
<1>1. L \in Nat /\ DOMAIN w.rest = 1 .. L /\ \A i \in 1 .. L : IsJoin(w.rest[i])
  BY PredicateIs
<1>. HIDE DEF L
<1>2. qs = [i \in 1 .. L |-> JoinText(w.rest[i], a, b)]
  BY <1>1 DEF JoinTexts
<1>3. \A i \in 1 .. L : JoinText(w.rest[i], a, b) \in Seq(Tokens)
  <2> SUFFICES ASSUME NEW i \in 1 .. L PROVE JoinText(w.rest[i], a, b) \in Seq(Tokens)
    OBVIOUS
  <2>1. <<>> \in Seq(Tokens) /\ Ended(<<>>)
    BY DEF Ended
  <2>2. IsJoin(w.rest[i])
    BY <1>1
  <2>. QED  BY <2>1, <2>2, StillBefore
<1>4. qs \in Seq(Seq(Tokens)) /\ Len(qs) = L /\ DOMAIN qs = 1 .. L
  <2>. HIDE DEF qs
  <2>. QED  BY <1>1, <1>2, <1>3
<1>5. \A i \in 1 .. L : qs[i] = JoinText(w.rest[i], a, b)
  BY <1>2
<1>. HIDE DEF qs
<1>6. IsVector(qs) /\ \A i \in DOMAIN qs : qs[i] \in Seq(Tokens)
  BY <1>3, <1>4, <1>5, VectorElements
<1>7. PICK R : Tails(R, Tokens, qs)
  BY <1>6, Unflattening
<1>8. /\ R[L] = <<>> /\ R[0] = FlattenSeq(qs) /\ (\A n \in 0 .. L : R[n] \in Seq(Tokens))
      /\ \A n \in 1 .. L : R[n - 1] = qs[n] \o R[n]
  BY <1>4, <1>7, Zenon DEF Tails
<1>9. ASSUME NEW n \in 1 .. L, Ended(R[n])
      PROVE  /\ Ended(R[n - 1]) /\ Len(R[n - 1]) \in Nat /\ Len(R[n - 1]) >= Len(R[n]) + 1
             /\ R[n - 1] = Separator(Joint(w.rest[n])) \o (TermText(w.rest[n].term, a, b) \o R[n])
  <2> DEFINE q == R[n - 1]
             r == R[n]
             j == w.rest[n]
  <2>1. n \in 0 .. L
    BY <1>1
  <2>2. IsJoin(j) /\ r \in Seq(Tokens) /\ q = JoinText(j, a, b) \o r /\ Ended(r)
    BY <1>1, <1>5, <1>8, <1>9, <2>1
  <2>. HIDE DEF q, r, j
  <2>3. Leads(q, j, a, b, r)
    <3>1. Leads(JoinText(j, a, b) \o r, j, a, b, r)
      BY <2>2, StillBefore
    <3>. QED  BY <2>2, <3>1
  <2>4. Ended(q)
    BY <2>3 DEF Leads, Ended
  <2>. QED  BY <2>3, <2>4, Zenon DEF Leads, q, r, j
<1> DEFINE S == {k \in Nat : k <= L => Ended(R[L - k]) /\ Len(R[L - k]) >= k}
<1>10. 0 \in S
  <2>1. L - 0 = L
    BY <1>1
  <2>. QED  BY <1>8, <2>1 DEF Ended
<1>11. ASSUME NEW k \in Nat, k \in S PROVE k + 1 \in S
  <2>1. ASSUME k + 1 <= L PROVE Ended(R[L - (k + 1)]) /\ Len(R[L - (k + 1)]) >= k + 1
    <3> DEFINE n == L - k
    <3>1. n \in 1 .. L /\ L - (k + 1) = n - 1 /\ k <= L
      BY <1>1, <2>1
    <3>2. Ended(R[n]) /\ Len(R[n]) >= k
      BY <1>11, <3>1
    <3>. HIDE DEF n
    <3>3. Ended(R[n - 1]) /\ Len(R[n - 1]) \in Nat /\ Len(R[n - 1]) >= Len(R[n]) + 1
      BY <1>9, <3>1, <3>2
    <3>4. Len(R[n]) \in Nat
      <4>1. n \in 0 .. L
        BY <1>1, <3>1
      <4>2. R[n] \in Seq(Tokens)
        BY <1>8, <4>1
      <4>. QED  BY <4>2
    <3>5. Len(R[n - 1]) >= k + 1
      BY <3>2, <3>3, <3>4
    <3>. QED  BY <3>1, <3>3, <3>5
  <2>2. k + 1 \in Nat
    OBVIOUS
  <2>. QED  BY <2>1, <2>2
<1>12. \A k \in Nat : k \in S
  <2>. HIDE DEF S
  <2>. QED  BY <1>10, <1>11, Induction
<1>13. ASSUME NEW n \in 0 .. L PROVE Still(R, w, a, b, n)
  <2> DEFINE k == L - n
  <2>1. k \in Nat /\ k <= L /\ L - k = n
    BY <1>1
  <2>2. Ended(R[n]) /\ Len(R[n]) >= k
    BY <1>12, <2>1
  <2>3. ASSUME n >= 1 PROVE R[n - 1] = Separator(Joint(w.rest[n])) \o (TermText(w.rest[n].term, a, b) \o R[n])
    <3>1. n \in 1 .. L
      BY <1>1, <2>3
    <3>. QED  BY <1>9, <2>2, <3>1
  <2>. QED  BY <1>8, <2>2, <2>3 DEF Still, L
<1>14. WrittenOut(R, w, a, b)
  BY <1>8, <1>13 DEF WrittenOut, L, qs
<1>. QED  BY <1>14

(* It neither begins nor ends with white space.                               *)
WellWritten(s, f, r, n) ==
    /\ s = f \o r /\ r \in Seq(Tokens) /\ (r = <<>> \/ r[1] = Gap)
    /\ s \in Seq(Tokens) /\ s # <<>> /\ s[1] # Gap /\ s[Len(s)] # Gap
    /\ Len(s) >= n

(* A predicate that is written is well written.                               *)
LEMMA WriteGiven ==
    ASSUME NEW w, IsPredicate(w), NEW a \in Blanks, NEW b \in Blanks, NEW R, WrittenOut(R, w, a, b)
    PROVE  WellWritten(Write(w, a, b), TermText(w.first, a, b), R[0], Len(w.rest))
<1> DEFINE f == TermText(w.first, a, b)
           r == R[0]
           s == f \o r
           L == Len(w.rest)
<1>1. Write(w, a, b) = s
  BY WriteIs, Zenon DEF WrittenOut
<1>2. f \in Seq(Tokens) /\ f # <<>> /\ f[1] # Gap /\ f[Len(f)] # Gap
  <2>1. ShownAs(f, TermText(w.first, <<>>, <<>>))
    BY PredicateIs, TermWritten
  <2>. HIDE DEF f
  <2>. QED  BY <2>1 DEF ShownAs
<1>3. /\ r \in Seq(Tokens) /\ Len(r) >= L /\ L \in Nat
      /\ r = <<>> \/ (r # <<>> /\ r[1] = Gap /\ r[Len(r)] # Gap)
  <2>1. L \in Nat
    BY PredicateIs
  <2>2. 0 \in 0 .. L
    BY <2>1
  <2>3. Still(R, w, a, b, 0)
    BY <2>2 DEF WrittenOut
  <2>4. L - 0 = L
    BY <2>1
  <2>. QED  BY <2>1, <2>3, <2>4 DEF Still, Ended
<1>. HIDE DEF f, r, L
<1>4. s \in Seq(Tokens) /\ s # <<>> /\ s[1] # Gap
  BY <1>2, <1>3, EndsOf
<1>5. s[Len(s)] # Gap
  <2>1. CASE r = <<>>
    <3>1. s = f
      BY <1>2, <2>1, ConcatEmptySeq
    <3>. QED  BY <1>2, <3>1
  <2>2. CASE r # <<>>
    BY <1>2, <1>3, <2>2, EndsOf
  <2>. QED  BY <2>1, <2>2
<1>6. Len(s) >= L
  <2>1. Joins(s, f, r)
    BY <1>2, <1>3, ConcatIs
  <2>2. Len(s) = Len(f) + Len(r) /\ Len(f) \in Nat /\ Len(r) \in Nat
    BY <2>1, Zenon DEF Joins
  <2>. HIDE DEF s
  <2>. QED  BY <1>3, <2>2
<1>7. s = f \o r
  OBVIOUS
<1>. HIDE DEF s
<1>8. WellWritten(s, f, r, L)
  BY <1>3, <1>4, <1>5, <1>6, <1>7 DEF WellWritten
<1>. QED  BY <1>1, <1>8 DEF f, r, L

(* One more join is taken.                                                    *)
Straight(t) == IsTerm(t) /\ (t.to # <<>> => t.to[1] \notin Floats)

(* A join that is written is taken.                                           *)
LEMMA JoinGiven ==
    ASSUME NEW e \in Parsed, NEW joint \in Joints, NEW t, Straight(t), NEW a \in Blanks, NEW b \in Blanks,
           NEW rest \in Seq(Tokens), rest = <<>> \/ rest[1] = Gap,
           e.rest = Separator(joint) \o (TermText(t, a, b) \o rest)
    PROVE  ParseJoined(e) = Grown(e, joint, t, rest) /\ IsMadeTerm(t)
<1> DEFINE s == e.rest
           g == Separator(joint)
           x == TermText(t, a, b)
           y == x \o rest
           term == ParseTerm(SubSeq(s, 4, Len(s)))
<1>1. joint \in Tokens /\ Gap \in Tokens
  BY TokenKinds
<1>2. g \in Seq(Tokens) /\ Len(g) = 3 /\ g[1] = Gap /\ g[2] = joint /\ g[3] = Gap
  BY <1>1 DEF Separator
<1>3. x \in Seq(Tokens) /\ x # <<>> /\ ParseTerm(y) = Gives(t, rest)
  <2>1. ShownAs(x, TermText(t, <<>>, <<>>)) /\ ParseTerm(y) = Gives(t, rest)
    BY TermGiven DEF Straight
  <2>. HIDE DEF x
  <2>. QED  BY <2>1 DEF ShownAs
<1>4. y \in Seq(Tokens) /\ y # <<>>
  <2>. HIDE DEF x
  <2>. QED  BY <1>3, EndsOf
<1>5. s = g \o y
  OBVIOUS
<1>. HIDE DEF g, x, y
<1>6. Len(s) > 3 /\ s[1] = Gap /\ s[2] = joint /\ s[3] = Gap /\ SubSeq(s, 4, Len(s)) = y
  <2> DEFINE c == g \o y
  <2>1. Joins(c, g, y)
    BY <1>2, <1>4, ConcatIs
  <2>2. Len(y) \in Nat /\ Len(y) >= 1
    BY <1>4
  <2>3. /\ Len(c) = Len(g) + Len(y) /\ \A k \in 1 .. Len(g) : c[k] = g[k]
    BY <2>1, Zenon DEF Joins
  <2>4. SubSeq(c, Len(g) + 1, Len(c)) = y
    BY <1>2, <1>4, Behind
  <2>5. s = c
    BY <1>5
  <2>. HIDE DEF c
  <2>6. Len(c) > 3 /\ c[1] = Gap /\ c[2] = joint /\ c[3] = Gap
    <3>1. 1 \in 1 .. 3 /\ 2 \in 1 .. 3 /\ 3 \in 1 .. 3
      OBVIOUS
    <3>. QED  BY <1>2, <2>2, <2>3, <3>1
  <2>7. SubSeq(c, 4, Len(c)) = y
    <3>1. Len(g) + 1 = 4
      BY <1>2
    <3>. QED  BY <2>4, <3>1
  <2>. QED  BY <2>5, <2>6, <2>7
<1>7. ParseJoined(e) = IF (Len(s) > 3 /\ s[1] = Gap /\ s[2] \in Joints /\ s[3] = Gap) /\ term.ok
                       THEN Gives([e.out EXCEPT !.rest = Append(e.out.rest, Joining(s[2], term.out))], term.rest)
                       ELSE e
  BY JoinedIs, Zenon
<1>8. term = Gives(t, rest)
  BY <1>3, <1>6
<1>9. term.ok /\ term.out = t /\ term.rest = rest
  BY <1>8 DEF Gives
<1>. HIDE DEF term, s
<1>10. ParseJoined(e) = Gives([e.out EXCEPT !.rest = Append(e.out.rest, Joining(joint, t))], rest)
  BY <1>6, <1>7, <1>9, Zenon
<1>11. [e.out EXCEPT !.rest = Append(e.out.rest, Joining(joint, t))]
          = [first |-> e.out.first, rest |-> Append(e.out.rest, Joining(joint, t))]
  <2>1. ASSUME NEW z \in MadeWhens, NEW v
        PROVE  [z EXCEPT !.rest = v] = [first |-> z.first, rest |-> v]
    BY DEF MadeWhens
  <2>2. e.out \in MadeWhens
    BY DEF Parsed
  <2>. QED  BY <2>1, <2>2, Zenon
<1>12. ParseJoined(e) = Grown(e, joint, t, rest)
  BY <1>10, <1>11, Zenon DEF Grown
<1>13. IsMadeTerm(t)
  <2>1. ParseTerm(y).ok
    BY <1>3 DEF Gives
  <2>2. PICK u, r : ParseTerm(y) = Gives(u, r) /\ Yields(y, u, r)
    BY <1>4, <2>1, TermTaken
  <2>3. u = t
    <3>1. Gives(u, r).out = u /\ Gives(t, rest).out = t
      BY DEF Gives
    <3>. QED  BY <1>3, <2>2, <3>1
  <2>. QED  BY <2>2, <2>3 DEF Yields
<1>. QED  BY <1>12, <1>13

(* No right side begins like a number.                                        *)
Straights(w) == Straight(w.first) /\ \A i \in DOMAIN w.rest : Straight(w.rest[i].term)

(* A predicate that is written is parsed as itself, whatever blanks are       *)
(* around its operators.                                                      *)
LEMMA ExprGiven ==
    ASSUME NEW w, IsPredicate(w), Straights(w), NEW a \in Blanks, NEW b \in Blanks,
           NEW R, WrittenOut(R, w, a, b)
    PROVE  Expr(Write(w, a, b)) = Gives(w, <<>>)
<1> DEFINE s == Write(w, a, b)
           f == TermText(w.first, a, b)
           L == Len(w.rest)
           q == w.rest
           A == Afters(s)
           m == Len(s)
<1>1. /\ s = f \o R[0] /\ R[0] \in Seq(Tokens) /\ (R[0] = <<>> \/ R[0][1] = Gap)
      /\ s \in Seq(Tokens) /\ m >= L
  <2>1. WellWritten(s, f, R[0], L)
    BY WriteGiven
  <2>. HIDE DEF s, f, L
  <2>. QED  BY <2>1 DEF WellWritten
<1>2. /\ w = [first |-> w.first, rest |-> q] /\ L \in Nat /\ DOMAIN q = 1 .. L
      /\ q \in Seq({q[i] : i \in DOMAIN q}) /\ \A i \in 1 .. L : IsJoin(q[i])
  BY PredicateIs
<1>3. Straight(w.first) /\ \A i \in 1 .. L : Straight(q[i].term)
  BY <1>2 DEF Straights
<1>4. /\ R[L] = <<>>
      /\ \A n \in 0 .. L : R[n] \in Seq(Tokens) /\ Ended(R[n])
      /\ \A n \in 1 .. L : R[n - 1] = Separator(Joint(q[n])) \o (TermText(q[n].term, a, b) \o R[n])
  <2>1. R[L] = <<>> /\ \A n \in 0 .. L : Still(R, w, a, b, n)
    BY Zenon DEF WrittenOut
  <2>2. \A n \in 0 .. L : R[n] \in Seq(Tokens) /\ Ended(R[n])
    BY <2>1, Zenon DEF Still
  <2>3. ASSUME NEW n \in 1 .. L
        PROVE  R[n - 1] = Separator(Joint(q[n])) \o (TermText(q[n].term, a, b) \o R[n])
    <3>1. n \in 0 .. L /\ n >= 1
      BY <1>2
    <3>2. Still(R, w, a, b, n)
      BY <2>1, <3>1
    <3>. QED  BY <3>1, <3>2, Zenon DEF Still
  <2>. QED  BY <2>1, <2>2, <2>3
<1>5. ParseTerm(s) = Gives(w.first, R[0])
  <2>1. ParseTerm(f \o R[0]) = Gives(w.first, R[0])
    BY <1>1, <1>3, TermGiven DEF Straight
  <2>. QED  BY <1>1, <2>1
<1>. HIDE DEF s, f
<1>6. Yields(s, w.first, R[0])
  <2>1. ParseTerm(s).ok
    BY <1>5 DEF Gives
  <2>2. PICK u, r : ParseTerm(s) = Gives(u, r) /\ Yields(s, u, r)
    BY <1>1, <2>1, TermTaken
  <2>3. u = w.first /\ r = R[0]
    <3>1. Gives(u, r).out = u /\ Gives(w.first, R[0]).out = w.first
          /\ Gives(u, r).rest = r /\ Gives(w.first, R[0]).rest = R[0]
      BY DEF Gives
    <3>. QED  BY <1>5, <2>2, <3>1
  <2>. QED  BY <2>2, <2>3
<1>7. /\ A[0] = Gives(Only(w.first), R[0])
      /\ \A n \in 1 .. m : A[n] = ParseJoined(A[n - 1])
      /\ \A n \in 0 .. m : A[n] \in Parsed
  BY <1>1, <1>5, <1>6, AfterEach
<1>8. m \in Nat
  BY <1>1
<1>. HIDE DEF A, m, L
<1> DEFINE At(n) == A[n].out.first = w.first /\ A[n].out.rest = SubSeq(q, 1, n) /\ A[n].rest = R[n]
           S == {n \in Nat : n <= L => At(n)}
<1>9. 0 \in S
  <2>1. SubSeq(q, 1, 0) = <<>>
    BY <1>2, PrefixGrows
  <2>2. A[0].out.first = w.first /\ A[0].out.rest = <<>> /\ A[0].rest = R[0]
    BY <1>7 DEF Gives, Only
  <2>3. At(0)
    BY <2>1, <2>2, Zenon
  <2>. HIDE DEF At
  <2>. QED  BY <2>3
<1>10. ASSUME NEW n \in Nat, n \in S PROVE n + 1 \in S
  <2>1. ASSUME n + 1 <= L PROVE At(n + 1)
    <3> DEFINE k == n + 1
               j == q[k]
               e == A[n]
               t == j.term
               joint == Joint(j)
    <3>1. k \in 1 .. L /\ k \in 1 .. m /\ k - 1 = n /\ n \in 0 .. m /\ k \in 0 .. L /\ n <= L
      BY <1>1, <1>2, <1>8, <2>1
    <3>2. e.out.first = w.first /\ e.out.rest = SubSeq(q, 1, n) /\ e.rest = R[n] /\ e \in Parsed
      BY <1>7, <1>10, <3>1
    <3>3. A[k] = ParseJoined(e)
      BY <1>7, <3>1
    <3>4. /\ R[n] = Separator(joint) \o (TermText(t, a, b) \o R[k])
          /\ R[k] \in Seq(Tokens) /\ (R[k] = <<>> \/ R[k][1] = Gap)
      <4>1. R[k - 1] = Separator(joint) \o (TermText(t, a, b) \o R[k])
        BY <1>4, <3>1
      <4>2. R[k] \in Seq(Tokens) /\ Ended(R[k])
        BY <1>4, <3>1
      <4>. QED  BY <3>1, <4>1, <4>2 DEF Ended
    <3>5. Straight(t) /\ joint \in Joints /\ Joining(joint, t) = j
      BY <1>2, <1>3, <3>1, JoinWritten
    <3>. HIDE DEF joint, t, e
    <3> DEFINE r == R[k]
    <3>6. r \in Seq(Tokens) /\ (r = <<>> \/ r[1] = Gap) /\ e.rest = Separator(joint) \o (TermText(t, a, b) \o r)
      BY <3>2, <3>4
    <3>. HIDE DEF r
    <3>7. ParseJoined(e) = Grown(e, joint, t, r) /\ IsMadeTerm(t)
      BY <3>2, <3>5, <3>6, JoinGiven
    <3>8. /\ A[k].rest = r /\ A[k].out.first = e.out.first
          /\ A[k].out.rest = Append(e.out.rest, Joining(joint, t))
      <4>1. /\ Grown(e, joint, t, r).rest = r
            /\ Grown(e, joint, t, r).out.first = e.out.first
            /\ Grown(e, joint, t, r).out.rest = Append(e.out.rest, Joining(joint, t))
        <5>1. e \in Parsed /\ joint \in Joints /\ IsMadeTerm(t) /\ r \in Seq(Tokens)
          BY <3>2, <3>5, <3>6, <3>7
        <5>. QED  BY <5>1, GrownIsParsed
      <4>. QED  BY <3>3, <3>7, <4>1
    <3>9. SubSeq(q, 1, k) = Append(SubSeq(q, 1, n), j)
      BY <1>2, <2>1, PrefixGrows DEF L
    <3>10. At(k)
      BY <3>2, <3>5, <3>8, <3>9 DEF r
    <3>. QED  BY <3>10
  <2>2. n + 1 \in Nat
    OBVIOUS
  <2>. HIDE DEF At
  <2>. QED  BY <2>1, <2>2
<1>11. \A n \in Nat : n \in S
  <2>. HIDE DEF S
  <2>. QED  BY <1>9, <1>10, Induction
<1>12. A[L] = Gives(w, <<>>)
  <2> DEFINE e == A[L]
  <2>1. L \in 0 .. m /\ L <= L
    BY <1>1, <1>2, <1>8
  <2>2. At(L) /\ e \in Parsed
    BY <1>2, <1>7, <1>11, <2>1
  <2>3. SubSeq(q, 1, L) = q
    BY <1>2, PrefixGrows DEF L
  <2>4. e.out.first = w.first /\ e.out.rest = q /\ e.rest = <<>>
    BY <1>4, <2>2, <2>3
  <2>. HIDE DEF e
  <2>5. e = [ok |-> TRUE, out |-> e.out, rest |-> e.rest] /\ e.out \in MadeWhens
    BY <2>2 DEF Parsed
  <2>6. e.out = [first |-> e.out.first, rest |-> e.out.rest]
    BY <2>5 DEF MadeWhens
  <2>7. e.out = w
    BY <1>2, <2>4, <2>6
  <2>8. e = Gives(w, <<>>)
    BY <2>4, <2>5, <2>7 DEF Gives
  <2>. QED  BY <2>8 DEF e
<1> DEFINE U == {n \in Nat : L + n <= m => A[L + n] = Gives(w, <<>>)}
<1>13. 0 \in U
  <2>1. L + 0 = L
    BY <1>2
  <2>. QED  BY <1>12, <2>1
<1>14. ASSUME NEW n \in Nat, n \in U PROVE n + 1 \in U
  <2>1. ASSUME L + (n + 1) <= m PROVE A[L + (n + 1)] = Gives(w, <<>>)
    <3> DEFINE k == L + (n + 1)
    <3>1. k \in 1 .. m /\ k - 1 = L + n /\ L + n <= m
      BY <1>2, <1>8, <2>1
    <3>2. A[k] = ParseJoined(A[k - 1])
      BY <1>7, <3>1
    <3>3. A[k - 1] = Gives(w, <<>>)
      BY <1>14, <3>1
    <3> DEFINE e == Gives(w, <<>>)
    <3>4. ParseJoined(e) = e
      <4>1. e.rest = <<>> /\ ~(Len(e.rest) > 3)
        BY DEF Gives
      <4>. HIDE DEF e
      <4>. QED  BY <4>1, Zenon DEF ParseJoined
    <3>. QED  BY <3>2, <3>3, <3>4
  <2>2. n + 1 \in Nat
    OBVIOUS
  <2>. QED  BY <2>1, <2>2
<1>15. \A n \in Nat : n \in U
  <2>. HIDE DEF U
  <2>. QED  BY <1>13, <1>14, Induction
<1>16. A[m] = Gives(w, <<>>)
  <2>1. m - L \in Nat /\ L + (m - L) = m /\ m <= m
    BY <1>1, <1>2, <1>8
  <2> DEFINE n == m - L
  <2>2. n \in Nat /\ L + n = m /\ L + n <= m
    BY <2>1
  <2>. HIDE DEF n
  <2>. QED  BY <1>15, <2>2
<1>17. Expr(s) = IF ParseTerm(s).ok THEN A[m] ELSE Fails
  BY ExprIs, Zenon DEF A, m
<1>18. ParseTerm(s).ok
  BY <1>5 DEF Gives
<1>19. Expr(s) = Gives(w, <<>>)
  BY <1>16, <1>17, <1>18
<1>. QED  BY <1>19 DEF s

(* What was written is taken as it was meant.                                 *)
LEMMA ParseGiven ==
    ASSUME NEW w, IsPredicate(w), Straights(w), NEW outer \in Blanks, NEW a \in Blanks, NEW b \in Blanks
    PROVE  Parse(outer \o (Write(w, a, b) \o outer)) = Gives(w, <<>>)
<1> DEFINE t == Write(w, a, b)
           s == outer \o (t \o outer)
<1>1. PICK R : WrittenOut(R, w, a, b)
  BY WrittenBehind
<1>2. t \in Seq(Tokens) /\ t # <<>> /\ t[1] # Gap /\ t[Len(t)] # Gap
  <2>1. WellWritten(t, TermText(w.first, a, b), R[0], Len(w.rest))
    BY <1>1, WriteGiven
  <2>. HIDE DEF t
  <2>. QED  BY <2>1 DEF WellWritten
<1>3. Expr(t) = Gives(w, <<>>)
  BY <1>1, ExprGiven
<1>. HIDE DEF t
<1>4. Trim(s) = t
  BY <1>2, TrimGiven
<1>. HIDE DEF s
<1>5. Parse(s) = IF Expr(t).ok /\ Expr(t).rest = <<>> THEN Expr(t) ELSE Fails
  BY <1>4, Zenon DEF Parse, AllTaken
<1>6. Parse(s) = Gives(w, <<>>)
  BY <1>3, <1>5 DEF Gives
<1>. QED  BY <1>6 DEF s, t

(* A right side begins like a number, in the first term or another.           *)
LEMMA SwallowedIs ==
    ASSUME NEW w, IsPredicate(w)
    PROVE  ~Swallowed(w) => Straights(w)
<1> DEFINE q == w.rest
           L == Len(q)
           a == <<w.first>>
           b == [i \in DOMAIN q |-> q[i].term]
           U == {w.first} \cup {q[i].term : i \in DOMAIN q}
           c == a \o b
<1>1. /\ IsTerm(w.first) /\ L \in Nat /\ DOMAIN q = 1 .. L /\ \A i \in 1 .. L : IsTerm(q[i].term)
  BY PredicateIs DEF IsJoin
<1>2. a \in Seq(U) /\ Len(a) = 1 /\ a[1] = w.first
  OBVIOUS
<1>3. b = [i \in 1 .. L |-> q[i].term] /\ \A i \in 1 .. L : q[i].term \in U
  BY <1>1
<1>. HIDE DEF L, U
<1>4. b \in Seq(U) /\ Len(b) = L
  BY <1>1, <1>3
<1>. HIDE DEF a
<1>5. Joins(c, a, b) /\ Terms(w) = c
  <2>1. Terms(w) = c
    BY Zenon DEF Terms, a, q
  <2>. HIDE DEF b
  <2>. QED  BY <1>2, <1>4, <2>1, ConcatIs
<1>6. /\ c = [k \in 1 .. Len(a) + Len(b) |-> c[k]]
      /\ \A k \in 1 .. Len(a) : c[k] = a[k]
      /\ \A k \in 1 .. Len(b) : c[Len(a) + k] = b[k]
  BY <1>5, Zenon DEF Joins
<1>. HIDE DEF c
<1>7. ASSUME ~Swallowed(w) PROVE Straights(w)
  <2>1. \A k \in DOMAIN c : c[k].to # <<>> => c[k].to[1] \notin Floats
    BY <1>5, <1>7, Zenon DEF Swallowed, ToSet
  <2>2. DOMAIN c = 1 .. 1 + L
    BY <1>2, <1>4, <1>6
  <2>3. Straight(w.first)
    <3>1. 1 \in DOMAIN c /\ c[1] = w.first
      BY <1>1, <1>2, <1>6, <2>2
    <3>. QED  BY <1>1, <2>1, <3>1 DEF Straight
  <2>4. ASSUME NEW i \in DOMAIN q PROVE Straight(q[i].term)
    <3>1. i \in 1 .. L /\ 1 + i \in DOMAIN c
      BY <1>1, <2>2
    <3>2. c[1 + i] = q[i].term
      BY <1>2, <1>3, <1>4, <1>6, <3>1
    <3>. QED  BY <1>1, <2>1, <3>1, <3>2 DEF Straight
  <2>. QED  BY <2>3, <2>4 DEF Straights
<1>. QED  BY <1>7

(* None does in what the parser makes.                                        *)
LEMMA NothingSwallowed ==
    ASSUME NEW w \in MadeWhens
    PROVE  ~Swallowed(w)
<1> DEFINE q == w.rest
           a == <<w.first>>
           b == [i \in DOMAIN q |-> q[i].term]
           c == a \o b
<1>1. w.first \in MadeTerms /\ q \in Seq(MadeJoins)
  BY DEF MadeWhens
<1>. HIDE DEF q
<1>2. a \in Seq(MadeTerms)
  BY <1>1
<1>3. b \in Seq(MadeTerms)
  <2>1. \A j \in MadeJoins : j.term \in MadeTerms
    BY DEF MadeJoins
  <2>2. Len(q) \in Nat /\ DOMAIN q = 1 .. Len(q) /\ \A i \in 1 .. Len(q) : q[i] \in MadeJoins
    BY <1>1
  <2>3. b = [i \in 1 .. Len(q) |-> q[i].term] /\ \A i \in 1 .. Len(q) : q[i].term \in MadeTerms
    BY <2>1, <2>2
  <2>. HIDE DEF b
  <2>. QED  BY <2>2, <2>3
<1>4. Terms(w) = c
  BY Zenon DEF Terms, a, b, c, q
<1>. HIDE DEF a, b
<1>5. c \in Seq(MadeTerms)
  BY <1>2, <1>3, EndsOf
<1>. HIDE DEF c
<1>6. \A t \in ToSet(c) : t \in MadeTerms
  BY <1>5 DEF ToSet
<1>7. \A t \in MadeTerms : t.to # <<>> => t.to[1] \notin Floats
  BY DEF MadeTerms
<1>. QED  BY <1>4, <1>6, <1>7, Zenon DEF Swallowed

(* A text that is a sequence of tokens.                                       *)
LEMMA WriteTyped ==
    ASSUME NEW w, IsPredicate(w), NEW a \in Blanks, NEW b \in Blanks
    PROVE  Write(w, a, b) \in Seq(Tokens)
<1>1. PICK R : WrittenOut(R, w, a, b)
  BY WrittenBehind
<1>2. WellWritten(Write(w, a, b), TermText(w.first, a, b), R[0], Len(w.rest))
  BY <1>1, WriteGiven
<1>. QED  BY <1>2, Zenon DEF WellWritten

(* A text is put between blanks.                                              *)
LEMMA OuterTyped ==
    ASSUME NEW t \in Seq(Tokens), NEW b \in Blanks
    PROVE  b \o t \o b = b \o (t \o b) /\ b \o t \o b \in Seq(Tokens)
<1>1. b \in Seq(Tokens)
  BY BlankTyped
<1>2. Associates(b, t, b)
  BY <1>1, ThreeTogether
<1> DEFINE x == t \o b
<1>3. x \in Seq(Tokens)
  BY <1>1, EndsOf
<1>4. b \o t \o b = b \o x
  BY <1>2, Zenon DEF Associates, x
<1>. HIDE DEF x
<1>5. b \o x \in Seq(Tokens)
  BY <1>1, <1>3, EndsOf
<1>. QED  BY <1>4, <1>5 DEF x

(* A damaged text is one of tokens, too.                                      *)
LEMMA DamagedTyped ==
    ASSUME NEW s \in Seq(Tokens), NEW t \in Damaged(s)
    PROVE  t \in Seq(Tokens)
<1>1. \/ \E i \in DOMAIN s : t = RemoveAt(s, i)
      \/ \E i \in DOMAIN s, k \in Tokens : t = ReplaceAt(s, i, k)
      \/ \E i \in 1 .. Len(s) + 1, k \in Tokens : t = InsertAt(s, i, k)
  <2> DEFINE A == {RemoveAt(s, i) : i \in DOMAIN s}
             B == {ReplaceAt(s, i, k) : i \in DOMAIN s, k \in Tokens}
             C == {InsertAt(s, i, k) : i \in 1 .. Len(s) + 1, k \in Tokens}
  <2>1. Damaged(s) = {x \in A \cup B \cup C : IsText(x)}
    BY DEF Damaged
  <2>2. t \in A => \E i \in DOMAIN s : t = RemoveAt(s, i)
    OBVIOUS
  <2>3. t \in B => \E i \in DOMAIN s, k \in Tokens : t = ReplaceAt(s, i, k)
    OBVIOUS
  <2>4. t \in C => \E i \in 1 .. Len(s) + 1, k \in Tokens : t = InsertAt(s, i, k)
    OBVIOUS
  <2>. HIDE DEF A, B, C
  <2>5. t \in A \/ t \in B \/ t \in C
    BY <2>1
  <2>. QED  BY <2>2, <2>3, <2>4, <2>5
<1>2. Len(s) \in Nat /\ DOMAIN s = 1 .. Len(s) /\ \A i \in 1 .. Len(s) : s[i] \in Tokens
  OBVIOUS
<1>3. \A i \in 1 .. Len(s) + 1 : SubSeq(s, 1, i - 1) \in Seq(Tokens) /\ SubSeq(s, i, Len(s)) \in Seq(Tokens)
  <2> SUFFICES ASSUME NEW i \in 1 .. Len(s) + 1
               PROVE  SubSeq(s, 1, i - 1) \in Seq(Tokens) /\ SubSeq(s, i, Len(s)) \in Seq(Tokens)
    OBVIOUS
  <2> DEFINE n == i - 1
  <2>1. n \in 0 .. Len(s) /\ n + 1 = i
    BY <1>2
  <2>. HIDE DEF n
  <2>2. SubSeq(s, 1, n) \in Seq(Tokens) /\ SubSeq(s, n + 1, Len(s)) \in Seq(Tokens)
    BY <2>1, CutAt
  <2>. QED  BY <2>1, <2>2 DEF n
<1>4. ASSUME NEW i \in DOMAIN s, t = RemoveAt(s, i) PROVE t \in Seq(Tokens)
  <2> DEFINE a == SubSeq(s, 1, i - 1)
             b == SubSeq(s, i + 1, Len(s))
  <2>1. i \in 1 .. Len(s) + 1 /\ i + 1 \in 1 .. Len(s) + 1
    BY <1>2
  <2>2. a \in Seq(Tokens) /\ b \in Seq(Tokens)
    BY <1>3, <2>1
  <2>3. t = a \o b
    BY <1>4, Zenon DEF RemoveAt
  <2>. HIDE DEF a, b
  <2>. QED  BY <2>2, <2>3, EndsOf
<1>5. ASSUME NEW i \in DOMAIN s, NEW k \in Tokens, t = ReplaceAt(s, i, k) PROVE t \in Seq(Tokens)
  BY <1>5 DEF ReplaceAt
<1>6. ASSUME NEW i \in 1 .. Len(s) + 1, NEW k \in Tokens, t = InsertAt(s, i, k) PROVE t \in Seq(Tokens)
  <2> DEFINE a == SubSeq(s, 1, i - 1)
             b == SubSeq(s, i, Len(s))
             c == a \o <<k>>
  <2>1. a \in Seq(Tokens) /\ b \in Seq(Tokens) /\ <<k>> \in Seq(Tokens)
    BY <1>3
  <2>2. t = c \o b
    BY <1>6, Zenon DEF InsertAt
  <2>. HIDE DEF a, b
  <2>3. c \in Seq(Tokens)
    BY <2>1, EndsOf
  <2>. HIDE DEF c
  <2>. QED  BY <2>1, <2>2, <2>3, EndsOf
<1>. QED  BY <1>1, <1>4, <1>5, <1>6

(* How a text comes about: a predicate was written, or there is none.         *)
IsWritten(data) ==
    \E outer, a, b \in Blanks : /\ IsPredicate(data.means)
                                /\ data.text = outer \o Write(data.means, a, b) \o outer

(* The inputs of the parser of predicates.                                    *)
IsAsked(data) == data.text \in Seq(Tokens) /\ (data.means = NoPredicate \/ IsWritten(data))

(* A predicate that was written is such an input.                             *)
LEMMA WrittenIsAsked ==
    ASSUME NEW w \in Whens, NEW outer \in Blank, NEW a \in Blank, NEW b \in Blank
    PROVE  IsAsked([means |-> w, text |-> outer \o Write(w, a, b) \o outer])
<1>1. IsPredicate(w) /\ outer \in Blanks /\ a \in Blanks /\ b \in Blanks
  BY WhensAssumption, SpaceIs
<1> DEFINE t == Write(w, a, b)
           s == outer \o t \o outer
           d == [means |-> w, text |-> s]
<1>2. t \in Seq(Tokens)
  BY <1>1, WriteTyped
<1>. HIDE DEF t
<1>3. s \in Seq(Tokens)
  BY <1>1, <1>2, OuterTyped
<1>. HIDE DEF s
<1>4. d.means = w /\ d.text = s
  OBVIOUS
<1>. HIDE DEF d
<1>5. IsWritten(d)
  BY <1>1, <1>4, Zenon DEF IsWritten, s, t
<1>6. IsAsked(d)
  BY <1>3, <1>4, <1>5 DEF IsAsked
<1>. QED  BY <1>6 DEF d, s, t

(* So is a text in which a token was taken out, replaced or put in.           *)
LEMMA DamagedIsAsked ==
    ASSUME NEW w \in Whens, NEW a \in Blank, NEW t \in Damaged(Write(w, a, a))
    PROVE  IsAsked([means |-> NoPredicate, text |-> t])
<1>1. IsPredicate(w) /\ a \in Blanks
  BY WhensAssumption, SpaceIs
<1> DEFINE s == Write(w, a, a)
<1>2. s \in Seq(Tokens) /\ t \in Damaged(s)
  BY <1>1, WriteTyped
<1>. HIDE DEF s
<1>3. t \in Seq(Tokens)
  BY <1>2, DamagedTyped
<1>. QED  BY <1>3 DEF IsAsked

(* What is asked of the parser of predicates, once it has read.               *)
PredicateRight ==
    input.kind = "predicate" => IsAsked(input.data) /\ (read => output = Parse(input.data.text))

(* What is parsed is then written in the text, and what was written is parsed *)
(* (PredicatesFit).                                                           *)
LEMMA PredicateFits == PredicateRight => PredicatesFit
<1> SUFFICES ASSUME PredicateRight, read, input.kind = "predicate" PROVE PredicatesFit
  BY DEF PredicatesFit, Done
<1> DEFINE w == input.data.means
           s == input.data.text
<1>1. IsAsked(input.data) /\ output = Parse(s)
  BY DEF PredicateRight
<1>2. s \in Seq(Tokens)
  BY <1>1 DEF IsAsked
<1>3. output.ok => output.out \in MadeWhens /\ Write(output.out, <<>>, <<>>) = Squeeze(s)
  BY <1>1, <1>2, ParseTaken
<1>4. ASSUME w # NoPredicate PROVE output.ok /\ output.out = w <=> ~Swallowed(w)
  <2>1. PICK outer \in Blanks, a \in Blanks, b \in Blanks :
           IsPredicate(w) /\ s = outer \o Write(w, a, b) \o outer
    <3>1. IsWritten(input.data)
      BY <1>1, <1>4, Zenon DEF IsAsked
    <3>. QED  BY <3>1, Zenon DEF IsWritten
  <2>2. ASSUME output.ok, output.out = w PROVE ~Swallowed(w)
    BY <1>3, <2>2, NothingSwallowed
  <2>3. ASSUME ~Swallowed(w) PROVE output.ok /\ output.out = w
    <3> DEFINE t == Write(w, a, b)
    <3>1. Straights(w)
      BY <2>1, <2>3, SwallowedIs
    <3>2. Parse(outer \o (t \o outer)) = Gives(w, <<>>)
      BY <2>1, <3>1, ParseGiven
    <3>3. t \in Seq(Tokens)
      BY <2>1, WriteTyped
    <3>4. outer \o t \o outer = outer \o (t \o outer)
      <4>. HIDE DEF t
      <4>. QED  BY <3>3, OuterTyped
    <3>5. output = Gives(w, <<>>)
      BY <1>1, <2>1, <3>2, <3>4, Zenon DEF t
    <3>. QED  BY <3>5 DEF Gives
  <2>. QED  BY <2>2, <2>3
<1>. QED  BY <1>3, <1>4, Zenon DEF PredicatesFit

(* A file that is read as rules, or as patterns.                              *)
FileRight ==
    input.kind \in {"rules", "patterns"} =>
        /\ input.data \in Files
        /\ read => output = IF input.kind = "rules" THEN ParseRules(input.data) ELSE ParsePatterns(input.data)

(* A table of a file of rules that can be a rule.                             *)
IsGood(t) == t.severity \in DOMAIN SeverityOf /\ Parse(t.when).ok

(* A table becomes a rule of its id and its predicate exactly when it can be  *)
(* one.                                                                       *)
LEMMA RuleIs ==
    ASSUME NEW t, t.when \in Seq(Tokens)
    PROVE  /\ IntoRule(t).ok <=> IsGood(t)
           /\ ~IntoRule(t).ok => IntoRule(t).at = t.id
           /\ IntoRule(t).ok => /\ IntoRule(t).out.id = t.id
                                /\ Write(IntoRule(t).out.when, <<>>, <<>>) = Squeeze(t.when)
<1> DEFINE when == Parse(t.when)
<1>1. when.ok => Write(when.out, <<>>, <<>>) = Squeeze(t.when)
  BY ParseTaken
<1>2. IntoRule(t) = RuleOf(t, when)
  BY Zenon DEF IntoRule
<1>3. IsGood(t) <=> t.severity \in DOMAIN SeverityOf /\ when.ok
  BY DEF IsGood
<1>. HIDE DEF when
<1>4. ~IsGood(t) => RuleOf(t, when) = Refusal(t.id)
  BY <1>3, Zenon DEF RuleOf
<1>5. IsGood(t) => RuleOf(t, when) =
         Gives([id |-> t.id, when |-> when.out, severity |-> SeverityOf[t.severity]], <<>>)
  BY <1>3, Zenon DEF RuleOf
<1>6. CASE ~IsGood(t)
  <2>1. IntoRule(t) = Refusal(t.id)
    BY <1>2, <1>4, <1>6
  <2>. QED  BY <1>6, <2>1 DEF Refusal
<1>7. CASE IsGood(t)
  <2> DEFINE r == [id |-> t.id, when |-> when.out, severity |-> SeverityOf[t.severity]]
  <2>1. IntoRule(t) = Gives(r, <<>>)
    BY <1>2, <1>5, <1>7
  <2>2. r.id = t.id /\ r.when = when.out
    OBVIOUS
  <2>. HIDE DEF r
  <2>3. IntoRule(t).ok /\ IntoRule(t).out = r
    BY <2>1 DEF Gives
  <2>. QED  BY <1>1, <1>3, <1>7, <2>2, <2>3
<1>. QED  BY <1>6, <1>7

(* What is made of a file, and that it is taken whole.                        *)
WholeRead(file, out) ==
    IF out.ok
    THEN /\ Len(out.out) = Len(file)
         /\ \A i \in DOMAIN file : /\ out.out[i].id = file[i].id
                                   /\ Write(out.out[i].when, <<>>, <<>>) = Squeeze(file[i].when)
    ELSE \/ file = Malformed
         \/ \E i \in DOMAIN file : /\ file[i].id = out.at /\ ~IsGood(file[i])
                                   /\ \A k \in 1 .. i - 1 : IsGood(file[k])

(* A file of rules is taken with all of its tables, or refused for the first  *)
(* that is no rule.                                                           *)
LEMMA RulesAreWhole ==
    ASSUME NEW file \in Files
    PROVE  WholeRead(file, ParseRules(file))
<1>1. CASE file = Malformed
  <2>1. ParseRules(file) = Refusal(Malformed)
    BY <1>1, Zenon DEF ParseRules
  <2>2. ~Refusal(Malformed).ok
    BY DEF Refusal
  <2>. QED  BY <1>1, <2>1, <2>2, Zenon DEF WholeRead
<1>2. CASE file # Malformed
  <2> DEFINE S == {i \in 1 .. Len(file) : ~IntoRule(file[i]).ok}
             bad == IF S # {} THEN Min(S) ELSE 0
             outs == [i \in DOMAIN file |-> IntoRule(file[i]).out]
  <2>1. IsVector(file) /\ \A t \in ToSet(file) : t.when \in Seq(Tokens)
    BY <1>2, FilesAssumption
  <2>2. Len(file) \in Nat /\ DOMAIN file = 1 .. Len(file)
    BY <2>1, VectorElements
  <2>3. \A i \in 1 .. Len(file) : file[i].when \in Seq(Tokens)
    BY <2>1, <2>2 DEF ToSet
  <2>4. ParseRules(file) = IF bad # 0 THEN IntoRule(file[bad]) ELSE Gives(outs, <<>>)
    BY <1>2, Zenon DEF ParseRules, SelectInSeq
  <2>. HIDE DEF outs
  <2>5. CASE S # {}
    <3>1. S \in SUBSET (1 .. Len(file))
      OBVIOUS
    <3>2. bad = Min(S)
      BY <2>5
    <3>. HIDE DEF bad
    <3>3. bad \in S /\ \A k \in S : bad <= k
      <4>. HIDE DEF S
      <4>1. \E x \in S : \A k \in S : x <= k
        BY <2>2, <2>5, <3>1, FirstAndLast
      <4>. QED  BY <3>2, <4>1 DEF Min
    <3>4. bad \in 1 .. Len(file) /\ bad # 0 /\ ~IntoRule(file[bad]).ok
      BY <3>3
    <3>5. ~IsGood(file[bad]) /\ IntoRule(file[bad]).at = file[bad].id
      BY <2>3, <3>4, RuleIs
    <3>6. \A k \in 1 .. bad - 1 : IsGood(file[k])
      <4> SUFFICES ASSUME NEW k \in 1 .. bad - 1 PROVE IsGood(file[k])
        OBVIOUS
      <4>1. k \in 1 .. Len(file) /\ ~(bad <= k)
        BY <2>2, <3>4
      <4>2. IntoRule(file[k]).ok
        BY <3>3, <4>1
      <4>. QED  BY <2>3, <4>1, <4>2, RuleIs
    <3>7. ParseRules(file) = IntoRule(file[bad])
      BY <2>4, <3>4
    <3>8. bad \in DOMAIN file
      BY <2>2, <3>4
    <3>. QED  BY <3>4, <3>5, <3>6, <3>7, <3>8 DEF WholeRead
  <2>6. CASE S = {}
    <3>1. ParseRules(file) = Gives(outs, <<>>)
      BY <2>4, <2>6
    <3>2. Gives(outs, <<>>).ok /\ Gives(outs, <<>>).out = outs
      BY DEF Gives
    <3>3. Len(outs) = Len(file)
      <4>1. outs = [i \in 1 .. Len(file) |-> IntoRule(file[i]).out]
        BY <2>2 DEF outs
      <4>. QED  BY <2>2, <4>1
    <3>4. \A i \in DOMAIN file : /\ outs[i].id = file[i].id
                                 /\ Write(outs[i].when, <<>>, <<>>) = Squeeze(file[i].when)
      <4> SUFFICES ASSUME NEW i \in DOMAIN file
                   PROVE  outs[i].id = file[i].id /\ Write(outs[i].when, <<>>, <<>>) = Squeeze(file[i].when)
        OBVIOUS
      <4>1. i \in 1 .. Len(file) /\ IntoRule(file[i]).ok
        BY <2>2, <2>6
      <4>2. IntoRule(file[i]).out.id = file[i].id
            /\ Write(IntoRule(file[i]).out.when, <<>>, <<>>) = Squeeze(file[i].when)
        BY <2>3, <4>1, RuleIs
      <4>3. outs[i] = IntoRule(file[i]).out
        BY DEF outs
      <4>. QED  BY <4>2, <4>3
    <3>. QED  BY <3>1, <3>2, <3>3, <3>4 DEF WholeRead
  <2>. QED  BY <2>5, <2>6
<1>. QED  BY <1>1, <1>2

(* So it is for patterns (FileIsTakenWhole).                                  *)
LEMMA FileFits == FileRight => FileIsTakenWhole
<1> SUFFICES ASSUME FileRight, NEW kind \in {"rules", "patterns"}, read, input.kind = kind
             PROVE  IF output.ok
                    THEN /\ Len(output.out) = Len(input.data)
                         /\ \A i \in DOMAIN input.data :
                               /\ output.out[i].id = input.data[i].id
                               /\ Write(output.out[i].when, <<>>, <<>>) = Squeeze(input.data[i].when)
                    ELSE \/ input.data = Malformed
                         \/ kind = "patterns" /\ input.data = <<>>
                         \/ \E i \in DOMAIN input.data :
                               /\ input.data[i].id = output.at /\ ~IsGood(input.data[i])
                               /\ \A k \in 1 .. i - 1 : IsGood(input.data[k])
  BY Zenon DEF FileIsTakenWhole, Done, IsGood
<1> DEFINE file == input.data
<1>1. file \in Files /\ output = IF kind = "rules" THEN ParseRules(file) ELSE ParsePatterns(file)
  BY DEF FileRight
<1>2. WholeRead(file, ParseRules(file))
  BY <1>1, RulesAreWhole
<1>3. output = ParseRules(file) \/ (kind = "patterns" /\ file = <<>> /\ output = Refusal(Malformed))
  BY <1>1, Zenon DEF ParsePatterns
<1>4. ~Refusal(Malformed).ok
  BY DEF Refusal
<1>5. CASE output = ParseRules(file)
  BY <1>2, <1>5, Zenon DEF WholeRead
<1>6. CASE kind = "patterns" /\ file = <<>> /\ output = Refusal(Malformed)
  BY <1>4, <1>6, Zenon
<1>. QED  BY <1>3, <1>5, <1>6

(* All that RulesFit asks holds of what is read.                              *)
LEMMA RulesShow == PredicateRight /\ FileRight => RulesFit
BY PredicateFits, FileFits DEF RulesFit

-------------------------------------------------------------------------------
(* The inductive invariant and the theorems.                                  *)

(* The input of every kind is one of those there are, and once it is read the *)
(* output is what the reader makes of it; a conversion is as far as it says.  *)
Looking ==
    /\ HistoryRight /\ InterruptsRight /\ BpfRight /\ CgroupRight /\ CpuRight /\ ResultsRight /\ TablesRight
    /\ PredicateRight /\ FileRight

(* The inductive invariant.                                                   *)
IInv == Looking /\ Converting

(* At first nothing is read.                                                  *)
LEMMA StartLooking == Init => Looking
<1> SUFFICES ASSUME Init PROVE Looking
  OBVIOUS
<1>1. read = FALSE
  BY DEF Init
<1>2. /\ input.kind = "history" => input.data \in Histories
      /\ input.kind = "interrupts" => input.data \in Interrupts
      /\ input.kind = "bpf" => input.data \in BpfHosts
  BY DEF Init, IsInput
<1>3. /\ input.kind = "cgroup" => input.data \in Cgroups
      /\ input.kind = "cpufreq" => input.data \in CpuHosts
      /\ input.kind = "results" => input.data \in Results
      /\ input.kind = "tables" => input.data \in Machines
  BY DEF Init, IsInput
<1>4. input.kind \in {"rules", "patterns"} => input.data \in Files
  BY DEF Init, IsInput
<1>5. input.kind = "predicate" => IsAsked(input.data)
  <2>1. ASSUME NEW w \in Whens, NEW outer \in Blank, NEW before \in Blank, NEW after \in Blank,
               IsInput("predicate", [means |-> w, text |-> outer \o Write(w, before, after) \o outer])
        PROVE  IsAsked(input.data)
    <3> DEFINE d == [means |-> w, text |-> outer \o Write(w, before, after) \o outer]
    <3>1. IsAsked(d)
      BY WrittenIsAsked
    <3>. HIDE DEF d
    <3>2. IsInput("predicate", d)
      BY <2>1 DEF d
    <3>. QED  BY <3>1, <3>2 DEF IsInput
  <2>2. ASSUME NEW w \in Whens, NEW before \in Blank, NEW t \in Damaged(Write(w, before, before)),
               IsInput("predicate", [means |-> NoPredicate, text |-> t])
        PROVE  IsAsked(input.data)
    BY <2>2, DamagedIsAsked DEF IsInput
  <2>3. ASSUME input.kind = "predicate"
        PROVE  \/ \E w \in Whens, outer, before, after \in Blank :
                     IsInput("predicate", [means |-> w, text |-> outer \o Write(w, before, after) \o outer])
               \/ \E w \in Whens, before \in Blank : \E t \in Damaged(Write(w, before, before)) :
                     IsInput("predicate", [means |-> NoPredicate, text |-> t])
    <3>1. \A k, d : IsInput(k, d) => k = "predicate"
      BY <2>3 DEF IsInput
    <3>. QED  BY <3>1 DEF Init
  <2>. QED  BY <2>1, <2>2, <2>3
<1>. QED
  BY <1>1, <1>2, <1>3, <1>4, <1>5
     DEF Looking, HistoryRight, InterruptsRight, BpfRight, CgroupRight, CpuRight, ResultsRight, TablesRight,
         PredicateRight, FileRight

(* A reader makes of its input what it is defined to make, and that stays.    *)
LEMMA StepLooking == Looking /\ [Next]_vars => Looking'
<1> SUFFICES ASSUME Looking, [Next]_vars PROVE Looking'
  OBVIOUS
<1>. USE DEF Looking, HistoryRight, InterruptsRight, BpfRight, CgroupRight, CpuRight, ResultsRight, TablesRight,
             PredicateRight, FileRight
<1>1. CASE RefuseDocument \/ ReadDocument \/ OpenConverted \/ WriteConverted \/ ConversionFails
  <2>1. input.kind = "conversion" /\ input' = input
    BY <1>1 DEF RefuseDocument, ReadDocument, OpenConverted, WriteConverted, ConversionFails, Converts, Ends
  <2>. QED  BY <2>1
<1>2. CASE UNCHANGED vars
  BY <1>2 DEF vars
<1>3. ASSUME NEW k, NEW v, Reads(k, v)
      PROVE  ~read /\ input.kind = k /\ read' /\ output' = v /\ input' = input
  BY <1>3 DEF Reads
<1>4. CASE ReadHost
  <2>1. input.kind = "host" /\ input' = input
    BY <1>3, <1>4 DEF ReadHost
  <2>. QED  BY <2>1
<1>12. CASE ReadPredicate
  BY <1>3, <1>12 DEF ReadPredicate
<1>13. CASE ReadRules \/ ReadPatterns
  BY <1>3, <1>13 DEF ReadRules, ReadPatterns
<1>5. CASE ReadResults
  BY <1>3, <1>5 DEF ReadResults
<1>6. CASE ReadInterrupts
  BY <1>3, <1>6 DEF ReadInterrupts
<1>7. CASE ReadCgroup
  BY <1>3, <1>7 DEF ReadCgroup
<1>8. CASE ReadBpf
  BY <1>3, <1>8 DEF ReadBpf
<1>9. CASE ReadCpuFreq
  BY <1>3, <1>9 DEF ReadCpuFreq
<1>10. CASE ReadTables
  <2>1. /\ input.kind = "tables" /\ read' /\ input' = input
        /\ output' = Tabled(input.data)
    BY <1>3, <1>10, Zenon DEF ReadTables, Tabled
  <2>. QED  BY <2>1
<1>11. CASE ReadHistory
  <2>1. /\ input.kind = "history" /\ read' /\ input' = input
        /\ output' = Looked(input.data)
    BY <1>3, <1>11, Zenon DEF ReadHistory, Looked
  <2>. QED  BY <2>1
<1>. QED  BY <1>1, <1>2, <1>4, <1>5, <1>6, <1>7, <1>8, <1>9, <1>10, <1>11, <1>12, <1>13 DEF Next

(* The invariant holds in every behaviour.                                    *)
LEMMA InvariantHolds == Spec => []IInv
<1>1. Init => IInv
  BY StartLooking, StartConverting DEF IInv
<1>2. IInv /\ [Next]_vars => IInv'
  BY StepLooking, StepConverting DEF IInv
<1>. QED  BY <1>1, <1>2, PTL DEF Spec

(* For every set of histories: mean, deviation, median, median deviation and  *)
(* trend are as the values say (stats.rs; StatsFit).                          *)
THEOREM StatisticsAreRight == Spec => []StatsFit
<1>1. IInv => StatsFit
  BY HistoryFits DEF IInv, Looking
<1>. QED  BY <1>1, InvariantHolds, PTL

(* For all reports: converting a document that was written before shows what  *)
(* reporting directly showed, and a conversion that fails before the target   *)
(* is opened leaves it alone. Redacted, no text has in it what the patterns   *)
(* match and no excerpt the name of the host; the kernel, and an address that *)
(* no pattern matches, stay (cli/mod.rs, llm.rs, redact.rs; ConvertedShows).  *)
THEOREM ConversionsShow == Spec => []ConvertedShows
<1>1. IInv => ConvertedShows
  BY ConversionShows DEF IInv
<1>. QED  BY <1>1, InvariantHolds, PTL

(* For all tables, histograms, groups and CPUs: the signals of the probes are *)
(* those the kernel's numbers say (collector/; ProbesFit).                    *)
THEOREM ProbesAreRight == Spec => []ProbesFit
<1>1. IInv => ProbesFit
  BY ProbesShow DEF IInv, Looking
<1>. QED  BY <1>1, InvariantHolds, PTL

(* For all machines: each number a parser takes out of a table of /proc is    *)
(* the one printed below the column of its name; of free and of netstat it is *)
(* the one in the place that the parser takes it to be in                     *)
(* (collector/platform/; TablesFit).                                          *)
THEOREM TablesAreRight == Spec => []TablesFit
<1>1. IInv => TablesFit
  BY TablesShow DEF IInv, Looking
<1>. QED  BY <1>1, InvariantHolds, PTL

(* For all results of commands: every extraction of a command that succeeded  *)
(* yields, in order, one signal if a line has a number for it, and that is    *)
(* the last, the least, the greatest or the mean of the numbers of all lines, *)
(* or how many lines match (extract.rs, analysis.rs; ExtractionFits).         *)
THEOREM ExtractionIsRight == Spec => []ExtractionFits
<1>1. IInv => ExtractionFits
  BY ResultsFit DEF IInv, Looking
<1>. QED  BY <1>1, InvariantHolds, PTL

(* For all predicates and all files: a predicate that was written with any    *)
(* blanks is parsed as itself, the parser makes of a text only what is        *)
(* written in it, and a file of rules or patterns is taken whole or refused   *)
(* for its first bad table (rule/mod.rs, RulesFit).                           *)
THEOREM RulesAreRead == Spec => []RulesFit
<1>1. IInv => RulesFit
  BY RulesShow DEF IInv, Looking
<1>. QED  BY <1>1, InvariantHolds, PTL
===============================================================================
