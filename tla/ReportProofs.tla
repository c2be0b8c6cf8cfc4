------------------------------ MODULE ReportProofs ------------------------------
(***************************************************************************)
(* Proofs about Report, for any rules, patterns, collectors, baselines and *)
(* files of the user: whatever fails on the way, the exit code, the        *)
(* overview, the findings, what is listed as checked and the diff agree    *)
(* with one another and with the signals of the report that is written.    *)
(***************************************************************************)
EXTENDS Report, PositionsProofs, TLAPS

-------------------------------------------------------------------------------
(* The order of findings.                                                     *)

(* Findings have a severity, and those that are sorted a place.               *)
Graded(fs) == IsVector(fs) /\ \A f \in ToSet(fs) : f.severity \in {Crit, Warn, Info}
Sortable(fs) == Graded(fs) /\ \A f \in ToSet(fs) : Place[f.id] \in Nat

(* The order of the findings is a strict one in which any two are comparable.  *)
LEMMA PrecedesOrders ==
    ASSUME NEW fs, Sortable(fs), NEW i \in DOMAIN fs, NEW j \in DOMAIN fs
    PROVE  /\ ~Precedes(fs, i, i)
           /\ i # j => Precedes(fs, i, j) \/ Precedes(fs, j, i)
           /\ \A k \in DOMAIN fs : Precedes(fs, i, j) /\ Precedes(fs, j, k) => Precedes(fs, i, k)
<1>0. Len(fs) \in Nat /\ DOMAIN fs = 1 .. Len(fs)
  BY VectorElements DEF Sortable, Graded
<1>1. \A k \in DOMAIN fs : k \in Nat /\ fs[k].severity \in Nat /\ Place[fs[k].id] \in Nat
  BY <1>0 DEF Sortable, Graded, ToSet, Crit, Warn, Info
<1>. QED  BY <1>1 DEF Precedes

(* Sorting loses no finding and makes none (finding.rs, sort_findings).        *)
LEMMA SortKeeps ==
    ASSUME NEW fs, Sortable(fs)
    PROVE  IsVector(SortFindings(fs)) /\ ToSet(SortFindings(fs)) = ToSet(fs)
<1> DEFINE m == Len(fs)
           D == 1 .. m
           Before(i) == {j \in D : Precedes(fs, j, i)}
           rank == [i \in D |-> Cardinality(Before(i)) + 1]
           At(n) == CHOOSE i \in D : Cardinality(Before(i)) = n - 1
<1>1. m \in Nat /\ DOMAIN fs = D
  BY VectorElements DEF Sortable, Graded
<1>. HIDE DEF m
<1>2. IsFiniteSet(D) /\ Cardinality(D) = m
  BY <1>1, FS_Interval
<1>3. ASSUME NEW i \in D
      PROVE  /\ IsFiniteSet(Before(i)) /\ Cardinality(Before(i)) \in Nat
             /\ Cardinality(Before(i)) < m
  <2>1. Before(i) \in SUBSET D /\ Before(i) # D
    BY <1>1, PrecedesOrders
  <2>. HIDE DEF Before
  <2>2. /\ IsFiniteSet(Before(i)) /\ Cardinality(Before(i)) <= m
        /\ Cardinality(Before(i)) # m
    BY <1>2, <2>1, FS_Subset
  <2>3. Cardinality(Before(i)) \in Nat
    BY <2>2, FS_CardinalityType
  <2>. QED  BY <1>1, <2>2, <2>3
<1>4. ASSUME NEW i \in D, NEW j \in D, Precedes(fs, i, j)
      PROVE  Cardinality(Before(i)) # Cardinality(Before(j))
  <2>1. Before(i) \in SUBSET Before(j)
    BY <1>1, <1>4, PrecedesOrders
  <2>2. i \in Before(j) /\ i \notin Before(i)
    BY <1>1, <1>4, PrecedesOrders
  <2>. HIDE DEF Before
  <2>. QED  BY <1>3, <2>1, <2>2, FS_Subset
<1>5. ASSUME NEW i \in D, NEW j \in D, Cardinality(Before(i)) = Cardinality(Before(j))
      PROVE  i = j
  BY <1>1, <1>4, <1>5, PrecedesOrders
<1>6. rank \in Injection(D, D)
  <2>. HIDE DEF Before
  <2>1. ASSUME NEW i \in D PROVE Cardinality(Before(i)) + 1 \in D
    BY <1>1, <1>3
  <2>2. ASSUME NEW i \in D, NEW j \in D, rank[i] = rank[j] PROVE i = j
    <3>1. Cardinality(Before(i)) + 1 = Cardinality(Before(j)) + 1
      BY <2>2
    <3>. QED  BY <3>1, <1>3, <1>5
  <2>. HIDE DEF D
  <2>. QED  BY <2>1, <2>2 DEF Injection, IsInjective
<1>7. rank \in Surjection(D, D)
  BY <1>2, <1>6, FS_Injection
<1>. HIDE DEF Before, D
<1>8. ASSUME NEW n \in D PROVE At(n) \in D /\ Cardinality(Before(At(n))) = n - 1
  <2>1. PICK i \in D : rank[i] = n
    BY <1>7 DEF Surjection
  <2>2. Cardinality(Before(i)) = n - 1
    BY <2>1, <1>3
  <2>. QED  BY <2>2
<1>9. ASSUME NEW i \in D PROVE rank[i] \in D /\ At(rank[i]) = i
  <2>1. rank[i] \in D /\ Cardinality(Before(i)) = rank[i] - 1
    BY <1>3, <1>6 DEF Injection
  <2>2. At(rank[i]) \in D /\ Cardinality(Before(At(rank[i]))) = Cardinality(Before(i))
    BY <1>8, <2>1
  <2>. HIDE DEF At, rank
  <2>. QED  BY <2>1, <2>2, <1>5
<1>10. SortFindings(fs) = [n \in D |-> fs[At(n)]]
  BY <1>1 DEF SortFindings, Before
<1>. HIDE DEF At, rank
<1>11. \A n \in D : SortFindings(fs)[n] = fs[At(n)] /\ At(n) \in D
  BY <1>8, <1>10
<1>12. DOMAIN SortFindings(fs) = D
  BY <1>10
<1>13. SortFindings(fs) \in [D -> ToSet(fs)]
  BY <1>1, <1>10, <1>11, <1>12 DEF ToSet
<1>14. IsVector(SortFindings(fs))
  <2>1. SortFindings(fs) \in Seq(ToSet(fs))
    BY <1>1, <1>13 DEF D
  <2>. QED  BY <2>1, VectorElements
<1>15. \A i \in D : SortFindings(fs)[rank[i]] = fs[i] /\ rank[i] \in D
  BY <1>9, <1>11
<1>16. ToSet(SortFindings(fs)) \subseteq ToSet(fs)
  BY <1>1, <1>11, <1>12 DEF ToSet
<1>17. ToSet(fs) \subseteq ToSet(SortFindings(fs))
  BY <1>1, <1>12, <1>15 DEF ToSet
<1>. QED  BY <1>14, <1>16, <1>17

-------------------------------------------------------------------------------
(* Signals and predicates.                                                    *)

IdsOf(sigs) == {sigs[i].id : i \in DOMAIN sigs}

(* The index has the last signal of each id (rule/mod.rs:232).                *)
LEMMA IndexFits ==
    ASSUME NEW sigs, IsVector(sigs), NEW id
    PROVE  /\ Index(sigs, id) # 0 <=> id \in IdsOf(sigs)
           /\ Index(sigs, id) # 0 => /\ Index(sigs, id) \in DOMAIN sigs
                                     /\ sigs[Index(sigs, id)].id = id
           /\ \A i \in DOMAIN sigs : sigs[i].id = id => i <= Index(sigs, id)
<1> DEFINE I == {i \in 1 .. Len(sigs) : sigs[i].id = id}
<1>1. Len(sigs) \in Nat /\ DOMAIN sigs = 1 .. Len(sigs) /\ I \in SUBSET (1 .. Len(sigs))
  BY VectorElements
<1>2. Index(sigs, id) = IF I # {} THEN Max(I) ELSE 0
  BY DEF Index, SelectLastInSeq
<1>3. ASSUME I # {} PROVE Max(I) \in I /\ \A i \in I : i <= Max(I)
  <2>. HIDE DEF I
  <2>1. PICK x \in I : \A i \in I : i <= x
    BY <1>1, <1>3, FirstAndLast
  <2>2. \A i \in I : x >= i
    BY <1>1, <2>1
  <2>3. Max(I) \in I /\ \A i \in I : Max(I) >= i
    BY <2>2 DEF Max
  <2>. QED  BY <1>1, <2>3
<1>4. I = {} <=> id \notin IdsOf(sigs)
  BY <1>1 DEF IdsOf
<1>5. \A i \in I : i \in DOMAIN sigs /\ sigs[i].id = id /\ i # 0
  BY <1>1
<1>6. \A i \in DOMAIN sigs : sigs[i].id = id => i \in I
  BY <1>1
<1>. HIDE DEF I
<1>. QED  BY <1>2, <1>3, <1>4, <1>5, <1>6

(* The signals that a path may stand for are there.                           *)
PresentIn(path, sigs) ==
    \/ path = CpuCount \/ path \in IdsOf(sigs)
    \/ Len(path) > 1 /\ Last(path) \in StatSuffixes /\ Front(path) \in IdsOf(sigs)

(* What has a value is there (rule/mod.rs, resolve).                          *)
LEMMA ResolvedIsPresent ==
    ASSUME NEW sigs, IsVector(sigs), NEW path, NEW cpus,
           Resolve(path, sigs, cpus).type # "none"
    PROVE  PresentIn(path, sigs)
<1>1. Absent.type = "none"
  BY DEF Absent
<1>2. Index(sigs, path) # 0 => path \in IdsOf(sigs)
  BY IndexFits
<1>3. Index(sigs, Front(path)) # 0 => Front(path) \in IdsOf(sigs)
  BY IndexFits
<1>. QED  BY <1>1, <1>2, <1>3 DEF Resolve, HasSamples, PresentIn

(* A comparison that holds has both of its sides (rule/mod.rs, evaluate).     *)
LEMMA TrueIsPresent ==
    ASSUME NEW sigs, IsVector(sigs), NEW t, NEW cpus, EvaluateTerm(t, sigs, cpus)
    PROVE  PresentIn(t.path, sigs) /\ (t.to = <<>> \/ PresentIn(t.to, sigs))
<1> DEFINE l == Resolve(t.path, sigs, cpus)
           r == Resolve(t.to, sigs, cpus)
<1>1. l.type # "none" /\ (t.to = <<>> \/ r.type # "none")
  BY DEF EvaluateTerm, Holds
<1>. QED  BY <1>1, ResolvedIsPresent

(* A predicate whose terms are all joined by AND holds only if each of them    *)
(* does, any other only if one of them does.                                  *)
LEMMA EvaluateFits ==
    ASSUME NEW when, IsVector(when.rest), NEW sigs, NEW cpus, Evaluate(when, sigs, cpus)
    PROVE  IF \A i \in DOMAIN when.rest : when.rest[i].and
           THEN \A t \in ToSet(Terms(when)) : EvaluateTerm(t, sigs, cpus)
           ELSE \E t \in ToSet(Terms(when)) : EvaluateTerm(t, sigs, cpus)
<1> DEFINE m == Len(when.rest)
           first == EvaluateTerm(when.first, sigs, cpus)
           True(n) == EvaluateTerm(when.rest[n].term, sigs, cpus)
           step == [n \in 1 .. m |-> [b \in BOOLEAN |->
                       IF when.rest[n].and THEN b /\ True(n) ELSE b \/ True(n)]]
           left == CHOOSE f : f = [n \in 0 .. m |->
                       IF n = 0 THEN first
                       ELSE IF when.rest[n].and THEN f[n - 1] /\ True(n)
                       ELSE f[n - 1] \/ True(n)]
<1>1. m \in Nat /\ DOMAIN when.rest = 1 .. m
  BY VectorElements
<1>2. first \in BOOLEAN /\ \A n \in 1 .. m : True(n) \in BOOLEAN
  BY DEF EvaluateTerm, Holds
<1>3. left[m]
  BY DEF Evaluate
<1>. HIDE DEF m, first, True
<1>4. step \in [1 .. m -> [BOOLEAN -> BOOLEAN]]
  BY <1>2
<1>5. PICK f : Iterates(f, BOOLEAN, first, m, step)
  <2>. HIDE DEF step
  <2>. QED  BY <1>1, <1>2, <1>4, Recursion
<1>6. /\ f \in [0 .. m -> BOOLEAN] /\ f[0] = first
      /\ \A n \in 1 .. m : f[n] = IF when.rest[n].and THEN f[n - 1] /\ True(n)
                                  ELSE f[n - 1] \/ True(n)
  <2>1. ASSUME NEW n \in 1 .. m
        PROVE  f[n] = IF when.rest[n].and THEN f[n - 1] /\ True(n) ELSE f[n - 1] \/ True(n)
    <3>1. f[n] = step[n][f[n - 1]] /\ f[n - 1] \in BOOLEAN
      BY <1>1, <1>5 DEF Iterates
    <3>. QED  BY <3>1
  <2>. QED  BY <1>5, <2>1 DEF Iterates
<1>7. f = [n \in 0 .. m |-> IF n = 0 THEN first
                            ELSE IF when.rest[n].and THEN f[n - 1] /\ True(n)
                            ELSE f[n - 1] \/ True(n)]
  <2>1. \A n \in 0 .. m : n = 0 \/ n \in 1 .. m
    BY <1>1
  <2>. QED  BY <1>6, <2>1
<1>8. left = [n \in 0 .. m |-> IF n = 0 THEN first
                               ELSE IF when.rest[n].and THEN left[n - 1] /\ True(n)
                               ELSE left[n - 1] \/ True(n)]
  BY <1>7
<1>. HIDE DEF left
<1>9. left[0] = first
  BY <1>1, <1>8
<1>10. \A n \in 1 .. m : left[n] = IF when.rest[n].and THEN left[n - 1] /\ True(n)
                                   ELSE left[n - 1] \/ True(n)
  BY <1>1, <1>8
<1>11. /\ \A t \in ToSet(Terms(when)) : t = when.first \/ \E n \in 1 .. m : t = when.rest[n].term
       /\ when.first \in ToSet(Terms(when))
       /\ \A n \in 1 .. m : when.rest[n].term \in ToSet(Terms(when))
  <2> DEFINE one == <<when.first>>
             more == [i \in DOMAIN when.rest |-> when.rest[i].term]
  <2>1. IsVector(one) /\ ToSet(one) = {when.first}
    <3>1. one \in Seq({when.first}) /\ DOMAIN one = {1} /\ one[1] = when.first
      OBVIOUS
    <3>2. IsVector(one)
      BY <3>1, VectorElements
    <3>. QED  BY <3>1, <3>2 DEF ToSet
  <2>2. IsVector(more) /\ ToSet(more) = {when.rest[n].term : n \in 1 .. m}
    <3>1. more \in Seq({when.rest[n].term : n \in 1 .. m})
      BY <1>1
    <3>. QED  BY <1>1, <3>1, VectorElements DEF ToSet
  <2>3. ToSet(Terms(when)) = ToSet(one) \cup ToSet(more)
    BY <2>1, <2>2, ConcatVectors DEF Terms
  <2>. QED  BY <2>1, <2>2, <2>3
<1>12. CASE \A i \in DOMAIN when.rest : when.rest[i].and
  <2> DEFINE P == {n \in Nat : n <= m /\ left[n] => first /\ \A k \in 1 .. n : True(k)}
  <2>1. 0 \in P
    BY <1>9
  <2>2. ASSUME NEW n \in Nat, n \in P PROVE n + 1 \in P
    <3> SUFFICES ASSUME n + 1 <= m, left[n + 1] PROVE first /\ \A k \in 1 .. n + 1 : True(k)
      OBVIOUS
    <3>1. n + 1 \in 1 .. m /\ (n + 1) - 1 = n /\ n <= m
      BY <1>1
    <3>2. left[n] /\ True(n + 1)
      BY <1>1, <1>10, <1>12, <3>1
    <3>3. first /\ \A k \in 1 .. n : True(k)
      BY <2>2, <3>1, <3>2
    <3>. QED  BY <3>2, <3>3
  <2>. HIDE DEF P
  <2>3. m \in P
    BY <1>1, <2>1, <2>2, Induction
  <2>4. first /\ \A k \in 1 .. m : True(k)
    BY <1>1, <1>3, <2>3 DEF P
  <2>. QED  BY <1>11, <1>12, <2>4 DEF first, True
<1>13. CASE ~ \A i \in DOMAIN when.rest : when.rest[i].and
  <2> DEFINE P == {n \in Nat : n <= m /\ left[n] => first \/ \E k \in 1 .. n : True(k)}
  <2>1. 0 \in P
    BY <1>9
  <2>2. ASSUME NEW n \in Nat, n \in P PROVE n + 1 \in P
    <3> SUFFICES ASSUME n + 1 <= m, left[n + 1] PROVE first \/ \E k \in 1 .. n + 1 : True(k)
      OBVIOUS
    <3>1. n + 1 \in 1 .. m /\ (n + 1) - 1 = n /\ n <= m
      BY <1>1
    <3>2. left[n] \/ True(n + 1)
      BY <1>10, <3>1
    <3>. QED  BY <2>2, <3>1, <3>2
  <2>. HIDE DEF P
  <2>3. m \in P
    BY <1>1, <2>1, <2>2, Induction
  <2>4. first \/ \E k \in 1 .. m : True(k)
    BY <1>1, <1>3, <2>3 DEF P
  <2>. QED  BY <1>11, <1>13, <2>4 DEF first, True
<1>. QED  BY <1>12, <1>13

-------------------------------------------------------------------------------
(* The findings of the diagnosis.                                             *)

(* A rule has a finding exactly when its predicate holds (rule/mod.rs).        *)
LEMMA RulesFire ==
    ASSUME NEW rs, AreRules(rs), NEW sigs, NEW cpus
    PROVE  /\ Sortable(RunRules(rs, sigs, cpus))
           /\ \A f \in ToSet(RunRules(rs, sigs, cpus)) : \E r \in ToSet(rs) :
                 Evaluate(r.when, sigs, cpus) /\ f.id = r.id
           /\ \A r \in ToSet(rs) : Evaluate(r.when, sigs, cpus) =>
                 \E f \in ToSet(RunRules(rs, sigs, cpus)) : f.id = r.id
<1> DEFINE S == {i \in DOMAIN rs : Evaluate(rs[i].when, sigs, cpus)}
           fired == Pick(rs, S)
           fs == [i \in DOMAIN fired |->
                     Finding(fired[i].id, "rule", fired[i].severity,
                             EvidenceFor(fired[i].evidence, sigs, cpus))]
<1>1. IsVector(fired) /\ ToSet(fired) = {rs[i] : i \in S}
  BY PickSet DEF AreRules
<1>2. RunRules(rs, sigs, cpus) = SortFindings(fs)
  BY DEF RunRules
<1>3. \A r : r \in ToSet(fired) <=> r \in ToSet(rs) /\ Evaluate(r.when, sigs, cpus)
  BY <1>1 DEF ToSet
<1>. HIDE DEF fired
<1>4. /\ IsVector(fs) /\ DOMAIN fs = DOMAIN fired
      /\ \A i \in DOMAIN fired : fs[i].id = fired[i].id /\ fs[i].severity = fired[i].severity
  BY <1>1, MadeOf DEF Finding
<1>. HIDE DEF fs
<1>5. /\ \A f \in ToSet(fs) : \E r \in ToSet(fired) : f.id = r.id /\ f.severity = r.severity
      /\ \A r \in ToSet(fired) : \E f \in ToSet(fs) : f.id = r.id
  BY <1>4 DEF ToSet
<1>6. Sortable(fs)
  BY <1>3, <1>4, <1>5 DEF Sortable, Graded, AreRules
<1>7. IsVector(SortFindings(fs)) /\ ToSet(SortFindings(fs)) = ToSet(fs)
  BY <1>6, SortKeeps
<1>. QED  BY <1>2, <1>3, <1>5, <1>6, <1>7 DEF Sortable, Graded

(* So has a pattern (pattern/mod.rs).                                         *)
LEMMA PatternsFire ==
    ASSUME NEW ps, AreRules(ps), NEW sigs, NEW cpus
    PROVE  /\ Sortable(RunPatterns(ps, sigs, cpus))
           /\ \A f \in ToSet(RunPatterns(ps, sigs, cpus)) : \E p \in ToSet(ps) :
                 Evaluate(p.when, sigs, cpus) /\ f.id = p.id
<1> DEFINE S == {i \in DOMAIN ps : Evaluate(ps[i].when, sigs, cpus)}
           fired == Pick(ps, S)
           cited(p) == Pick(sigs, {i \in DOMAIN sigs : sigs[i].id \in Referenced(p.when)})
           host(p) == IF CpuCount \in Referenced(p.when)
                      THEN <<Evidence(CpuCount, Number(100 * cpus))>> ELSE <<>>
           evidence(p) == [k \in DOMAIN cited(p) |-> Evidence(cited(p)[k].id, cited(p)[k].value)]
                          \o host(p)
           fs == [i \in DOMAIN fired |->
                     Finding(fired[i].id, "pattern", fired[i].severity, evidence(fired[i]))]
<1>1. IsVector(fired) /\ ToSet(fired) = {ps[i] : i \in S}
  BY PickSet DEF AreRules
<1>2. RunPatterns(ps, sigs, cpus) = fs
  BY DEF RunPatterns
<1>3. \A p : p \in ToSet(fired) <=> p \in ToSet(ps) /\ Evaluate(p.when, sigs, cpus)
  BY <1>1 DEF ToSet
<1>. HIDE DEF fired, evidence
<1>4. /\ IsVector(fs) /\ DOMAIN fs = DOMAIN fired
      /\ \A i \in DOMAIN fired : fs[i].id = fired[i].id /\ fs[i].severity = fired[i].severity
  BY <1>1, MadeOf DEF Finding
<1>. HIDE DEF fs
<1>5. \A f \in ToSet(fs) : \E p \in ToSet(fired) : f.id = p.id /\ f.severity = p.severity
  BY <1>4 DEF ToSet
<1>6. Sortable(fs)
  BY <1>3, <1>4, <1>5 DEF Sortable, Graded, AreRules
<1>. QED  BY <1>2, <1>3, <1>5, <1>6

(* An outlier is a warning or worse (baseline/mod.rs, outlier_findings).       *)
LEMMA OutliersGraded ==
    ASSUME NEW sigs, AreSignals(sigs)
    PROVE  Sortable(OutlierFindings(sigs))
<1> DEFINE S == {i \in DOMAIN sigs : sigs[i].baseline \in {"warn", "crit"}}
           out == Pick(sigs, S)
           fs == [i \in DOMAIN out |->
                     Finding(OutlierId(out[i].id), "rule",
                             IF out[i].baseline = "crit" THEN Crit ELSE Warn,
                             <<Evidence(out[i].id, out[i].value)>>)]
<1>1. IsVector(out) /\ ToSet(out) \subseteq ToSet(sigs)
  BY PickSet DEF AreSignals, ToSet
<1>2. OutlierFindings(sigs) = fs
  BY DEF OutlierFindings
<1>. HIDE DEF out
<1>3. /\ IsVector(fs) /\ DOMAIN fs = DOMAIN out
      /\ \A i \in DOMAIN out : fs[i].id = OutlierId(out[i].id) /\ fs[i].severity \in {Crit, Warn}
  BY <1>1, MadeOf DEF Finding
<1>. HIDE DEF fs
<1>4. \A f \in ToSet(fs) : \E s \in ToSet(out) : f.id = OutlierId(s.id) /\ f.severity \in {Crit, Warn}
  BY <1>3 DEF ToSet
<1>. QED  BY <1>1, <1>2, <1>3, <1>4 DEF Sortable, Graded, AreSignals

(* Annotation keeps the signals, their ids and values (baseline/mod.rs).       *)
LEMMA AnnotatedSignals ==
    ASSUME NEW sigs, AreSignals(sigs), NEW records
    PROVE  AreSignals(Annotate(sigs, records))
<1> DEFINE q == Annotate(sigs, records)
<1>1. DOMAIN q = DOMAIN sigs /\ q = [i \in DOMAIN sigs |-> q[i]]
  BY DEF Annotate
<1>2. ASSUME NEW i \in DOMAIN sigs
      PROVE  \E b : q[i] = [id |-> sigs[i].id, value |-> sigs[i].value,
                            samples |-> sigs[i].samples, baseline |-> b]
  <2> DEFINE s == sigs[i]
             h == HistoryOf(s.id, records)
             b == IF Exceeds(s.value.v, h, 70) THEN "crit"
                  ELSE IF Exceeds(s.value.v, h, 35) THEN "warn" ELSE "normal"
  <2>1. s = [id |-> s.id, value |-> s.value, samples |-> s.samples, baseline |-> s.baseline]
    BY DEF AreSignals, ToSet
  <2>2. q[i] = IF h = <<>> \/ s.value.type # "number" THEN s ELSE [s EXCEPT !.baseline = b]
    BY DEF Annotate
  <2>. HIDE DEF s, h, b
  <2>3. [s EXCEPT !.baseline = b]
        = [id |-> s.id, value |-> s.value, samples |-> s.samples, baseline |-> b]
    BY <2>1
  <2>. QED  BY <2>1, <2>2, <2>3 DEF s
<1>3. IsVector(q)
  BY <1>1, MadeOf DEF AreSignals
<1>. HIDE DEF q
<1>4. ASSUME NEW x \in ToSet(q)
      PROVE  /\ x = [id |-> x.id, value |-> x.value, samples |-> x.samples, baseline |-> x.baseline]
             /\ x.value = [type |-> x.value.type, v |-> x.value.v]
             /\ x.value.type = "number" => x.value.v \in Int
             /\ Place[OutlierId(x.id)] \in Nat
  <2>1. PICK i \in DOMAIN sigs : x = q[i]
    BY <1>1 DEF ToSet
  <2>2. PICK b : x = [id |-> sigs[i].id, value |-> sigs[i].value,
                      samples |-> sigs[i].samples, baseline |-> b]
    BY <1>2, <2>1
  <2>3. sigs[i] \in ToSet(sigs)
    BY DEF ToSet
  <2>4. x.id = sigs[i].id /\ x.value = sigs[i].value
    BY <2>2
  <2>. QED  BY <2>2, <2>3, <2>4 DEF AreSignals
<1>. QED  BY <1>3, <1>4 DEF AreSignals, q

-------------------------------------------------------------------------------
(* What is loaded, and what the commands give.                                *)

(* The elements of vectors of rules, or of signals, put together.             *)
LEMMA ConcatRules ==
    ASSUME NEW a, NEW b, AreRules(a), AreRules(b)
    PROVE  AreRules(a \o b) /\ ToSet(a \o b) = ToSet(a) \cup ToSet(b)
<1>1. IsVector(a \o b) /\ ToSet(a \o b) = ToSet(a) \cup ToSet(b)
  BY ConcatVectors DEF AreRules
<1>. QED  BY <1>1 DEF AreRules

LEMMA ConcatSignals ==
    ASSUME NEW a, NEW b, AreSignals(a), AreSignals(b)
    PROVE  AreSignals(a \o b)
<1>1. IsVector(a \o b) /\ ToSet(a \o b) = ToSet(a) \cup ToSet(b)
  BY ConcatVectors DEF AreSignals
<1>. QED  BY <1>1 DEF AreSignals

LEMMA ConcatGraded ==
    ASSUME NEW a, NEW b, Graded(a), Graded(b)
    PROVE  Graded(a \o b) /\ ToSet(a \o b) = ToSet(a) \cup ToSet(b)
<1>1. IsVector(a \o b) /\ ToSet(a \o b) = ToSet(a) \cup ToSet(b)
  BY ConcatVectors DEF Graded
<1>. QED  BY <1>1 DEF Graded

(* A bad file of the user takes its own rules away, and no others              *)
(* (rule/mod.rs, RulesLoader::load).                                          *)
LEMMA RulesLoaded ==
    ASSUME NEW dir \in UserDirs, NEW extra \in ExtraRules
    PROVE  /\ AreRules(Builtins \o UserRules(dir) \o extra)
           /\ ToSet(Builtins) \subseteq ToSet(Builtins \o UserRules(dir) \o extra)
           /\ \A i \in DOMAIN dir.files : ~IsBad(dir.files[i]) =>
                 ToSet(dir.files[i].rules) \subseteq ToSet(Builtins \o UserRules(dir) \o extra)
<1> DEFINE qs == [i \in DOMAIN dir.files |->
                     IF IsBad(dir.files[i]) THEN <<>> ELSE dir.files[i].rules]
           user == FlattenSeq(qs)
<1>1. UserRules(dir) = user
  BY DEF UserRules
<1>2. IsVector(dir.files) /\ \A i \in DOMAIN dir.files : AreRules(dir.files[i].rules)
  BY RulesAssumption DEF ToSet
<1>3. AreRules(<<>>)
  BY EmptyVector DEF AreRules
<1>4. /\ DOMAIN qs = DOMAIN dir.files
      /\ \A i \in DOMAIN qs : AreRules(qs[i])
      /\ \A i \in DOMAIN qs : ~IsBad(dir.files[i]) => qs[i] = dir.files[i].rules
  BY <1>2, <1>3
<1>5. IsVector(qs)
  BY <1>2, <1>4, MadeOf
<1>. HIDE DEF qs
<1>6. /\ IsVector(user)
      /\ ToSet(user) = UNION {ToSet(qs[i]) : i \in DOMAIN qs}
  BY <1>4, <1>5, FlattenElements DEF AreRules
<1>. HIDE DEF user
<1>7. AreRules(user)
  BY <1>4, <1>6 DEF AreRules
<1>8. /\ AreRules(Builtins \o user)
      /\ ToSet(Builtins \o user) = ToSet(Builtins) \cup ToSet(user)
  BY <1>7, RulesAssumption, ConcatRules
<1>9. /\ AreRules((Builtins \o user) \o extra)
      /\ ToSet((Builtins \o user) \o extra) = ToSet(Builtins \o user) \cup ToSet(extra)
  BY <1>8, RulesAssumption, ConcatRules
<1>10. \A i \in DOMAIN dir.files : ~IsBad(dir.files[i]) => ToSet(dir.files[i].rules) \subseteq ToSet(user)
  BY <1>4, <1>6
<1>. QED  BY <1>1, <1>8, <1>9, <1>10

(* Each bad file, and a directory that cannot be read, has its finding.       *)
LEMMA LoadingTold ==
    ASSUME NEW dir \in UserDirs
    PROVE  /\ Graded(LoadFindings(dir))
           /\ \A f \in ToSet(LoadFindings(dir)) : f.evidence = <<>>
           /\ \A i \in DOMAIN dir.files : IsBad(dir.files[i]) =>
                 \E f \in ToSet(LoadFindings(dir)) :
                    f.id = <<"rules", dir.files[i].state>> /\ f.severity = Warn
           /\ dir.state = "unreadable" =>
                 \E f \in ToSet(LoadFindings(dir)) : f.id = <<"rules", "user_dir_unreadable">>
<1>1. IsVector(dir.files) /\ (dir.state = "unreadable" => dir.files = <<>>)
  BY RulesAssumption
<1>2. ASSUME NEW what
      PROVE  /\ LoadFinding(what).id = <<"rules", what>>
             /\ LoadFinding(what).severity = Warn /\ LoadFinding(what).evidence = <<>>
  BY DEF LoadFinding, Finding
<1>3. CASE dir.state = "unreadable"
  <2> DEFINE f == LoadFinding("user_dir_unreadable")
  <2>1. LoadFindings(dir) = <<f>>
    BY <1>3 DEF LoadFindings
  <2>. HIDE DEF f
  <2>2. <<f>> \in Seq({f}) /\ DOMAIN <<f>> = {1} /\ <<f>>[1] = f
    OBVIOUS
  <2>3. IsVector(<<f>>) /\ ToSet(<<f>>) = {f}
    BY <2>2, VectorElements DEF ToSet
  <2>4. f.id = <<"rules", "user_dir_unreadable">> /\ f.severity = Warn /\ f.evidence = <<>>
    BY <1>2 DEF f
  <2>5. DOMAIN dir.files = {}
    BY <1>1, <1>3
  <2>. QED  BY <2>1, <2>3, <2>4, <2>5 DEF Graded
<1>4. CASE dir.state # "unreadable"
  <2> DEFINE S == {i \in DOMAIN dir.files : IsBad(dir.files[i])}
             bad == Pick(dir.files, S)
             fs == [i \in DOMAIN bad |-> LoadFinding(bad[i].state)]
  <2>1. LoadFindings(dir) = fs
    BY <1>4 DEF LoadFindings
  <2>2. IsVector(bad) /\ ToSet(bad) = {dir.files[i] : i \in S}
    BY <1>1, PickSet
  <2>. HIDE DEF bad
  <2>3. IsVector(fs)
    BY <2>2, MadeOf
  <2>4. \A f \in ToSet(fs) : \E b \in ToSet(bad) : f = LoadFinding(b.state)
    BY DEF ToSet
  <2>5. \A b \in ToSet(bad) : LoadFinding(b.state) \in ToSet(fs)
    BY DEF ToSet
  <2>. HIDE DEF fs
  <2>6. Graded(fs) /\ \A f \in ToSet(fs) : f.evidence = <<>>
    BY <1>2, <2>3, <2>4 DEF Graded
  <2>7. ASSUME NEW i \in DOMAIN dir.files, IsBad(dir.files[i])
        PROVE  \E f \in ToSet(fs) : f.id = <<"rules", dir.files[i].state>> /\ f.severity = Warn
    <3>1. dir.files[i] \in ToSet(bad)
      BY <2>2, <2>7
    <3>2. LoadFinding(dir.files[i].state) \in ToSet(fs)
      BY <2>5, <3>1
    <3>. QED  BY <1>2, <3>2
  <2>. QED  BY <1>4, <2>1, <2>6, <2>7
<1>. QED  BY <1>3, <1>4

(* The signals that are extracted from what the commands printed.             *)
LEMMA ExtractedSignals ==
    ASSUME NEW rs \in FirstResults
    PROVE  AreSignals(FlattenSeq([i \in DOMAIN rs |->
                          IF rs[i].outcome = "success" THEN rs[i].extracted ELSE <<>>]))
<1> DEFINE qs == [i \in DOMAIN rs |->
                     IF rs[i].outcome = "success" THEN rs[i].extracted ELSE <<>>]
<1>1. AreSignals(<<>>)
  BY EmptyVector DEF AreSignals
<1>2. IsVector(rs) /\ \A i \in DOMAIN rs : rs[i].outcome = "success" => AreSignals(rs[i].extracted)
  BY SignalsAssumption DEF ToSet
<1>3. DOMAIN qs = DOMAIN rs /\ \A i \in DOMAIN qs : AreSignals(qs[i])
  BY <1>1, <1>2
<1>4. IsVector(qs)
  BY <1>2, <1>3, MadeOf
<1>. HIDE DEF qs
<1>5. IsVector(FlattenSeq(qs)) /\ ToSet(FlattenSeq(qs)) = UNION {ToSet(qs[i]) : i \in DOMAIN qs}
  BY <1>3, <1>4, FlattenElements DEF AreSignals
<1>6. AreSignals(FlattenSeq(qs))
  BY <1>3, <1>5 DEF AreSignals
<1>. QED  BY <1>6 DEF qs

-------------------------------------------------------------------------------
(* The thresholds.                                                            *)

(* The comparisons with a number, by rule and term, and their order: by        *)
(* severity, then as they stand.                                              *)
Places(rs) ==
    UNION {{i} \X {k \in DOMAIN Terms(rs[i].when) : WithNumber(Terms(rs[i].when)[k])} : i \in DOMAIN rs}
TermAt(rs, at) == Terms(rs[at[1]].when)[at[2]]
SeverityAt(rs, at) == rs[at[1]].severity
Outdoes(rs, a, b) ==
    \/ SeverityAt(rs, a) < SeverityAt(rs, b)
    \/ /\ SeverityAt(rs, a) = SeverityAt(rs, b)
       /\ \/ a[1] < b[1]
          \/ a[1] = b[1] /\ a[2] < b[2]

(* Those that come before the k-th term of the n-th rule, and this one.       *)
Seen(rs, n, k) == {at \in Places(rs) : at[1] < n \/ (at[1] = n /\ at[2] <= k)}

(* The thresholds are those of the foremost of the comparisons A.             *)
ShowsForemost(map, rs, A) ==
    /\ \A at \in A : TermAt(rs, at).path \in DOMAIN map
    /\ \A p \in DOMAIN map : \E a \in A :
          /\ TermAt(rs, a).path = p
          /\ map[p] = Threshold(TermAt(rs, a), SeverityAt(rs, a))
          /\ \A b \in A : TermAt(rs, b).path = p => b = a \/ Outdoes(rs, a, b)

(* A vector of terms.                                                         *)
LEMMA TermsVector ==
    ASSUME NEW when, IsVector(when.rest)
    PROVE  Len(Terms(when)) \in Nat /\ DOMAIN Terms(when) = 1 .. Len(Terms(when))
<1> DEFINE one == <<when.first>>
           more == [i \in DOMAIN when.rest |-> when.rest[i].term]
<1>1. IsVector(one)
  <2>1. one \in Seq({when.first})
    OBVIOUS
  <2>. QED  BY <2>1, VectorElements
<1>2. IsVector(more)
  BY MadeOf
<1>3. IsVector(Terms(when))
  BY <1>1, <1>2, ConcatVectors DEF Terms
<1>. QED  BY <1>3, VectorElements

(* Where the comparisons stand.                                               *)
LEMMA PlacesTyped ==
    ASSUME NEW rs, AreRules(rs)
    PROVE  /\ \A at \in Places(rs) :
                 /\ at = <<at[1], at[2]>>
                 /\ at[1] \in DOMAIN rs /\ at[1] \in Nat
                 /\ at[2] \in DOMAIN Terms(rs[at[1]].when) /\ at[2] \in Nat /\ at[2] # 0
                 /\ WithNumber(TermAt(rs, at)) /\ SeverityAt(rs, at) \in Nat
           /\ \A n \in DOMAIN rs : \A k \in DOMAIN Terms(rs[n].when) :
                 WithNumber(Terms(rs[n].when)[k]) => <<n, k>> \in Places(rs)
<1>1. Len(rs) \in Nat /\ DOMAIN rs = 1 .. Len(rs)
  BY VectorElements DEF AreRules
<1>2. ASSUME NEW n \in DOMAIN rs
      PROVE  /\ Len(Terms(rs[n].when)) \in Nat
             /\ DOMAIN Terms(rs[n].when) = 1 .. Len(Terms(rs[n].when))
             /\ rs[n].severity \in Nat
  <2>1. rs[n] \in ToSet(rs)
    BY DEF ToSet
  <2>. QED  BY <2>1, TermsVector DEF AreRules, Crit, Warn, Info
<1>3. ASSUME NEW at \in Places(rs)
      PROVE  /\ at = <<at[1], at[2]>> /\ at[1] \in DOMAIN rs
             /\ at[2] \in DOMAIN Terms(rs[at[1]].when) /\ WithNumber(TermAt(rs, at))
  <2>1. PICK i \in DOMAIN rs :
            at \in {i} \X {k \in DOMAIN Terms(rs[i].when) : WithNumber(Terms(rs[i].when)[k])}
    BY DEF Places
  <2>. QED  BY <2>1 DEF TermAt
<1>4. ASSUME NEW at \in Places(rs)
      PROVE  at[1] \in Nat /\ at[2] \in Nat /\ at[2] # 0 /\ SeverityAt(rs, at) \in Nat
  BY <1>1, <1>2, <1>3 DEF SeverityAt
<1>5. ASSUME NEW n \in DOMAIN rs, NEW k \in DOMAIN Terms(rs[n].when),
             WithNumber(Terms(rs[n].when)[k])
      PROVE  <<n, k>> \in Places(rs)
  BY <1>5 DEF Places
<1>. QED  BY <1>3, <1>4, <1>5

(* A further comparison takes the place of the foremost one or leaves it      *)
(* (rule/mod.rs, extract_cmp_thresholds).                                     *)
LEMMA OfferShows ==
    ASSUME NEW rs, AreRules(rs), NEW n \in DOMAIN rs, NEW k \in DOMAIN Terms(rs[n].when),
           NEW map, map = [p \in DOMAIN map |-> map[p]], ShowsForemost(map, rs, Seen(rs, n, k - 1))
    PROVE  ShowsForemost(Offer(map, Terms(rs[n].when)[k], rs[n].severity), rs, Seen(rs, n, k))
<1> DEFINE A == Seen(rs, n, k - 1)
           B == Seen(rs, n, k)
           x == <<n, k>>
           t == Terms(rs[n].when)[k]
           new == Offer(map, t, rs[n].severity)
<1>1. n \in Nat /\ k \in Nat /\ k # 0
  <2>1. Len(rs) \in Nat /\ DOMAIN rs = 1 .. Len(rs)
    BY VectorElements DEF AreRules
  <2>2. rs[n] \in ToSet(rs)
    BY DEF ToSet
  <2>3. Len(Terms(rs[n].when)) \in Nat /\ DOMAIN Terms(rs[n].when) = 1 .. Len(Terms(rs[n].when))
    BY <2>2, TermsVector DEF AreRules
  <2>. QED  BY <2>1, <2>3
<1>2. t = TermAt(rs, x) /\ rs[n].severity = SeverityAt(rs, x)
  BY DEF TermAt, SeverityAt
<1>3. ASSUME NEW at \in B, at # x PROVE at \in A
  <2>1. at \in Places(rs) /\ (at[1] < n \/ (at[1] = n /\ at[2] <= k))
    BY DEF Seen
  <2>2. at = <<at[1], at[2]>> /\ at[1] \in Nat /\ at[2] \in Nat
    BY <2>1, PlacesTyped
  <2>3. at[1] < n \/ (at[1] = n /\ at[2] <= k - 1)
    BY <1>1, <1>3, <2>1, <2>2
  <2>. QED  BY <2>1, <2>3 DEF Seen
<1>4. A \subseteq B /\ \A at \in A : at # x /\ at \in Places(rs) /\ (at[1] < n \/ (at[1] = n /\ at[2] < k))
  BY <1>1, PlacesTyped DEF Seen
<1>5. CASE ~WithNumber(t)
  <2>1. A = B
    BY <1>2, <1>3, <1>4, <1>5, PlacesTyped DEF Seen
  <2>. QED  BY <1>5, <2>1 DEF Offer
<1>6. CASE WithNumber(t)
  <2>1. x \in B /\ x \in Places(rs)
    BY <1>1, <1>6, PlacesTyped DEF Seen
  <2>2. \A at \in B : SeverityAt(rs, at) \in Nat
    BY PlacesTyped DEF Seen
  <2>3. \A at \in A : SeverityAt(rs, at) <= SeverityAt(rs, x) => Outdoes(rs, at, x)
    BY <1>4, <2>1, <2>2 DEF Outdoes
  <2>. HIDE DEF A, B, x
  <2>4. CASE t.path \in DOMAIN map /\ ~(rs[n].severity < map[t.path].severity)
    <3>1. new = map
      BY <2>4 DEF Offer
    <3>2. ASSUME NEW p \in DOMAIN map
          PROVE  \E a \in B : /\ TermAt(rs, a).path = p
                              /\ map[p] = Threshold(TermAt(rs, a), SeverityAt(rs, a))
                              /\ \A b \in B : TermAt(rs, b).path = p => b = a \/ Outdoes(rs, a, b)
      <4>1. PICK a \in A : /\ TermAt(rs, a).path = p
                           /\ map[p] = Threshold(TermAt(rs, a), SeverityAt(rs, a))
                           /\ \A b \in A : TermAt(rs, b).path = p => b = a \/ Outdoes(rs, a, b)
        BY DEF ShowsForemost, A
      <4>2. map[p].severity = SeverityAt(rs, a)
        BY <4>1 DEF Threshold
      <4>3. p = t.path => Outdoes(rs, a, x)
        BY <1>2, <1>4, <2>1, <2>2, <2>3, <2>4, <4>2
      <4>. QED  BY <1>2, <1>3, <1>4, <4>1, <4>3
    <3>3. \A at \in B : TermAt(rs, at).path \in DOMAIN map
      BY <1>2, <1>3, <2>4 DEF ShowsForemost, A
    <3>. QED  BY <3>1, <3>2, <3>3 DEF ShowsForemost, B
  <2>5. CASE ~(t.path \in DOMAIN map /\ ~(rs[n].severity < map[t.path].severity))
    <3>1. /\ DOMAIN new = DOMAIN map \cup {t.path}
          /\ new[t.path] = Threshold(t, rs[n].severity)
          /\ \A p \in DOMAIN map : p # t.path => new[p] = map[p]
      <4>1. new = Insert(map, t.path, Threshold(t, rs[n].severity))
        BY <1>6, <2>5 DEF Offer
      <4>. QED  BY <4>1 DEF Insert
    <3>. HIDE DEF new
    <3>2. ASSUME NEW p \in DOMAIN new
          PROVE  \E a \in B : /\ TermAt(rs, a).path = p
                              /\ new[p] = Threshold(TermAt(rs, a), SeverityAt(rs, a))
                              /\ \A b \in B : TermAt(rs, b).path = p => b = a \/ Outdoes(rs, a, b)
      <4>1. CASE p # t.path
        <5>1. PICK a \in A : /\ TermAt(rs, a).path = p
                             /\ map[p] = Threshold(TermAt(rs, a), SeverityAt(rs, a))
                             /\ \A b \in A : TermAt(rs, b).path = p => b = a \/ Outdoes(rs, a, b)
          BY <3>1, <4>1 DEF ShowsForemost, A
        <5>. QED  BY <1>2, <1>3, <1>4, <3>1, <4>1, <5>1
      <4>2. CASE p = t.path
        <5>1. ASSUME NEW b \in B, TermAt(rs, b).path = p, b # x
              PROVE  Outdoes(rs, x, b)
          <6>1. b \in A /\ p \in DOMAIN map
            BY <1>3, <5>1 DEF ShowsForemost, A
          <6>2. PICK a \in A : /\ map[p] = Threshold(TermAt(rs, a), SeverityAt(rs, a))
                               /\ b = a \/ Outdoes(rs, a, b)
            BY <5>1, <6>1 DEF ShowsForemost, A
          <6>3. SeverityAt(rs, x) < SeverityAt(rs, a)
            BY <1>2, <2>5, <4>2, <6>1, <6>2 DEF Threshold
          <6>4. SeverityAt(rs, a) <= SeverityAt(rs, b)
            BY <1>4, <2>2, <6>1, <6>2 DEF Outdoes
          <6>. QED  BY <1>4, <2>1, <2>2, <6>1, <6>3, <6>4 DEF Outdoes
        <5>. QED  BY <1>2, <2>1, <3>1, <4>2, <5>1
      <4>. QED  BY <4>1, <4>2
    <3>3. \A at \in B : TermAt(rs, at).path \in DOMAIN new
      BY <1>2, <1>3, <3>1 DEF ShowsForemost, A
    <3>. QED  BY <3>2, <3>3 DEF ShowsForemost, B, new
  <2>. QED  BY <2>4, <2>5
<1>. QED  BY <1>5, <1>6

(* The maps that thresholds are collected in.                                 *)
Paths(rs) == UNION {{t.path : t \in ToSet(Terms(r.when))} : r \in ToSet(rs)}
Values(rs) == UNION {{Threshold(t, r.severity) : t \in ToSet(Terms(r.when))} : r \in ToSet(rs)}
ThresholdMaps(rs) == UNION {[Q -> Values(rs)] : Q \in SUBSET Paths(rs)}

(* A map stays a map.                                                         *)
LEMMA OfferTyped ==
    ASSUME NEW rs, NEW n \in DOMAIN rs, NEW k \in DOMAIN Terms(rs[n].when),
           NEW map \in ThresholdMaps(rs)
    PROVE  Offer(map, Terms(rs[n].when)[k], rs[n].severity) \in ThresholdMaps(rs)
<1> DEFINE t == Terms(rs[n].when)[k]
           x == Threshold(t, rs[n].severity)
<1>1. PICK Q \in SUBSET Paths(rs) : map \in [Q -> Values(rs)]
  BY DEF ThresholdMaps
<1>2. t.path \in Paths(rs) /\ x \in Values(rs)
  <2>1. rs[n] \in ToSet(rs) /\ t \in ToSet(Terms(rs[n].when))
    BY DEF ToSet
  <2>. HIDE DEF t
  <2>2. /\ t.path \in {u.path : u \in ToSet(Terms(rs[n].when))}
        /\ x \in {Threshold(u, rs[n].severity) : u \in ToSet(Terms(rs[n].when))}
    BY <2>1 DEF x
  <2>. HIDE DEF x
  <2>. QED  BY <2>1, <2>2 DEF Paths, Values
<1>. HIDE DEF t, x
<1>3. Insert(map, t.path, x) \in [Q \cup {t.path} -> Values(rs)]
  BY <1>1, <1>2 DEF Insert
<1>4. Insert(map, t.path, x) \in ThresholdMaps(rs)
  BY <1>1, <1>2, <1>3 DEF ThresholdMaps
<1>. QED  BY <1>4 DEF Offer, t, x

(* After the terms of a rule its comparisons have been seen as well           *)
(* (rule/mod.rs, extract_cmp_thresholds).                                     *)
LEMMA ThresholdsOfShows ==
    ASSUME NEW rs, AreRules(rs), NEW n \in DOMAIN rs, NEW map \in ThresholdMaps(rs),
           ShowsForemost(map, rs, Seen(rs, n, 0))
    PROVE  /\ ThresholdsOf(map, rs[n]) \in ThresholdMaps(rs)
           /\ ShowsForemost(ThresholdsOf(map, rs[n]), rs, Seen(rs, n + 1, 0))
<1> DEFINE terms == Terms(rs[n].when)
           severity == rs[n].severity
           m == Len(terms)
           V == ThresholdMaps(rs)
           step == [k \in 1 .. m |-> [x \in V |-> Offer(x, terms[k], severity)]]
           after == CHOOSE f : f = [k \in 0 .. m |->
                       IF k = 0 THEN map ELSE Offer(f[k - 1], terms[k], severity)]
<1>1. m \in Nat /\ DOMAIN terms = 1 .. m
  <2>1. rs[n] \in ToSet(rs)
    BY DEF ToSet
  <2>. QED  BY <2>1, TermsVector DEF AreRules
<1>2. ThresholdsOf(map, rs[n]) = after[m]
  BY DEF ThresholdsOf
<1>3. \A k \in 1 .. m : \A x \in V : Offer(x, terms[k], severity) \in V
  BY <1>1, OfferTyped
<1>. HIDE DEF terms, severity, m, V
<1>4. step \in [1 .. m -> [V -> V]] /\ map \in V
  BY <1>3 DEF V
<1>5. PICK f : Iterates(f, V, map, m, step)
  <2>. HIDE DEF step
  <2>. QED  BY <1>1, <1>4, Recursion
<1>6. f = [k \in 0 .. m |-> IF k = 0 THEN map ELSE Offer(f[k - 1], terms[k], severity)]
  <2>1. f \in [0 .. m -> V] /\ f[0] = map
    BY <1>5 DEF Iterates
  <2>2. ASSUME NEW k \in 1 .. m PROVE f[k] = Offer(f[k - 1], terms[k], severity)
    <3>1. f[k] = step[k][f[k - 1]] /\ k - 1 \in 0 .. m
      BY <1>1, <1>5 DEF Iterates
    <3>. QED  BY <2>1, <3>1
  <2>3. \A k \in 0 .. m : k = 0 \/ k \in 1 .. m
    BY <1>1
  <2>. QED  BY <2>1, <2>2, <2>3
<1>7. after = [k \in 0 .. m |-> IF k = 0 THEN map ELSE Offer(after[k - 1], terms[k], severity)]
  BY <1>6
<1>. HIDE DEF after
<1>8. after[0] = map /\ \A k \in 1 .. m : after[k] = Offer(after[k - 1], terms[k], severity)
  BY <1>1, <1>7
<1> DEFINE P == {k \in Nat : k <= m => after[k] \in V /\ ShowsForemost(after[k], rs, Seen(rs, n, k))}
<1>9. 0 \in P
  BY <1>4, <1>8
<1>10. ASSUME NEW k \in Nat, k \in P PROVE k + 1 \in P
  <2> SUFFICES ASSUME k + 1 <= m
               PROVE  after[k + 1] \in V /\ ShowsForemost(after[k + 1], rs, Seen(rs, n, k + 1))
    OBVIOUS
  <2>1. k + 1 \in 1 .. m /\ (k + 1) - 1 = k /\ k <= m
    BY <1>1
  <2>2. after[k] \in V /\ ShowsForemost(after[k], rs, Seen(rs, n, k))
    BY <1>10, <2>1
  <2>3. after[k + 1] = Offer(after[k], terms[k + 1], severity)
    BY <1>8, <2>1
  <2>4. after[k] = [p \in DOMAIN after[k] |-> after[k][p]]
    BY <2>2 DEF V, ThresholdMaps
  <2>5. k + 1 \in DOMAIN Terms(rs[n].when)
    BY <1>1, <2>1 DEF terms
  <2>6. ShowsForemost(Offer(after[k], Terms(rs[n].when)[k + 1], rs[n].severity),
                      rs, Seen(rs, n, k + 1))
    BY <2>1, <2>2, <2>4, <2>5, OfferShows
  <2>. QED  BY <1>3, <2>1, <2>2, <2>3, <2>6 DEF terms, severity
<1>. HIDE DEF P
<1>11. m \in P
  BY <1>1, <1>9, <1>10, Induction
<1>12. after[m] \in V /\ ShowsForemost(after[m], rs, Seen(rs, n, m))
  BY <1>1, <1>11 DEF P
<1>13. Seen(rs, n, m) = Seen(rs, n + 1, 0)
  <2>1. ASSUME NEW at \in Places(rs)
        PROVE  (at[1] < n \/ (at[1] = n /\ at[2] <= m)) <=> (at[1] < n + 1 \/ (at[1] = n + 1 /\ at[2] <= 0))
    <3>1. /\ at[1] \in Nat /\ at[2] \in Nat /\ at[2] # 0 /\ n \in Nat
          /\ at[2] \in DOMAIN Terms(rs[at[1]].when)
      <4>1. Len(rs) \in Nat /\ DOMAIN rs = 1 .. Len(rs)
        BY VectorElements DEF AreRules
      <4>. QED  BY <4>1, PlacesTyped
    <3>2. at[1] = n => at[2] \in 1 .. m
      BY <1>1, <3>1 DEF terms
    <3>. QED  BY <1>1, <3>1, <3>2
  <2>. QED  BY <2>1 DEF Seen
<1>. QED  BY <1>2, <1>12, <1>13 DEF V

(* The thresholds of all rules are those of the foremost comparisons          *)
(* (rule/mod.rs, signal_thresholds).                                          *)
LEMMA ThresholdsShow ==
    ASSUME NEW rs, AreRules(rs)
    PROVE  ShowsForemost(Thresholds(rs), rs, Places(rs))
<1> DEFINE m == Len(rs)
           none == <<>>
           V == ThresholdMaps(rs)
           step == [n \in 1 .. m |-> [x \in V |->
                       IF ShowsForemost(x, rs, Seen(rs, n, 0)) THEN ThresholdsOf(x, rs[n]) ELSE x]]
           map == CHOOSE f : f = [n \in 0 .. m |->
                       IF n = 0 THEN none ELSE ThresholdsOf(f[n - 1], rs[n])]
<1>1. m \in Nat /\ DOMAIN rs = 1 .. m
  BY VectorElements DEF AreRules
<1>2. Thresholds(rs) = map[m]
  BY DEF Thresholds
<1>. HIDE DEF m
<1>3. none \in V /\ ShowsForemost(none, rs, Seen(rs, 1, 0))
  <2>1. DOMAIN none = {} /\ none \in [{} -> Values(rs)]
    OBVIOUS
  <2>2. Seen(rs, 1, 0) = {}
    <3>1. ASSUME NEW at \in Places(rs) PROVE ~(at[1] < 1 \/ (at[1] = 1 /\ at[2] <= 0))
      <4>1. at[1] \in 1 .. m /\ at[2] \in Nat /\ at[2] # 0
        BY <1>1, PlacesTyped
      <4>. QED  BY <1>1, <4>1
    <3>. QED  BY <3>1 DEF Seen
  <2>. QED  BY <2>1, <2>2 DEF ThresholdMaps, ShowsForemost
<1>4. step \in [1 .. m -> [V -> V]]
  BY <1>1, ThresholdsOfShows
<1>. HIDE DEF none, V
<1>5. PICK f : Iterates(f, V, none, m, step)
  <2>. HIDE DEF step
  <2>. QED  BY <1>1, <1>3, <1>4, Recursion
<1>6. f \in [0 .. m -> V] /\ f[0] = none
  BY <1>5 DEF Iterates
<1>7. ASSUME NEW n \in 1 .. m
      PROVE  f[n] = IF ShowsForemost(f[n - 1], rs, Seen(rs, n, 0))
                    THEN ThresholdsOf(f[n - 1], rs[n]) ELSE f[n - 1]
  <2>1. f[n] = step[n][f[n - 1]] /\ n - 1 \in 0 .. m
    BY <1>1, <1>5 DEF Iterates
  <2>. QED  BY <1>6, <2>1
<1> DEFINE P == {n \in Nat : n <= m => ShowsForemost(f[n], rs, Seen(rs, n + 1, 0))}
<1>8. 0 \in P
  BY <1>3, <1>6
<1>9. ASSUME NEW n \in Nat, n \in P PROVE n + 1 \in P
  <2> SUFFICES ASSUME n + 1 <= m PROVE ShowsForemost(f[n + 1], rs, Seen(rs, (n + 1) + 1, 0))
    OBVIOUS
  <2>1. n + 1 \in 1 .. m /\ (n + 1) - 1 = n /\ n \in 0 .. m
    BY <1>1
  <2>2. ShowsForemost(f[n], rs, Seen(rs, n + 1, 0)) /\ f[n] \in V
    BY <1>6, <1>9, <2>1
  <2>3. f[n + 1] = ThresholdsOf(f[n], rs[n + 1])
    BY <1>7, <2>1, <2>2
  <2>. QED  BY <1>1, <2>1, <2>2, <2>3, ThresholdsOfShows DEF V
<1>. HIDE DEF P
<1>10. \A n \in 0 .. m : ShowsForemost(f[n], rs, Seen(rs, n + 1, 0))
  <2>1. \A n \in Nat : n \in P
    BY <1>8, <1>9, Induction
  <2>. QED  BY <1>1, <2>1 DEF P
<1>11. f = [n \in 0 .. m |-> IF n = 0 THEN none ELSE ThresholdsOf(f[n - 1], rs[n])]
  <2>1. ASSUME NEW n \in 1 .. m PROVE f[n] = ThresholdsOf(f[n - 1], rs[n])
    <3>1. n - 1 \in 0 .. m /\ (n - 1) + 1 = n
      BY <1>1
    <3>. QED  BY <1>7, <1>10, <3>1
  <2>2. \A n \in 0 .. m : n = 0 \/ n \in 1 .. m
    BY <1>1
  <2>. QED  BY <1>6, <2>1, <2>2
<1> DEFINE Q == {n \in Nat : n <= m => map[n] = f[n]}
<1>12. map = [n \in 0 .. m |-> IF n = 0 THEN none ELSE ThresholdsOf(map[n - 1], rs[n])]
  BY <1>11
<1>. HIDE DEF map
<1>13. 0 \in Q
  BY <1>1, <1>6, <1>12
<1>14. ASSUME NEW n \in Nat, n \in Q PROVE n + 1 \in Q
  <2> SUFFICES ASSUME n + 1 <= m PROVE map[n + 1] = f[n + 1]
    OBVIOUS
  <2>1. n + 1 \in 0 .. m /\ n + 1 # 0 /\ (n + 1) - 1 = n /\ n <= m
    BY <1>1
  <2>2. map[n + 1] = ThresholdsOf(map[n], rs[n + 1]) /\ f[n + 1] = ThresholdsOf(f[n], rs[n + 1])
    BY <1>11, <1>12, <2>1
  <2>. QED  BY <1>14, <2>1, <2>2
<1>. HIDE DEF Q
<1>15. map[m] = f[m]
  <2>1. m \in Q
    BY <1>1, <1>13, <1>14, Induction
  <2>. QED  BY <1>1, <2>1 DEF Q
<1>16. Seen(rs, m + 1, 0) = Places(rs)
  BY <1>1, PlacesTyped DEF Seen
<1>. QED  BY <1>1, <1>2, <1>10, <1>15, <1>16

-------------------------------------------------------------------------------
(* The inductive invariant.                                                   *)

(* The severity shown for a resource is the worst of those that cite it.      *)
VitalFits(res, severity, fs) ==
    /\ \A f \in ToSet(fs) : Cites(f, res) => severity <= f.severity
    /\ severity # NoSeverity => \E f \in ToSet(fs) : Cites(f, res) /\ f.severity = severity

TypeInv ==
    /\ opts.exitOn \in {"never", "info", "warn", "crit"}
    /\ AreRules(rules) /\ AreSignals(signals)
    /\ report = [findings |-> report.findings, checkedOk |-> report.checkedOk,
                 thresholds |-> report.thresholds, vitals |-> report.vitals,
                 coverage |-> report.coverage]
    /\ Graded(report.findings)
    /\ file = [state |-> file.state, report |-> file.report, signals |-> file.signals]

(* What is on its way to the file, and what is in it.                         *)
Written == file.state = "whole"
LoadedNow ==
    \/ pc \in {"baseline", "run", "collect", "overview", "profile", "write", "append", "exit"}
    \/ Written
DiagnosedNow == pc \in {"overview", "profile", "write", "append", "exit"} \/ Written
OverviewedNow == pc \in {"profile", "write", "append", "exit"} \/ Written

(* A whole file shows the report as it is, and goes with its exit code.       *)
WholeFits ==
    IF Written
    THEN /\ pc \in {"append", "exit", "done"}
         /\ file.report = report /\ file.signals = signals
         /\ code = IF pc = "done" THEN ExitCode(opts.exitOn, report.findings) ELSE Running
    ELSE /\ pc \notin {"append", "exit"}
         /\ code = IF pc = "done" THEN 1 ELSE Running

(* The rules are those of the program, of the user's files and of the options. *)
RulesFit ==
    LoadedNow =>
        /\ userDir \in UserDirs /\ loadFindings = LoadFindings(userDir)
        /\ \E extra \in ExtraRules : rules = Builtins \o UserRules(userDir) \o extra

Sources ==
    ToSet(RunRules(rules, signals, Cpus)) \cup ToSet(RunPatterns(Patterns, signals, Cpus))
    \cup ToSet(OutlierFindings(signals)) \cup ToSet(loadFindings)
    \cup UNION {ToSet(fs) : fs \in ProfileFindings}

(* The findings are those of the diagnosis of these signals, and its answers.  *)
DiagnosisFits ==
    DiagnosedNow =>
        /\ report.checkedOk = CheckedOk(rules, signals, Cpus)
        /\ report.thresholds = Thresholds(rules)
        /\ ToSet(RunRules(rules, signals, Cpus)) \subseteq ToSet(report.findings)
        /\ ToSet(report.findings) \subseteq Sources

(* Nothing that cites a signal is added after the overview was made.          *)
OverviewInv ==
    OverviewedNow =>
        /\ ToSet(loadFindings) \subseteq ToSet(report.findings)
        /\ \A res \in Resources : VitalFits(res, report.vitals[res].severity, report.findings)

IInv == TypeInv /\ WholeFits /\ RulesFit /\ DiagnosisFits /\ OverviewInv

(* It holds when main begins.                                                 *)
LEMMA InitInvariant == Init => IInv
<1> SUFFICES ASSUME Init PROVE IInv
  OBVIOUS
<1>1. AreRules(<<>>) /\ AreSignals(<<>>) /\ Graded(<<>>)
  BY EmptyVector DEF AreRules, AreSignals, Graded
<1>2. TypeInv
  <2>1. opts.exitOn \in {"never", "info", "warn", "crit"}
    BY PoliciesAssumption DEF Init
  <2>2. Graded(report.findings)
    BY <1>1 DEF Init, Blank
  <2>3. report = [findings |-> report.findings, checkedOk |-> report.checkedOk,
                  thresholds |-> report.thresholds, vitals |-> report.vitals,
                  coverage |-> report.coverage]
    BY DEF Init, Blank
  <2>4. file = [state |-> file.state, report |-> file.report, signals |-> file.signals]
    BY DEF Init
  <2>5. AreRules(rules) /\ AreSignals(signals)
    BY <1>1 DEF Init
  <2>. QED  BY <2>1, <2>2, <2>3, <2>4, <2>5 DEF TypeInv
<1>3. ~Written /\ pc = "open" /\ code = Running
  BY DEF Init, Written
<1>. QED  BY <1>2, <1>3 DEF IInv, WholeFits, RulesFit, DiagnosisFits, OverviewInv,
                            LoadedNow, DiagnosedNow, OverviewedNow

-------------------------------------------------------------------------------
(* The steps.                                                                 *)

(* A step that leaves alone what the report is made of, and does not go on to  *)
(* a later part of it.                                                        *)
Quiet ==
    /\ UNCHANGED <<opts, userDir, rules, loadFindings, signals, report>>
    /\ file' = [state |-> file'.state, report |-> file'.report, signals |-> file'.signals]
    /\ LoadedNow' => LoadedNow
    /\ DiagnosedNow' => DiagnosedNow
    /\ OverviewedNow' => OverviewedNow

LEMMA QuietStep ==
    ASSUME IInv, Quiet, WholeFits' PROVE IInv'
<1>1. TypeInv'
  BY DEF IInv, TypeInv, Quiet
<1>2. RulesFit'
  BY DEF IInv, RulesFit, Quiet
<1>3. Sources' = Sources
  BY DEF Sources, ProfileFindings, Profiles, Quiet
<1>4. DiagnosisFits'
  BY <1>3 DEF IInv, DiagnosisFits, Quiet
<1>5. OverviewInv'
  BY DEF IInv, OverviewInv, Quiet
<1>. QED  BY <1>1, <1>2, <1>4, <1>5 DEF IInv

(* main gives up (cli/mod.rs, main): what it has written is not whole.        *)
LEMMA GivesUp ==
    ASSUME IInv, Refuse \/ NoTemplate \/ ProfileInvalid \/ WriteFails PROVE IInv'
<1>1. pc \in {"open", "renderer", "commands", "rules", "baseline", "run", "profile", "write"}
  BY DEF Refuse, NoTemplate, ProfileInvalid, WriteFails
<1>2. ~Written
  BY <1>1 DEF IInv, WholeFits
<1>3. UNCHANGED <<opts, userDir, rules, loadFindings, signals, report>> /\ pc' = "done" /\ code' = 1
  BY DEF Refuse, NoTemplate, ProfileInvalid, WriteFails, Fail, inputs
<1>4. file' = file \/ \E s \in {"empty", "partial"} : file' = [file EXCEPT !.state = s]
  BY DEF Refuse, NoTemplate, ProfileInvalid, WriteFails
<1>5. file' = [state |-> file'.state, report |-> file'.report, signals |-> file'.signals]
      /\ file'.state # "whole"
  BY <1>2, <1>4 DEF IInv, TypeInv, Written
<1>6. ~Written' /\ pc' = "done"
  BY <1>3, <1>5 DEF Written
<1>7. Quiet
  BY <1>3, <1>5, <1>6 DEF Quiet, LoadedNow, DiagnosedNow, OverviewedNow
<1>8. WholeFits'
  BY <1>3, <1>6 DEF WholeFits
<1>. QED  BY <1>7, <1>8, QuietStep

(* The steps before the rules are loaded, and those that only go on.          *)
LEMMA GoesOn ==
    ASSUME IInv, \/ OpenOutput \/ CreateRenderer \/ CreateCommands
                 \/ LoadBaseline \/ CollectFails \/ AppendRolling
    PROVE  IInv'
<1>1. UNCHANGED <<opts, userDir, rules, loadFindings, signals, report, code>>
  BY DEF OpenOutput, CreateRenderer, CreateCommands, LoadBaseline, CollectFails, AppendRolling, inputs
<1>2. \/ <<pc, pc'>> \in {<<"open", "renderer">>, <<"renderer", "commands">>, <<"commands", "rules">>,
                          <<"baseline", "run">>, <<"collect", "collect">>} /\ ~Written
      \/ pc = "append" /\ pc' = "exit" /\ file' = file
  BY DEF OpenOutput, CreateRenderer, CreateCommands, LoadBaseline, CollectFails, AppendRolling,
         IInv, WholeFits
<1>3. file' = file \/ (pc = "open" /\ file' = [file EXCEPT !.state = "empty"])
  BY DEF OpenOutput, CreateRenderer, CreateCommands, LoadBaseline, CollectFails, AppendRolling
<1>4. file' = [state |-> file'.state, report |-> file'.report, signals |-> file'.signals]
      /\ (Written' <=> Written)
  BY <1>2, <1>3 DEF IInv, TypeInv, Written
<1>5. Quiet
  BY <1>1, <1>2, <1>4 DEF Quiet, LoadedNow, DiagnosedNow, OverviewedNow
<1>6. WholeFits'
  BY <1>1, <1>2, <1>4 DEF IInv, WholeFits, Written
<1>. QED  BY <1>5, <1>6, QuietStep

(* The rules are put together (cli/mod.rs, load_rules; rule/mod.rs).          *)
LEMMA LoadRulesStep ==
    ASSUME IInv, LoadRules PROVE IInv'
<1>1. ~Written /\ pc = "rules" /\ pc' = "baseline" /\ ~Written'
      /\ UNCHANGED <<opts, signals, report, file, code>>
  BY DEF LoadRules, IInv, WholeFits, Written
<1>2. PICK dir \in UserDirs, extra \in ExtraRules :
          /\ userDir' = dir /\ rules' = Builtins \o UserRules(dir) \o extra
          /\ loadFindings' = LoadFindings(dir)
  BY DEF LoadRules
<1>3. AreRules(rules')
  BY <1>2, RulesLoaded
<1>4. TypeInv'
  BY <1>1, <1>3 DEF IInv, TypeInv
<1>5. RulesFit'
  BY <1>2 DEF RulesFit
<1>. QED  BY <1>1, <1>4, <1>5 DEF IInv, WholeFits, DiagnosisFits, OverviewInv,
                                DiagnosedNow, OverviewedNow

(* Signals come from the commands and from the collectors (analysis.rs).      *)
LEMMA SignalSteps ==
    ASSUME IInv, RunCommands \/ Collect PROVE IInv'
<1>1. /\ ~Written /\ ~Written' /\ LoadedNow
      /\ pc' = "collect" /\ UNCHANGED <<opts, userDir, rules, loadFindings, report, file, code>>
      /\ pc \in {"run", "collect"}
  BY DEF RunCommands, Collect, IInv, WholeFits, Written, LoadedNow, inputs
<1>2. AreSignals(signals')
  <2>1. CASE RunCommands
    BY <2>1, ExtractedSignals DEF RunCommands
  <2>2. CASE Collect
    <3>1. PICK more \in Collectors[next] : signals' = signals \o more
      BY <2>2 DEF Collect
    <3>2. AreSignals(more)
      BY <2>2, SignalsAssumption DEF Collect
    <3>. QED  BY <3>1, <3>2, ConcatSignals DEF IInv, TypeInv
  <2>. QED  BY <2>1, <2>2
<1>3. TypeInv'
  BY <1>1, <1>2 DEF IInv, TypeInv
<1>4. RulesFit'
  BY <1>1 DEF IInv, RulesFit
<1>. QED  BY <1>1, <1>3, <1>4 DEF IInv, WholeFits, DiagnosisFits, OverviewInv,
                                DiagnosedNow, OverviewedNow

(* The findings are those of the signals as they are annotated                *)
(* (analysis.rs, run_diagnostics).                                            *)
LEMMA DiagnoseStep ==
    ASSUME IInv, Diagnose PROVE IInv'
<1> DEFINE an == Annotate(signals, baseline)
           a == RunRules(rules, an, Cpus)
           b == RunPatterns(Patterns, an, Cpus)
           c == OutlierFindings(an)
           all == a \o b \o c
<1>1. /\ ~Written /\ ~Written' /\ pc = "collect" /\ pc' = "overview" /\ LoadedNow
      /\ UNCHANGED <<opts, userDir, rules, loadFindings, file, code>>
  BY DEF Diagnose, IInv, WholeFits, Written, LoadedNow, inputs
<1>2. /\ signals' = an
      /\ report' = [report EXCEPT !.findings = SortFindings(all),
                                  !.checkedOk = CheckedOk(rules, an, Cpus),
                                  !.thresholds = Thresholds(rules)]
  BY DEF Diagnose
<1>3. AreSignals(an)
  BY AnnotatedSignals DEF IInv, TypeInv
<1>. HIDE DEF an
<1>4. Sortable(a) /\ Sortable(b) /\ Sortable(c)
  BY <1>3, RulesFire, PatternsFire, OutliersGraded, RulesAssumption DEF IInv, TypeInv
<1>. HIDE DEF a, b, c
<1>5. Sortable(a \o b) /\ ToSet(a \o b) = ToSet(a) \cup ToSet(b)
  BY <1>4, ConcatGraded DEF Sortable
<1>6. Sortable(all) /\ ToSet(all) = ToSet(a) \cup ToSet(b) \cup ToSet(c)
  <2>1. Graded((a \o b) \o c) /\ ToSet((a \o b) \o c) = ToSet(a \o b) \cup ToSet(c)
    BY <1>4, <1>5, ConcatGraded DEF Sortable
  <2>. QED  BY <1>4, <1>5, <2>1 DEF Sortable
<1>. HIDE DEF all
<1>7. Graded(SortFindings(all)) /\ ToSet(SortFindings(all)) = ToSet(all)
  BY <1>6, SortKeeps DEF Sortable, Graded
<1>8. report' = [findings |-> SortFindings(all), checkedOk |-> CheckedOk(rules, an, Cpus),
                 thresholds |-> Thresholds(rules), vitals |-> report.vitals,
                 coverage |-> report.coverage]
  BY <1>2 DEF IInv, TypeInv
<1>9. TypeInv'
  BY <1>1, <1>2, <1>3, <1>7, <1>8 DEF IInv, TypeInv
<1>10. RulesFit'
  BY <1>1 DEF IInv, RulesFit
<1>11. DiagnosisFits'
  BY <1>1, <1>2, <1>6, <1>7, <1>8 DEF DiagnosisFits, Sources, a, b, c
<1>. QED  BY <1>1, <1>9, <1>10, <1>11 DEF IInv, WholeFits, OverviewInv, OverviewedNow

(* The overview shows the worst of the findings that cite a resource.         *)
LEMMA WorstShows ==
    ASSUME NEW fs, Graded(fs), NEW res
    PROVE  VitalFits(res, SeverityFor(res, fs), fs)
<1> DEFINE citing == {fs[i].severity : i \in {k \in DOMAIN fs : Cites(fs[k], res)}}
           all == {NoSeverity} \cup citing
<1>1. citing \subseteq 0 .. 2 /\ all \subseteq 0 .. 3
  BY DEF Graded, ToSet, NoSeverity, Crit, Warn, Info
<1>2. \A f \in ToSet(fs) : Cites(f, res) => f.severity \in citing
  BY DEF ToSet
<1>3. \A s \in citing : \E f \in ToSet(fs) : Cites(f, res) /\ f.severity = s
  BY DEF ToSet
<1>4. SeverityFor(res, fs) = Min(all)
  BY DEF SeverityFor
<1>5. NoSeverity \in all /\ NoSeverity = 3
  BY DEF NoSeverity
<1>. HIDE DEF citing
<1>6. \E x \in all : \A y \in all : x <= y
  <2>1. CASE 0 \in all
    BY <1>1, <2>1
  <2>2. CASE 0 \notin all /\ 1 \in all
    BY <1>1, <2>2
  <2>3. CASE 0 \notin all /\ 1 \notin all /\ 2 \in all
    BY <1>1, <2>3
  <2>4. CASE 0 \notin all /\ 1 \notin all /\ 2 \notin all
    BY <1>1, <1>5, <2>4
  <2>. QED  BY <2>1, <2>2, <2>3, <2>4
<1>7. Min(all) \in all /\ \A y \in all : Min(all) <= y
  <2>. HIDE DEF all
  <2>. QED  BY <1>6 DEF Min
<1>. QED  BY <1>2, <1>3, <1>4, <1>7 DEF VitalFits

(* The findings about rule files join the others before the overview is made  *)
(* (cli/mod.rs:1445).                                                         *)
LEMMA OverviewStep ==
    ASSUME IInv, Overview PROVE IInv'
<1> DEFINE fs == report.findings \o loadFindings
<1>1. /\ ~Written /\ ~Written' /\ pc = "overview" /\ pc' = "profile" /\ LoadedNow /\ DiagnosedNow
      /\ UNCHANGED <<opts, userDir, rules, loadFindings, signals, file, code>>
  BY DEF Overview, IInv, WholeFits, Written, LoadedNow, DiagnosedNow, inputs
<1>2. report' = [report EXCEPT !.findings = fs, !.vitals = VitalSigns(signals, fs),
                               !.coverage = Coverage(results)]
  BY DEF Overview
<1>3. Graded(loadFindings)
  BY <1>1, LoadingTold DEF IInv, RulesFit
<1>4. Graded(fs) /\ ToSet(fs) = ToSet(report.findings) \cup ToSet(loadFindings)
  BY <1>3, ConcatGraded DEF IInv, TypeInv
<1>. HIDE DEF fs
<1>5. report' = [findings |-> fs, checkedOk |-> report.checkedOk, thresholds |-> report.thresholds,
                 vitals |-> VitalSigns(signals, fs), coverage |-> Coverage(results)]
  BY <1>2 DEF IInv, TypeInv
<1>6. TypeInv'
  BY <1>1, <1>4, <1>5 DEF IInv, TypeInv
<1>7. RulesFit'
  BY <1>1 DEF IInv, RulesFit
<1>8. Sources' = Sources
  BY <1>1 DEF Sources, ProfileFindings, Profiles
<1>9. DiagnosisFits'
  <2>1. ToSet(loadFindings) \subseteq Sources
    BY DEF Sources
  <2>. QED  BY <1>1, <1>4, <1>5, <1>8, <2>1 DEF IInv, DiagnosisFits
<1>10. OverviewInv'
  <2>1. \A res \in Resources : VitalFits(res, VitalSigns(signals, fs)[res].severity, fs)
    BY <1>4, WorstShows DEF VitalSigns
  <2>. QED  BY <1>1, <1>4, <1>5, <2>1 DEF OverviewInv
<1>. QED  BY <1>1, <1>6, <1>7, <1>9, <1>10 DEF IInv, WholeFits

(* What --profile-cpu adds cites nothing (cli/mod.rs, generate_report).       *)
LEMMA ProfileStep ==
    ASSUME IInv, ProfileCpu PROVE IInv'
<1>1. /\ ~Written /\ ~Written' /\ pc = "profile" /\ pc' = "write"
      /\ LoadedNow /\ DiagnosedNow /\ OverviewedNow
      /\ UNCHANGED <<opts, userDir, rules, loadFindings, signals, file, code>>
  BY DEF ProfileCpu, IInv, WholeFits, Written, LoadedNow, DiagnosedNow, OverviewedNow, inputs
<1>2. PICK more \in ProfileFindings : report' = [report EXCEPT !.findings = report.findings \o more]
  BY DEF ProfileCpu
<1>3. Graded(more) /\ \A f \in ToSet(more) : f.evidence = <<>>
  <2> DEFINE f == Finding(<<"profile", "cpu", "unavailable">>, "rule", Info, <<>>)
             g == Finding(<<"profile", "flamegraph", "error">>, "rule", Warn, <<>>)
  <2>1. more = <<>> \/ more = <<f>> \/ more = <<g>>
    BY DEF ProfileFindings
  <2>2. /\ f.evidence = <<>> /\ f.severity \in {Crit, Warn, Info}
        /\ g.evidence = <<>> /\ g.severity \in {Crit, Warn, Info}
    BY DEF Finding
  <2>. HIDE DEF f, g
  <2>3. ASSUME NEW x PROVE IsVector(<<x>>) /\ ToSet(<<x>>) = {x}
    <3>1. <<x>> \in Seq({x}) /\ DOMAIN <<x>> = {1} /\ <<x>>[1] = x
      OBVIOUS
    <3>. QED  BY <3>1, VectorElements DEF ToSet
  <2>. QED  BY <2>1, <2>2, <2>3, EmptyVector DEF Graded
<1> DEFINE fs == report.findings \o more
<1>4. Graded(fs) /\ ToSet(fs) = ToSet(report.findings) \cup ToSet(more)
  BY <1>3, ConcatGraded DEF IInv, TypeInv
<1>. HIDE DEF fs
<1>5. report' = [findings |-> fs, checkedOk |-> report.checkedOk, thresholds |-> report.thresholds,
                 vitals |-> report.vitals, coverage |-> report.coverage]
  BY <1>2 DEF IInv, TypeInv, fs
<1>6. TypeInv'
  BY <1>1, <1>4, <1>5 DEF IInv, TypeInv
<1>7. RulesFit'
  BY <1>1 DEF IInv, RulesFit
<1>8. Sources' = Sources
  BY <1>1 DEF Sources, ProfileFindings, Profiles
<1>9. DiagnosisFits'
  <2>1. ToSet(more) \subseteq Sources
    BY DEF Sources
  <2>. QED  BY <1>1, <1>4, <1>5, <1>8, <2>1 DEF IInv, DiagnosisFits
<1>10. OverviewInv'
  <2>1. \A f \in ToSet(more) : \A res : ~Cites(f, res)
    BY <1>3 DEF Cites
  <2>2. ASSUME NEW res \in Resources PROVE VitalFits(res, report.vitals[res].severity, fs)
    <3>1. VitalFits(res, report.vitals[res].severity, report.findings)
      BY <1>1 DEF IInv, OverviewInv
    <3>. QED  BY <1>4, <2>1, <3>1 DEF VitalFits
  <2>3. ToSet(loadFindings) \subseteq ToSet(report.findings)
    BY <1>1 DEF IInv, OverviewInv
  <2>. QED  BY <1>1, <1>4, <1>5, <2>2, <2>3 DEF OverviewInv
<1>. QED  BY <1>1, <1>6, <1>7, <1>9, <1>10 DEF IInv, WholeFits

(* The report is written, and the run ends with its exit code.                *)
LEMMA EndSteps ==
    ASSUME IInv, Write \/ Exit PROVE IInv'
<1>1. UNCHANGED <<opts, userDir, rules, loadFindings, signals, report>>
  BY DEF Write, Exit, inputs
<1>2. \/ /\ pc = "write" /\ pc' = "append" /\ code' = code /\ ~Written
         /\ file' = [state |-> "whole", report |-> report, signals |-> signals]
      \/ /\ pc = "exit" /\ pc' = "done" /\ file' = file /\ Written
         /\ code' = ExitCode(opts.exitOn, report.findings)
  BY DEF Write, Exit, IInv, WholeFits
<1>3. /\ file' = [state |-> file'.state, report |-> file'.report, signals |-> file'.signals]
      /\ file'.report = report /\ file'.signals = signals /\ Written'
  BY <1>2 DEF IInv, TypeInv, WholeFits, Written
<1>4. Quiet
  BY <1>1, <1>2, <1>3 DEF Quiet, LoadedNow, DiagnosedNow, OverviewedNow
<1>5. WholeFits'
  BY <1>1, <1>2, <1>3 DEF IInv, WholeFits
<1>. QED  BY <1>4, <1>5, QuietStep

(* Every step keeps the inductive invariant.                                  *)
LEMMA NextInvariant == IInv /\ [Next]_vars => IInv'
<1> SUFFICES ASSUME IInv, [Next]_vars PROVE IInv'
  OBVIOUS
<1>1. CASE UNCHANGED vars
  <2>1. UNCHANGED <<pc, opts, userDir, rules, loadFindings, signals, report, file, code>>
    BY <1>1 DEF vars, inputs
  <2>2. WholeFits' /\ Quiet
    BY <2>1 DEF IInv, WholeFits, TypeInv, Quiet, LoadedNow, DiagnosedNow, OverviewedNow, Written
  <2>. QED  BY <2>2, QuietStep
<1>. QED  BY <1>1, GivesUp, GoesOn, LoadRulesStep, SignalSteps, DiagnoseStep, OverviewStep,
             ProfileStep, EndSteps DEF Next, Done

(* The inductive invariant holds in every reachable state.                    *)
LEMMA InvariantHolds == Spec => []IInv
<1>. QED  BY InitInvariant, NextInvariant, PTL DEF Spec

-------------------------------------------------------------------------------
(* What a report says.                                                        *)

(* A script can rely on the exit code: it tells of a whole report with or      *)
(* without a finding of the level asked for, and of an error only when there  *)
(* is no whole report (cli/mod.rs, main and compute_exit_code).               *)
THEOREM ExitCodeRight == Spec => []ExitCodeFits
<1>1. IInv => ExitCodeFits
  <2> SUFFICES ASSUME IInv PROVE ExitCodeFits
    OBVIOUS
  <2>1. CASE ~Written
    BY <2>1 DEF IInv, WholeFits, ExitCodeFits, Written, Running
  <2>2. CASE Written /\ pc # "done"
    BY <2>2 DEF IInv, WholeFits, ExitCodeFits, Written, Running
  <2>3. CASE Written /\ pc = "done"
    <3> DEFINE fs == report.findings
    <3>1. code = ExitCode(opts.exitOn, fs) /\ Shown = ToSet(fs) /\ file.state = "whole"
      BY <2>3 DEF IInv, WholeFits, Shown, Written
    <3>2. Graded(fs) /\ opts.exitOn \in {"never", "info", "warn", "crit"}
      BY DEF IInv, TypeInv
    <3>. HIDE DEF fs
    <3>3. \A i \in DOMAIN fs : fs[i] \in ToSet(fs) /\ fs[i].severity \in {0, 1, 2}
      BY <3>2 DEF Graded, ToSet, Crit, Warn, Info
    <3>4. \A f \in ToSet(fs) : \E i \in DOMAIN fs : fs[i] = f
      BY DEF ToSet
    <3>5. fs # <<>> <=> \E f : f \in ToSet(fs)
      <4>1. Len(fs) \in Nat /\ DOMAIN fs = 1 .. Len(fs) /\ fs \in Seq({fs[i] : i \in DOMAIN fs})
        BY <3>2, VectorElements DEF Graded
      <4>2. fs # <<>> => 1 \in DOMAIN fs
        BY <4>1
      <4>. QED  BY <3>3, <4>2, EmptyVector
    <3>6. (\E i \in DOMAIN fs : fs[i].severity <= Warn) <=>
              \E f \in ToSet(fs) : f.severity \in {Warn, Crit}
      BY <3>3, <3>4 DEF Crit, Warn
    <3>7. (\E i \in DOMAIN fs : fs[i].severity <= Crit) <=> \E f \in ToSet(fs) : f.severity = Crit
      BY <3>3, <3>4 DEF Crit
    <3>8. (\E i \in DOMAIN fs : fs[i].severity <= Info) <=> \E f : f \in ToSet(fs)
      BY <3>3, <3>4 DEF Info
    <3>9. CASE opts.exitOn = "never"
      BY <3>1, <3>9 DEF ExitCode, ExitCodeFits, AtLevel
    <3>10. CASE opts.exitOn = "info"
      BY <3>1, <3>8, <3>10 DEF ExitCode, ExitCodeFits, AtLevel
    <3>11. CASE opts.exitOn = "warn"
      BY <3>1, <3>6, <3>11 DEF ExitCode, ExitCodeFits, AtLevel
    <3>12. CASE opts.exitOn = "crit"
      BY <3>1, <3>7, <3>12 DEF ExitCode, ExitCodeFits, AtLevel
    <3>. QED  BY <3>2, <3>9, <3>10, <3>11, <3>12
  <2>. QED  BY <2>1, <2>2, <2>3
<1>. QED  BY <1>1, InvariantHolds, PTL

(* The overview and the findings below it tell the same (analysis.rs,          *)
(* compute_vital_signs; cli/mod.rs:1445).                                     *)
THEOREM OverviewTells == Spec => []OverviewFits
<1>1. IInv => OverviewFits
  <2> SUFFICES ASSUME IInv, Written, NEW res \in Resources
      PROVE  VitalFits(res, file.report.vitals[res].severity, file.report.findings)
    BY DEF OverviewFits, VitalFits, Cites, Shown, Written
  <2>. QED  BY DEF IInv, WholeFits, OverviewInv, OverviewedNow
<1>. QED  BY <1>1, InvariantHolds, PTL

(* What a report says was checked was there, and no rule is passed over       *)
(* (rule/mod.rs, run_rules and checked_ok).                                   *)
THEOREM RulesAnswer == Spec => []EveryRuleAnswers
<1>1. IInv => EveryRuleAnswers
  <2> SUFFICES ASSUME IInv, Written PROVE EveryRuleAnswers
    BY DEF EveryRuleAnswers, Written
  <2>1. /\ AreRules(rules) /\ AreSignals(signals) /\ file.signals = signals /\ file.report = report
        /\ report.checkedOk = CheckedOk(rules, signals, Cpus)
        /\ ToSet(RunRules(rules, signals, Cpus)) \subseteq ToSet(report.findings)
    BY DEF IInv, TypeInv, WholeFits, DiagnosisFits, DiagnosedNow
  <2>2. Ids = IdsOf(signals) /\ Shown = ToSet(report.findings)
    BY <2>1 DEF Ids, IdsOf, Shown
  <2>3. \A id : Index(signals, id) # 0 <=> id \in Ids
    BY <2>1, <2>2, IndexFits DEF AreSignals
  <2>4. report.checkedOk \subseteq Ids \cup {CpuCount}
    BY <2>1, <2>3 DEF CheckedOk
  <2>5. ASSUME NEW r \in ToSet(rules)
        PROVE  \/ r.id \in {f.id : f \in Shown}
               \/ ToSet(r.evidence) \cap (Ids \cup {CpuCount}) \subseteq report.checkedOk
    <3>1. CASE Evaluate(r.when, signals, Cpus)
      <4>1. PICK f \in ToSet(RunRules(rules, signals, Cpus)) : f.id = r.id
        BY <2>1, <3>1, RulesFire
      <4>. QED  BY <2>1, <2>2, <4>1
    <3>2. CASE ~Evaluate(r.when, signals, Cpus)
      <4>1. ASSUME NEW id \in ToSet(r.evidence), id \in Ids \cup {CpuCount}
            PROVE  id \in CheckedOk(rules, signals, Cpus)
        <5>1. id \in UNION {ToSet(q.evidence) :
                              q \in {p \in ToSet(rules) : ~Evaluate(p.when, signals, Cpus)}}
          BY <3>2
        <5>2. Index(signals, id) # 0 \/ id = CpuCount
          BY <2>3, <4>1
        <5>. QED  BY <5>1, <5>2 DEF CheckedOk
      <4>. QED  BY <2>1, <4>1
    <3>. QED  BY <3>1, <3>2
  <2>. QED  BY <2>1, <2>4, <2>5 DEF EveryRuleAnswers
<1>. QED  BY <1>1, InvariantHolds, PTL

(* No rule or pattern fires on what is not there, whatever failed to be        *)
(* collected (rule/mod.rs, evaluate; pattern/mod.rs).                         *)
THEOREM FiresOnPresent == Spec => []FiresOnlyOnPresent
<1>1. IInv => FiresOnlyOnPresent
  <2> DEFINE grounded(t) == Present(t.path) /\ (t.to = <<>> \/ Present(t.to))
             grounds(when) ==
                IF \A i \in DOMAIN when.rest : when.rest[i].and
                THEN \A t \in ToSet(Terms(when)) : grounded(t)
                ELSE \E t \in ToSet(Terms(when)) : grounded(t)
             all == ToSet(rules) \cup ToSet(Patterns)
             own == ToSet(OutlierFindings(file.signals)) \cup ToSet(loadFindings)
                    \cup UNION {ToSet(fs) : fs \in ProfileFindings}
  <2> SUFFICES ASSUME IInv, Written, NEW f \in Shown, f \notin own
               PROVE  \E r \in all : r.id = f.id /\ grounds(r.when)
    BY DEF FiresOnlyOnPresent, Written
  <2>1. /\ AreRules(rules) /\ AreSignals(signals) /\ file.signals = signals /\ file.report = report
        /\ ToSet(report.findings) \subseteq Sources
    BY DEF IInv, TypeInv, WholeFits, DiagnosisFits, DiagnosedNow
  <2>2. ASSUME NEW path, PresentIn(path, signals) PROVE Present(path)
    BY <2>1, <2>2 DEF Present, PresentIn, Ids, IdsOf
  <2>3. \/ f \in ToSet(RunRules(rules, signals, Cpus))
        \/ f \in ToSet(RunPatterns(Patterns, signals, Cpus))
    BY <2>1 DEF Shown, Sources
  <2>4. PICK r \in all : Evaluate(r.when, signals, Cpus) /\ f.id = r.id
    BY <2>1, <2>3, RulesFire, PatternsFire, RulesAssumption
  <2>5. IsVector(r.when.rest)
    BY <2>1, RulesAssumption DEF AreRules
  <2>6. ASSUME NEW t, EvaluateTerm(t, signals, Cpus) PROVE grounded(t)
    <3>1. PresentIn(t.path, signals) /\ (t.to = <<>> \/ PresentIn(t.to, signals))
      BY <2>1, <2>6, TrueIsPresent DEF AreSignals
    <3>. QED  BY <2>2, <3>1
  <2>. HIDE DEF grounded
  <2>7. grounds(r.when)
    <3>1. CASE \A i \in DOMAIN r.when.rest : r.when.rest[i].and
      BY <2>4, <2>5, <2>6, <3>1, EvaluateFits
    <3>2. CASE ~ \A i \in DOMAIN r.when.rest : r.when.rest[i].and
      BY <2>4, <2>5, <2>6, <3>2, EvaluateFits
    <3>. QED  BY <3>1, <3>2
  <2>. HIDE DEF grounds
  <2>. QED  BY <2>4, <2>7
<1>. QED  BY <1>1, InvariantHolds, PTL

(* The threshold shown for a signal is the foremost of the comparisons with a  *)
(* number, for any number of rules of any length (rule/mod.rs,                *)
(* signal_thresholds).                                                        *)
THEOREM ThresholdsTold == Spec => []ThresholdsFit
<1>1. IInv => ThresholdsFit
  <2> SUFFICES ASSUME IInv, Written PROVE ThresholdsFit
    BY DEF ThresholdsFit, Written
  <2> DEFINE shown == file.report.thresholds
  <2>1. AreRules(rules) /\ shown = Thresholds(rules)
    BY DEF IInv, TypeInv, WholeFits, DiagnosisFits, DiagnosedNow
  <2>2. ShowsForemost(shown, rules, Places(rules))
    BY <2>1, ThresholdsShow
  <2>. HIDE DEF shown
  <2>3. DOMAIN shown = {TermAt(rules, at).path : at \in Places(rules)}
    BY <2>2 DEF ShowsForemost
  <2>4. ASSUME NEW at \in Places(rules),
               \A other \in Places(rules) \ {at} :
                  TermAt(rules, other).path = TermAt(rules, at).path => Outdoes(rules, at, other)
        PROVE  shown[TermAt(rules, at).path] = Threshold(TermAt(rules, at), SeverityAt(rules, at))
    <3> DEFINE p == TermAt(rules, at).path
    <3>1. PICK a \in Places(rules) :
              /\ TermAt(rules, a).path = p
              /\ shown[p] = Threshold(TermAt(rules, a), SeverityAt(rules, a))
              /\ \A b \in Places(rules) : TermAt(rules, b).path = p => b = a \/ Outdoes(rules, a, b)
      BY <2>2 DEF ShowsForemost
    <3>2. ASSUME a # at PROVE FALSE
      <4>1. Outdoes(rules, at, a) /\ Outdoes(rules, a, at)
        BY <2>4, <3>1, <3>2
      <4>2. /\ SeverityAt(rules, a) \in Nat /\ a[1] \in Nat /\ a[2] \in Nat
            /\ SeverityAt(rules, at) \in Nat /\ at[1] \in Nat /\ at[2] \in Nat
        BY <2>1, PlacesTyped
      <4>. QED  BY <4>1, <4>2 DEF Outdoes
    <3>. QED  BY <3>1, <3>2
  <2> DEFINE numeric(r) == {k \in DOMAIN Terms(r.when) :
                               Terms(r.when)[k].to = <<>> /\ Terms(r.when)[k].value.type = "number"}
             places == UNION {{i} \X numeric(rules[i]) : i \in DOMAIN rules}
             term(at) == Terms(rules[at[1]].when)[at[2]]
             severity(at) == rules[at[1]].severity
             before(a, b) ==
                 \/ severity(a) < severity(b)
                 \/ severity(a) = severity(b) /\ (a[1] < b[1] \/ (a[1] = b[1] /\ a[2] < b[2]))
  <2>5. places = Places(rules)
    BY DEF Places, WithNumber
  <2>6. ASSUME NEW a, NEW b
        PROVE  /\ term(a) = TermAt(rules, a) /\ severity(a) = SeverityAt(rules, a)
               /\ before(a, b) <=> Outdoes(rules, a, b)
    BY DEF TermAt, SeverityAt, Outdoes
  <2>. HIDE DEF places, term, severity, before
  <2>7. DOMAIN shown = {term(at).path : at \in places}
    BY <2>3, <2>5, <2>6
  <2>8. ASSUME NEW at \in places,
               \A other \in places \ {at} : term(other).path = term(at).path => before(at, other)
        PROVE  /\ shown[term(at).path].op = term(at).op
               /\ shown[term(at).path].value = term(at).value.v
               /\ shown[term(at).path].severity = severity(at)
    <3>1. shown[term(at).path] = Threshold(term(at), severity(at))
      BY <2>4, <2>5, <2>6, <2>8
    <3>. QED  BY <3>1 DEF Threshold
  <2>. QED  BY <2>7, <2>8 DEF ThresholdsFit, shown, places, term, severity, before
<1>. QED  BY <1>1, InvariantHolds, PTL

(* A file of the user that cannot be used is told of and costs no other rule   *)
(* (rule/mod.rs, RulesLoader::load: "malformed user files do NOT poison       *)
(* built-ins").                                                               *)
THEOREM BadFileIsLocal == Spec => []BadRuleFileIsLocal
<1>1. IInv => BadRuleFileIsLocal
  <2> SUFFICES ASSUME IInv, Written PROVE BadRuleFileIsLocal
    BY DEF BadRuleFileIsLocal, Written
  <2>1. /\ userDir \in UserDirs /\ loadFindings = LoadFindings(userDir)
        /\ ToSet(loadFindings) \subseteq Shown
    BY DEF IInv, WholeFits, RulesFit, OverviewInv, LoadedNow, OverviewedNow, Shown
  <2>2. PICK extra \in ExtraRules : rules = Builtins \o UserRules(userDir) \o extra
    BY DEF IInv, RulesFit, LoadedNow
  <2>3. /\ ToSet(Builtins) \subseteq ToSet(rules)
        /\ \A i \in DOMAIN userDir.files : ~IsBad(userDir.files[i]) =>
              ToSet(userDir.files[i].rules) \subseteq ToSet(rules)
    BY <2>1, <2>2, RulesLoaded
  <2>4. /\ \A i \in DOMAIN userDir.files : IsBad(userDir.files[i]) =>
              \E f \in Shown : f.id = <<"rules", userDir.files[i].state>> /\ f.severity = Warn
        /\ userDir.state = "unreadable" =>
              \E f \in Shown : f.id = <<"rules", "user_dir_unreadable">>
    BY <2>1, LoadingTold
  <2>. QED  BY <2>3, <2>4 DEF BadRuleFileIsLocal
<1>. QED  BY <1>1, InvariantHolds, PTL

-------------------------------------------------------------------------------
(* The diff.                                                                  *)

(* By id, the last of an id stays (diff.rs).                                  *)
LEMMA LastStays ==
    ASSUME NEW s, IsVector(s)
    PROVE  /\ DOMAIN LastById(s) = IdsOf(s)
           /\ \A id \in IdsOf(s) : LastById(s)[id] = s[Index(s, id)]
<1>1. {e.id : e \in ToSet(s)} = IdsOf(s)
  BY DEF ToSet, IdsOf
<1>. QED  BY <1>1 DEF LastById, Index

(* Of the numbers, that which the rules see: that of the last signal of the    *)
(* id, if that one is a number (diff.rs; rule/mod.rs:232).                    *)
LEMMA NumbersSeen ==
    ASSUME NEW s, IsVector(s), NEW id \in IdsOf(s), s[Index(s, id)].value.type = "number"
    PROVE  id \in DOMAIN Numbers(s) /\ Numbers(s)[id] = s[Index(s, id)].value.v
<1> DEFINE S == {i \in DOMAIN s : s[i].value.type = "number"}
           p == Pick(s, S)
           i == Index(s, id)
           j == Index(p, id)
           n == Cardinality(S)
<1>1. Len(s) \in Nat /\ DOMAIN s = 1 .. Len(s) /\ s \in Seq({s[k] : k \in DOMAIN s})
  BY VectorElements
<1>2. S \in SUBSET (1 .. Len(s)) /\ S \in SUBSET DOMAIN s
  BY <1>1
<1>3. i \in S /\ s[i].id = id /\ \A k \in DOMAIN s : s[k].id = id => k <= i
  BY IndexFits
<1>4. IsVector(p) /\ DOMAIN p = 1 .. n
  BY <1>2, PickSet DEF Pick
<1>5. \A k \in 1 .. n : Nth(S, k) \in S /\ p[k] = s[Nth(S, k)]
  BY <1>1, <1>2, PickTyped
<1>6. PICK k \in 1 .. n : Nth(S, k) = i
  <2>1. [h \in 1 .. n |-> Nth(S, h)] \in Bijection(1 .. n, S)
    BY <1>1, <1>2, NthBijection
  <2>2. PICK h \in 1 .. n : [x \in 1 .. n |-> Nth(S, x)][h] = i
    BY <1>3, <2>1 DEF Bijection, Surjection
  <2>. QED  BY <2>2
<1>7. Numbers(s) = [x \in DOMAIN LastById(p) |-> LastById(p)[x].value.v]
  BY DEF Numbers
<1>. HIDE DEF S, p, i
<1>8. k \in DOMAIN p /\ p[k].id = id
  BY <1>3, <1>4, <1>5, <1>6
<1>9. id \in IdsOf(p)
  BY <1>8 DEF IdsOf
<1>10. j \in DOMAIN p /\ p[j].id = id /\ k <= j
  BY <1>4, <1>8, <1>9, IndexFits
<1>. HIDE DEF j
<1>11. Nth(S, j) <= i
  <2>1. Nth(S, j) \in DOMAIN s /\ s[Nth(S, j)].id = id
    BY <1>2, <1>4, <1>5, <1>10
  <2>. QED  BY <1>3, <2>1
<1>12. j = k
  <2>1. k < j => Nth(S, k) < Nth(S, j)
    BY <1>1, <1>2, <1>4, <1>10, NthAscends
  <2>2. Cardinality(S) \in Nat /\ \A h \in S : h \in Nat
    BY <1>1, <1>2, NumbersFinite
  <2>. QED  BY <1>3, <1>4, <1>5, <1>6, <1>10, <1>11, <2>1, <2>2
<1>13. p[j] = s[i]
  BY <1>5, <1>6, <1>12
<1>14. id \in DOMAIN LastById(p) /\ LastById(p)[id] = p[j]
  BY <1>4, <1>9, LastStays DEF j
<1>. QED  BY <1>7, <1>13, <1>14 DEF i

(* The diff tells of what the rules of either report have seen, nothing of     *)
(* the same report, and the same both ways round (diff.rs).                   *)
THEOREM DiffTells == Spec => []DiffFits
<1>1. IInv => DiffFits
  <2> DEFINE this == [signals |-> file.signals, findings |-> file.report.findings]
             empty == [signals |-> <<>>, findings |-> <<>>]
             seen(rep, id) == rep.signals[Index(rep.signals, id)].value
  <2> SUFFICES ASSUME IInv, Written, NEW e \in Earlier
               PROVE  LET d == Diff(e, this)
                          back == Diff(this, e)
                          Both == {s.id : s \in ToSet(e.signals)} \cap Ids
                      IN  /\ \A id \in Both :
                                seen(e, id).type = "number" /\ seen(this, id).type = "number" =>
                                    IF id \in DOMAIN d.signalDeltas
                                    THEN seen(this, id).v = seen(e, id).v + d.signalDeltas[id]
                                    ELSE seen(this, id) = seen(e, id)
                          /\ d.findingsOnlyInB = {f.id : f \in Shown} \ {f.id : f \in ToSet(e.findings)}
                          /\ Diff(this, this) = Diff(empty, empty)
                          /\ d.signalsOnlyInA = back.signalsOnlyInB
                          /\ d.findingsOnlyInA = back.findingsOnlyInB
                          /\ DOMAIN d.severityChanged = DOMAIN back.severityChanged
    BY DEF DiffFits, Written
  <2> DEFINE na == Numbers(e.signals)
             nb == Numbers(this.signals)
             sa == Severities(e.findings)
             sb == Severities(this.findings)
             d == Diff(e, this)
             back == Diff(this, e)
  <2>1. AreSignals(e.signals) /\ AreSignals(this.signals)
    BY SignalsAssumption DEF IInv, TypeInv, WholeFits
  <2>2. Ids = IdsOf(this.signals) /\ {s.id : s \in ToSet(e.signals)} = IdsOf(e.signals)
    BY DEF Ids, IdsOf, ToSet
  <2>3. /\ d.signalDeltas = [id \in Changed(na, nb) |-> nb[id] - na[id]]
        /\ d.signalsOnlyInA = OnlyIn(na, nb) /\ back.signalsOnlyInB = OnlyIn(na, nb)
        /\ d.findingsOnlyInA = OnlyIn(sa, sb) /\ back.findingsOnlyInB = OnlyIn(sa, sb)
        /\ d.findingsOnlyInB = OnlyIn(sb, sa)
        /\ DOMAIN d.severityChanged = Changed(sa, sb)
        /\ DOMAIN back.severityChanged = Changed(sb, sa)
    BY DEF Diff
  <2>4. DOMAIN sb = {f.id : f \in Shown} /\ DOMAIN sa = {f.id : f \in ToSet(e.findings)}
    BY DEF Severities, LastById, Shown
  <2>5. ASSUME NEW a, NEW b
        PROVE  /\ OnlyIn(a, a) = {} /\ Changed(a, a) = {} /\ Changed(a, b) = Changed(b, a)
    BY DEF OnlyIn, Changed
  <2>6. ASSUME NEW x
        PROVE  Diff(x, x) = [signalsOnlyInA |-> {}, signalsOnlyInB |-> {},
                             signalDeltas |-> [id \in {} |-> id],
                             findingsOnlyInA |-> {}, findingsOnlyInB |-> {},
                             severityChanged |-> [id \in {} |-> id]]
    <3> DEFINE n == Numbers(x.signals)
               s == Severities(x.findings)
    <3>1. [id \in Changed(n, n) |-> n[id] - n[id]] = [id \in {} |-> id]
      BY <2>5
    <3>2. [id \in Changed(s, s) |-> <<s[id], s[id]>>] = [id \in {} |-> id]
      BY <2>5
    <3>3. Diff(x, x) = [signalsOnlyInA |-> OnlyIn(n, n), signalsOnlyInB |-> OnlyIn(n, n),
                        signalDeltas |-> [id \in Changed(n, n) |-> n[id] - n[id]],
                        findingsOnlyInA |-> OnlyIn(s, s), findingsOnlyInB |-> OnlyIn(s, s),
                        severityChanged |-> [id \in Changed(s, s) |-> <<s[id], s[id]>>]]
      BY DEF Diff
    <3>. QED  BY <2>5, <3>1, <3>2, <3>3
  <2>. HIDE DEF this, empty
  <2>7. ASSUME NEW id \in IdsOf(e.signals) \cap IdsOf(this.signals),
               seen(e, id).type = "number", seen(this, id).type = "number"
        PROVE  IF id \in DOMAIN d.signalDeltas
               THEN seen(this, id).v = seen(e, id).v + d.signalDeltas[id]
               ELSE seen(this, id) = seen(e, id)
    <3>1. /\ id \in DOMAIN na /\ na[id] = seen(e, id).v
          /\ id \in DOMAIN nb /\ nb[id] = seen(this, id).v
      BY <2>1, <2>7, NumbersSeen DEF AreSignals
    <3>2. ASSUME NEW s, AreSignals(s), id \in IdsOf(s)
          PROVE  s[Index(s, id)] \in ToSet(s)
      BY <3>2, IndexFits DEF AreSignals, ToSet
    <3>3. /\ e.signals[Index(e.signals, id)] \in ToSet(e.signals)
          /\ this.signals[Index(this.signals, id)] \in ToSet(this.signals)
      BY <2>1, <3>2
    <3>4. /\ seen(e, id) = [type |-> seen(e, id).type, v |-> seen(e, id).v]
          /\ seen(this, id) = [type |-> seen(this, id).type, v |-> seen(this, id).v]
          /\ seen(e, id).v \in Int /\ seen(this, id).v \in Int
      BY <2>1, <2>7, <3>3 DEF AreSignals
    <3>. HIDE DEF seen, na, nb, d
    <3>5. id \in Changed(na, nb) <=> na[id] # nb[id]
      BY <3>1 DEF Changed
    <3>6. CASE na[id] = nb[id]
      BY <2>3, <2>7, <3>1, <3>4, <3>5, <3>6
    <3>7. CASE na[id] # nb[id]
      <4>1. id \in DOMAIN d.signalDeltas /\ d.signalDeltas[id] = nb[id] - na[id]
        BY <2>3, <3>5, <3>7
      <4>. QED  BY <3>1, <3>4, <4>1
    <3>. QED  BY <3>6, <3>7
  <2>8. d.findingsOnlyInB = {f.id : f \in Shown} \ {f.id : f \in ToSet(e.findings)}
    BY <2>3, <2>4 DEF OnlyIn
  <2>9. Diff(this, this) = Diff(empty, empty)
    BY <2>6
  <2>. HIDE DEF seen, d, back
  <2>. QED  BY <2>2, <2>3, <2>5, <2>7, <2>8, <2>9 DEF d, back
<1>. QED  BY <1>1, InvariantHolds, PTL

===============================================================================
