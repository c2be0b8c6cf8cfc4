--------------------------- MODULE CollectorsProofs ---------------------------
(* Proofs about Collectors, for any disks and interfaces, any loads, any      *)
(* durations and any number of things that happen in a window: what is        *)
(* reported of a window is what was counted in it or less, the samples cover  *)
(* the run, and shares of a time exceed the whole of it at most by what a     *)
(* counter went back.  The signals and                                        *)
(* the properties add up over sets: that such a sum counts pairs, and that    *)
(* sums compare and add, is in PositionsProofs.                               *)
EXTENDS Collectors, PositionsProofs

-------------------------------------------------------------------------------
(* The shares of the CPU time.                                                *)

Shown == {Cpu("user"), Cpu("idle"), Cpu("iowait")}

(* The sum over the shares of the CPU time, and with what is none of them.     *)
LEMMA SumOfShares ==
    ASSUME NEW f, \A c \in Shown : f[c] \in Nat
    PROVE  LET shares == f[Cpu("user")] + f[Cpu("idle")] + f[Cpu("iowait")]
           IN  /\ Sum(f, Shown) = shares
               /\ f[Cpu("other")] \in Nat =>
                     Sum(f, Shown \cup {Cpu("other")}) = f[Cpu("other")] + shares
<1> DEFINE a == Cpu("user")
           b == Cpu("idle")
           c == Cpu("iowait")
           d == Cpu("other")
<1>0. /\ a # b /\ a # c /\ b # c /\ d \notin {a, b, c} /\ Shown = {a, b, c}
      /\ f[a] \in Nat /\ f[b] \in Nat /\ f[c] \in Nat
  BY DEF Shown, Cpu
<1>. HIDE DEF a, b, c, d
<1>1. IsFiniteSet({}) /\ Sum(f, {}) = 0
  BY FS_EmptySet, SumOfNone
<1>2. IsFiniteSet({a}) /\ Sum(f, {a}) = f[a]
  <2>1. {} \cup {a} = {a} /\ a \notin {} /\ \A i \in {} \cup {a} : f[i] \in Nat
    BY <1>0
  <2>2. IsFiniteSet({} \cup {a}) /\ Sum(f, {} \cup {a}) = f[a] + Sum(f, {})
    BY <1>1, <2>1, SumAdds
  <2>. QED  BY <1>1, <2>1, <2>2
<1>3. IsFiniteSet({a, b}) /\ Sum(f, {a, b}) = f[a] + f[b]
  <2>1. {a} \cup {b} = {a, b} /\ b \notin {a} /\ \A i \in {a} \cup {b} : f[i] \in Nat
    BY <1>0
  <2>2. IsFiniteSet({a} \cup {b}) /\ Sum(f, {a} \cup {b}) = f[b] + Sum(f, {a})
    BY <1>2, <2>1, SumAdds
  <2>3. IsFiniteSet({a, b}) /\ Sum(f, {a, b}) = f[b] + Sum(f, {a})
    BY <2>1, <2>2, Zenon
  <2>. QED  BY <1>0, <1>2, <2>3
<1>4. IsFiniteSet({a, b, c}) /\ Sum(f, {a, b, c}) = f[a] + f[b] + f[c]
  <2>1. {a, b} \cup {c} = {a, b, c} /\ c \notin {a, b} /\ \A i \in {a, b} \cup {c} : f[i] \in Nat
    BY <1>0
  <2>2. IsFiniteSet({a, b} \cup {c}) /\ Sum(f, {a, b} \cup {c}) = f[c] + Sum(f, {a, b})
    BY <1>3, <2>1, SumAdds
  <2>3. IsFiniteSet({a, b, c}) /\ Sum(f, {a, b, c}) = f[c] + Sum(f, {a, b})
    BY <2>1, <2>2, Zenon
  <2>. QED  BY <1>0, <1>3, <2>3
<1>5. ASSUME f[d] \in Nat
      PROVE  Sum(f, {a, b, c} \cup {d}) = f[d] + (f[a] + f[b] + f[c])
  <2>1. d \notin {a, b, c} /\ \A i \in {a, b, c} \cup {d} : f[i] \in Nat
    BY <1>0, <1>5
  <2>. QED  BY <1>4, <2>1, SumAdds
<1>6. Sum(f, Shown) = f[a] + f[b] + f[c]
  BY <1>0, <1>4, Zenon
<1>7. f[d] \in Nat => Sum(f, Shown \cup {d}) = f[d] + (f[a] + f[b] + f[c])
  BY <1>0, <1>5, Zenon
<1>. QED  BY <1>6, <1>7, Zenon DEF a, b, c, d

-------------------------------------------------------------------------------
(* The inductive invariant.                                                   *)

(* What belongs to a disk or an interface comes and goes, all else is there.  *)
Fleeting == Dev \X {"ios", "time", "busy", "drops"}

(* What k shows are counters of the collector.                                *)
Holds(k) ==
    /\ DOMAIN k \subseteq Counters(which)
    /\ k \in [DOMAIN k -> Nat]
    /\ Counters(which) \ DOMAIN k \subseteq
          IF which \in {"disk", "network"} THEN Fleeting ELSE {}

Phases == {"begin", "sleep", "done", "panicked"}

TypeOK ==
    /\ which \in Collector
    /\ at \in Phases
    /\ left \in Int
    /\ ctx \in [on : BOOLEAN, duration : Nat, interval : Nat]
    /\ happened \in [Counters(which) -> Nat]
    /\ which = "cpu" => disturbed = {}
    /\ back \in Nat
    /\ lost \in Gaps
    /\ which # "cpu_macos" =>
          /\ Holds(kernel)
          /\ prev # Nothing => Holds(prev)
          /\ first # Nothing => Holds(first)

(* Nothing has happened before the first read.                                *)
Fresh ==
    /\ at = "begin" =>
          /\ happened = [c \in Counters(which) |-> 0]
          /\ disturbed = {} /\ back = 0 /\ lost = {}
          /\ first = Nothing /\ prev = Nothing /\ samples = Nothing
    /\ at = "sleep" /\ which = "cpu" => prev # Nothing

(* Nothing has made c vanish or appear since the last snapshot.               *)
Undisturbed(c) == c[1] \notin disturbed

(* How far c went back since then.                                            *)
Back(c) == IF c = Cpu("iowait") THEN back ELSE 0

(* What a counter shows is what it showed in the last snapshot and what was   *)
(* counted since, or less; one that the last snapshot lacks counted as 0.     *)
CounterFits(c) ==
    IF c \in lost THEN c \in DOMAIN prev \cap DOMAIN kernel /\ prev[c] = 0
    ELSE /\ c \in DOMAIN prev \cap DOMAIN kernel => kernel[c] <= prev[c] + happened[c]
         /\ Undisturbed(c) =>
               /\ c \in DOMAIN prev <=> c \in DOMAIN kernel
               /\ IF c \in DOMAIN kernel THEN kernel[c] = prev[c] + happened[c] - Back(c)
                  ELSE happened[c] = 0

WindowFits ==
    (at = "sleep" /\ prev # Nothing /\ which # "cpu_macos") =>
        \A c \in Counters(which) : CounterFits(c)

Fraction == [num : Nat, den : Nat]

SamplesTyped ==
    which = "cpu" /\ Cpu("ctxt") \in DOMAIN samples => samples[Cpu("ctxt")] \in Seq(Fraction)

Taken(s) == IF Cpu("ctxt") \in DOMAIN s THEN s[Cpu("ctxt")] ELSE <<>>
SumOfSamples(s) == FoldSeq(LAMBDA v, sum : v.num + sum, 0, s)

(* SamplesCoverTheRun, with names for its parts.                              *)
Cover ==
    (which = "cpu" /\ ctx.on /\ first # Nothing) =>
        /\ Len(Taken(samples)) + left = Windows(ctx)
        /\ SumOfSamples(Taken(samples)) = prev[Cpu("ctxt")] - first[Cpu("ctxt")]

IInv == TypeOK /\ Fresh /\ WindowFits /\ SamplesTyped /\ Cover

-------------------------------------------------------------------------------
(* What the definitions by cases say of each collector.                       *)

(* The counters of each collector (platform/mod.rs:15).                       *)
LEMMA CountersAre ==
    /\ which = "cpu" =>
          Counters(which) = {Cpu(n) : n \in {"user", "idle", "iowait", "other", "ctxt"}}
    /\ which = "cpu_macos" =>
          Counters(which) = {Mac(n) : n \in {"uptime", "cpus", "us", "sy", "id"}}
    /\ which = "disk" => Counters(which) = Dev \X {"ios", "time", "busy"}
    /\ which = "network" =>
          Counters(which) = {Net(n) : n \in {"out", "retrans", "fails"}} \cup Dev \X {"drops"}
    /\ which = "memory" => Counters(which) = {SwapIn}
BY Zenon DEF Counters

(* The signals of each collector.                                             *)
LEMMA SignalsAre ==
    ASSUME NEW a, NEW b
    PROVE  /\ which \in {"cpu", "cpu_macos"} => SignalsOf(a, b) = CpuSignals(a, b)
           /\ which = "disk" => SignalsOf(a, b) = DiskSignals(a, b)
           /\ which = "network" => SignalsOf(a, b) = NetSignals(a, b)
           /\ which = "memory" =>
                 SignalsOf(a, b) = [i \in DOMAIN a \cap DOMAIN b |-> Value(Delta(a, b, i), 1)]
<1>1. which \in {"cpu", "cpu_macos"} => SignalsOf(a, b) = CpuSignals(a, b)
  BY Zenon DEF SignalsOf
<1>2. which = "disk" => SignalsOf(a, b) = DiskSignals(a, b)
  BY Zenon DEF SignalsOf
<1>3. which = "network" => SignalsOf(a, b) = NetSignals(a, b)
  BY Zenon DEF SignalsOf
<1>4. which = "memory" =>
                 SignalsOf(a, b) = [i \in DOMAIN a \cap DOMAIN b |-> Value(Delta(a, b, i), 1)]
  BY Zenon DEF SignalsOf
<1>. QED  BY <1>1, <1>2, <1>3, <1>4

(* A difference is that of the two numbers, or 0.                             *)
LEMMA DeltaIs ==
    ASSUME NEW a, NEW b, NEW c, a[c] \in Nat, b[c] \in Nat
    PROVE  /\ Delta(a, b, c) \in Nat
           /\ a[c] <= b[c] => Delta(a, b, c) = b[c] - a[c]
           /\ b[c] <= a[c] => Delta(a, b, c) = 0
BY DEF Delta

(* A run is divided into a number of windows.                                 *)
LEMMA WindowsNat == ASSUME TypeOK PROVE Windows(ctx) \in Nat
<1> DEFINE d == ctx.duration
           i == ctx.interval
<1>1. d \in Nat /\ i \in Nat
  BY DEF TypeOK
<1>2. i > 0 => d \div i \in Nat
  <2>. HIDE DEF d, i
  <2>. QED  BY <1>1
<1>. QED  BY <1>1, <1>2 DEF Windows

(* What has been sampled so far, and after one window more.                   *)
LEMMA SamplesAdd ==
    /\ SumOfSamples(<<>>) = 0
    /\ \A s \in Seq(Fraction) : \A v \in Fraction :
          /\ s \o <<v>> \in Seq(Fraction) /\ Len(s \o <<v>>) = Len(s) + 1
          /\ SumOfSamples(s \o <<v>>) = SumOfSamples(s) + v.num
<1> DEFINE Num(s) == [i \in DOMAIN s |-> s[i].num]
<1>1. ASSUME NEW s PROVE SumOfSamples(s) = Sum(Num(s), DOMAIN s)
  <2> DEFINE S == DOMAIN s
             f == Num(s)
             L(it) == it = [T \in SUBSET S |->
                              IF T = {} THEN 0
                              ELSE s[CHOOSE x \in T : TRUE].num
                                      + it[T \ {CHOOSE x \in T : TRUE}]]
  <2>1. ASSUME NEW T \in SUBSET S, T # {}
        PROVE  f[CHOOSE x \in T : TRUE] = s[CHOOSE x \in T : TRUE].num
    <3>1. (CHOOSE x \in T : TRUE) \in S
      BY <2>1
    <3>. QED  BY <3>1
  <2>2. SumOfSamples(s) = (CHOOSE it : L(it))[S]
    BY Zenon DEF SumOfSamples, FoldSeq, FoldFunction, FoldFunctionOnSet, MapThenFoldSet
  <2>3. Sum(f, S) = (CHOOSE it : IsSum(it, f, S))[S]
    BY Zenon DEF Sum, MapThenSumSet, MapThenFoldSet, IsSum
  <2>. HIDE DEF f
  <2>4. ASSUME NEW it PROVE L(it) <=> IsSum(it, f, S)
    BY <2>1 DEF IsSum
  <2>5. (CHOOSE it : L(it)) = (CHOOSE it : IsSum(it, f, S))
    <3>. HIDE DEF L
    <3>. QED  BY <2>4
  <2>. QED  BY <2>2, <2>3, <2>5 DEF f
<1>2. SumOfSamples(<<>>) = 0
  <2>1. DOMAIN <<>> = {}
    OBVIOUS
  <2>. QED  BY <1>1, <2>1, SumOfNone, Zenon
<1>3. ASSUME NEW s \in Seq(Fraction), NEW v \in Fraction
      PROVE  /\ s \o <<v>> \in Seq(Fraction) /\ Len(s \o <<v>>) = Len(s) + 1
             /\ SumOfSamples(s \o <<v>>) = SumOfSamples(s) + v.num
  <2> DEFINE n == Len(s)
             t == s \o <<v>>
             S == 1 .. n
             x == n + 1
             f == Num(t)
  <2>1. /\ t \in Seq(Fraction) /\ Len(t) = n + 1 /\ n \in Nat /\ DOMAIN s = S
        /\ DOMAIN t = 1 .. x /\ t[x] = v /\ \A i \in S : t[i] = s[i]
    OBVIOUS
  <2>2. S \cup {x} = 1 .. x /\ x \notin S
    BY <2>1
  <2>3. \A i \in S \cup {x} : f[i] \in Nat
    <3>1. ASSUME NEW i \in 1 .. x PROVE f[i] \in Nat
      <4>1. t[i] \in Fraction
        BY <2>1
      <4>2. f[i] = t[i].num
        BY <2>1
      <4>. QED  BY <4>1, <4>2 DEF Fraction
    <3>. QED  BY <3>1, <2>2
  <2>4. f[x] = v.num /\ v.num \in Nat
    BY <2>1 DEF Fraction
  <2>5. IsFiniteSet(S)
    BY <2>1, FS_Interval
  <2>6. Sum(f, S) = Sum(Num(s), S)
    <3>1. \A i \in S : f[i] = Num(s)[i]
      BY <2>1
    <3>2. Pairs(f, S) = Pairs(Num(s), S)
      BY <3>1 DEF Pairs
    <3>3. \A i \in S : f[i] \in Nat /\ Num(s)[i] \in Nat
      BY <2>3, <3>1
    <3>4. Sum(f, S) = Cardinality(Pairs(f, S)) /\ Sum(Num(s), S) = Cardinality(Pairs(Num(s), S))
      <4>. HIDE DEF f, Num, S
      <4>. QED  BY <2>5, <3>3, SumIsCount
    <3>. QED  BY <3>2, <3>4
  <2>. HIDE DEF f, S, x
  <2>7. Sum(f, S \cup {x}) = f[x] + Sum(f, S) /\ Sum(f, S) \in Nat
    BY <2>2, <2>3, <2>5, SumAdds
  <2>8. SumOfSamples(t) = Sum(f, S \cup {x})
    BY <1>1, <2>1, <2>2 DEF f
  <2>9. SumOfSamples(s) = Sum(f, S)
    BY <1>1, <2>1, <2>6
  <2>. QED  BY <2>1, <2>4, <2>7, <2>8, <2>9
<1>. QED  BY <1>2, <1>3

-------------------------------------------------------------------------------
(* The invariant is inductive.                                                *)

(* What a snapshot may lack, of each collector.                               *)
LEMMA GapsAre ==
    /\ {} \in Gaps
    /\ which \in {"cpu", "disk"} => Gaps = {{}}
    /\ which = "memory" => Gaps \subseteq {{}, {SwapIn}}
    /\ which = "network" => Gaps \subseteq {{}, {Net(n) : n \in {"out", "retrans", "fails"}}}
<1> DEFINE T == {Net(n) : n \in {"out", "retrans", "fails"}}
           U == {Mac("uptime")}
           V == {Mac("cpus")}
           W == {Mac("uptime"), Mac("cpus")}
<1>1. Gaps = {{}} \cup {g \in {T, {SwapIn}, U, V, W} :
                          which \in Lossy /\ g \subseteq Counters(which)}
  BY Zenon DEF Gaps
<1>2. Net("out") \in T /\ Mac("uptime") \in U /\ Mac("cpus") \in V /\ Mac("uptime") \in W
  OBVIOUS
<1>3. which \in {"cpu", "disk"} =>
         /\ Net("out") \notin Counters(which) /\ SwapIn \notin Counters(which)
         /\ Mac("uptime") \notin Counters(which) /\ Mac("cpus") \notin Counters(which)
  BY CountersAre DEF Net, Mac, Cpu, SwapIn
<1>4. which = "memory" => /\ Net("out") \notin Counters(which)
                          /\ Mac("uptime") \notin Counters(which) /\ Mac("cpus") \notin Counters(which)
  BY CountersAre DEF Net, Mac, SwapIn
<1>5. which = "network" => /\ SwapIn \notin Counters(which)
                           /\ Mac("uptime") \notin Counters(which) /\ Mac("cpus") \notin Counters(which)
  BY CountersAre DEF Net, Mac, SwapIn
<1>. HIDE DEF T, U, V, W
<1>6. \A g \in Gaps : g # {} => g \in {T, {SwapIn}, U, V, W} /\ g \subseteq Counters(which)
  BY <1>1
<1>7. {} \in Gaps
  BY <1>1
<1>8. which \in {"cpu", "disk"} => \A g \in Gaps : g = {}
  BY <1>2, <1>3, <1>6
<1>9. which = "memory" => \A g \in Gaps : g \in {{}, {SwapIn}}
  BY <1>2, <1>4, <1>6
<1>10. which = "network" => \A g \in Gaps : g \in {{}, T}
  BY <1>2, <1>5, <1>6
<1>. QED  BY <1>7, <1>8, <1>9, <1>10 DEF T

(* Snapshots are what the kernel shows, but on macOS: without what they lack, *)
(* or with a 0 for it.                                                        *)
LEMMA SnapshotIs ==
    ASSUME which \in Collector, which # "cpu_macos", Holds(kernel), NEW g \in Gaps
    PROVE  /\ g = {} => Snapshot(g) = kernel
           /\ which # "memory" => DOMAIN Snapshot(g) = DOMAIN kernel
           /\ which = "memory" /\ g # {} => Snapshot(g) = Nothing
           /\ Snapshot(g) # Nothing => Holds(Snapshot(g))
           /\ which # "memory" => Holds(Snapshot(g))
           /\ DOMAIN Snapshot(g) \subseteq DOMAIN kernel
           /\ \A c \in DOMAIN Snapshot(g) : Snapshot(g)[c] = IF c \in g THEN 0 ELSE kernel[c]
           /\ which # "memory" => g \subseteq DOMAIN kernel
<1>1. Snapshot(g) = [c \in DOMAIN kernel \ (g \cap {SwapIn}) |-> IF c \in g THEN 0 ELSE kernel[c]]
  BY Zenon DEF Snapshot
<1>2. /\ DOMAIN Snapshot(g) = DOMAIN kernel \ (g \cap {SwapIn})
      /\ \A c \in DOMAIN Snapshot(g) : Snapshot(g)[c] = IF c \in g THEN 0 ELSE kernel[c]
      /\ Snapshot(g) \in [DOMAIN Snapshot(g) -> Nat]
  BY <1>1 DEF Holds
<1>3. which \in {"cpu", "disk", "network", "memory"}
  BY CollectorAssumption
<1>4. g = {} => Snapshot(g) = kernel
  BY <1>1 DEF Holds
<1>5. which # "memory" => SwapIn \notin g /\ g \subseteq DOMAIN kernel
  <2>1. CASE which \in {"cpu", "disk"}
    BY <2>1, GapsAre
  <2>2. CASE which = "network"
    BY <2>2, GapsAre, CountersAre DEF Holds, Fleeting, Net, SwapIn
  <2>. QED  BY <1>3, <2>1, <2>2
<1>6. which # "memory" => DOMAIN Snapshot(g) = DOMAIN kernel
  BY <1>2, <1>5
<1>7. which = "memory" /\ g # {} => Snapshot(g) = Nothing
  <2> SUFFICES ASSUME which = "memory", g # {} PROVE Snapshot(g) = Nothing
    OBVIOUS
  <2>1. g = {SwapIn} /\ DOMAIN kernel \subseteq {SwapIn}
    BY GapsAre, CountersAre DEF Holds
  <2>2. DOMAIN kernel \ (g \cap {SwapIn}) = {}
    BY <2>1
  <2>3. Snapshot(g) = [c \in {} |-> IF c \in g THEN 0 ELSE kernel[c]]
    BY <1>1, <2>2
  <2>. QED  BY <2>3 DEF Nothing
<1>8. which # "memory" => Holds(Snapshot(g))
  BY <1>2, <1>6 DEF Holds
<1>9. Snapshot(g) # Nothing => Holds(Snapshot(g))
  BY <1>4, <1>7, <1>8
<1>. QED  BY <1>2, <1>4, <1>5, <1>6, <1>7, <1>8, <1>9

(* Before the first read nothing has been counted.                            *)
LEMMA InitInvariant == Init => IInv
<1> SUFFICES ASSUME Init PROVE IInv
  OBVIOUS
<1>1. ctx \in [on : BOOLEAN, duration : Nat, interval : Nat]
  <2>1. CASE ctx = NoSampling
    BY <2>1 DEF NoSampling
  <2>2. CASE ctx \in [on : {c \in {TRUE} : which \in {"cpu", "cpu_macos"}},
                     duration : Durations, interval : Intervals]
    <3>1. ctx \in [on : {TRUE}, duration : Durations, interval : Intervals]
      BY <2>2
    <3>. QED  BY <3>1, SamplingAssumption
  <2>. QED  BY <2>1, <2>2 DEF Init
<1>2. which # "cpu_macos" => Holds(kernel)
  <2> SUFFICES ASSUME which # "cpu_macos" PROVE Holds(kernel)
    OBVIOUS
  <2>1. PICK Away : /\ kernel = [c \in Counters(which) \ UNION {OfDev(d) : d \in Away} |-> Begin]
                    /\ Away \in IF which \in {"disk", "network"} THEN SUBSET Dev \ {Dev} ELSE {{}}
    BY DEF Init
  <2>2. UNION {OfDev(d) : d \in Away} \subseteq
           IF which \in {"disk", "network"} THEN Fleeting ELSE {}
    BY <2>1 DEF OfDev, Fleeting
  <2>. QED  BY <2>1, <2>2, CountAssumption DEF Holds
<1>3. DOMAIN Nothing = {}
  BY DEF Nothing
<1>4. Fresh /\ WindowFits /\ Cover
  BY DEF Init, Fresh, WindowFits, Cover
<1>5. SamplesTyped
  BY <1>3 DEF Init, SamplesTyped
<1>6. TypeOK
  <2>1. 0 \in Int /\ [c \in Counters(which) |-> 0] \in [Counters(which) -> Nat]
    OBVIOUS
  <2>2. which = "cpu" => disturbed = {}
    BY DEF Init
  <2>3. back \in Nat /\ lost \in Gaps
    BY GapsAre DEF Init
  <2>4. which \in Collector /\ at \in Phases /\ left \in Int /\ happened \in [Counters(which) -> Nat]
    BY <2>1 DEF Init, Phases
  <2>5. prev = Nothing /\ first = Nothing
    BY DEF Init
  <2>. QED  BY <1>1, <1>2, <2>2, <2>3, <2>4, <2>5 DEF TypeOK
<1>. QED  BY <1>4, <1>5, <1>6 DEF IInv

(* What happens while a collector sleeps leaves it alone.                     *)
LEMMA SleepKeeps ==
    ASSUME IInv, at = "sleep", UNCHANGED <<which, own>>,
           happened' \in [Counters(which) -> Nat],
           which = "cpu" => disturbed' = {},
           back' \in Nat,
           which # "cpu_macos" => Holds(kernel)',
           \A c \in Counters(which) :
              which # "cpu_macos" /\ prev # Nothing => CounterFits(c)'
    PROVE  IInv'
<1>1. /\ which' = which /\ ctx' = ctx /\ at' = at /\ first' = first /\ prev' = prev
      /\ left' = left /\ samples' = samples /\ signals' = signals /\ lost' = lost
  BY DEF own
<1>2. Counters(which)' = Counters(which) /\ Gaps' = Gaps
  BY <1>1, Zenon DEF Counters, Gaps
<1>3. TypeOK'
  <2>1. prev # Nothing /\ which # "cpu_macos" => Holds(prev)'
    BY <1>1, <1>2 DEF IInv, TypeOK, Holds
  <2>2. first # Nothing /\ which # "cpu_macos" => Holds(first)'
    BY <1>1, <1>2 DEF IInv, TypeOK, Holds
  <2>. QED  BY <1>1, <1>2, <2>1, <2>2 DEF IInv, TypeOK
<1>4. Fresh'
  BY <1>1 DEF IInv, Fresh
<1>5. WindowFits'
  BY <1>1, <1>2 DEF WindowFits
<1>6. SamplesTyped' /\ Cover'
  BY <1>1 DEF IInv, SamplesTyped, Cover, Windows
<1>. QED  BY <1>3, <1>4, <1>5, <1>6 DEF IInv

(* Whatever is counted, goes back, vanishes or appears is noted as such.      *)
LEMMA WorldKeeps == IInv /\ World => IInv'
<1> SUFFICES ASSUME IInv, World PROVE IInv'
  OBVIOUS
<1>1. /\ at = "sleep" /\ UNCHANGED <<which, own>> /\ which' = which /\ prev' = prev /\ lost' = lost
      /\ Counters(which)' = Counters(which)
  <2>1. at = "sleep" /\ UNCHANGED <<which, own>>
    BY DEF World, Count, GoBack, Vanish, Appear, SecondPasses, Happens
  <2>2. which' = which /\ prev' = prev /\ lost' = lost
    BY <2>1 DEF own
  <2>. QED  BY <2>1, <2>2, Zenon DEF Counters
<1>2. /\ happened \in [Counters(which) -> Nat]
      /\ which # "cpu_macos" => Holds(kernel)
      /\ which # "cpu_macos" /\ prev # Nothing => Holds(prev)
      /\ back \in Nat /\ lost \in Gaps /\ (which = "cpu" => disturbed = {})
      /\ which \in {"disk", "network"} => lost \cap Fleeting = {}
  <2>1. which \in {"disk", "network"} /\ lost \in Gaps => lost \cap Fleeting = {}
    BY GapsAre DEF Fleeting, Net
  <2>. QED  BY <2>1 DEF IInv, TypeOK
<1>3. \A c \in Counters(which) : which # "cpu_macos" /\ prev # Nothing => CounterFits(c)
  BY <1>1 DEF IInv, WindowFits
<1>4. ASSUME NEW c \in Counters(which), Count(c) PROVE IInv'
  <2>0. /\ which # "cpu_macos" /\ c \in DOMAIN kernel /\ disturbed' = disturbed /\ back' = back
        /\ kernel' = [kernel EXCEPT ![c] = @ + 1] /\ happened' = [happened EXCEPT ![c] = @ + 1]
    BY <1>4 DEF Count
  <2>1. happened' \in [Counters(which) -> Nat]
    BY <1>2, <2>0
  <2>2. Holds(kernel)'
    BY <1>1, <1>2, <2>0 DEF Holds, Fleeting
  <2>3. ASSUME NEW e \in Counters(which), prev # Nothing PROVE CounterFits(e)'
    <3>1. /\ CounterFits(e) /\ happened[e] \in Nat /\ DOMAIN kernel' = DOMAIN kernel
          /\ e \in DOMAIN prev => prev[e] \in Nat
          /\ e \in DOMAIN kernel => kernel[e] \in Nat
      BY <1>2, <1>3, <2>0, <2>3 DEF Holds
    <3>2. /\ Undisturbed(e)' <=> Undisturbed(e)
          /\ e # c => kernel'[e] = kernel[e] /\ happened'[e] = happened[e]
          /\ e = c => kernel'[e] = kernel[e] + 1 /\ happened'[e] = happened[e] + 1
      BY <1>1, <1>2, <2>0 DEF Undisturbed
    <3>3. Back(e)' = Back(e) /\ Back(e) \in Nat
      BY <1>2, <2>0 DEF Back
    <3>. QED  BY <1>1, <2>0, <3>1, <3>2, <3>3 DEF CounterFits
  <2>. QED  BY <1>1, <1>2, <2>0, <2>1, <2>2, <2>3, SleepKeeps
<1>5. CASE GoBack
  <2> DEFINE c == Cpu("iowait")
  <2>0. /\ which = "cpu" /\ happened' = happened /\ disturbed' = disturbed /\ back' = back + 1
        /\ kernel' = [kernel EXCEPT ![c] = @ - 1] /\ kernel[c] > 0
    BY <1>5 DEF GoBack
  <2>1. c \in DOMAIN kernel
    <3>1. c \in Counters(which)
      BY <2>0, CountersAre
    <3>. QED  BY <1>2, <2>0, <3>1 DEF Holds
  <2>2. Holds(kernel)'
    <3>1. kernel[c] \in Nat
      BY <1>2, <2>0, <2>1 DEF Holds
    <3>2. kernel[c] - 1 \in Nat
      BY <2>0, <3>1
    <3>3. \A e \in DOMAIN kernel : kernel'[e] \in Nat
      BY <1>2, <2>0, <3>2 DEF Holds
    <3>. QED  BY <1>1, <1>2, <2>0, <3>3 DEF Holds, Fleeting
  <2>3. ASSUME NEW e \in Counters(which), prev # Nothing PROVE CounterFits(e)'
    <3>1. /\ CounterFits(e) /\ happened[e] \in Nat /\ DOMAIN kernel' = DOMAIN kernel
          /\ e \in DOMAIN prev => prev[e] \in Nat
          /\ e \in DOMAIN kernel => kernel[e] \in Nat
      BY <1>2, <1>3, <2>0, <2>3 DEF Holds
    <3>2. /\ Undisturbed(e)' <=> Undisturbed(e)
          /\ e # c => kernel'[e] = kernel[e] /\ Back(e)' = Back(e)
          /\ e = c => kernel'[e] = kernel[e] - 1 /\ Back(e)' = Back(e) + 1
          /\ Back(e) \in Nat
      BY <1>1, <1>2, <2>0, <2>1 DEF Undisturbed, Back
    <3>. QED  BY <1>1, <2>0, <3>1, <3>2 DEF CounterFits
  <2>4. back' \in Nat
    BY <1>2, <2>0
  <2>. QED  BY <1>1, <1>2, <2>0, <2>2, <2>3, <2>4, SleepKeeps
<1>6. ASSUME NEW d \in Dev, Vanish(d) PROVE IInv'
  <2>0. /\ which \in {"disk", "network"} /\ happened' = happened /\ disturbed' = disturbed \cup {d} /\ back' = back
        /\ kernel' = [c \in DOMAIN kernel \ OfDev(d) |-> kernel[c]]
    BY <1>6 DEF Vanish, Restrict
  <2>1. OfDev(d) \subseteq Fleeting /\ \A c \in OfDev(d) : c[1] = d
    BY DEF OfDev, Fleeting
  <2>2. Holds(kernel)'
    BY <1>1, <1>2, <2>0, <2>1 DEF Holds, Fleeting
  <2>3. ASSUME NEW e \in Counters(which), prev # Nothing PROVE CounterFits(e)'
    <3>1. /\ CounterFits(e)
          /\ Undisturbed(e)' => Undisturbed(e) /\ e \notin OfDev(d)
          /\ e \in DOMAIN kernel' <=> e \in DOMAIN kernel /\ e \notin OfDev(d)
          /\ e \in DOMAIN kernel' => kernel'[e] = kernel[e]
          /\ e \in lost => e \notin OfDev(d)
          /\ Back(e)' = Back(e)
      BY <1>1, <1>2, <1>3, <2>0, <2>1, <2>3 DEF Undisturbed, Back
    <3>. QED  BY <1>1, <2>0, <3>1 DEF CounterFits
  <2>. QED  BY <1>1, <1>2, <2>0, <2>2, <2>3, SleepKeeps
<1>7. ASSUME NEW d \in Dev, NEW n \in {0, Begin}, Appear(d, n) PROVE IInv'
  <2>0. /\ which \in {"disk", "network"} /\ happened' = happened /\ disturbed' = disturbed \cup {d} /\ back' = back
        /\ n = 0 \/ OfDev(d) \cap DOMAIN prev = {}
        /\ kernel' = [c \in DOMAIN kernel \cup OfDev(d) |-> IF c \in OfDev(d) THEN n ELSE kernel[c]]
        /\ n \in Nat
    BY <1>7, CountAssumption DEF Appear
  <2>1. /\ OfDev(d) \subseteq Counters(which) /\ OfDev(d) \subseteq Fleeting
        /\ \A c \in OfDev(d) : c[1] = d
    BY <2>0, CountersAre DEF OfDev, Fleeting
  <2>2. Holds(kernel)'
    BY <1>1, <1>2, <2>0, <2>1 DEF Holds, Fleeting
  <2>3. ASSUME NEW e \in Counters(which), prev # Nothing PROVE CounterFits(e)'
    <3>1. /\ CounterFits(e)
          /\ Undisturbed(e)' => Undisturbed(e) /\ e \notin OfDev(d)
          /\ e \in DOMAIN kernel' <=> e \in DOMAIN kernel \/ e \in OfDev(d)
          /\ e \in DOMAIN kernel' => kernel'[e] = IF e \in OfDev(d) THEN n ELSE kernel[e]
          /\ happened[e] \in Nat
          /\ e \in DOMAIN prev => prev[e] \in Nat
          /\ e \in lost => e \notin OfDev(d)
          /\ Back(e)' = Back(e)
      BY <1>1, <1>2, <1>3, <2>0, <2>1, <2>3 DEF Undisturbed, Holds, Back
    <3>2. e \notin lost /\ e \in DOMAIN prev' \cap DOMAIN kernel' => kernel'[e] <= prev'[e] + happened'[e]
      <4> SUFFICES ASSUME e \notin lost
                   PROVE  e \in DOMAIN prev' \cap DOMAIN kernel' =>
                             kernel'[e] <= prev'[e] + happened'[e]
        OBVIOUS
      <4>1. CASE e \in OfDev(d) /\ e \in DOMAIN prev
        <5>1. n = 0
          BY <2>0, <4>1
        <5>2. kernel'[e] = 0 /\ prev'[e] = prev[e] /\ happened'[e] = happened[e]
          BY <1>1, <2>0, <3>1, <4>1, <5>1
        <5>3. prev[e] \in Nat /\ happened[e] \in Nat
          BY <3>1, <4>1
        <5>. QED  BY <5>2, <5>3
      <4>2. CASE e \notin OfDev(d)
        BY <1>1, <2>0, <3>1, <4>2 DEF CounterFits
      <4>. QED  BY <1>1, <4>1, <4>2
    <3>. QED  BY <1>1, <2>0, <3>1, <3>2 DEF CounterFits
  <2>. QED  BY <1>1, <1>2, <2>0, <2>2, <2>3, SleepKeeps
<1>8. ASSUME NEW l \in Loads, SecondPasses(l) PROVE IInv'
  <2>1. which = "cpu_macos" /\ happened' = happened /\ back' = back /\ disturbed' = disturbed
    BY <1>8 DEF SecondPasses
  <2>. QED  BY <1>1, <1>2, <2>1, SleepKeeps
<1>. QED  BY <1>4, <1>5, <1>6, <1>7, <1>8 DEF World

(* Of a CPU the switches are always counted.                                  *)
LEMMA CtxtThere ==
    ASSUME which = "cpu", NEW k, Holds(k)
    PROVE  Cpu("ctxt") \in DOMAIN k /\ k # Nothing
<1>1. Cpu("ctxt") \in DOMAIN k
  BY CountersAre DEF Holds
<1>2. DOMAIN Nothing = {}
  BY DEF Nothing
<1>. QED  BY <1>1, <1>2

(* A read changes the window or ends it (cpu.rs:118-168).                     *)
LEMMA CollectKeeps == IInv /\ Collect => IInv'
<1> SUFFICES ASSUME IInv, Collect PROVE IInv'
  OBVIOUS
<1>1. /\ which' = which /\ kernel' = kernel /\ ctx' = ctx
      /\ Counters(which)' = Counters(which) /\ Gaps' = Gaps
  <2>1. which' = which /\ kernel' = kernel /\ ctx' = ctx
    BY DEF Collect, WindowsOverflow, FirstRead, FirstReadFails, Read, ReadFails, Sample,
           EndSampling, world
  <2>. QED  BY <2>1, Zenon DEF Counters, Gaps
<1>2. /\ which \in Collector /\ at \in Phases /\ left \in Int
      /\ ctx \in [on : BOOLEAN, duration : Nat, interval : Nat]
      /\ happened \in [Counters(which) -> Nat]
      /\ which # "cpu_macos" => Holds(kernel)
      /\ which # "cpu_macos" /\ prev # Nothing => Holds(prev)
      /\ which # "cpu_macos" /\ first # Nothing => Holds(first)
      /\ back \in Nat /\ lost \in Gaps /\ (which = "cpu" => disturbed = {})
  BY DEF IInv, TypeOK
<1>3. \A k : Holds(k)' <=> Holds(k)
  BY <1>1 DEF Holds
<1>4. Windows(ctx)' = Windows(ctx) /\ Windows(ctx) \in Nat
  BY <1>1, WindowsNat DEF IInv, Windows
<1> DEFINE Shot(g) == which # "cpu_macos" =>
                         /\ Snapshot(g) # Nothing => Holds(Snapshot(g))
                         /\ which = "cpu" => Snapshot(g) = kernel /\ Holds(kernel)
<1>13. ASSUME NEW g \in Gaps PROVE Shot(g)
  BY <1>2, <1>13, SnapshotIs, GapsAre
(* A window that begins now has seen nothing.                                 *)
<1>5. ASSUME NEW g \in Gaps, prev' = Snapshot(g), lost' = g, prev' # Nothing,
             happened' = [c \in Counters(which) |-> 0], disturbed' = {}, back' = 0,
             which # "cpu_macos"
      PROVE  \A c \in Counters(which) : CounterFits(c)'
  <2>1. /\ DOMAIN prev' = DOMAIN kernel /\ Holds(kernel)
        /\ g \subseteq DOMAIN kernel
        /\ \A c \in DOMAIN kernel : prev'[c] = IF c \in g THEN 0 ELSE kernel[c]
    BY <1>2, <1>5, SnapshotIs
  <2>2. ASSUME NEW c \in Counters(which) PROVE CounterFits(c)'
    <3>1. happened'[c] = 0 /\ Back(c)' = 0 /\ (c \in DOMAIN kernel => kernel[c] \in Nat)
      BY <1>5, <2>1 DEF Holds, Back
    <3>. QED  BY <1>1, <1>5, <2>1, <3>1 DEF CounterFits
  <2>. QED  BY <2>2
<1>6. ASSUME at' \in {"done", "panicked"}, left' \in Int, UNCHANGED <<happened, disturbed, back, samples>>,
             lost' \in Gaps,
             which # "cpu_macos" /\ prev' # Nothing => Holds(prev'),
             first' = first,
             UNCHANGED <<left, prev>> \/ ~ctx.on \/ first = Nothing
      PROVE  IInv'
  <2>1. TypeOK'
    BY <1>1, <1>2, <1>3, <1>6 DEF TypeOK, Phases
  <2>2. Fresh' /\ WindowFits'
    BY <1>6 DEF IInv, Fresh, WindowFits
  <2>3. SamplesTyped' /\ Cover'
    BY <1>1, <1>4, <1>6 DEF IInv, SamplesTyped, Cover
  <2>. QED  BY <2>1, <2>2, <2>3 DEF IInv
<1>7. CASE WindowsOverflow
  BY <1>1, <1>2, <1>6, <1>7 DEF WindowsOverflow, world
<1>8. ASSUME NEW g \in Gaps, FirstRead(g) PROVE IInv'
  <2>0. /\ at = "begin" /\ first' = Snapshot(g) /\ prev' = Snapshot(g) /\ lost' = g
        /\ left' = Windows(ctx)
        /\ at' \in {"done", "sleep"} /\ UNCHANGED <<happened, disturbed, back, samples>>
    BY <1>8 DEF FirstRead, world
  <2>1. happened = [c \in Counters(which) |-> 0] /\ disturbed = {} /\ back = 0 /\ samples = Nothing
    BY <2>0 DEF IInv, Fresh
  <2>2. Shot(g)
    BY <1>13
  <2>3. TypeOK'
    BY <1>1, <1>2, <1>3, <1>4, <2>0, <2>2 DEF TypeOK, Phases
  <2>4. which = "cpu" => /\ Cpu("ctxt") \in DOMAIN prev' /\ prev' # Nothing
                         /\ prev'[Cpu("ctxt")] - first'[Cpu("ctxt")] = 0
    <3> SUFFICES ASSUME which = "cpu"
                 PROVE  /\ Cpu("ctxt") \in DOMAIN kernel /\ kernel # Nothing
                        /\ kernel[Cpu("ctxt")] - kernel[Cpu("ctxt")] = 0
      BY <2>0, <2>2
    <3>1. Cpu("ctxt") \in DOMAIN kernel /\ kernel[Cpu("ctxt")] \in Nat
      BY <2>2, CountersAre DEF Holds
    <3>2. DOMAIN Nothing = {}
      BY DEF Nothing
    <3>. QED  BY <3>1, <3>2
  <2>5. Fresh'
    BY <1>1, <2>0, <2>4 DEF Fresh
  <2>6. WindowFits'
    BY <1>1, <1>5, <2>0, <2>1 DEF WindowFits
  <2>7. SamplesTyped' /\ Cover'
    <3>1. Taken(samples)' = <<>> /\ SumOfSamples(<<>>) = 0 /\ Len(<<>>) = 0
      BY <2>0, <2>1, SamplesAdd DEF Taken, Nothing
    <3>2. SumOfSamples(Taken(samples))' = 0 /\ Len(Taken(samples))' = 0
      BY <3>1
    <3>3. SamplesTyped'
      BY <2>0, <2>1 DEF SamplesTyped, Nothing
    <3>4. Cover'
      BY <1>1, <1>4, <2>0, <2>4, <3>2 DEF Cover
    <3>. QED  BY <3>3, <3>4
  <2>. QED  BY <2>3, <2>5, <2>6, <2>7 DEF IInv
<1>9. CASE FirstReadFails
  <2>0. /\ at = "begin" /\ first' = first /\ prev' = prev /\ left' = Windows(ctx)
        /\ at' \in {"done", "sleep"} /\ UNCHANGED <<happened, disturbed, samples>>
        /\ at' = "sleep" => which = "memory"
        /\ first = Nothing /\ prev = Nothing
        /\ lost' = lost /\ back' = back
    BY <1>9 DEF FirstReadFails, world, IInv, Fresh
  <2>1. TypeOK'
    BY <1>1, <1>2, <1>3, <1>4, <2>0 DEF TypeOK, Phases
  <2>2. Fresh' /\ WindowFits' /\ Cover'
    BY <1>1, <2>0 DEF Fresh, WindowFits, Cover
  <2>3. SamplesTyped'
    BY <1>1, <2>0 DEF IInv, SamplesTyped
  <2>. QED  BY <2>1, <2>2, <2>3 DEF IInv
<1>10. ASSUME NEW g \in Gaps, Read(g) PROVE IInv'
  <2>1. prev' = Snapshot(g) /\ left' = left - 1 /\ at' = "done" /\ ~ctx.on /\ first' = first
        /\ UNCHANGED <<happened, disturbed, back, samples>> /\ lost' = g
    BY <1>10 DEF Read, world
  <2>2. Shot(g)
    BY <1>13
  <2>. QED  BY <1>2, <1>6, <2>1, <2>2
<1>11. CASE ReadFails \/ EndSampling
  BY <1>2, <1>6, <1>11 DEF ReadFails, EndSampling, world
<1>12. ASSUME NEW g \in Gaps, Sample(g) PROVE IInv'
  <2>0. /\ at = "sleep" /\ ctx.on /\ left > 0 /\ prev' = Snapshot(g) /\ left' = left - 1
        /\ samples' = Appended(samples, SignalsOf(prev, Snapshot(g)))
        /\ happened' = [c \in Counters(which) |-> 0] /\ disturbed' = {}
        /\ back' = 0 /\ lost' = g
        /\ at' = at /\ first' = first
    BY <1>1, <1>12, Zenon DEF Sample, Slept, Quiet
  <2>1. Shot(g)
    BY <1>13
  <2>2. TypeOK'
    BY <1>1, <1>2, <1>3, <2>0, <2>1 DEF TypeOK, Phases
  <2>3. WindowFits'
    BY <1>1, <1>5, <2>0 DEF WindowFits
  <2>4. Fresh'
    BY <1>1, <2>0, <2>1, CtxtThere DEF Fresh
  <2>5. ASSUME which = "cpu" PROVE SamplesTyped' /\ Cover'
    <3> DEFINE s == Taken(samples)
               v == Value(Delta(prev, kernel, Cpu("ctxt")), 1)
               a == prev[Cpu("ctxt")]
               b == kernel[Cpu("ctxt")]
    <3>1. prev # Nothing /\ Holds(prev) /\ Holds(kernel) /\ Snapshot(g) = kernel /\ lost = {}
      BY <1>2, <2>0, <2>1, <2>5, GapsAre DEF IInv, Fresh
    <3>2. /\ Cpu("ctxt") \in Counters(which) /\ CounterFits(Cpu("ctxt"))
          /\ Undisturbed(Cpu("ctxt")) /\ Back(Cpu("ctxt")) = 0
          /\ happened[Cpu("ctxt")] \in Nat
      BY <1>2, <2>0, <2>5, <3>1, CountersAre DEF IInv, WindowFits, Undisturbed, Cpu, Back
    <3>3. /\ Cpu("ctxt") \in DOMAIN prev /\ Cpu("ctxt") \in DOMAIN kernel
          /\ a \in Nat /\ b \in Nat /\ a <= b
      BY <1>2, <2>5, <3>1, <3>2, CtxtThere DEF CounterFits, Holds
    <3>4. v \in Fraction /\ v.num = b - a
      BY <3>3, DeltaIs DEF Value, Fraction
    <3>5. Taken(samples)' = s \o <<v>>
      <4>1. SignalsOf(prev, Snapshot(g)) = CpuSignals(prev, kernel)
        BY <2>5, <3>1, SignalsAre
      <4>2. /\ Cpu("ctxt") \in DOMAIN CpuSignals(prev, kernel)
            /\ CpuSignals(prev, kernel)[Cpu("ctxt")] = v
        BY <3>3 DEF CpuSignals
      <4>. QED  BY <2>0, <4>1, <4>2 DEF Appended, Taken
    <3>6. s \in Seq(Fraction)
      BY <2>5 DEF IInv, SamplesTyped, Taken
    <3>. HIDE DEF s, v, a, b
    <3>7. /\ s \o <<v>> \in Seq(Fraction) /\ Len(s \o <<v>>) = Len(s) + 1
          /\ SumOfSamples(s \o <<v>>) = SumOfSamples(s) + v.num
      BY <3>4, <3>6, SamplesAdd
    <3>8. SamplesTyped'
      BY <3>5, <3>7 DEF SamplesTyped, Taken
    <3>9. Cover'
      <4> SUFFICES ASSUME first # Nothing
                   PROVE  /\ Len(Taken(samples')) + left' = Windows(ctx)'
                          /\ SumOfSamples(Taken(samples')) = prev'[Cpu("ctxt")] - first'[Cpu("ctxt")]
        BY <2>0 DEF Cover, Taken
      <4>1. /\ Len(s) + left = Windows(ctx)
            /\ SumOfSamples(s) = a - first[Cpu("ctxt")]
        BY <2>0, <2>5 DEF IInv, Cover, s, a
      <4>2. first[Cpu("ctxt")] \in Nat /\ Len(s) \in Nat
        BY <1>2, <2>5, <3>6, CtxtThere DEF Holds
      <4>3. SumOfSamples(s \o <<v>>) = b - first[Cpu("ctxt")]
        BY <3>3, <3>4, <3>7, <4>1, <4>2 DEF a, b
      <4>4. Taken(samples') = s \o <<v>>
        BY <3>5 DEF Taken
      <4>5. Len(s \o <<v>>) + left' = Windows(ctx)'
        BY <1>2, <1>4, <2>0, <3>7, <4>1, <4>2
      <4>6. b = prev'[Cpu("ctxt")] /\ first' = first
        BY <2>0, <3>1 DEF b
      <4>. QED  BY <4>3, <4>4, <4>5, <4>6
    <3>. QED  BY <3>8, <3>9
  <2>6. ASSUME which # "cpu" PROVE SamplesTyped' /\ Cover'
    BY <1>1, <2>6 DEF SamplesTyped, Cover
  <2>. QED  BY <2>2, <2>3, <2>4, <2>5, <2>6 DEF IInv
<1>. QED  BY <1>7, <1>8, <1>9, <1>10, <1>11, <1>12, Zenon DEF Collect

(* Every step keeps it.                                                       *)
LEMMA NextInvariant == IInv /\ [Next]_vars => IInv'
<1> SUFFICES ASSUME IInv, [Next]_vars PROVE IInv'
  OBVIOUS
<1>1. CASE Done \/ UNCHANGED vars
  <2>1. UNCHANGED <<which, ctx, at, kernel, happened, disturbed, back, first, prev, lost, left, samples>>
    BY <1>1 DEF Done, vars, world, own
  <2>2. Counters(which)' = Counters(which) /\ Gaps' = Gaps
    BY <2>1, Zenon DEF Counters, Gaps
  <2>3. TypeOK' /\ Fresh'
    BY <2>1, <2>2 DEF IInv, TypeOK, Fresh, Holds
  <2>4. WindowFits'
    BY <2>1, <2>2 DEF IInv, WindowFits, CounterFits, Undisturbed, Back
  <2>5. SamplesTyped' /\ Cover'
    BY <2>1 DEF IInv, SamplesTyped, Cover, Windows
  <2>. QED  BY <2>3, <2>4, <2>5 DEF IInv
<1>. QED  BY <1>1, WorldKeeps, CollectKeeps DEF Next

(* It holds in every state of a collector.                                    *)
LEMMA InvariantHolds == Spec => []IInv
<1>. QED  BY InitInvariant, NextInvariant, PTL DEF Spec

-------------------------------------------------------------------------------
(* What the collectors report.                                                *)

(* The sums that are reported, and what they sum.                             *)
SumDrops(a, b, S) == MapThenSumSet(LAMBDA c : Drops(a, b, c), S)
SumNum(s, S) == MapThenSumSet(LAMBDA i : s[i].num, S)

(* They are sums of functions.                                                *)
LEMMA SumOfDrops ==
    ASSUME NEW a, NEW b, NEW S
    PROVE  SumDrops(a, b, S) = Sum([c \in S |-> Drops(a, b, c)], S)
<1> DEFINE f == [c \in S |-> Drops(a, b, c)]
           L(it) == it = [T \in SUBSET S |->
                            IF T = {} THEN 0
                            ELSE Drops(a, b, CHOOSE x \in T : TRUE)
                                    + it[T \ {CHOOSE x \in T : TRUE}]]
<1>1. ASSUME NEW T \in SUBSET S, T # {}
      PROVE  f[CHOOSE x \in T : TRUE] = Drops(a, b, CHOOSE x \in T : TRUE)
  <2>1. (CHOOSE x \in T : TRUE) \in S
    BY <1>1
  <2>. QED  BY <2>1
<1>2. SumDrops(a, b, S) = (CHOOSE it : L(it))[S]
  BY Zenon DEF SumDrops, MapThenSumSet, MapThenFoldSet
<1>3. Sum(f, S) = (CHOOSE it : IsSum(it, f, S))[S]
  BY Zenon DEF Sum, MapThenSumSet, MapThenFoldSet, IsSum
<1>. HIDE DEF f
<1>4. ASSUME NEW it PROVE L(it) <=> IsSum(it, f, S)
  BY <1>1 DEF IsSum
<1>5. (CHOOSE it : L(it)) = (CHOOSE it : IsSum(it, f, S))
  <2>. HIDE DEF L
  <2>. QED  BY <1>4
<1>. QED  BY <1>2, <1>3, <1>5 DEF f

(* What was dropped in the window, as a sum of a function.                    *)
LEMMA SumOfHappened ==
    MapThenSumSet(LAMBDA d : happened[<<d, "drops">>], Dev)
        = Sum([d \in Dev |-> happened[<<d, "drops">>]], Dev)
<1> DEFINE f == [d \in Dev |-> happened[<<d, "drops">>]]
           L(it) == it = [T \in SUBSET Dev |->
                            IF T = {} THEN 0
                            ELSE happened[<<CHOOSE x \in T : TRUE, "drops">>]
                                    + it[T \ {CHOOSE x \in T : TRUE}]]
<1>1. ASSUME NEW T \in SUBSET Dev, T # {}
      PROVE  f[CHOOSE x \in T : TRUE] = happened[<<CHOOSE x \in T : TRUE, "drops">>]
  <2>1. (CHOOSE x \in T : TRUE) \in Dev
    BY <1>1
  <2>. QED  BY <2>1
<1>2. MapThenSumSet(LAMBDA d : happened[<<d, "drops">>], Dev) = (CHOOSE it : L(it))[Dev]
  BY Zenon DEF MapThenSumSet, MapThenFoldSet
<1>3. Sum(f, Dev) = (CHOOSE it : IsSum(it, f, Dev))[Dev]
  BY Zenon DEF Sum, MapThenSumSet, MapThenFoldSet, IsSum
<1>. HIDE DEF f
<1>4. ASSUME NEW it PROVE L(it) <=> IsSum(it, f, Dev)
  BY <1>1 DEF IsSum
<1>5. (CHOOSE it : L(it)) = (CHOOSE it : IsSum(it, f, Dev))
  <2>. HIDE DEF L
  <2>. QED  BY <1>4
<1>. QED  BY <1>2, <1>3, <1>5 DEF f

(* So is the sum of the numerators of signals.                                *)
LEMMA SumOfNum ==
    ASSUME NEW s, NEW S
    PROVE  SumNum(s, S) = Sum([i \in S |-> s[i].num], S)
<1> DEFINE f == [i \in S |-> s[i].num]
           L(it) == it = [T \in SUBSET S |->
                            IF T = {} THEN 0
                            ELSE s[CHOOSE x \in T : TRUE].num
                                    + it[T \ {CHOOSE x \in T : TRUE}]]
<1>1. ASSUME NEW T \in SUBSET S, T # {}
      PROVE  f[CHOOSE x \in T : TRUE] = s[CHOOSE x \in T : TRUE].num
  <2>1. (CHOOSE x \in T : TRUE) \in S
    BY <1>1
  <2>. QED  BY <2>1
<1>2. SumNum(s, S) = (CHOOSE it : L(it))[S]
  BY Zenon DEF SumNum, MapThenSumSet, MapThenFoldSet
<1>3. Sum(f, S) = (CHOOSE it : IsSum(it, f, S))[S]
  BY Zenon DEF Sum, MapThenSumSet, MapThenFoldSet, IsSum
<1>. HIDE DEF f
<1>4. ASSUME NEW it PROVE L(it) <=> IsSum(it, f, S)
  BY <1>1 DEF IsSum
<1>5. (CHOOSE it : L(it)) = (CHOOSE it : IsSum(it, f, S))
  <2>. HIDE DEF L
  <2>. QED  BY <1>4
<1>. QED  BY <1>2, <1>3, <1>5 DEF f

(* The signals of the network and of the disks, one by one.                   *)
LEMMA NetSignalsAre ==
    ASSUME NEW a, NEW b
    PROVE  LET R == DOMAIN b \cap (Dev \X {"drops"})
               s == NetSignals(a, b)
           IN  /\ DOMAIN s = {Net("rx_drops"), Net("retrans_pct"), Net("fails")}
               /\ s[Net("rx_drops")] = Value(Sum([c \in R |-> Drops(a, b, c)], R), 1)
               /\ s[Net("fails")] = Value(Delta(a, b, Net("fails")), 1)
<1> DEFINE I == {Net("rx_drops"), Net("retrans_pct"), Net("fails")}
           R == DOMAIN b \cap (Dev \X {"drops"})
           X == SumDrops(a, b, R)
           Y == Value(Delta(a, b, Net("retrans")), Delta(a, b, Net("out")))
           Z == Value(Delta(a, b, Net("fails")), 1)
           F(i) == CASE i = Net("rx_drops") -> Value(X, 1)
                     [] i = Net("retrans_pct") -> Y
                     [] i = Net("fails") -> Z
<1>1. NetSignals(a, b) = [i \in I |-> F(i)]
  BY Zenon DEF NetSignals, SumDrops
<1>2. /\ Net("rx_drops") # Net("retrans_pct") /\ Net("rx_drops") # Net("fails")
      /\ Net("retrans_pct") # Net("fails")
  BY DEF Net
<1>3. X = Sum([c \in R |-> Drops(a, b, c)], R)
  BY SumOfDrops, Zenon
<1>4. ASSUME NEW x, NEW y, NEW z, NEW p, NEW q, NEW r, p # q, p # r, q # r, NEW i
      PROVE  /\ i = p => (CASE i = p -> x [] i = q -> y [] i = r -> z) = x
             /\ i = r => (CASE i = p -> x [] i = q -> y [] i = r -> z) = z
  BY <1>4, Zenon
<1>5. F(Net("rx_drops")) = Value(X, 1) /\ F(Net("fails")) = Z
  <2>. HIDE DEF X, Y, Z
  <2>. QED  BY <1>2, <1>4, Zenon
<1>. HIDE DEF F
<1>6. /\ DOMAIN NetSignals(a, b) = I
      /\ NetSignals(a, b)[Net("rx_drops")] = F(Net("rx_drops"))
      /\ NetSignals(a, b)[Net("fails")] = F(Net("fails"))
  BY <1>1, Zenon
<1>. QED  BY <1>3, <1>5, <1>6, Zenon

(* In a window the drops reported are those of all interfaces in it, or less. *)
LEMMA DropsFit ==
    ASSUME IInv, at = "sleep", prev # Nothing, which = "network",
           NEW b, DOMAIN b = DOMAIN kernel,
           \A c \in Fleeting \cap DOMAIN kernel : b[c] = kernel[c]
    PROVE  LET All == MapThenSumSet(LAMBDA d : happened[<<d, "drops">>], Dev)
           IN  /\ NetSignals(prev, b)[Net("rx_drops")].num <= All
               /\ disturbed = {} => NetSignals(prev, b)[Net("rx_drops")].num = All
<1> DEFINE R == DOMAIN b \cap (Dev \X {"drops"})
           f == [c \in R |-> Drops(prev, b, c)]
           g == [d \in Dev |-> happened[<<d, "drops">>]]
           h == [c \in R |-> c[1]]
           come == [d \in Dev |-> <<d, "drops">>]
<1>1. /\ Holds(prev) /\ Holds(kernel) /\ happened \in [Counters(which) -> Nat]
      /\ Counters(which) = {Net(n) : n \in {"out", "retrans", "fails"}} \cup Dev \X {"drops"}
      /\ \A c \in Counters(which) : CounterFits(c)
  BY CountersAre DEF IInv, TypeOK, WindowFits
<1>9. \A d \in Dev : <<d, "drops">> \notin lost /\ Back(<<d, "drops">>) = 0
  BY GapsAre DEF IInv, TypeOK, Net, Back, Cpu
<1>2. ASSUME NEW d \in Dev
      PROVE  <<d, "drops">> \in Counters(which) /\ g[d] \in Nat /\ g[d] = happened[<<d, "drops">>]
  BY <1>1
<1>3. ASSUME NEW c \in R
      PROVE  /\ c[1] \in Dev /\ c = <<c[1], "drops">> /\ f[c] \in Nat /\ f[c] <= g[c[1]]
             /\ disturbed = {} => f[c] = g[c[1]]
  <2>1. /\ c[1] \in Dev /\ c = <<c[1], "drops">> /\ g[c[1]] = happened[c] /\ c \in Counters(which)
        /\ c \in DOMAIN kernel /\ c \notin lost /\ Back(c) = 0
    BY <1>2, <1>9
  <2>2. /\ kernel[c] \in Nat /\ happened[c] \in Nat /\ f[c] = Drops(prev, b, c)
        /\ CounterFits(c) /\ b[c] = kernel[c]
    BY <1>1, <2>1 DEF Holds, Fleeting
  <2>3. CASE c \in DOMAIN prev
    <3>1. prev[c] \in Nat /\ Drops(prev, b, c) = Delta(prev, b, c)
      BY <1>1, <2>3 DEF Holds, Drops
    <3>2. /\ kernel[c] <= prev[c] + happened[c]
          /\ disturbed = {} => kernel[c] = prev[c] + happened[c]
      BY <2>1, <2>2, <2>3, <1>1 DEF CounterFits, Undisturbed
    <3>3. Delta(prev, b, c) \in Nat /\ Delta(prev, b, c) <= happened[c]
          /\ (disturbed = {} => Delta(prev, b, c) = happened[c])
      BY <2>2, <3>1, <3>2 DEF Delta
    <3>. QED  BY <2>1, <2>2, <3>1, <3>3
  <2>4. CASE c \notin DOMAIN prev
    <3>1. disturbed # {}
      BY <2>1, <2>2, <2>4 DEF CounterFits, Undisturbed
    <3>. QED  BY <2>1, <2>2, <2>4, <3>1 DEF Drops
  <2>. QED  BY <2>3, <2>4
<1>4. IsFiniteSet(Dev) /\ IsFiniteSet(R)
  <2>1. h \in Injection(R, Dev)
    BY <1>3 DEF Injection, IsInjective
  <2>. QED  BY <2>1, DevAssumption, FS_Injection
<1>5. Sum(f, R) <= Sum(g, Dev)
  <2>1. \A c \in R : f[c] \in Nat /\ h[c] \in Dev /\ f[c] <= g[h[c]]
    BY <1>3
  <2>2. \A d \in Dev : g[d] \in Nat
    BY <1>2
  <2>3. \A c, e \in R : h[c] = h[e] => c = e
    BY <1>3
  <2>. HIDE DEF f, g, h, R
  <2>. QED  BY <1>4, <2>1, <2>2, <2>3, SumCompares
<1>6. ASSUME disturbed = {} PROVE Sum(g, Dev) <= Sum(f, R)
  <2>1. ASSUME NEW d \in Dev, g[d] > 0 PROVE come[d] \in R /\ g[d] <= f[come[d]]
    <3>1. come[d] = <<d, "drops">> /\ come[d] \in Counters(which) /\ happened[come[d]] = g[d]
      BY <1>2
    <3>2. CounterFits(come[d]) /\ Undisturbed(come[d])
      BY <1>1, <1>6, <3>1 DEF Undisturbed
    <3>3. come[d] \in DOMAIN b
      BY <1>9, <2>1, <3>1, <3>2 DEF CounterFits
    <3>4. come[d] \in R
      BY <3>1, <3>3
    <3>5. f[come[d]] = g[come[d][1]] /\ come[d][1] = d /\ g[d] \in Nat
      BY <1>2, <1>3, <1>6, <3>1, <3>4
    <3>. QED  BY <3>4, <3>5
  <2>2. (\A d \in Dev : g[d] \in Nat) /\ (\A c \in R : f[c] \in Nat)
    BY <1>2, <1>3
  <2>3. \A d, e \in Dev : come[d] = come[e] => d = e
    OBVIOUS
  <2>. HIDE DEF f, g, come, R
  <2>. QED  BY <1>4, <2>1, <2>2, <2>3, SumCompares
<1>7. Sum(f, R) \in Nat /\ Sum(g, Dev) \in Nat
  <2>1. (\A d \in Dev : g[d] \in Nat) /\ (\A c \in R : f[c] \in Nat)
    BY <1>2, <1>3
  <2>. HIDE DEF f, g, R
  <2>. QED  BY <1>4, <2>1, SumIsCount
<1>8. NetSignals(prev, b)[Net("rx_drops")].num = Sum(f, R)
  <2>1. NetSignals(prev, b)[Net("rx_drops")] = Value(Sum(f, R), 1)
    BY NetSignalsAre
  <2>. QED  BY <2>1 DEF Value
<1>. QED  BY <1>5, <1>6, <1>7, <1>8, SumOfHappened

(* Each disk that is in both snapshots has its signals, and one of them the worst.*)
LEMMA DiskSignalsAre ==
    ASSUME NEW a, NEW b
    PROVE  LET s == DiskSignals(a, b)
               Both == {d \in Dev : OfDev(d) \subseteq DOMAIN a \cap DOMAIN b}
               Util(d) == Min({Delta(a, b, <<d, "busy">>), BusyMax})
           IN  /\ DOMAIN s = (Both \X {"ios", "util_pct", "await_ms"}) \cup
                                (IF Both = {} THEN {} ELSE {"max"} \X {"util_pct", "await_ms"})
               /\ \A d \in Both : s[<<d, "ios">>] = Value(Delta(a, b, <<d, "ios">>), 1)
               /\ \A d \in Both : s[<<d, "util_pct">>] = Value(Util(d), BusyMax)
               /\ Both # {} =>
                     s[<<"max", "util_pct">>] =
                        Value(Util(CHOOSE d \in {d \in Both : \A e \in Both : Util(e) <= Util(d)} : TRUE),
                              BusyMax)
<1> DEFINE Both == {d \in Dev : OfDev(d) \subseteq DOMAIN a \cap DOMAIN b}
           Util(d) == Min({Delta(a, b, <<d, "busy">>), BusyMax})
           Await(d) == Value(Delta(a, b, <<d, "time">>), Delta(a, b, <<d, "ios">>))
           Worst(n) == {d \in Both : n = "util_pct" /\ \A e \in Both : Util(e) <= Util(d)} \cup
                       {d \in Both : n = "await_ms" /\ \A e \in Both :
                           Await(e).num * Await(d).den <= Await(d).num * Await(e).den}
           Of(d, n) == CASE n = "ios" -> Value(Delta(a, b, <<d, "ios">>), 1)
                         [] n = "util_pct" -> Value(Util(d), BusyMax)
                         [] n = "await_ms" -> Await(d)
           I == (Both \X {"ios", "util_pct", "await_ms"}) \cup
                   (IF Both = {} THEN {} ELSE {"max"} \X {"util_pct", "await_ms"})
           Who(i) == IF i[1] = "max" THEN CHOOSE d \in Worst(i[2]) : TRUE ELSE i[1]
<1>1. DiskSignals(a, b) = [i \in I |-> Of(Who(i), i[2])]
  BY Zenon DEF DiskSignals
<1>2. ASSUME NEW d
      PROVE  /\ Of(d, "ios") = Value(Delta(a, b, <<d, "ios">>), 1)
             /\ Of(d, "util_pct") = Value(Util(d), BusyMax)
  BY Zenon
<1>3. Worst("util_pct") = {d \in Both : \A e \in Both : Util(e) <= Util(d)}
  BY Zenon
<1>4. /\ DOMAIN DiskSignals(a, b) = I
      /\ \A i \in I : DiskSignals(a, b)[i] = Of(Who(i), i[2])
  <2>. HIDE DEF I, Of, Who
  <2>. QED  BY <1>1
<1>5. ASSUME NEW d \in Both, NEW n \in {"ios", "util_pct"}
      PROVE  DiskSignals(a, b)[<<d, n>>] = Of(d, n)
  <2>1. <<d, n>> \in I /\ <<d, n>>[1] = d /\ <<d, n>>[2] = n /\ d # "max"
    BY DevAssumption
  <2>2. Who(<<d, n>>) = d
    BY <2>1, Zenon
  <2>. HIDE DEF I, Of, Who
  <2>. QED  BY <1>4, <2>1, <2>2
<1>6. ASSUME Both # {}
      PROVE  DiskSignals(a, b)[<<"max", "util_pct">>]
                = Of(CHOOSE d \in Worst("util_pct") : TRUE, "util_pct")
  <2> DEFINE i == <<"max", "util_pct">>
  <2>1. i \in I /\ i[1] = "max" /\ i[2] = "util_pct"
    BY <1>6
  <2>. HIDE DEF i
  <2>2. Who(i) = CHOOSE d \in Worst("util_pct") : TRUE
    BY <2>1, Zenon
  <2>. HIDE DEF I, Of, Who, Worst
  <2>3. DiskSignals(a, b)[i] = Of(CHOOSE d \in Worst("util_pct") : TRUE, "util_pct")
    BY <1>4, <2>1, <2>2, Zenon
  <2>. QED  BY <2>3, Zenon DEF i
<1>7. \A d \in Both : DiskSignals(a, b)[<<d, "ios">>] = Value(Delta(a, b, <<d, "ios">>), 1)
  BY <1>2, <1>5
<1>8. \A d \in Both : DiskSignals(a, b)[<<d, "util_pct">>] = Value(Util(d), BusyMax)
  BY <1>2, <1>5
<1>. HIDE DEF Of, Util, Worst
<1>9. Both # {} => DiskSignals(a, b)[<<"max", "util_pct">>]
                      = Value(Util(CHOOSE d \in {d \in Both : \A e \in Both : Util(e) <= Util(d)} : TRUE),
                              BusyMax)
  BY <1>2, <1>3, <1>6, Zenon
<1>. QED  BY <1>4, <1>7, <1>8, <1>9, Zenon DEF Util

(* The smaller one of two numbers.                                            *)
LEMMA MinOfTwo ==
    ASSUME NEW x \in Nat, NEW y \in Nat
    PROVE  Min({x, y}) = IF x <= y THEN x ELSE y
<1>1. \E m \in {x, y} : \A k \in {x, y} : m <= k
  OBVIOUS
<1>2. Min({x, y}) \in {x, y} /\ \A k \in {x, y} : Min({x, y}) <= k
  <2> DEFINE S == {x, y}
  <2>1. \E m \in S : \A k \in S : m <= k
    BY <1>1
  <2>. HIDE DEF S
  <2>2. Min(S) \in S /\ \A k \in S : Min(S) <= k
    BY <2>1, Zenon DEF Min
  <2>. QED  BY <2>2 DEF S
<1>. QED  BY <1>2

(* One of its conjuncts, for one read.                                        *)
Kinds == {<<d, "ios">> : d \in Dev} \cup {Cpu("ctxt"), Net("fails"), SwapIn}
DeltaFits(gone, c) ==
    LET reported == Now(gone)[c].num
    IN  /\ c \notin lost => reported <= happened[c]
        /\ c \notin lost \cup gone /\ c[1] \notin disturbed => reported = happened[c]
        /\ c \in lost \ gone => reported = kernel[c]

(* A difference that is reported is one of the last snapshot and of the read. *)
LEMMA ReportedIs ==
    ASSUME IInv, at = "sleep", prev # Nothing, which # "cpu_macos", NEW gone \in Gaps,
           NEW c \in DOMAIN Now(gone) \cap Counters(which), c \in Kinds
    PROVE  /\ c \in DOMAIN prev /\ c \in DOMAIN Snapshot(gone)
           /\ Now(gone)[c].num = Delta(prev, Snapshot(gone), c)
<1> DEFINE b == Snapshot(gone)
<1>1. /\ which \in {"cpu", "disk", "network", "memory"} /\ Holds(kernel) /\ Holds(prev)
      /\ which \in Collector
  BY CollectorAssumption DEF IInv, TypeOK
<1>2. /\ which # "memory" => Holds(b)
      /\ Now(gone) = SignalsOf(prev, b)
  BY <1>1, SnapshotIs DEF Now
<1>. HIDE DEF b
<1>3. CASE which = "cpu"
  <2>1. Now(gone) = CpuSignals(prev, b)
    BY <1>2, <1>3, SignalsAre
  <2>2. c = Cpu("ctxt")
    BY <1>3, CountersAre DEF Kinds, Cpu, Net, SwapIn
  <2>3. c \in DOMAIN prev /\ c \in DOMAIN b
    BY <1>1, <1>2, <1>3, <2>2, CtxtThere
  <2>. QED  BY <2>1, <2>2, <2>3 DEF CpuSignals, Value, b
<1>4. CASE which = "disk"
  <2> DEFINE Both == {d \in Dev : OfDev(d) \subseteq DOMAIN prev \cap DOMAIN kernel}
  <2>0. b = kernel
    BY <1>1, <1>4, SnapshotIs, GapsAre DEF b
  <2>1. PICK now : now = DiskSignals(prev, kernel)
    OBVIOUS
  <2>6. Now(gone) = now
    BY <1>2, <1>4, <2>0, <2>1, SignalsAre
  <2>2. PICK d \in Dev : c = <<d, "ios">>
    BY <1>4, CountersAre DEF Kinds, Cpu, Net, SwapIn
  <2>3. d \in Both
    <3>1. DOMAIN now = (Both \X {"ios", "util_pct", "await_ms"}) \cup
                                (IF Both = {} THEN {} ELSE {"max"} \X {"util_pct", "await_ms"})
      BY <2>1, DiskSignalsAre, Zenon
    <3>. HIDE DEF Both
    <3>. QED  BY <2>2, <2>6, <3>1
  <2>4. now[<<d, "ios">>] = Value(Delta(prev, kernel, <<d, "ios">>), 1)
    BY <2>1, <2>3, DiskSignalsAre, Zenon
  <2>5. c \in DOMAIN prev /\ c \in DOMAIN kernel
    BY <1>4, <2>2, <2>3 DEF OfDev
  <2>. QED  BY <2>0, <2>2, <2>4, <2>5, <2>6 DEF Value, b
<1>5. CASE which = "network"
  <2>1. Now(gone) = NetSignals(prev, b)
    BY <1>2, <1>5, SignalsAre
  <2>2. c = Net("fails")
    BY <1>5, <2>1, NetSignalsAre DEF Kinds, Cpu, Net, SwapIn
  <2>3. c \in DOMAIN prev /\ c \in DOMAIN b
    <3>1. c \in Counters(which) /\ c \notin Fleeting
      BY <2>2 DEF Fleeting, Net
    <3>. QED  BY <1>1, <1>2, <1>5, <3>1 DEF Holds
  <2>4. Now(gone)[c] = Value(Delta(prev, b, c), 1)
    BY <2>1, <2>2, NetSignalsAre, Zenon
  <2>. QED  BY <2>3, <2>4 DEF Value, b
<1>6. CASE which = "memory"
  <2>1. Now(gone) = [i \in DOMAIN prev \cap DOMAIN b |-> Value(Delta(prev, b, i), 1)]
    BY <1>2, <1>6, SignalsAre
  <2>. QED  BY <2>1 DEF Value, b
<1>. QED  BY <1>1, <1>3, <1>4, <1>5, <1>6

(* Every difference that is reported is what was counted in the window, or    *)
(* less where something was disturbed or not read (cpu.rs:80, disk.rs:112,    *)
(* network.rs:78); of the TCP counters that the snapshot at the beginning     *)
(* lacked it is what was counted since boot (linux.rs:69, macos.rs:150).      *)
THEOREM DeltasOfTheWindow == Spec => []DeltasWithinWindow
<1>1. IInv => DeltasWithinWindow
  <2> SUFFICES ASSUME IInv, at = "sleep", left > 0, prev # Nothing
               PROVE  DeltasWithinWindow
    BY Zenon DEF DeltasWithinWindow
  <2>1. ASSUME NEW gone \in Gaps, NEW c \in DOMAIN Now(gone) \cap Counters(which), c \in Kinds
        PROVE  DeltaFits(gone, c)
    <3>1. CASE which = "cpu_macos"
      <4>1. Now(gone) = CpuSignals(prev, Snapshot(gone))
        BY <3>1, SignalsAre DEF Now
      <4>2. DOMAIN Snapshot(gone) = {Cpu(n) : n \in {"user", "system", "idle"}}
        BY <3>1, Zenon DEF Snapshot
      <4>3. DOMAIN Now(gone) \subseteq DOMAIN Snapshot(gone)
        BY <4>1 DEF CpuSignals
      <4>. QED  BY <2>1, <3>1, <4>2, <4>3, CountersAre DEF Cpu, Mac
    <3>2. CASE which # "cpu_macos"
      <4> DEFINE b == Snapshot(gone)
      <4>1. /\ Holds(kernel) /\ Holds(prev) /\ which \in Collector
            /\ CounterFits(c) /\ happened[c] \in Nat
        BY <2>1, <3>2 DEF IInv, TypeOK, WindowFits
      <4>2. c \in DOMAIN prev /\ c \in DOMAIN b /\ Now(gone)[c].num = Delta(prev, b, c)
        BY <2>1, <3>2, ReportedIs
      <4>3. c \in DOMAIN kernel /\ b[c] = IF c \in gone THEN 0 ELSE kernel[c]
        BY <2>1, <3>2, <4>1, <4>2, SnapshotIs
      <4>4. prev[c] \in Nat /\ kernel[c] \in Nat
        BY <4>1, <4>2, <4>3 DEF Holds
      <4>5. Back(c) = 0
        BY <2>1 DEF Kinds, Back, Cpu, Net, SwapIn
      <4>. HIDE DEF b
      <4>6. /\ b[c] \in Nat /\ Delta(prev, b, c) \in Nat
            /\ prev[c] <= b[c] => Delta(prev, b, c) = b[c] - prev[c]
            /\ b[c] <= prev[c] => Delta(prev, b, c) = 0
        BY <4>3, <4>4 DEF Delta
      <4>7. CASE c \in lost
        <5>1. prev[c] = 0
          BY <4>1, <4>7 DEF CounterFits
        <5>. QED  BY <4>2, <4>3, <4>4, <4>6, <4>7, <5>1 DEF DeltaFits
      <4>8. CASE c \notin lost
        <5>1. /\ kernel[c] <= prev[c] + happened[c]
              /\ c[1] \notin disturbed => kernel[c] = prev[c] + happened[c]
          BY <4>1, <4>2, <4>3, <4>4, <4>5, <4>8 DEF CounterFits, Undisturbed
        <5>. QED  BY <4>1, <4>2, <4>3, <4>4, <4>6, <4>8, <5>1 DEF DeltaFits
      <4>. QED  BY <4>7, <4>8
    <3>. QED  BY <3>1, <3>2
  <2>2. ASSUME which = "network", NEW gone \in Gaps
        PROVE  LET All == MapThenSumSet(LAMBDA d : happened[<<d, "drops">>], Dev)
                   reported == Now(gone)[Net("rx_drops")].num
               IN  reported <= All /\ (disturbed = {} => reported = All)
    <3> DEFINE b == Snapshot(gone)
    <3>1. Holds(kernel) /\ which \in Collector
      BY <2>2 DEF IInv, TypeOK
    <3>2. /\ DOMAIN b = DOMAIN kernel
          /\ \A c \in Fleeting \cap DOMAIN kernel : b[c] = kernel[c]
      <4>1. \A c \in Fleeting : c \notin gone
        BY <2>2, GapsAre DEF Fleeting, Net
      <4>. QED  BY <2>2, <3>1, <4>1, SnapshotIs
    <3>3. Now(gone) = NetSignals(prev, b)
      BY <2>2, SignalsAre DEF Now
    <3>. HIDE DEF b
    <3>. QED  BY <2>2, <3>2, <3>3, DropsFit, Zenon
  <2>. QED  BY <2>1, <2>2, Zenon DEF DeltasWithinWindow, DeltaFits, Kinds
<1>. QED  BY <1>1, InvariantHolds, PTL

(* Sampling covers the run without gap or overlap (cpu.rs:132-157).           *)
THEOREM SamplingCovers == Spec => []SamplesCoverTheRun
<1>1. Cover => SamplesCoverTheRun
  BY Zenon DEF Cover, SamplesCoverTheRun, Taken, SumOfSamples
<1>. QED  BY <1>1, InvariantHolds, PTL DEF IInv

(* The shares that are reported are of times that are all in the total.       *)
LEMMA SharesFit ==
    ASSUME IInv, at = "sleep", prev # Nothing, which = "cpu"
    PROVE  LET s == CpuSignals(prev, kernel)
               Shares == DOMAIN s \ {Cpu("ctxt")}
           IN  \A c \in Shares : SumNum(s, Shares) <= s[c].den + back
<1> DEFINE s == CpuSignals(prev, kernel)
           Shares == DOMAIN s \ {Cpu("ctxt")}
           u == Cpu("user")
           i == Cpu("idle")
           w == Cpu("iowait")
           o == Cpu("other")
           total == Total(kernel) - Total(prev)
           D(c) == Delta(prev, kernel, c)
<1>1. /\ Holds(prev) /\ Holds(kernel) /\ happened \in [Counters(which) -> Nat]
      /\ Counters(which) = {u, i, w, o, Cpu("ctxt")}
      /\ \A c \in Counters(which) : CounterFits(c) /\ Undisturbed(c) /\ c \notin lost
      /\ back \in Nat
  BY CountersAre, GapsAre DEF IInv, TypeOK, WindowFits, Undisturbed
<1>2. /\ u # i /\ u # w /\ u # o /\ i # w /\ i # o /\ w # o
      /\ Cpu("ctxt") \notin {u, i, w, o}
  BY DEF Cpu
<1>10. Back(w) = back /\ \A c : c # w => Back(c) = 0
  BY DEF Back
<1>. HIDE DEF u, i, w, o
<1>3. ASSUME NEW k, Holds(k)
      PROVE  /\ DOMAIN k = Counters(which)
             /\ k[u] \in Nat /\ k[i] \in Nat /\ k[w] \in Nat /\ k[o] \in Nat
             /\ Total(k) = k[u] + k[i] + k[w] + k[o]
  <2>1. DOMAIN k = Counters(which) /\ \A c \in Counters(which) : k[c] \in Nat
    BY <1>3 DEF Holds
  <2>2. DOMAIN k \ {Cpu("ctxt")} = Shown \cup {o}
    BY <1>1, <1>2, <2>1 DEF Shown, u, i, w
  <2>3. Total(k) = Sum(k, Shown \cup {o})
    BY <2>2, Zenon DEF Total, Sum
  <2>4. k[u] \in Nat /\ k[i] \in Nat /\ k[w] \in Nat /\ k[o] \in Nat
    BY <1>1, <2>1
  <2>5. Sum(k, Shown \cup {o}) = k[o] + (k[u] + k[i] + k[w])
    <3>1. \A c \in Shown : k[c] \in Nat
      BY <2>4 DEF Shown, u, i, w
    <3>. QED  BY <2>4, <3>1, SumOfShares, Zenon DEF u, i, w, o
  <2>. QED  BY <2>1, <2>3, <2>4, <2>5
<1>4. ASSUME NEW c \in Counters(which)
      PROVE  /\ kernel[c] = prev[c] + happened[c] - Back(c) /\ happened[c] \in Nat
             /\ D(c) = IF happened[c] > Back(c) THEN happened[c] - Back(c) ELSE 0
  <2>1. c \in DOMAIN kernel /\ kernel[c] \in Nat /\ prev[c] \in Nat /\ happened[c] \in Nat
    BY <1>1, <1>3 DEF Holds
  <2>2. kernel[c] = prev[c] + happened[c] - Back(c) /\ Back(c) \in Nat
    BY <1>1, <1>10, <2>1 DEF CounterFits
  <2>. QED  BY <2>1, <2>2 DEF Delta
<1>5. total = happened[u] + happened[i] + happened[w] + happened[o] - back /\ total \in Int
  <2>1. u \in Counters(which) /\ i \in Counters(which) /\ w \in Counters(which) /\ o \in Counters(which)
    BY <1>1
  <2>. QED  BY <1>1, <1>2, <1>3, <1>4, <1>10, <2>1
<1>6. DOMAIN s = IF total > 0 THEN {u, i, w, Cpu("ctxt")} ELSE {Cpu("ctxt")}
  <2>1. Total(prev) \in Nat /\ Total(kernel) \in Nat
    BY <1>1, <1>3
  <2>2. total > 0 <=> (IF Total(kernel) > Total(prev) THEN Total(kernel) - Total(prev) ELSE 0) > 0
    BY <2>1
  <2>3. DOMAIN kernel = {u, i, w, o, Cpu("ctxt")}
    BY <1>1, <1>3
  <2>4. DOMAIN kernel \ {Cpu("ctxt"), Cpu("other")} = {u, i, w}
        /\ DOMAIN kernel \cap {Cpu("ctxt")} = {Cpu("ctxt")}
    BY <1>2, <2>3 DEF o
  <2>. HIDE DEF total
  <2>5. CASE total > 0
    BY <2>2, <2>4, <2>5 DEF CpuSignals
  <2>6. CASE ~(total > 0)
    BY <2>2, <2>4, <2>6 DEF CpuSignals
  <2>. QED  BY <2>5, <2>6
<1>7. ASSUME total > 0, NEW c \in {u, i, w}
      PROVE  s[c].num = D(c) /\ s[c].den = total
  <2>1. c \in DOMAIN s /\ c # Cpu("ctxt") /\ c \in Counters(which)
    BY <1>1, <1>2, <1>6, <1>7
  <2>2. Total(prev) \in Nat /\ Total(kernel) \in Nat
    BY <1>1, <1>3
  <2>3. (IF Total(kernel) > Total(prev) THEN Total(kernel) - Total(prev) ELSE 0) = total
    BY <1>7, <2>2
  <2>4. s[c] = Value(D(c), total)
    <3>1. s[c] = Value(D(c), IF c \in DOMAIN kernel \cap {Cpu("ctxt")} THEN 1
                             ELSE IF Total(kernel) > Total(prev) THEN Total(kernel) - Total(prev) ELSE 0)
      <4>. HIDE DEF total
      <4>. QED  BY <2>1 DEF CpuSignals
    <3>. HIDE DEF s, total
    <3>. QED  BY <2>1, <2>3, <3>1
  <2>. HIDE DEF s, total, D
  <2>. QED  BY <1>7, <2>4 DEF Value
<1>8. CASE total > 0
  <2>1. Shares = Shown
    <3>. HIDE DEF s, total
    <3>. QED  BY <1>2, <1>6, <1>8 DEF Shown, u, i, w
  <2> DEFINE f == [c \in Shown |-> s[c].num]
  <2>2. /\ f[u] = happened[u] /\ f[i] = happened[i]
        /\ f[w] = IF happened[w] > back THEN happened[w] - back ELSE 0
        /\ happened[u] \in Nat /\ happened[i] \in Nat /\ happened[w] \in Nat /\ happened[o] \in Nat
    <3>. HIDE DEF s, total
    <3>1. Shown = {u, i, w}
      BY DEF Shown, u, i, w
    <3>2. f[u] = D(u) /\ f[i] = D(i) /\ f[w] = D(w)
      BY <1>7, <1>8, <3>1
    <3>3. u \in Counters(which) /\ i \in Counters(which) /\ w \in Counters(which) /\ o \in Counters(which)
      BY <1>1
    <3>4. D(u) = happened[u] /\ D(i) = happened[i]
      BY <1>2, <1>4, <1>10, <3>3
    <3>5. D(w) = IF happened[w] > back THEN happened[w] - back ELSE 0
      BY <1>4, <1>10, <3>3
    <3>. HIDE DEF D, f
    <3>. QED  BY <1>1, <3>2, <3>3, <3>4, <3>5
  <2>3. SumNum(s, Shown) = Sum(f, Shown)
    BY SumOfNum
  <2>. HIDE DEF f
  <2>4. \A c \in Shown : f[c] \in Nat
    BY <1>1, <2>2 DEF Shown, u, i, w
  <2>5. Sum(f, Shown) = f[u] + f[i] + f[w]
    BY <2>4, SumOfShares, Zenon DEF u, i, w
  <2>6. SumNum(s, Shares) <= total + back
    <3>1. SumNum(s, Shares) = f[u] + f[i] + f[w]
      BY <2>1, <2>3, <2>5, Zenon
    <3>. HIDE DEF s, Shares, total
    <3>. QED  BY <1>1, <1>5, <2>2, <3>1
  <2>7. \A c \in Shares : s[c].den = total
    <3>. HIDE DEF s, Shares, total
    <3>. QED  BY <1>7, <1>8, <2>1 DEF Shown, u, i, w
  <2>. HIDE DEF s, Shares, total
  <2>8. \A c \in Shares : SumNum(s, Shares) <= s[c].den + back
    BY <2>6, <2>7
  <2>. QED  BY <2>8 DEF s, Shares
<1>9. CASE ~(total > 0)
  <2>1. Shares = {}
    <3>. HIDE DEF s, total
    <3>. QED  BY <1>6, <1>9
  <2>. HIDE DEF Shares
  <2>2. \A c \in Shares : SumNum(s, Shares) <= s[c].den + back
    BY <2>1
  <2>. QED  BY <2>2 DEF Shares
<1>. QED  BY <1>8, <1>9

(* No disk, and so not the worst of them, is busy for longer than the window. *)
LEMMA BusyFits ==
    ASSUME IInv, at = "sleep", prev # Nothing, which = "disk"
    PROVE  LET s == DiskSignals(prev, kernel)
           IN  \A i \in DOMAIN s : i[2] = "util_pct" => s[i].num <= s[i].den
<1> DEFINE s == DiskSignals(prev, kernel)
           Both == {d \in Dev : OfDev(d) \subseteq DOMAIN prev \cap DOMAIN kernel}
           Util(d) == Min({Delta(prev, kernel, <<d, "busy">>), BusyMax})
           W == {d \in Both : \A e \in Both : Util(e) <= Util(d)}
<1>1. Holds(prev) /\ Holds(kernel) /\ BusyMax \in Nat
  BY CountAssumption DEF IInv, TypeOK
<1>2. ASSUME NEW d \in Both PROVE Util(d) \in 0 .. BusyMax
  <2>1. <<d, "busy">> \in DOMAIN prev /\ <<d, "busy">> \in DOMAIN kernel
    BY DEF OfDev
  <2>2. Delta(prev, kernel, <<d, "busy">>) \in Nat
    BY <1>1, <2>1 DEF Holds, Delta
  <2>. QED  BY <1>1, <2>2, MinOfTwo
<1>. HIDE DEF Util
<1>3. Both # {} => W # {}
  <2> SUFFICES ASSUME Both # {} PROVE W # {}
    OBVIOUS
  <2> DEFINE S == {k \in 1 .. BusyMax + 1 : \E d \in Both : Util(d) = k - 1}
  <2>1. S \in SUBSET (1 .. BusyMax + 1) /\ S # {}
    <3>1. PICK d \in Both : TRUE
      OBVIOUS
    <3>2. Util(d) + 1 \in S
      BY <1>1, <1>2, <3>1
    <3>. QED  BY <3>2
  <2>2. PICK x \in S : \A j \in S : j <= x
    <3>1. BusyMax + 1 \in Nat
      BY <1>1
    <3>. HIDE DEF S
    <3>. QED  BY <2>1, <3>1, FirstAndLast
  <2>3. PICK d \in Both : Util(d) = x - 1
    BY <2>2
  <2>4. ASSUME NEW e \in Both PROVE Util(e) <= Util(d)
    <3>1. Util(e) \in 0 .. BusyMax /\ Util(e) + 1 \in S
      BY <1>1, <1>2
    <3>2. Util(e) + 1 <= x /\ x \in Nat
      BY <2>2, <3>1
    <3>. QED  BY <2>3, <3>1, <3>2
  <2>5. d \in W
    BY <2>3, <2>4
  <2>. QED  BY <2>5
<1>4. ASSUME NEW d \in Both
      PROVE  Value(Util(d), BusyMax).num <= Value(Util(d), BusyMax).den
  BY <1>1, <1>2 DEF Value
<1>5. /\ DOMAIN s = (Both \X {"ios", "util_pct", "await_ms"}) \cup
                       (IF Both = {} THEN {} ELSE {"max"} \X {"util_pct", "await_ms"})
      /\ \A d \in Both : s[<<d, "util_pct">>] = Value(Util(d), BusyMax)
      /\ Both # {} => s[<<"max", "util_pct">>] = Value(Util(CHOOSE d \in W : TRUE), BusyMax)
  BY DiskSignalsAre, Zenon DEF Util
<1>. HIDE DEF s, Both, W
<1>6. Both # {} => (CHOOSE d \in W : TRUE) \in Both
  BY <1>3 DEF W
<1>7. ASSUME NEW i \in DOMAIN s, i[2] = "util_pct" PROVE s[i].num <= s[i].den
  <2>1. \/ \E d \in Both : i = <<d, "util_pct">>
        \/ Both # {} /\ i = <<"max", "util_pct">>
    BY <1>5, <1>7
  <2>2. \E d \in Both : s[i] = Value(Util(d), BusyMax)
    BY <1>5, <1>6, <2>1
  <2>. QED  BY <1>4, <2>2
<1>. QED  BY <1>7 DEF s

(* The shares of the CPU time together make no more than the whole and what   *)
(* iowait went back by in the window, and no disk is busy for longer than the *)
(* window (cpu.rs:63, disk.rs:125).                                           *)
THEOREM PercentagesAreShares == Spec => []PercentagesFit
<1>1. IInv => PercentagesFit
  <2> SUFFICES ASSUME IInv, at = "sleep", left > 0, prev # Nothing
               PROVE  PercentagesFit
    BY Zenon DEF PercentagesFit
  <2>1. which \in {"cpu", "disk"} => Snapshot({}) = kernel
    BY SnapshotIs, GapsAre DEF IInv, TypeOK
  <2>2. ASSUME which = "cpu"
        PROVE  LET Shares == DOMAIN Now({}) \ {Cpu("ctxt")}
               IN  \A c \in Shares :
                      MapThenSumSet(LAMBDA i : Now({})[i].num, Shares) <= Now({})[c].den + back
    <3>1. Now({}) = CpuSignals(prev, kernel)
      BY <2>1, <2>2, SignalsAre DEF Now
    <3>2. LET Shares == DOMAIN Now({}) \ {Cpu("ctxt")}
          IN  \A c \in Shares : SumNum(Now({}), Shares) <= Now({})[c].den + back
      BY <2>2, <3>1, SharesFit, Zenon
    <3>. QED  BY <3>2, Zenon DEF SumNum
  <2>3. ASSUME which = "disk"
        PROVE  \A i \in DOMAIN Now({}) : i[2] = "util_pct" => Now({})[i].num <= Now({})[i].den
    <3>1. Now({}) = DiskSignals(prev, kernel)
      BY <2>1, <2>3, SignalsAre DEF Now
    <3>. QED  BY <2>3, <3>1, BusyFits, Zenon
  <2>. QED  BY <2>2, <2>3, Zenon DEF PercentagesFit
<1>. QED  BY <1>1, InvariantHolds, PTL
===============================================================================
