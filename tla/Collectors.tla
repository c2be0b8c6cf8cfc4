------------------------------ MODULE Collectors ------------------------------
(***************************************************************************)
(* The collectors that read counters twice and report what happened in     *)
(* between (collector/cpu.rs, disk.rs, network.rs, memory.rs), over the    *)
(* snapshots of collector/platform: counters that grow, go back, vanish    *)
(* and appear while the collector sleeps, and reads that fail, or that     *)
(* lack a part and go on with a default.                                   *)
(*                                                                         *)
(* Counters and signals are named <<owner, name>>, a signal that is the    *)
(* difference of one counter like that counter. Of counters treated alike  *)
(* one stands for all: `ios` for reads and writes, `time` for both times,  *)
(* `fails` for the resets, `user` for system, `other` for nice, irq,       *)
(* softirq and steal. A rate is given as the count of its window; a window *)
(* has BusyMax units of busy time. A value is a fraction [num, den]. What  *)
(* a snapshot tells of one moment (run queue, memory, TIME_WAIT) is left   *)
(* out.                                                                    *)
(***************************************************************************)
EXTENDS Integers, Sequences, FiniteSets, FiniteSetsExt, SequencesExt, Functions

CONSTANTS Collector,   \* the collectors to run
          Dev,         \* the names of the disks and of the network interfaces
          Begin,       \* what every counter, and the macOS uptime, stands at
          Cpus,        \* macOS: the number of CPUs
          Lossy,       \* the collectors whose snapshots may lack a part
          MaxEvents,   \* bound: how much may happen between two reads
          Durations,   \* --duration and --interval, in seconds
          Intervals,
          BusyMax,     \* units of busy time in a window of a disk
          Loads        \* macOS: what iostat may show, <<us, sy, id>>

ASSUME CollectorAssumption ==
    Collector \subseteq {"cpu", "cpu_macos", "disk", "network", "memory"}
(* The worst of the disks is reported under the name max.                     *)
ASSUME DevAssumption == IsFiniteSet(Dev) /\ "max" \notin Dev
ASSUME SamplingAssumption == Durations \cup Intervals \subseteq Nat
ASSUME CountAssumption == {Begin, MaxEvents, BusyMax, Cpus} \subseteq Nat
ASSUME LoadAssumption == Loads \subseteq (0..100) \X (0..100) \X (0..100)

VARIABLES which,      \* the collector that runs
          ctx,        \* duration and interval, when there is sampling
          at,         \* where collect() stands
          kernel,     \* the counters there are, with their values
          happened,   \* per counter: what was counted since the last read
          disturbed,  \* disks and interfaces that went or came since then
          back,       \* how far iowait went back since then
          budget,     \* events that may still happen before the next read
          first,      \* the first snapshot
          prev,       \* the last snapshot
          lost,       \* the counters that it lacks
          left,       \* reads still to do
          samples,    \* per signal: the values of the windows so far
          signals     \* what collect() returns

world == <<kernel, happened, disturbed, back, budget>>
own == <<ctx, at, first, prev, lost, left, samples, signals>>
vars == <<which, world, own>>

Nothing == [c \in {} |-> 0]
NoSampling == [on |-> FALSE, duration |-> 0, interval |-> 0]

-------------------------------------------------------------------------------
(* The counters                                                              *)

Cpu(n) == <<"cpu", n>>
Net(n) == <<"net", n>>
Mac(n) == <<"iostat", n>>
SwapIn == <<"vmstat", "swap_in">>
OfDev(d) == {d} \X (IF which = "disk" THEN {"ios", "time", "busy"} ELSE {"drops"})

Counters(w) ==
    CASE w = "cpu" -> {Cpu(n) : n \in {"user", "idle", "iowait", "other", "ctxt"}}
      [] w = "cpu_macos" -> {Mac(n) : n \in {"uptime", "cpus", "us", "sy", "id"}}
      [] w = "disk" -> Dev \X {"ios", "time", "busy"}
      [] w = "network" -> {Net(n) : n \in {"out", "retrans", "fails"}} \cup Dev \X {"drops"}
      [] w = "memory" -> {SwapIn}

(* What a snapshot may lack although the read succeeds: /proc/net/snmp or     *)
(* netstat -s, /proc/vmstat, and what macOS says of its uptime and its CPUs.  *)
Gaps ==
    {{}} \cup
    {g \in {{Net(n) : n \in {"out", "retrans", "fails"}}, {SwapIn},
            {Mac("uptime")}, {Mac("cpus")}, {Mac("uptime"), Mac("cpus")}} :
        which \in Lossy /\ g \subseteq Counters(which)}

(* What a read returns that lacks g: counters of 0, no counter of pages       *)
(* swapped in, an uptime of 1 and one CPU. On macOS iostat gives percentages, *)
(* of which the snapshot makes ticks: uptime * 100 Hz * CPUs * percentage/100.*)
Snapshot(g) ==
    IF which # "cpu_macos"
    THEN [c \in DOMAIN kernel \ (g \cap {SwapIn}) |-> IF c \in g THEN 0 ELSE kernel[c]]
    ELSE LET Known(n) == IF Mac(n) \in g THEN 1 ELSE kernel[Mac(n)]
             Ticks(n) == Known("uptime") * Known("cpus") * kernel[Mac(n)]
         IN  [c \in {Cpu(n) : n \in {"user", "system", "idle"}} |->
                 CASE c = Cpu("user") -> Ticks("us")
                   [] c = Cpu("system") -> Ticks("sy")
                   [] c = Cpu("idle") -> Ticks("id")]

Showing(uptime, load) ==
    [c \in Counters("cpu_macos") |->
        CASE c = Mac("uptime") -> uptime [] c = Mac("cpus") -> Cpus
          [] c = Mac("us") -> load[1] [] c = Mac("sy") -> load[2] [] c = Mac("id") -> load[3]]

(* Only the CPU collector samples.                                           *)
Init ==
    /\ which \in Collector
    /\ ctx \in {NoSampling} \cup [on : {c \in {TRUE} : which \in {"cpu", "cpu_macos"}},
                                 duration : Durations, interval : Intervals]
    /\ at = "begin"
    /\ kernel \in IF which = "cpu_macos" THEN {Showing(Begin, l) : l \in Loads}
                 ELSE {[c \in Counters(which) \ UNION {OfDev(d) : d \in Away} |-> Begin] :
                          Away \in IF which \in {"disk", "network"} THEN SUBSET Dev \ {Dev}
                                   ELSE {{}}}
    /\ happened = [c \in Counters(which) |-> 0]
    /\ disturbed = {} /\ back = 0
    /\ budget = MaxEvents
    /\ first = Nothing /\ prev = Nothing /\ lost = {}
    /\ left = 0
    /\ samples = Nothing /\ signals = Nothing

(* Something happens while the collector sleeps.                             *)
Happens ==
    /\ at = "sleep" /\ left > 0
    /\ budget > 0
    /\ budget' = budget - 1
    /\ UNCHANGED <<which, own>>

Count(c) ==
    /\ which # "cpu_macos"
    /\ c \in DOMAIN kernel
    /\ Happens
    /\ kernel' = [kernel EXCEPT ![c] = @ + 1]
    /\ happened' = [happened EXCEPT ![c] = @ + 1]
    /\ UNCHANGED <<disturbed, back>>

(* iowait may decrease: so documents the kernel of its /proc/stat.           *)
GoBack ==
    LET c == Cpu("iowait")
    IN  /\ which = "cpu" /\ kernel[c] > 0
        /\ Happens
        /\ kernel' = [kernel EXCEPT ![c] = @ - 1]
        /\ back' = back + 1
        /\ UNCHANGED <<happened, disturbed>>

(* A disk or an interface goes; another one is always left.                  *)
Vanish(d) ==
    /\ which \in {"disk", "network"}
    /\ OfDev(d) \subseteq DOMAIN kernel
    /\ \E e \in Dev \ {d} : OfDev(e) \subseteq DOMAIN kernel
    /\ Happens
    /\ kernel' = Restrict(kernel, DOMAIN kernel \ OfDev(d))
    /\ disturbed' = disturbed \cup {d}
    /\ UNCHANGED <<happened, back>>

(* One comes: the same name again with counters that begin at zero, or, under *)
(* a name that the last read did not show, one that has counted before.       *)
Appear(d, n) ==
    /\ which \in {"disk", "network"}
    /\ OfDev(d) \cap DOMAIN kernel = {}
    /\ n = 0 \/ OfDev(d) \cap DOMAIN prev = {}
    /\ Happens
    /\ kernel' = [c \in DOMAIN kernel \cup OfDev(d) |->
                     IF c \in OfDev(d) THEN n ELSE kernel[c]]
    /\ disturbed' = disturbed \cup {d}
    /\ UNCHANGED <<happened, back>>

(* macOS: a second later iostat shows the same or another load.              *)
SecondPasses(load) ==
    /\ which = "cpu_macos"
    /\ Happens
    /\ kernel' = Showing(kernel[Mac("uptime")] + 1, load)
    /\ UNCHANGED <<happened, disturbed, back>>

World ==
    \/ \E c \in Counters(which) : Count(c)
    \/ GoBack
    \/ \E d \in Dev : Vanish(d) \/ \E n \in {0, Begin} : Appear(d, n)
    \/ \E l \in Loads : SecondPasses(l)

-------------------------------------------------------------------------------
(* What two snapshots say                                                    *)

(* saturating_sub of a counter that both snapshots have                      *)
Delta(a, b, c) == IF b[c] > a[c] THEN b[c] - a[c] ELSE 0
Value(n, d) == IF d > 0 THEN [num |-> n, den |-> d] ELSE [num |-> 0, den |-> 1]

(* Mutant: iowait, which macOS does not have, is not in the total.           *)
TotalWithoutIowait(s) == MapThenSumSet(LAMBDA c : s[c], DOMAIN s \ {Cpu("ctxt"), Cpu("iowait")})

Total(s) == MapThenSumSet(LAMBDA c : s[c], DOMAIN s \ {Cpu("ctxt")})

CpuSignals(a, b) ==
    LET total == IF Total(b) > Total(a) THEN Total(b) - Total(a) ELSE 0
        Shown == IF total > 0 THEN DOMAIN b \ {Cpu("ctxt"), Cpu("other")} ELSE {}
        Plain == DOMAIN b \cap {Cpu("ctxt")}
    IN  [c \in Shown \cup Plain |-> Value(Delta(a, b, c), IF c \in Plain THEN 1 ELSE total)]

(* Disks that both snapshots show; the busy time is cut at the whole window.  *)
DiskSignals(a, b) ==
    LET Both == {d \in Dev : OfDev(d) \subseteq DOMAIN a \cap DOMAIN b}
        Util(d) == Min({Delta(a, b, <<d, "busy">>), BusyMax})
        Await(d) == Value(Delta(a, b, <<d, "time">>), Delta(a, b, <<d, "ios">>))
        Worst(n) == {d \in Both : n = "util_pct" /\ \A e \in Both : Util(e) <= Util(d)} \cup
                    {d \in Both : n = "await_ms" /\ \A e \in Both :
                        Await(e).num * Await(d).den <= Await(d).num * Await(e).den}
        Of(d, n) == CASE n = "ios" -> Value(Delta(a, b, <<d, "ios">>), 1)
                      [] n = "util_pct" -> Value(Util(d), BusyMax)
                      [] n = "await_ms" -> Await(d)
    IN  [i \in (Both \X {"ios", "util_pct", "await_ms"}) \cup
              (IF Both = {} THEN {} ELSE {"max"} \X {"util_pct", "await_ms"}) |->
            Of(IF i[1] = "max" THEN CHOOSE d \in Worst(i[2]) : TRUE ELSE i[1], i[2])]

(* Mutant: an interface that is new has dropped all it ever dropped.         *)
DropsOfNew(a, b, c) == IF c \in DOMAIN a THEN Delta(a, b, c) ELSE b[c]

(* An interface that is new counts from where it is.                         *)
Drops(a, b, c) == IF c \in DOMAIN a THEN Delta(a, b, c) ELSE 0

NetSignals(a, b) ==
    LET D(n) == Delta(a, b, Net(n))
    IN  [i \in {Net("rx_drops"), Net("retrans_pct"), Net("fails")} |->
            CASE i = Net("rx_drops") ->
                     Value(MapThenSumSet(LAMBDA c : Drops(a, b, c), DOMAIN b \cap (Dev \X {"drops"})), 1)
              [] i = Net("retrans_pct") -> Value(D("retrans"), D("out"))
              [] i = Net("fails") -> Value(D("fails"), 1)]

(* A read that failed is Nothing; memory goes on without the first.             *)
SignalsOf(a, b) ==
    CASE which \in {"cpu", "cpu_macos"} -> CpuSignals(a, b)
      [] which = "disk" -> DiskSignals(a, b)
      [] which = "network" -> NetSignals(a, b)
      [] which = "memory" -> [i \in DOMAIN a \cap DOMAIN b |-> Value(Delta(a, b, i), 1)]

-------------------------------------------------------------------------------
(* collect()                                                                 *)

Quiet == /\ happened' = [c \in Counters(which) |-> 0]
         /\ disturbed' = {} /\ back' = 0
         /\ budget' = MaxEvents

(* duration / interval + 1 windows; 0/0 is NaN and counts as 0, x/0 is        *)
(* infinite, becomes usize::MAX, and the + 1 wraps or panics.                 *)
Windows(c) ==
    IF ~c.on THEN 1
    ELSE IF c.interval > 0 THEN c.duration \div c.interval + 1
    ELSE IF c.duration = 0 THEN 1 ELSE 0

WindowsOverflow ==
    /\ at = "begin"
    /\ ctx.on /\ ctx.interval = 0 /\ ctx.duration > 0
    /\ at' = "panicked"
    /\ UNCHANGED <<which, world, ctx, first, prev, lost, left, samples, signals>>

FirstRead(g) ==
    /\ at = "begin"
    /\ first' = Snapshot(g) /\ prev' = Snapshot(g) /\ lost' = g
    /\ left' = Windows(ctx)
    /\ at' = IF left' = 0 THEN "done" ELSE "sleep"
    /\ UNCHANGED <<which, world, ctx, samples, signals>>

FirstReadFails ==
    /\ at = "begin"
    /\ left' = Windows(ctx)
    /\ at' = IF which = "memory" THEN "sleep" ELSE "done"
    /\ UNCHANGED <<which, world, ctx, first, prev, lost, samples, signals>>

(* sleep() has let at least a second pass.                                   *)
Slept == at = "sleep" /\ (which = "cpu_macos" => budget < MaxEvents)

Read(g) ==
    /\ Slept /\ ~ctx.on
    /\ signals' = SignalsOf(prev, Snapshot(g))
    /\ prev' = Snapshot(g) /\ lost' = g
    /\ left' = left - 1
    /\ at' = "done"
    /\ UNCHANGED <<which, world, ctx, first, samples>>

ReadFails ==
    /\ Slept /\ ~ctx.on
    /\ at' = "done"
    /\ UNCHANGED <<which, world, ctx, first, prev, lost, left, samples, signals>>

Appended(s, new) ==
    [i \in DOMAIN s \cup DOMAIN new |->
        (IF i \in DOMAIN s THEN s[i] ELSE <<>>) \o
        (IF i \in DOMAIN new THEN <<new[i]>> ELSE <<>>)]

(* Mutant: every window begins at the first snapshot.                        *)
SampleFromFirst(g) ==
    /\ Slept /\ ctx.on /\ left > 0
    /\ samples' = Appended(samples, SignalsOf(prev, Snapshot(g)))
    /\ left' = left - 1
    /\ Quiet
    /\ UNCHANGED <<which, kernel, ctx, at, first, prev, lost, signals>>

Sample(g) ==
    /\ Slept /\ ctx.on /\ left > 0
    /\ samples' = Appended(samples, SignalsOf(prev, Snapshot(g)))
    /\ prev' = Snapshot(g) /\ lost' = g
    /\ left' = left - 1
    /\ Quiet
    /\ UNCHANGED <<which, kernel, ctx, at, first, signals>>

(* The last window is over, or a read failed: the last value of every signal. *)
EndSampling ==
    /\ at = "sleep" /\ ctx.on
    /\ left = 0 \/ Slept
    /\ signals' = [i \in DOMAIN samples |-> Last(samples[i])]
    /\ at' = "done"
    /\ UNCHANGED <<which, world, ctx, first, prev, lost, left, samples>>

Collect == \/ WindowsOverflow \/ FirstReadFails \/ ReadFails \/ EndSampling
           \/ \E g \in Gaps : FirstRead(g) \/ Read(g) \/ Sample(g)

Done == at \in {"done", "panicked"} /\ UNCHANGED vars

Next == World \/ Collect \/ Done

Spec == Init /\ [][Next]_vars

-------------------------------------------------------------------------------
(* Properties                                                                *)

(* What the collector would report if it read now, and what it would lack.    *)
Now(gone) == SignalsOf(prev, Snapshot(gone))

(* A difference of counters that is reported is what the kernel counted in    *)
(* the window, never more, and less only for a disk or an interface that came *)
(* or went, or for counters that the read at the end of the window lacked: the*)
(* first snapshot, an earlier window, a new disk or interface must not leak   *)
(* into it (cpu.rs:80, disk.rs:112, network.rs:78). Where the snapshot at the *)
(* beginning lacked the TCP counters, what is reported of them is not the     *)
(* window's: it is all that was counted since boot (linux.rs:69, macos.rs:150,*)
(* network.rs:77, 92).                                                        *)
DeltasWithinWindow ==
    (at = "sleep" /\ left > 0 /\ prev # Nothing) =>
        \A gone \in Gaps :
           /\ \A c \in DOMAIN Now(gone) \cap Counters(which) :
                 c \in {<<d, "ios">> : d \in Dev} \cup {Cpu("ctxt"), Net("fails"), SwapIn} =>
                    LET reported == Now(gone)[c].num
                    IN  /\ c \notin lost => reported <= happened[c]
                        /\ c \notin lost \cup gone /\ c[1] \notin disturbed =>
                              reported = happened[c]
                        /\ c \in lost \ gone => reported = kernel[c]
           /\ which = "network" =>
                 LET All == MapThenSumSet(LAMBDA d : happened[<<d, "drops">>], Dev)
                     reported == Now(gone)[Net("rx_drops")].num
                 IN  /\ reported <= All
                     /\ disturbed = {} => reported = All

(* Sampling covers the run without gap or overlap: the windows are as many as *)
(* the options say, and what they report adds up to the difference between    *)
(* the last snapshot and the first (cpu.rs:132-157).                          *)
SamplesCoverTheRun ==
    (which = "cpu" /\ ctx.on /\ first # Nothing) =>
        LET s == IF Cpu("ctxt") \in DOMAIN samples THEN samples[Cpu("ctxt")] ELSE <<>>
        IN  /\ Len(s) + left = Windows(ctx)
            /\ FoldSeq(LAMBDA v, sum : v.num + sum, 0, s) =
                   prev[Cpu("ctxt")] - first[Cpu("ctxt")]

(* The shares of the CPU time make no more than the whole and what iowait went*)
(* back by in the window, and no disk is busier than the window is long       *)
(* (cpu.rs:63, disk.rs:125). Of neither a part may be lacking.                *)
PercentagesFit ==
    (at = "sleep" /\ left > 0 /\ prev # Nothing) =>
        LET now == Now({})
        IN  /\ which = "cpu" =>
                  LET Shares == DOMAIN now \ {Cpu("ctxt")}
                  IN  \A c \in Shares :
                         MapThenSumSet(LAMBDA i : now[i].num, Shares) <= now[c].den + back
            /\ which = "disk" =>
                  \A i \in DOMAIN now : i[2] = "util_pct" => now[i].num <= now[i].den

(* The shares of the CPU time reported add up to the whole, as the tests say  *)
(* of the collectors (tests/sdd_version_2_phase3.rs:109).                     *)
PercentagesAddUp ==
    at = "done" =>
        LET Shares == DOMAIN signals \cap {Cpu("user"), Cpu("system"), Cpu("idle")}
        IN  \A c \in Shares :
               MapThenSumSet(LAMBDA i : signals[i].num, Shares) = signals[c].den

===============================================================================
