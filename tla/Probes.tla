-------------------------------- MODULE Probes --------------------------------
(***************************************************************************)
(* The collectors that look once: cgroup.rs, interrupts.rs, dmesg.rs,      *)
(* host.rs, cpufreq.rs and bpf.rs of collector/, and what the readers of   *)
(* platform/linux.rs make of the tables of the kernel.                     *)
(*                                                                         *)
(* A file is a table of fields already split at white space; a field is a  *)
(* number or Junk. What is not there, or is not read, is Missing. Ids are  *)
(* the last segments of the ids of the signals. A share or a ratio is a    *)
(* fraction [num, den]; midpoints and medians are taken as the comments    *)
(* say, to stay whole.                                                     *)
(***************************************************************************)
EXTENDS Stats, Positions, FiniteSetsExt, Functions, TLC

CONSTANTS Missing, Junk,
          Unlimited     \* The word "max" in the file of a limit.

(* They are none of the numbers, and what is missing no signal either.        *)
ASSUME MarkersAssumption ==
    /\ Missing \notin Int /\ Junk \notin Int /\ Unlimited \notin Int
    /\ Missing # Junk /\ Missing # Unlimited
    /\ Missing \notin BOOLEAN
    /\ Missing \notin [num : Int, den : Int] \cup [samples : Seq(Int), value : Int]

NumberAt(fields, i) ==
    IF i \in DOMAIN fields /\ fields[i] # Junk THEN fields[i] ELSE Missing
OrZero(value) == IF value = Missing THEN 0 ELSE value
Numeric(fields) == Pick(fields, {i \in DOMAIN fields : fields[i] # Junk})

(* What is Missing makes no signal.                                          *)
Present(f) == Restrict(f, {i \in DOMAIN f : f[i] # Missing})

-------------------------------------------------------------------------------
(* cgroup.rs. A group is a directory: a function from the names of its files   *)
(* to what they hold, a number, Unlimited, Junk or, for one of keys, a function.*)

File(group, name) == IF name \in DOMAIN group THEN group[name] ELSE Missing

IsV2(group) == {"cgroup.controllers", "cpu.stat", "memory.current"} \cap DOMAIN group # {}

(* read_u64, read_mem_max, read_keyed                                        *)
ReadNumber(group, name) ==
    LET v == File(group, name) IN IF v \in {Unlimited, Junk} THEN Missing ELSE v
ReadMax(group, name) ==
    LET v == File(group, name)
    IN  CASE v = Unlimited -> 0 [] v = Junk -> Missing [] OTHER -> v
ReadKeyed(group, name, key) ==
    LET v == File(group, name)
    IN  IF v = Missing \/ key \notin DOMAIN v THEN Missing ELSE v[key]

CollectV2(group) ==
    [memory_bytes |-> ReadNumber(group, "memory.current"),
     memory_limit_bytes |-> ReadMax(group, "memory.max"),
     oom_kills |-> ReadKeyed(group, "memory.events", "oom_kill"),
     pids_current |-> ReadNumber(group, "pids.current"),
     cpu_throttled_usec |-> ReadKeyed(group, "cpu.stat", "throttled_usec")]

(* Version 1 has no limit where it stands above half the largest number. What  *)
(* is reported as throttled are a thousandth of the nanoseconds of CPU used.   *)
NoLimit == 1000     \* stands for i64::MAX / 2

CollectV1(group) ==
    LET limit == ReadNumber(group, "memory/memory.limit_in_bytes")
        usage == ReadNumber(group, "cpuacct/cpuacct.usage")
    IN  [memory_bytes |-> ReadNumber(group, "memory/memory.usage_in_bytes"),
         memory_limit_bytes |-> IF limit # Missing /\ limit > NoLimit THEN 0 ELSE limit,
         pids_current |-> ReadNumber(group, "pids/pids.current"),
         cpu_throttled_usec |-> IF usage = Missing THEN Missing ELSE usage \div 1000]

(* detect_cgroup_v2_path: of the lines "0::<path>" of /proc/self/cgroup the     *)
(* first whose directory exists.                                             *)
Detect(lines, groups) ==
    LET i == SelectInSeq(lines, LAMBDA l : l.version = 2 /\ l.path \in DOMAIN groups)
    IN  IF i = 0 THEN Missing ELSE lines[i].path

(* The group that --cgroup names, which need not exist, or else the own one.    *)
CgroupSignals(named, lines, groups) ==
    LET base == IF named # Missing THEN named ELSE Detect(lines, groups)
        group == IF base \in DOMAIN groups THEN groups[base] ELSE <<>>
    IN  IF base = Missing THEN <<>>
        ELSE Present(IF IsV2(group) THEN CollectV2(group) ELSE CollectV1(group))

-------------------------------------------------------------------------------
(* interrupts.rs. A row is a line that names a network device or not, with its  *)
(* fields behind the number of the interrupt.                                *)

(* The counts in front of the first field that is none.                       *)
Counts(row, cpus) ==
    LET ends == {i \in 1..Len(row.fields) : row.fields[i] = Junk} \cup {Len(row.fields) + 1, cpus + 1}
    IN  SubSeq(row.fields, 1, Min(ends) - 1)

NicRows(rows) == Pick(rows, {i \in DOMAIN rows : rows[i].nic})

PerCpu(rows, cpus) ==
    [c \in 1..cpus |->
        SumOver([i \in DOMAIN NicRows(rows) |->
            OrZero(NumberAt(Counts(NicRows(rows)[i], cpus), c))])]

MaxCpuIrq(rows, cpus) ==
    LET per == PerCpu(rows, cpus)
    IN  IF cpus = 0 \/ SumOver(per) = 0 THEN Missing
        ELSE [num |-> Sorted(per)[cpus], den |-> SumOver(per)]

-------------------------------------------------------------------------------
(* dmesg.rs: a line is the set of the events its text tells of. Without dmesg,  *)
(* as without such lines, every count is zero.                               *)
Events == {"oom", "blocked_task", "fs_error", "segfault", "mce", "nic_flap", "io_error"}

DmesgSignals(lines) ==
    [e \in Events |-> IF lines = Missing THEN 0
                      ELSE Cardinality({i \in DOMAIN lines : e \in lines[i]})]

(* host.rs: without a snapshot the number of CPUs, and zeros.                 *)
HostSignals(snapshot, parallelism) ==
    IF snapshot = Missing THEN [cpu_count |-> parallelism, mem_total_bytes |-> 0, load_avg_1m |-> 0]
    ELSE snapshot

(* linux.rs, read_host_snapshot: all of it or nothing.                        *)
HostSnapshot(parallelism, memTotalKb, loadavg) ==
    IF Missing \in {memTotalKb, loadavg} THEN Missing
    ELSE [cpu_count |-> parallelism, mem_total_bytes |-> 1024 * memTotalKb, load_avg_1m |-> loadavg]

-------------------------------------------------------------------------------
(* linux.rs, read_freq_ratio and read_max_temp_celsius, of cpufreq.rs. A CPU    *)
(* without a maximum does not count; one without a current one counts as zero. *)
FreqRatio(cpus) ==
    LET shown == Pick(cpus, {i \in DOMAIN cpus : OrZero(cpus[i].max) > 0})
    IN  IF shown = <<>> THEN Missing
        ELSE [num |-> SumOver([i \in DOMAIN shown |-> OrZero(shown[i].cur)]),
              den |-> SumOver([i \in DOMAIN shown |-> shown[i].max])]

MaxTemp(zones) ==
    IF Numeric(zones) = <<>> THEN Missing ELSE Sorted(Numeric(zones))[Len(Numeric(zones))]

CpuFreqSignals(cpus, zones) == Present([freq_ratio |-> FreqRatio(cpus), temp_celsius |-> MaxTemp(zones)])

-------------------------------------------------------------------------------
(* bpf.rs. A line of a histogram is Junk or a bucket [lo, hi, count], whose     *)
(* count may be Junk.                                                        *)

Tools == <<"runqlat", "biolatency", "tcpretrans", "execsnoop", "cachestat">>
Histograms == {"runqlat", "biolatency", "cachestat"}

ASSUME ToolsAssumption == Missing \notin ToSet(Tools) \X {"", "-bpfcc"}

ResolveTool(tool, path) ==
    CASE <<tool, "">> \in path -> <<tool, "">>
      [] <<tool, "">> \notin path /\ <<tool, "-bpfcc">> \in path -> <<tool, "-bpfcc">>
      [] OTHER -> Missing

Buckets(lines) == Pick(lines, {i \in DOMAIN lines : lines[i] # Junk /\ lines[i].count # Junk})

(* Mutant: a bucket yields its midpoint once.                                *)
HistogramOnce(lines) ==
    FlattenSeq([i \in DOMAIN Buckets(lines) |->
        [n \in 1..Min({1, Buckets(lines)[i].count}) |-> Buckets(lines)[i].lo + Buckets(lines)[i].hi]])

(* Every bucket yields its midpoint, here twice of it, as often as it counted. *)
HistogramSamples(lines) ==
    FlattenSeq([i \in DOMAIN Buckets(lines) |->
        [n \in 1..Buckets(lines)[i].count |-> Buckets(lines)[i].lo + Buckets(lines)[i].hi]])

(* The samples and their median, two hundred times itself; a tool that cannot  *)
(* be run has no output.                                                     *)
RunHistogramTool(tool, lines) ==
    IF tool \notin Histograms \/ lines = Missing \/ HistogramSamples(lines) = <<>> THEN Missing
    ELSE [samples |-> HistogramSamples(lines), value |-> Percentile100(HistogramSamples(lines), 50)]

(* output: of every binary what it prints, Missing if it cannot be run.         *)
BpfSignals(path, output) ==
    LET binary(t) == ResolveTool(t, path)
        median(t) == IF binary(t) = Missing THEN Missing ELSE RunHistogramTool(t, output[binary(t)])
    IN  Present([i \in ToSet(Tools) \X {"available", "usecs"} |->
                    IF i[2] = "available" THEN binary(i[1]) # Missing ELSE median(i[1])])

-------------------------------------------------------------------------------
(* The tables of linux.rs. Columns are counted from 1.                       *)

(* parse_cpu_line: four columns there must be, the later came with later        *)
(* kernels and read as zero where they lack.                                 *)
CpuColumns == <<"user", "nice", "system", "idle", "iowait", "irq", "softirq", "steal">>
ParseCpuLine(fields) ==
    LET n == Numeric(fields)
    IN  IF Len(n) < 4 THEN Missing
        ELSE [c \in ToSet(CpuColumns) |->
                 OrZero(NumberAt(n, SelectInSeq(CpuColumns, LAMBDA d : d = c)))]

(* Mutant: the third column, the errors.                                     *)
ParseRxErrors(rows) ==
    LET shown == {i \in DOMAIN rows : rows[i].name # "lo" /\ NumberAt(rows[i].fields, 3) # Missing}
        At(d) == Max({i \in shown : rows[i].name = d})
    IN  [d \in {rows[i].name : i \in shown} |-> rows[At(d)].fields[3]]

(* parse_rx_drops: the fourth column of every interface but the loopback.       *)
ParseRxDrops(rows) ==
    LET shown == {i \in DOMAIN rows : rows[i].name # "lo" /\ NumberAt(rows[i].fields, 4) # Missing}
        At(d) == Max({i \in shown : rows[i].name = d})
    IN  [d \in {rows[i].name : i \in shown} |-> rows[At(d)].fields[4]]

(* parse_tcp_snmp: the value below the name, zero without one; a table whose     *)
(* two rows do not fit is not read at all.                                    *)
ParseTcpSnmp(header, values) ==
    LET Below(name) == IF \E i \in DOMAIN header : header[i] = name
                       THEN OrZero(NumberAt(values, SelectInSeq(header, LAMBDA h : h = name)))
                       ELSE 0
    IN  [name \in {"OutSegs", "RetransSegs", "AttemptFails", "EstabResets"} |->
            IF Len(header) = Len(values) THEN Below(name) ELSE 0]

(* parse_free_m_output: the first three columns of "Mem:", the sixth if it is    *)
(* there; swap is zero where it is not shown.                                *)
ParseFree(mem, swap) ==
    LET m == Numeric(mem)
        s == Numeric(swap)
    IN  IF Len(m) < 3 THEN Missing
        ELSE [total |-> m[1], used |-> m[2], free |-> m[3], available |-> NumberAt(m, 6),
              swap_total |-> IF Len(s) >= 3 THEN s[1] ELSE 0,
              swap_used |-> IF Len(s) >= 3 THEN s[2] ELSE 0,
              swap_free |-> IF Len(s) >= 3 THEN s[3] ELSE 0]

(* parse_diskstats: rows of fourteen fields and more, three of which name the     *)
(* device.                                                                    *)
ParseDiskstats(rows) ==
    LET shown == Pick(rows, {i \in DOMAIN rows : Len(rows[i].fields) >= 11})
        Column(r, i) == OrZero(NumberAt(r.fields, i))
    IN  [i \in DOMAIN shown |->
            [name |-> shown[i].name,
             read_ios |-> Column(shown[i], 1), write_ios |-> Column(shown[i], 5),
             read_time |-> Column(shown[i], 4), write_time |-> Column(shown[i], 8),
             io_time |-> Column(shown[i], 10)]]

-------------------------------------------------------------------------------
(* macos.rs, and memory.rs of both systems                                   *)

(* parse_vm_stat, read_mem_snapshot: pages, of those that vm_stat names, in     *)
(* units of memory; what is speculative counts as free. Nothing is read        *)
(* before the size of a page.                                                *)
MacMemory(pageSize, pages, swapusage) ==
    LET P(name) == IF name \in DOMAIN pages THEN pages[name] ELSE 0
        total == P("active") + P("inactive") + P("speculative") + P("wired down")
                 + P("purgeable") + P("free")
        free == P("free") + P("speculative")
        swap == IF swapusage = Missing THEN <<0, 0, 0>> ELSE swapusage
    IN  IF pageSize = Missing THEN Missing
        ELSE [total |-> total * pageSize, free |-> free * pageSize,
              used |-> (total - free) * pageSize, available |-> Missing,
              swap_total |-> swap[1], swap_used |-> swap[2], swap_free |-> swap[3]]

(* parse_netstat_drops: the last field; of the rows of an interface, one per     *)
(* address, the last one stays.                                              *)
ParseNetstatDrops(rows) ==
    LET shown == {i \in DOMAIN rows : /\ rows[i].name # "lo0"
                                      /\ NumberAt(rows[i].fields, Len(rows[i].fields)) # Missing}
        At(d) == Max({i \in shown : rows[i].name = d})
    IN  [d \in {rows[i].name : i \in shown} |-> Last(rows[At(d)].fields)]

(* signals_from_mem_snapshot: without memory there is no share of it.           *)
MemSignals(snapshot) ==
    Present([i \in DOMAIN snapshot \cup {"free_pct"} |->
                IF i # "free_pct" THEN snapshot[i]
                ELSE IF snapshot.total > 0 THEN [num |-> 100 * snapshot.free, den |-> snapshot.total]
                     ELSE Missing])
===============================================================================
