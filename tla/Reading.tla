-------------------------------- MODULE Reading --------------------------------
(***************************************************************************)
(* What the program makes of what others wrote: rule files, the output of  *)
(* commands, the tables of the kernel, the histograms of BPF tools, the    *)
(* values of earlier runs. Each of these readers is a function of its      *)
(* input, but for convert, which reads a report and writes a file. A       *)
(* behaviour picks an input, well-formed, nearly so or not, and reads it;  *)
(* the invariants relate what was read to what was written.                *)
(***************************************************************************)
EXTENDS Predicates, Extraction, Probes, Conversion

CONSTANTS Whens,         \* predicates to print and to damage
          Files,         \* rule and pattern files
          Results,       \* repetitions of commands with their output
          Interrupts,    \* [rows, cpus]
          Cgroups,       \* [named, lines, groups]
          BpfHosts,      \* [path, output]
          CpuHosts,      \* [cpus, zones]
          Logs,          \* what dmesg says, and the tables of the host
          Machines,      \* what the kernel counts, by column
          Histories,     \* the values of a signal in earlier runs, or samples
          Conversions    \* [report, output, template, redact]: what convert is asked

(* A comparison and a predicate, as the parser has them; a number is one that   *)
(* the parser of floats takes whole.                                           *)
IsSide(value, to) ==
    \/ /\ to # <<>> /\ to \in Seq(Idents)
       /\ value = Absent
    \/ /\ to = <<>>
       /\ \/ \E b \in BOOLEAN : value = Boolean(b)
          \/ \E n \in Figures \cup {f \in Floats : AfterFloat[f] = <<>>} : value = Number(n)
          \/ \E t \in Strings : value = Text(t)

IsTerm(t) ==
    /\ t = [path |-> t.path, op |-> t.op, value |-> t.value, to |-> t.to]
    /\ t.path \in Seq(Idents) \ {<<>>} /\ t.op \in Ops
    /\ IsSide(t.value, t.to)

IsPredicate(when) ==
    /\ when = [first |-> when.first, rest |-> when.rest]
    /\ IsTerm(when.first)
    /\ IsVector(when.rest)
    /\ \A join \in ToSet(when.rest) :
           join = [and |-> join.and, term |-> join.term] /\ join.and \in BOOLEAN /\ IsTerm(join.term)

ASSUME WhensAssumption == \A w \in Whens : IsPredicate(w)

(* A file that can be read as TOML has rules with a text each.                 *)
ASSUME FilesAssumption ==
    \A f \in Files : f = Malformed \/ (IsVector(f) /\ \A t \in ToSet(f) : t.when \in Seq(Tokens))

(* A line says of every pattern that is looked for what it yields.             *)
ASSUME ResultsAssumption ==
    \A r \in Results : r # <<>> =>
        /\ IsVector(r[1])
        /\ \A i \in DOMAIN r[1] :
               /\ IsVector(r[1][i].lines) /\ IsVector(r[1][i].extracts)
               /\ \A e \in ToSet(r[1][i].extracts) :
                      /\ e.aggregate \in Aggregates
                      /\ \A l \in ToSet(r[1][i].lines) : l[e.pattern] \in Int \cup {NoMatch, NoNumber}

(* What the tables hold; the numbers of the kernel are not negative, but for    *)
(* a temperature.                                                            *)
ASSUME InterruptsAssumption ==
    \A i \in Interrupts : i.cpus \in Nat /\ i.rows \in Seq([nic : BOOLEAN, fields : Seq(Nat \cup {Junk})])

(* A group has its files; a limit of version 1 is one number, or none.          *)
ASSUME CgroupsAssumption ==
    \A c \in Cgroups :
        /\ Missing \notin DOMAIN c.groups
        /\ \A g \in DOMAIN c.groups :
               ReadNumber(c.groups[g], "memory/memory.limit_in_bytes") \in Nat \cup {Missing}

(* A bucket of a histogram has a lower bound and an upper one.                  *)
ASSUME BpfAssumption ==
    \A b \in BpfHosts :
        b.output \in [ToSet(Tools) \X {"", "-bpfcc"} ->
            {Missing} \cup Seq({Junk} \cup {k \in [lo : Nat, hi : Nat, count : Nat \cup {Junk}] : k.lo <= k.hi})]

ASSUME CpuHostsAssumption ==
    \A c \in CpuHosts :
        /\ c.cpus \in Seq([cur : Nat \cup {Missing}, max : Nat \cup {Missing}])
        /\ c.zones \in Seq(Int \cup {Junk})

(* A history has at least one value, as every collector and reader of         *)
(* baselines tests (stats.rs: None for an empty slice).                       *)
ASSUME HistoriesAssumption == Histories \subseteq Seq(Int) \ {<<>>}

ASSUME ConversionsAssumption ==
    \A c \in Conversions : c.redact \in BOOLEAN /\ IsReport(c.report) /\ Hides(Addresses \cup {c.report.host.name})

(* A table names the columns it has; the CPU has its first four, foreign ones   *)
(* come behind those that are read, memory has its first three, swap all or     *)
(* none. The interfaces of /proc have names of their own, none that of the     *)
(* loopback; the table of netstat has some columns, and a row for every       *)
(* address, with what is a number in them and what is not.                    *)
Counted(columns, values) == IsVector(columns) /\ \A c \in ToSet(columns) : values[c] \in Nat
SwapColumns == <<"swap_total", "swap_used", "swap_free">>

ASSUME MachinesAssumption ==
    \A m \in Machines :
        /\ Counted(m.cpuColumns, m.cpu) /\ Len(m.cpuColumns) >= 4
        /\ \A i \in DOMAIN m.cpuColumns : IF i \in DOMAIN CpuColumns THEN m.cpuColumns[i] = CpuColumns[i]
                                          ELSE m.cpuColumns[i] \notin ToSet(CpuColumns)
        /\ Counted(m.tcpColumns, m.tcp)
        /\ Counted(m.memColumns, m.mem) /\ Len(m.memColumns) >= 3
        /\ m.memColumns[1] = "total" /\ m.memColumns[2] = "used" /\ m.memColumns[3] = "free"
        /\ Counted(m.swapColumns, m.mem) /\ m.swapColumns \in {<<>>, SwapColumns}
        /\ ToSet(m.memColumns) \cap ToSet(SwapColumns) = {}
        /\ m.mem.free <= m.mem.total
        /\ \A n \in DOMAIN m.pages : m.pages[n] \in Nat
        /\ IsVector(m.drops)
        /\ \A i \in DOMAIN m.drops : /\ m.drops[i].drops \in Nat /\ m.drops[i].name # "lo"
                                     /\ \A j \in DOMAIN m.drops : m.drops[i].name = m.drops[j].name => i = j
        /\ IsVector(m.netColumns) /\ m.netColumns # <<>> /\ IsVector(m.net)
        /\ \A row \in ToSet(m.net), c \in ToSet(m.netColumns) : row.shows[c] \in Nat \cup {Junk}
        /\ IsVector(m.disks)
        /\ \A d \in ToSet(m.disks) : d \in [name : {d.name}, read_ios : Nat, write_ios : Nat,
                                           read_time : Nat, write_time : Nat, io_time : Nat]

VARIABLES input,
          read,      \* whether it has been read
          output,    \* what the reader made of it
          stage,     \* how far a conversion is
          target     \* its output file: its state and what it shows
vars == <<input, read, output, stage, target>>

-------------------------------------------------------------------------------
(* How predicates are written.                                               *)

NoPredicate == [first |-> <<>>, rest |-> <<>>]

PathText(path) == [i \in 1..(2 * Len(path) - 1) |-> IF i % 2 = 1 THEN path[(i + 1) \div 2] ELSE "."]

RhsText(t) ==
    CASE t.to # <<>> -> PathText(t.to)
      [] t.value.type = "bool" -> <<IF t.value.v THEN "TRUE" ELSE "FALSE">>
      [] t.value.type \in {"number", "text"} -> <<t.value.v>>

TermText(t, before, after) == PathText(t.path) \o before \o <<t.op>> \o after \o RhsText(t)

Write(when, before, after) ==
    TermText(when.first, before, after)
    \o FlattenSeq([i \in DOMAIN when.rest |->
           <<" ", IF when.rest[i].and THEN "AND" ELSE "OR", " ">>
           \o TermText(when.rest[i].term, before, after)])

(* A text without the white space that says nothing.                         *)
Squeeze(text) ==
    Pick(text, {i \in DOMAIN text : ~(/\ text[i] = " "
                                     /\ \/ i \in {1, Len(text)}
                                        \/ {text[i - 1], text[i + 1]} \cap Ops # {})})

(* One token less, another one, or one more.                                 *)
Damaged(text) ==
    {t \in {RemoveAt(text, i) : i \in DOMAIN text}
           \cup {ReplaceAt(text, i, k) : i \in DOMAIN text, k \in Tokens}
           \cup {InsertAt(text, i, k) : i \in 1..(Len(text) + 1), k \in Tokens} : IsText(t)}

(* A side that is a path whose first word a number begins.                    *)
Swallowed(when) == \E t \in ToSet(Terms(when)) : t.to # <<>> /\ t.to[1] \in Floats

-------------------------------------------------------------------------------
(* The inputs                                                                *)

Blank == {<<>>, <<" ">>}
IsInput(kind, data) == input = [kind |-> kind, data |-> data]

Init ==
    /\ read = FALSE /\ output = <<>>
    /\ stage = "asked" /\ target = [state |-> "earlier", shows |-> <<>>]
    /\ \/ \E w \in Whens, outer, before, after \in Blank :
              IsInput("predicate", [means |-> w, text |-> outer \o Write(w, before, after) \o outer])
       \/ \E w \in Whens, before \in Blank : \E t \in Damaged(Write(w, before, before)) :
              IsInput("predicate", [means |-> NoPredicate, text |-> t])
       \/ \E f \in Files, k \in {"rules", "patterns"} : IsInput(k, f)
       \/ \E r \in Results : IsInput("results", r)
       \/ \E i \in Interrupts : IsInput("interrupts", i)
       \/ \E c \in Cgroups : IsInput("cgroup", c)
       \/ \E b \in BpfHosts : IsInput("bpf", b)
       \/ \E c \in CpuHosts : IsInput("cpufreq", c)
       \/ \E l \in Logs : IsInput("host", l)
       \/ \E m \in Machines : IsInput("tables", m)
       \/ \E h \in Histories : IsInput("history", h)
       \/ \E c \in Conversions : IsInput("conversion", c)

Reads(kind, value) ==
    /\ ~read /\ input.kind = kind
    /\ read' = TRUE
    /\ output' = value
    /\ UNCHANGED <<input, stage, target>>

ReadPredicate == Reads("predicate", Parse(input.data.text))
ReadRules == Reads("rules", ParseRules(input.data))
ReadPatterns == Reads("patterns", ParsePatterns(input.data))
ReadResults == Reads("results", ExtractedSignals(input.data))
ReadInterrupts == Reads("interrupts", MaxCpuIrq(input.data.rows, input.data.cpus))
ReadCgroup == Reads("cgroup", CgroupSignals(input.data.named, input.data.lines, input.data.groups))
ReadBpf == Reads("bpf", BpfSignals(input.data.path, input.data.output))
ReadCpuFreq == Reads("cpufreq", CpuFreqSignals(input.data.cpus, input.data.zones))
ReadHost ==
    LET d == input.data
    IN  Reads("host", [dmesg |-> DmesgSignals(d.dmesg),
                       host |-> HostSignals(HostSnapshot(d.cpus, d.memTotal, d.loadavg), d.cpus)])
ReadHistory ==
    Reads("history", [stats |-> SampleStats(input.data), median |-> MedianTwice(input.data),
                      mad |-> MadTimes4(input.data), back |-> Trend(Reverse(input.data))])

(* The tables as the kernel prints what it counts: only the columns it has,    *)
(* those of the interfaces and disks among others.                           *)
Printed(columns, values) == [i \in DOMAIN columns |-> values[columns[i]]]
NetRow(name, drops) == [name |-> name, fields |-> <<90, 91, 92, drops, 93>>]
DiskRow(d) ==
    [name |-> d.name, fields |-> <<d.read_ios, 90, 91, d.read_time, d.write_ios, 92, 93,
                                   d.write_time, 94, d.io_time, 95>>]

ReadTables ==
    LET m == input.data
    IN  Reads("tables",
            [cpu |-> ParseCpuLine(Printed(m.cpuColumns, m.cpu)),
             drops |-> ParseRxDrops(<<NetRow("lo", 5)>> \o
                           [i \in DOMAIN m.drops |-> NetRow(m.drops[i].name, m.drops[i].drops)]),
             tcp |-> ParseTcpSnmp(m.tcpColumns, Printed(m.tcpColumns, m.tcp)),
             mem |-> ParseFree(Printed(m.memColumns, m.mem), Printed(m.swapColumns, m.mem)),
             mac |-> MacMemory(2, m.pages, Missing),
             macDrops |-> ParseNetstatDrops([i \in DOMAIN m.net |->
                              [name |-> m.net[i].name, fields |-> Printed(m.netColumns, m.net[i].shows)]]),
             disks |-> ParseDiskstats([i \in DOMAIN m.disks |-> DiskRow(m.disks[i])])])

(* run_convert, of a report that an earlier run, or a conversion, has written.  *)
Document == Serialized(input.data.report)

Converts(from) == input.kind = "conversion" /\ ~read /\ stage = from

Ends(ok) ==
    /\ read' = TRUE
    /\ output' = [ok |-> ok]
    /\ UNCHANGED <<input, stage>>

(* A template that was not named, and JSON that is no report.                  *)
RefuseDocument ==
    /\ Converts("asked")
    /\ (input.data.output = "template" /\ input.data.template = "unnamed")
          \/ Deserialized(Document) = NoReport
    /\ Ends(FALSE)
    /\ UNCHANGED target

ReadDocument ==
    /\ Converts("asked")
    /\ input.data.output = "template" => input.data.template # "unnamed"
    /\ Deserialized(Document) # NoReport
    /\ output' = Deserialized(Document)
    /\ stage' = "read"
    /\ UNCHANGED <<input, read, target>>

(* output_writer truncates the file, or fails.                                *)
OpenConverted ==
    /\ Converts("read")
    /\ \/ Ends(FALSE) /\ UNCHANGED target
       \/ /\ target' = [target EXCEPT !.state = "empty"]
          /\ stage' = "open"
          /\ UNCHANGED <<input, read, output>>

(* The template is read now; what is rendered is written at once, but for the   *)
(* document for language models.                                             *)
WriteConverted ==
    /\ Converts("open")
    /\ input.data.output = "template" => input.data.template = "there"
    /\ target' = [state |-> "whole", shows |-> Rendered(output, input.data.output, input.data.redact)]
    /\ Ends(TRUE)

ConversionFails ==
    /\ Converts("open")
    /\ Ends(FALSE)
    /\ \E s \in {"empty", "partial"} : target' = [target EXCEPT !.state = s]

Next ==
    \/ RefuseDocument \/ ReadDocument \/ OpenConverted \/ WriteConverted \/ ConversionFails
    \/ ReadPredicate \/ ReadRules \/ ReadPatterns \/ ReadResults \/ ReadInterrupts \/ ReadCgroup
    \/ ReadBpf \/ ReadCpuFreq \/ ReadHost \/ ReadTables \/ ReadHistory
    \/ read /\ UNCHANGED vars

Spec == Init /\ [][Next]_vars

Done(kind) == read /\ input.kind = kind

-------------------------------------------------------------------------------
(* Properties                                                                *)

(* A predicate that is accepted says what was written, but for white space     *)
(* around operators and the text: no character is skipped, no precedence       *)
(* invented. What was written is accepted, and as it was meant, unless a path   *)
(* on the right begins like a number (rule/mod.rs:84-86, 251-340).             *)
PredicatesFit ==
    Done("predicate") =>
        /\ output.ok => Squeeze(input.data.text) = Write(output.out, <<>>, <<>>)
        /\ input.data.means # NoPredicate =>
              (output.ok /\ output.out = input.data.means <=> ~Swallowed(input.data.means))

(* A file is taken whole, its rules in their order, or not at all, and then    *)
(* there is a rule at fault, before which all are good (rule/mod.rs:497-531,  *)
(* pattern/mod.rs:56-98).                                                     *)
FileIsTakenWhole ==
    \A kind \in {"rules", "patterns"} : Done(kind) =>
        LET file == input.data
            Good(t) == t.severity \in DOMAIN SeverityOf /\ Parse(t.when).ok
        IN  IF output.ok
            THEN /\ Len(output.out) = Len(file)
                 /\ \A i \in DOMAIN file : /\ output.out[i].id = file[i].id
                                           /\ Write(output.out[i].when, <<>>, <<>>) = Squeeze(file[i].when)
            ELSE \/ file = Malformed
                 \/ kind = "patterns" /\ file = <<>>
                 \/ \E i \in DOMAIN file : /\ file[i].id = output.at /\ ~Good(file[i])
                                           /\ \A k \in 1..(i - 1) : Good(file[k])

(* What is read from a rule file or a pattern file: both of the above         *)
(* (rule/mod.rs:524-531).                                                     *)
RulesFit == PredicatesFit /\ FileIsTakenWhole

(* Every extract of a command that succeeded in the first repetition shows in   *)
(* one signal, in order, or in none if it found no number; a count is of the    *)
(* matching lines, all else of the lines with a number: the last of them, the   *)
(* least, the greatest, or their sum over how many they are, the same number    *)
(* counting as often as it is found; nothing else shows                       *)
(* (extract.rs:5-72, analysis.rs:174-181).                                    *)
ExtractionFits ==
    Done("results") =>
        LET ran == IF input.data = <<>> THEN <<>> ELSE input.data[1]
            wanted == FlattenSeq([i \in DOMAIN ran |->
                          [k \in DOMAIN ran[i].extracts |-> <<i, ran[i].extracts[k]>>]])
            Except(lines, p, none) == {k \in DOMAIN lines : lines[k][p] \notin none}
            Numbers(lines, p) == Except(lines, p, {NoMatch, NoNumber})
            Values(lines, p) == {lines[k][p] : k \in Numbers(lines, p)}
            OrNone(lines, p) == [k \in DOMAIN lines |-> IF k \in Numbers(lines, p) THEN lines[k][p] ELSE 0]
            Shows(w) == /\ ran[w[1]].status = "success"
                        /\ w[2].aggregate = "count" \/ Numbers(ran[w[1]].lines, w[2].pattern) # {}
            shown == Pick(wanted, {i \in DOMAIN wanted : Shows(wanted[i])})
            Sought(lines, p, aggregate) ==
                CASE aggregate = "count" -> Fraction(Cardinality(Except(lines, p, {NoMatch})), 1)
                  [] aggregate = "last" -> Fraction(lines[Max(Numbers(lines, p))][p], 1)
                  [] aggregate = "min" -> Fraction(Min(Values(lines, p)), 1)
                  [] aggregate = "max" -> Fraction(Max(Values(lines, p)), 1)
                  [] aggregate = "avg" -> Fraction(SumOver(OrNone(lines, p)), Cardinality(Numbers(lines, p)))
        IN  /\ Len(output) = Len(shown)
            /\ \A i \in DOMAIN shown : /\ output[i].id = shown[i][2].id
                                       /\ output[i].value.v = Sought(ran[shown[i][1]].lines,
                                              shown[i][2].pattern, shown[i][2].aggregate)

(* The busiest CPU takes at least its share of the interrupts of the network    *)
(* and at most all of them; without such interrupts there is no signal        *)
(* (collector/interrupts.rs:25-97).                                           *)
IrqShareFits ==
    Done("interrupts") =>
        LET nic == {r \in ToSet(input.data.rows) : r.nic}
            Some == \E r \in nic : \E i \in DOMAIN r.fields :
                        /\ i <= input.data.cpus
                        /\ \A k \in 1..i : r.fields[k] # Junk
                        /\ r.fields[i] > 0
        IN  /\ output # Missing <=> Some
            /\ Some => /\ output.num <= output.den
                       /\ output.den <= input.data.cpus * output.num

(* The median of a histogram lies where half of its events are: at most half of *)
(* them are in buckets wholly above it, at most half in buckets wholly below.   *)
(* A tool that counted something has one, and only a tool that is there       *)
(* (collector/bpf.rs:22-31, 78-142).                                          *)
MedianFits ==
    Done("bpf") =>
        \A t \in ToSet(Tools) :
            LET binary == ResolveTool(t, input.data.path)
                lines == IF binary = Missing THEN Missing ELSE input.data.output[binary]
                buckets == IF lines = Missing THEN <<>> ELSE Buckets(lines)
                counts == [i \in DOMAIN buckets |-> buckets[i].count]
                Count(S) == MapThenSumSet(LAMBDA i : counts[i], S)
                Above(m) == {i \in DOMAIN buckets : 200 * buckets[i].lo > m}
                Below(m) == {i \in DOMAIN buckets : 200 * buckets[i].hi < m}
                id == <<t, "usecs">>
            IN  /\ output[<<t, "available">>] <=> \E s \in {"", "-bpfcc"} : <<t, s>> \in input.data.path
                /\ id \in DOMAIN output <=> t \in Histograms /\ Count(DOMAIN buckets) > 0
                /\ id \in DOMAIN output =>
                      /\ 2 * Count(Above(output[id].value)) <= Count(DOMAIN buckets)
                      /\ 2 * Count(Below(output[id].value)) <= Count(DOMAIN buckets)

(* What is said of the use of a group is in its files; a limit of zero is none,  *)
(* and so is, with version 1, one that is out of reach; a group of version 1    *)
(* says nothing of kills. The ratio of the frequencies lies between those of   *)
(* the CPUs, and there is a temperature where one can be read                 *)
(* (collector/cgroup.rs:29-148, cpufreq.rs:26-55, platform/linux.rs:266-318). *)
LimitsFit ==
    /\ Done("cgroup") =>
          LET group == IF input.data.named # Missing THEN input.data.named
                       ELSE Detect(input.data.lines, input.data.groups)
              Of(names) == {File(input.data.groups[group], n) : n \in names} \ {Missing}
              said == output.memory_limit_bytes
          IN  IF group \notin DOMAIN input.data.groups THEN output = <<>>
              ELSE /\ "memory_limit_bytes" \in DOMAIN output /\ said # 0 =>
                         /\ said \in Of({"memory.max", "memory/memory.limit_in_bytes"})
                         /\ said > NoLimit => IsV2(input.data.groups[group])
                   /\ "memory_bytes" \in DOMAIN output =>
                         output.memory_bytes \in Of({"memory.current", "memory/memory.usage_in_bytes"})
                   /\ "oom_kills" \in DOMAIN output => IsV2(input.data.groups[group])
    /\ Done("cpufreq") /\ "freq_ratio" \in DOMAIN output =>
          LET shown == {c \in ToSet(input.data.cpus) : OrZero(c.max) > 0}
              r == output.freq_ratio
          IN  /\ \E c \in shown : OrZero(c.cur) * r.den <= r.num * c.max
              /\ \E c \in shown : OrZero(c.cur) * r.den >= r.num * c.max
    /\ Done("cpufreq") =>
          ("temp_celsius" \in DOMAIN output <=> \E z \in ToSet(input.data.zones) : z # Junk)

(* What one look at the machine yields: the three above, of interrupts.rs,    *)
(* bpf.rs, cgroup.rs and cpufreq.rs.                                          *)
ProbesFit == IrqShareFits /\ MedianFits /\ LimitsFit

(* What the kernel of Linux printed comes back under its own name whatever      *)
(* columns it has; what it did not print is zero; no interface, disk or        *)
(* counter takes the value of another. Two numbers are told by their place,     *)
(* not by their name: what is available is the sixth column of free, and it is  *)
(* missing without one, and the drops of an interface are, with netstat, the    *)
(* last column of its last row that ends in a number, whatever their names are. *)
(* (collector/platform/linux.rs:19-135, 211-251, 332-353; macos.rs:163-293)   *)
TablesFit ==
    Done("tables") =>
        LET m == input.data
            Shown(columns, values, name) == IF name \in ToSet(columns) THEN values[name] ELSE 0
            Ending(i) == m.net[i].shows[Last(m.netColumns)]
            Counting(name) == {i \in DOMAIN m.net : m.net[i].name = name /\ Ending(i) # Junk}
        IN  /\ \A c \in DOMAIN output.cpu : output.cpu[c] = Shown(m.cpuColumns, m.cpu, c)
            /\ \A t \in DOMAIN output.tcp : output.tcp[t] = Shown(m.tcpColumns, m.tcp, t)
            /\ DOMAIN output.macDrops = {n \in {row.name : row \in ToSet(m.net)} \ {"lo0"} : Counting(n) # {}}
            /\ \A n \in DOMAIN output.macDrops : output.macDrops[n] = Ending(Max(Counting(n)))
            /\ DOMAIN output.drops = {d.name : d \in ToSet(m.drops)}
            /\ \A d \in ToSet(m.drops) : output.drops[d.name] = d.drops
            /\ output.disks = m.disks
            /\ \A f \in {"total", "used", "free", "swap_total", "swap_used", "swap_free"} :
                  output.mem[f] = Shown(m.memColumns \o m.swapColumns, m.mem, f)
            /\ output.mac.used + output.mac.free = output.mac.total
            /\ \A s \in {MemSignals(output.mem), MemSignals(output.mac)} :
                  /\ "free_pct" \in DOMAIN s <=> s.total > 0
                  /\ "free_pct" \in DOMAIN s => s.free_pct.num <= 100 * s.free_pct.den
            /\ output.mem.available = IF Len(m.memColumns) >= 6 THEN m.mem[m.memColumns[6]] ELSE Missing

(* The statistics are what their names say: half of the values on either side   *)
(* of the median, half of them within the deviation, the percentiles in order   *)
(* between the extremes; seen backwards a rise is a fall                      *)
(* (baseline/stats.rs:11-127).                                                *)
StatsFit ==
    Done("history") =>
        LET h == input.data
            s == output.stats
            HowMany(P(_)) == Cardinality({i \in DOMAIN h : P(h[i])})
        IN  /\ 2 * HowMany(LAMBDA v : 2 * v < output.median) <= Len(h)
            /\ 2 * HowMany(LAMBDA v : 2 * v > output.median) <= Len(h)
            /\ 2 * HowMany(LAMBDA v : 2 * Magnitude(2 * v - output.median) <= output.mad) >= Len(h)
            /\ 2 * HowMany(LAMBDA v : 2 * Magnitude(2 * v - output.median) >= output.mad) >= Len(h)
            /\ s.p50 = 50 * output.median
            /\ s.min <= s.p50 /\ s.p50 <= s.p95 /\ s.p95 <= s.p99 /\ s.p99 <= s.max
            /\ \A v \in ToSet(h) : s.min <= 100 * v /\ 100 * v <= s.max
            /\ <<s.trend, output.back>> \in {<<"flat", "flat">>, <<"rising", "falling">>, <<"falling", "rising">>}

(* What convert shows is what the run would have shown: the same signals with    *)
(* the same values, though an integer has become a float, the same samples,     *)
(* findings and excerpts, with or without redaction, and again when what was    *)
(* converted to JSON is converted. A report with a number that JSON does not    *)
(* have cannot be read again, and is then refused before the output file is     *)
(* touched; nothing that fails leaves a whole one. Redacted, no text of a       *)
(* signal, a finding or an excerpt has an address in it that the patterns       *)
(* match, also where a cut has made one, and no excerpt the name of the host;   *)
(* the excerpts are then no longer within their limit, and the kernel, in which *)
(* the name of the host is, shows as it does without.                           *)
(* (cli/mod.rs:866-918, signal.rs:26-32, llm.rs:77-133, redact.rs:42-106)       *)
ConvertedShows ==
    Done("conversion") =>
        LET asked == input.data
            shown == target.shows
            whole == target.state = "whole"
            direct == Rendered(asked.report, asked.output, asked.redact)
            Alike(a, b) == a = b \/ (IsNumber(a) /\ IsNumber(b) /\ a.v = b.v)
            Finite(s) == s.value.v # Infinite /\ (s.samples # Unsampled => ~Contains(s.samples, Infinite))
            Readable == /\ \A s \in ToSet(asked.report.signals) : Finite(s)
                        /\ \A f \in ToSet(asked.report.findings) : f.observed.v # Infinite
            texts == {e.output : e \in ToSet(shown.excerpts)}
                     \cup {f.summary : f \in ToSet(shown.findings)}
                     \cup {v.v : v \in {w \in {s.value : s \in ToSet(shown.signals)}
                                              \cup {f.observed : f \in ToSet(shown.findings)} :
                                        w.type = "text"}}
        IN  /\ output.ok <=> whole
            /\ ~Readable => ~output.ok /\ target.state = "earlier"
            /\ whole =>
                  /\ [shown EXCEPT !.signals = <<>>, !.findings = <<>>]
                        = [direct EXCEPT !.signals = <<>>, !.findings = <<>>]
                  /\ Len(shown.signals) = Len(direct.signals)
                  /\ Len(shown.findings) = Len(direct.findings)
                  /\ \A i \in DOMAIN direct.signals :
                        /\ [shown.signals[i] EXCEPT !.value = 0] = [direct.signals[i] EXCEPT !.value = 0]
                        /\ Alike(shown.signals[i].value, direct.signals[i].value)
                  /\ \A i \in DOMAIN direct.findings :
                        /\ shown.findings[i].summary = direct.findings[i].summary
                        /\ Alike(shown.findings[i].observed, direct.findings[i].observed)
            /\ whole /\ asked.output = "json" => Deserialized(Serialized(shown)) = shown
            /\ whole /\ asked.output = "llm" =>
                  /\ shown.host.kernel = asked.report.host.uname
                  /\ ~asked.redact => \A e \in ToSet(shown.excerpts) : Len(e.output) <= MaxExcerpt
                  /\ asked.redact =>
                        /\ \A t \in texts : ToSet(t) \cap Addresses = {}
                        /\ \A e \in ToSet(shown.excerpts) : asked.report.host.name \notin ToSet(e.output)
===============================================================================
