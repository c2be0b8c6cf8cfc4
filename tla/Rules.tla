--------------------------------- MODULE Rules ---------------------------------
(***************************************************************************)
(* How signals become findings: the predicates and the rule engine         *)
(* (rule/mod.rs), the patterns (pattern/mod.rs), the annotation with a     *)
(* baseline and its outliers (baseline/mod.rs), the order of findings      *)
(* (finding.rs).                                                           *)
(*                                                                         *)
(* A path and an id are the sequence of their dotted segments. A number is *)
(* taken a hundred times, as Stats returns percentiles.                    *)
(***************************************************************************)
EXTENDS Stats, Positions

CONSTANT Place      \* The place of a finding's id in the lexicographic order.

Number(n) == [type |-> "number", v |-> n]
Boolean(b) == [type |-> "bool", v |-> b]
Text(t) == [type |-> "text", v |-> t]
Absent == [type |-> "none", v |-> 0]

(* Severity::rank: the highest severity is the lowest rank.                  *)
Crit == 0
Warn == 1
Info == 2

NoSamples == <<>>

Signal(id, value, samples) ==
    [id |-> id, value |-> value, samples |-> samples, baseline |-> "none"]

-------------------------------------------------------------------------------
(* Predicates                                                                *)

(* SignalIndex: where the signal of that id stands, 0 if nowhere; of several  *)
(* the last one wins.                                                        *)
Index(signals, id) == SelectLastInSeq(signals, LAMBDA s : s.id = id)

StatSuffixes == {"p50", "p95", "p99", "min", "max", "trend"}
CpuCount == <<"host", "cpu_count">>

HasSamples(signals, i) == i # 0 /\ signals[i].samples # NoSamples

(* One of the statistics of a sampled signal, as a value of a predicate.     *)
Statistic(samples, suffix) ==
    IF suffix = "trend" THEN Text(Trend(samples)) ELSE Number(SampleStats(samples)[suffix])

(* A suffix counts only behind the id of a sampled signal; a sampled signal   *)
(* without suffix stands for its median.                                     *)
Resolve(path, signals, cpus) ==
    LET suffixed == IF Len(path) > 1 /\ Last(path) \in StatSuffixes
                    THEN Index(signals, Front(path)) ELSE 0
        bare == Index(signals, path)
    IN  IF path = CpuCount THEN Number(100 * cpus)
        ELSE IF HasSamples(signals, suffixed)
             THEN Statistic(signals[suffixed].samples, Last(path))
        ELSE IF HasSamples(signals, bare) THEN Statistic(signals[bare].samples, "p50")
        ELSE IF bare # 0 THEN signals[bare].value
        ELSE Absent

(* Mutant: a missing signal differs from everything.                         *)
HoldsAbsent(l, op, r) ==
    IF "none" \in {l.type, r.type} THEN op = "!="
    ELSE /\ l.type = r.type
         /\ \/ op = "==" /\ l.v = r.v
            \/ op = "!=" /\ l.v # r.v
            \/ l.type = "number" /\ op = ">" /\ l.v > r.v
            \/ l.type = "number" /\ op = "<" /\ l.v < r.v
            \/ l.type = "number" /\ op = ">=" /\ l.v >= r.v
            \/ l.type = "number" /\ op = "<=" /\ l.v <= r.v

(* Two values of different types, or a missing one, never match.             *)
Holds(l, op, r) ==
    /\ l.type = r.type /\ l.type # "none"
    /\ \/ op = "==" /\ l.v = r.v
       \/ op = "!=" /\ l.v # r.v
       \/ l.type = "number" /\ op = ">" /\ l.v > r.v
       \/ l.type = "number" /\ op = "<" /\ l.v < r.v
       \/ l.type = "number" /\ op = ">=" /\ l.v >= r.v
       \/ l.type = "number" /\ op = "<=" /\ l.v <= r.v

(* A term compares a path with a value or, where `to` is not empty, with a    *)
(* path. The parser yields a first term and terms joined to it from the left, *)
(* AND and OR alike.                                                         *)
Term(path, op, value) == [path |-> path, op |-> op, value |-> value, to |-> <<>>]
TermPath(path, op, to) == [path |-> path, op |-> op, value |-> Absent, to |-> to]
Only(term) == [first |-> term, rest |-> <<>>]

EvaluateTerm(t, signals, cpus) ==
    Holds(Resolve(t.path, signals, cpus), t.op,
          IF t.to = <<>> THEN t.value ELSE Resolve(t.to, signals, cpus))

Evaluate(when, signals, cpus) ==
    LET left[n \in 0 .. Len(when.rest)] ==
            IF n = 0 THEN EvaluateTerm(when.first, signals, cpus)
            ELSE IF when.rest[n].and
                 THEN left[n - 1] /\ EvaluateTerm(when.rest[n].term, signals, cpus)
                 ELSE left[n - 1] \/ EvaluateTerm(when.rest[n].term, signals, cpus)
    IN  left[Len(when.rest)]

Terms(when) == <<when.first>> \o [i \in DOMAIN when.rest |-> when.rest[i].term]

-------------------------------------------------------------------------------
(* Findings                                                                  *)

Finding(id, kind, severity, evidence) ==
    [id |-> id, kind |-> kind, severity |-> severity, evidence |-> evidence]
Evidence(id, observed) == [signal |-> id, observed |-> observed]

(* Finding i stands before finding j: by severity, then by id; equal ones     *)
(* keep their order.                                                         *)
Precedes(fs, i, j) ==
    \/ fs[i].severity < fs[j].severity
    \/ /\ fs[i].severity = fs[j].severity
       /\ \/ Place[fs[i].id] < Place[fs[j].id]
          \/ Place[fs[i].id] = Place[fs[j].id] /\ i < j

SortFindings(fs) ==
    LET Before(i) == {j \in DOMAIN fs : Precedes(fs, j, i)}
    IN  [n \in DOMAIN fs |-> fs[CHOOSE i \in DOMAIN fs : Cardinality(Before(i)) = n - 1]]

-------------------------------------------------------------------------------
(* The rule engine                                                           *)

(* What a rule cites: the signal's value (of a sampled one the last sample)   *)
(* or the number of processors; what is missing is left out.                 *)
EvidenceFor(ids, signals, cpus) ==
    LET there == Pick(ids, {i \in DOMAIN ids : Index(signals, ids[i]) # 0 \/ ids[i] = CpuCount})
    IN  [i \in DOMAIN there |->
            Evidence(there[i], IF Index(signals, there[i]) # 0
                               THEN signals[Index(signals, there[i])].value
                               ELSE Number(100 * cpus))]

RunRules(rules, signals, cpus) ==
    LET fired == Pick(rules, {i \in DOMAIN rules : Evaluate(rules[i].when, signals, cpus)})
    IN  SortFindings([i \in DOMAIN fired |->
            Finding(fired[i].id, "rule", fired[i].severity,
                    EvidenceFor(fired[i].evidence, signals, cpus))])

(* Mutant: also what was never there is checked.                            *)
CheckedOkAnything(rules, signals, cpus) ==
    UNION {ToSet(r.evidence) : r \in {q \in ToSet(rules) : ~Evaluate(q.when, signals, cpus)}}

(* The signals of the rules that did not fire, as far as they are there.     *)
CheckedOk(rules, signals, cpus) ==
    {id \in UNION {ToSet(r.evidence) :
                      r \in {q \in ToSet(rules) : ~Evaluate(q.when, signals, cpus)}} :
        Index(signals, id) # 0 \/ id = CpuCount}

(* The comparison with a number, as a threshold of its signal.               *)
WithNumber(t) == t.to = <<>> /\ t.value.type = "number"
Threshold(t, severity) == [op |-> t.op, value |-> t.value.v, severity |-> severity]

Insert(map, key, v) ==
    [p \in DOMAIN map \cup {key} |-> IF p = key THEN v ELSE map[p]]

(* Mutant: the last comparison wins.                                        *)
OfferLast(map, t, severity) ==
    IF WithNumber(t) THEN Insert(map, t.path, Threshold(t, severity)) ELSE map

(* The first number a signal is compared with stays, until a rule of a higher *)
(* severity compares it with another.                                        *)
Offer(map, t, severity) ==
    IF /\ WithNumber(t)
       /\ t.path \in DOMAIN map => severity < map[t.path].severity
    THEN Insert(map, t.path, Threshold(t, severity)) ELSE map

(* extract_cmp_thresholds: the terms of a predicate from the left.           *)
ThresholdsOf(map, rule) ==
    LET terms == Terms(rule.when)
        after[k \in 0 .. Len(terms)] ==
            IF k = 0 THEN map ELSE Offer(after[k - 1], terms[k], rule.severity)
    IN  after[Len(terms)]

(* signal_thresholds                                                         *)
Thresholds(rules) ==
    LET map[n \in 0 .. Len(rules)] ==
            IF n = 0 THEN <<>> ELSE ThresholdsOf(map[n - 1], rules[n])
    IN  map[Len(rules)]

-------------------------------------------------------------------------------
(* Patterns                                                                  *)

Referenced(when) == {t.path : t \in ToSet(Terms(when))} \cup {t.to : t \in ToSet(Terms(when))}

(* A pattern cites every signal whose id its predicate names.                *)
RunPatterns(patterns, signals, cpus) ==
    LET fired == Pick(patterns, {i \in DOMAIN patterns : Evaluate(patterns[i].when, signals, cpus)})
        cited(p) == Pick(signals, {i \in DOMAIN signals : signals[i].id \in Referenced(p.when)})
        host(p) == IF CpuCount \in Referenced(p.when)
                   THEN <<Evidence(CpuCount, Number(100 * cpus))>> ELSE <<>>
    IN  [i \in DOMAIN fired |->
            Finding(fired[i].id, "pattern", fired[i].severity,
                    [k \in DOMAIN cited(fired[i]) |->
                        Evidence(cited(fired[i])[k].id, cited(fired[i])[k].value)]
                    \o host(fired[i]))]

-------------------------------------------------------------------------------
(* Baselines                                                                 *)

(* What the records, functions from ids to numbers, hold of a signal.        *)
HistoryOf(id, records) ==
    LET with == SelectSeq(records, LAMBDA r : id \in DOMAIN r)
    IN  [i \in DOMAIN with |-> with[i][id]]

(* annotate: the class of the z-score, "none" without history or number.     *)
Annotate(signals, records) ==
    [i \in DOMAIN signals |->
        LET s == signals[i]
            history == HistoryOf(s.id, records)
        IN  IF history = <<>> \/ s.value.type # "number" THEN s
            ELSE [s EXCEPT !.baseline = IF Exceeds(s.value.v, history, 70) THEN "crit"
                                        ELSE IF Exceeds(s.value.v, history, 35) THEN "warn"
                                        ELSE "normal"]]

OutlierId(id) == <<"baseline", "outlier">> \o id

OutlierFindings(signals) ==
    LET out == Pick(signals, {i \in DOMAIN signals : signals[i].baseline \in {"warn", "crit"}})
    IN  [i \in DOMAIN out |->
            Finding(OutlierId(out[i].id), "rule",
                    IF out[i].baseline = "crit" THEN Crit ELSE Warn,
                    <<Evidence(out[i].id, out[i].value)>>)]
===============================================================================
