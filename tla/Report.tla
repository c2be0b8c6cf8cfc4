--------------------------------- MODULE Report ---------------------------------
(***************************************************************************)
(* One run of usereport from its options to its exit code                  *)
(* (cli/mod.rs, main and generate_report, with Analysis::run_diagnostics,  *)
(* compute_vital_signs, compute_use_coverage, RulesLoader::load). The      *)
(* report goes to a file that an earlier run has written. How the commands *)
(* are run is the subject of AnalysisRun: here they end, with an error or  *)
(* with the results of the first repetition, the only one looked at.       *)
(***************************************************************************)
EXTENDS Rules, ReportDiff

CONSTANTS
    Outputs,        \* The values of --output: "html", "template", "llm", ...
    ExitPolicies,   \* The values of --exit-on.
    Builtins,       \* The built-in rules, in their order.
    UserDirs,       \* What may be found of the directory of the user's rules.
    ExtraRules,     \* The rules --bpf and --workload may add.
    Patterns,       \* The built-in patterns.
    Stored,         \* The named baselines that may be asked for.
    FirstResults,   \* What the first repetition of the commands may yield.
    Collectors,     \* Of each collector, the signals it may return.
    Earlier,        \* Reports to compare with: [signals, findings].
    Cpus            \* The number of processors.

VARIABLES pc, opts, userDir, rules, loadFindings, baseline, results, signals,
          next,         \* The collector whose turn it is.
          report,       \* The AnalysisReport, as far as it has been filled in.
          file,         \* The output file: its state and the report it shows.
          logged,       \* Whether the run was appended to the rolling baseline.
          code          \* The exit code, or Running.

(* What the files and the collectors can give: vectors of rules of one of the *)
(* three severities and of signals, their numbers as integers; rules and      *)
(* outliers have a place in the order of ids.                                *)
AreRules(rs) ==
    /\ IsVector(rs)
    /\ \A r \in ToSet(rs) :
          IsVector(r.when.rest) /\ r.severity \in {Crit, Warn, Info} /\ Place[r.id] \in Nat

AreSignals(sigs) ==
    /\ IsVector(sigs)
    /\ \A s \in ToSet(sigs) :
          /\ s = [id |-> s.id, value |-> s.value, samples |-> s.samples, baseline |-> s.baseline]
          /\ s.value = [type |-> s.value.type, v |-> s.value.v]
          /\ s.value.type = "number" => s.value.v \in Int
          /\ Place[OutlierId(s.id)] \in Nat

ASSUME RulesAssumption ==
    /\ AreRules(Builtins) /\ AreRules(Patterns)
    /\ \A extra \in ExtraRules : AreRules(extra)
    /\ \A dir \in UserDirs :
          /\ IsVector(dir.files) /\ \A f \in ToSet(dir.files) : AreRules(f.rules)
          /\ dir.state = "unreadable" => dir.files = <<>>

ASSUME SignalsAssumption ==
    /\ IsVector(Collectors)
    /\ \A i \in DOMAIN Collectors : \A more \in Collectors[i] : AreSignals(more)
    /\ \A rs \in FirstResults :
          /\ IsVector(rs)
          /\ \A r \in ToSet(rs) : r.outcome = "success" => AreSignals(r.extracted)
    /\ \A e \in Earlier : AreSignals(e.signals) /\ IsVector(e.findings)

ASSUME PoliciesAssumption == ExitPolicies \subseteq {"never", "info", "warn", "crit"}

inputs == <<opts, userDir, baseline>>
vars == <<pc, inputs, rules, loadFindings, results, signals, next, report, file, logged, code>>

Running == -1

-------------------------------------------------------------------------------
(* The rules of the user                                                     *)

NoDir == [state |-> "absent", files |-> <<>>]

(* The finding for a file or a directory that cannot be used.                *)
LoadFinding(what) == Finding(<<"rules", what>>, "rule", Warn, <<>>)

IsBad(f) == f.state # "rules"

(* Mutant: the first malformed file ends the loading.                        *)
UserRulesUntilBad(dir) ==
    FlattenSeq([i \in 1 .. Len(dir.files) |->
        IF \E j \in 1 .. i : IsBad(dir.files[j]) THEN <<>> ELSE dir.files[i].rules])

UserRules(dir) ==
    FlattenSeq([i \in DOMAIN dir.files |->
        IF IsBad(dir.files[i]) THEN <<>> ELSE dir.files[i].rules])

(* An absent directory is no fault.                                          *)
LoadFindings(dir) ==
    IF dir.state = "unreadable" THEN <<LoadFinding("user_dir_unreadable")>>
    ELSE LET bad == Pick(dir.files, {i \in DOMAIN dir.files : IsBad(dir.files[i])})
         IN  [i \in DOMAIN bad |-> LoadFinding(bad[i].state)]

-------------------------------------------------------------------------------
(* The overview                                                              *)

Resources == {"cpu", "mem", "disk", "net"}
NoSeverity == 3

(* The number of the first signal of that id.                                *)
FirstNumber(id, sigs) ==
    LET i == SelectInSeq(sigs, LAMBDA s : s.id = id)
    IN  IF i # 0 /\ sigs[i].value.type = "number" THEN sigs[i].value ELSE Absent

(* Utilisation per resource: that of the network is never known.             *)
Utilisation(res, sigs) ==
    LET usr == FirstNumber(<<"cpu", "usr_pct">>, sigs)
        sys == FirstNumber(<<"cpu", "sys_pct">>, sigs)
        free == FirstNumber(<<"mem", "free_pct">>, sigs)
    IN  CASE res = "cpu" -> IF usr = Absent /\ sys = Absent
                            THEN FirstNumber(<<"cpu", "iowait_pct">>, sigs)
                            ELSE Number(usr.v + sys.v)
          [] res = "mem" -> IF free = Absent THEN Absent ELSE Number(10000 - free.v)
          [] res = "disk" -> FirstNumber(<<"disk", "max_util_pct">>, sigs)
          [] res = "net" -> Absent

Cites(finding, res) ==
    \E i \in DOMAIN finding.evidence :
        /\ Len(finding.evidence[i].signal) > 1
        /\ finding.evidence[i].signal[1] = res

(* Mutant: the severity of the last finding that cites the resource.         *)
SeverityOfLast(res, fs) ==
    LET i == SelectLastInSeq(fs, LAMBDA f : Cites(f, res))
    IN  IF i = 0 THEN NoSeverity ELSE fs[i].severity

(* The highest severity of the findings that cite signals of the resource.   *)
SeverityFor(res, fs) ==
    Min({NoSeverity} \cup {fs[i].severity : i \in {k \in DOMAIN fs : Cites(fs[k], res)}})

VitalSigns(sigs, fs) ==
    [res \in Resources |-> [used |-> Utilisation(res, sigs), severity |-> SeverityFor(res, fs)]]

(* The dimensions that a command whose program was there looks at.           *)
Coverage(rs) == {rs[i].dimension : i \in {k \in DOMAIN rs : rs[k].outcome # "skipped"}}

(* Mutant: at the level of warnings, only a warning counts.                  *)
ExitCodeExact(policy, fs) ==
    LET at(severity) == \E i \in DOMAIN fs : fs[i].severity = severity
    IN  CASE policy = "never" -> 0
          [] policy = "info" -> IF fs # <<>> THEN 1 ELSE 0
          [] policy = "warn" -> IF at(Warn) THEN 1 ELSE 0
          [] policy = "crit" -> IF at(Crit) THEN 2 ELSE 0

ExitCode(policy, fs) ==
    LET any(severity) == \E i \in DOMAIN fs : fs[i].severity <= severity
    IN  CASE policy = "never" -> 0
          [] policy = "info" -> IF any(Info) THEN 1 ELSE 0
          [] policy = "warn" -> IF any(Warn) THEN 1 ELSE 0
          [] policy = "crit" -> IF any(Crit) THEN 2 ELSE 0

-------------------------------------------------------------------------------
(* The run                                                                   *)

Blank == [findings |-> <<>>, checkedOk |-> {}, thresholds |-> <<>>,
          vitals |-> VitalSigns(<<>>, <<>>), coverage |-> {}]

Init ==
    /\ opts \in [output : Outputs, exitOn : ExitPolicies, profileCpu : BOOLEAN]
    /\ pc = "open"
    /\ userDir = NoDir
    /\ rules = <<>> /\ loadFindings = <<>>
    /\ baseline = <<>> /\ results = <<>> /\ signals = <<>>
    /\ next = 1
    /\ report = Blank
    /\ file = [state |-> "earlier", report |-> Blank, signals |-> <<>>]
    /\ logged = FALSE
    /\ code = Running

(* main returns an error.                                                    *)
Fail ==
    /\ pc' = "done"
    /\ code' = 1
    /\ UNCHANGED <<inputs, rules, loadFindings, results, signals, next, report, logged>>

(* The output is text, or the file or the directories above it cannot be      *)
(* created; the profile, --workload, --duration or --interval is invalid; the *)
(* baseline cannot be read or is not there; the commands cannot be run.       *)
Refuse ==
    /\ pc \in {"open", "commands", "rules", "baseline", "run"}
    /\ Fail
    /\ UNCHANGED file

(* output_writer truncates the file.                                         *)
OpenOutput ==
    /\ pc = "open"
    /\ file' = [file EXCEPT !.state = "empty"]
    /\ pc' = "renderer"
    /\ UNCHANGED <<inputs, rules, loadFindings, results, signals, next, report, logged, code>>

CreateRenderer ==
    /\ pc = "renderer"
    /\ pc' = "commands"
    /\ UNCHANGED <<inputs, rules, loadFindings, results, signals, next, report, file, logged, code>>

(* Only the file of a template may be missing.                               *)
NoTemplate ==
    /\ pc = "renderer"
    /\ opts.output = "template"
    /\ Fail
    /\ UNCHANGED file

CreateCommands ==
    /\ pc = "commands"
    /\ pc' = "rules"
    /\ UNCHANGED <<inputs, rules, loadFindings, results, signals, next, report, file, logged, code>>

LoadRules ==
    /\ pc = "rules"
    /\ \E dir \in UserDirs, extra \in ExtraRules :
        /\ userDir' = dir
        /\ rules' = Builtins \o UserRules(dir) \o extra
        /\ loadFindings' = LoadFindings(dir)
    /\ pc' = "baseline"
    /\ UNCHANGED <<opts, baseline, results, signals, next, report, file, logged, code>>

(* Without --baseline no records; with it the one record of that name.       *)
LoadBaseline ==
    /\ pc = "baseline"
    /\ \E records \in {<<>>} \cup {<<r>> : r \in Stored} : baseline' = records
    /\ pc' = "run"
    /\ UNCHANGED <<opts, userDir, rules, loadFindings, results, signals, next, report, file, logged, code>>

(* The commands have run: what the succeeded ones printed is extracted.      *)
RunCommands ==
    /\ pc = "run"
    /\ \E rs \in FirstResults :
        /\ results' = rs
        /\ signals' = FlattenSeq([i \in DOMAIN rs |->
                          IF rs[i].outcome = "success" THEN rs[i].extracted ELSE <<>>])
    /\ pc' = "collect"
    /\ UNCHANGED <<inputs, rules, loadFindings, next, report, file, logged, code>>

Collect ==
    /\ pc = "collect" /\ next \in DOMAIN Collectors
    /\ \E more \in Collectors[next] : signals' = signals \o more
    /\ next' = next + 1
    /\ UNCHANGED <<pc, inputs, rules, loadFindings, results, report, file, logged, code>>

(* The error of a collector is logged.                                       *)
CollectFails ==
    /\ pc = "collect" /\ next \in DOMAIN Collectors
    /\ next' = next + 1
    /\ UNCHANGED <<pc, inputs, rules, loadFindings, results, signals, report, file, logged, code>>

(* run_diagnostics: the findings of rules, patterns and outliers, sorted; the *)
(* rule engine alone also says what it has checked.                          *)
Diagnose ==
    /\ pc = "collect" /\ next \notin DOMAIN Collectors
    /\ LET annotated == Annotate(signals, baseline)
       IN  /\ signals' = annotated
           /\ report' = [report EXCEPT
                  !.findings = SortFindings(RunRules(rules, annotated, Cpus)
                                            \o RunPatterns(Patterns, annotated, Cpus)
                                            \o OutlierFindings(annotated)),
                  !.checkedOk = CheckedOk(rules, annotated, Cpus),
                  !.thresholds = Thresholds(rules)]
    /\ pc' = "overview"
    /\ UNCHANGED <<inputs, rules, loadFindings, results, next, file, logged, code>>

Overview ==
    /\ pc = "overview"
    /\ LET fs == report.findings \o loadFindings
       IN  report' = [report EXCEPT !.findings = fs,
                                    !.vitals = VitalSigns(signals, fs),
                                    !.coverage = Coverage(results)]
    /\ pc' = "profile"
    /\ UNCHANGED <<inputs, rules, loadFindings, results, signals, next, file, logged, code>>

Profiles == opts.profileCpu /\ opts.output = "html"

(* What --profile-cpu adds to the findings: nothing where it is not given or  *)
(* ignored, or the flame graph was made; that the tools are missing; that     *)
(* they failed.                                                              *)
ProfileFindings ==
    {<<>>} \cup IF Profiles
                THEN {<<Finding(<<"profile", "cpu", "unavailable">>, "rule", Info, <<>>)>>,
                      <<Finding(<<"profile", "flamegraph", "error">>, "rule", Warn, <<>>)>>}
                ELSE {}

ProfileCpu ==
    /\ pc = "profile"
    /\ \E more \in ProfileFindings :
        report' = [report EXCEPT !.findings = @ \o more]
    /\ pc' = "write"
    /\ UNCHANGED <<inputs, rules, loadFindings, results, signals, next, file, logged, code>>

(* The duration of --profile-cpu is parsed only now.                         *)
ProfileInvalid ==
    /\ pc = "profile" /\ Profiles
    /\ Fail
    /\ UNCHANGED file

Write ==
    /\ pc = "write"
    /\ file' = [state |-> "whole", report |-> report, signals |-> signals]
    /\ pc' = "append"
    /\ UNCHANGED <<inputs, rules, loadFindings, results, signals, next, report, logged, code>>

(* Rendering goes to a buffer first, except for the LLM output, and fails     *)
(* with nothing written; a failing write leaves a part.                      *)
WriteFails ==
    /\ pc = "write"
    /\ Fail
    /\ \E s \in {"empty", "partial"} : file' = [file EXCEPT !.state = s]

(* A run with signals is appended to the rolling baseline; an error there is  *)
(* logged.                                                                   *)
AppendRolling ==
    /\ pc = "append"
    /\ logged' \in (IF signals = <<>> THEN {FALSE} ELSE BOOLEAN)
    /\ pc' = "exit"
    /\ UNCHANGED <<inputs, rules, loadFindings, results, signals, next, report, file, code>>

Exit ==
    /\ pc = "exit"
    /\ code' = ExitCode(opts.exitOn, report.findings)
    /\ pc' = "done"
    /\ UNCHANGED <<inputs, rules, loadFindings, results, signals, next, report, file, logged>>

Done == pc = "done" /\ UNCHANGED vars

Next ==
    \/ Refuse \/ OpenOutput \/ CreateRenderer \/ NoTemplate \/ CreateCommands
    \/ LoadRules \/ LoadBaseline \/ RunCommands
    \/ Collect \/ CollectFails \/ Diagnose \/ Overview
    \/ ProfileCpu \/ ProfileInvalid \/ Write \/ WriteFails \/ AppendRolling \/ Exit
    \/ Done

Spec == Init /\ [][Next]_vars

-------------------------------------------------------------------------------
(* Properties                                                                *)

Shown == ToSet(file.report.findings)

AtLevel(policy) ==
    \E f \in Shown : \/ policy = "info"
                     \/ policy = "warn" /\ f.severity \in {Warn, Crit}
                     \/ policy = "crit" /\ f.severity = Crit

(* A script can rely on the exit code: 0 means that the file shows a whole    *)
(* report without a finding of the level asked for, 2 that it shows a whole   *)
(* one with a critical finding; 1 is either such a finding or an error, and   *)
(* an error never leaves a whole report behind. The findings that are added   *)
(* after the diagnosis count as well as those the reader sees.               *)
ExitCodeFits ==
    /\ code = 0 => file.state = "whole" /\ ~AtLevel(opts.exitOn)
    /\ code = 1 /\ file.state = "whole" => opts.exitOn \in {"info", "warn"} /\ AtLevel(opts.exitOn)
    /\ code = 2 => file.state = "whole" /\ opts.exitOn = "crit" /\ AtLevel("crit")

Ids == {file.signals[i].id : i \in DOMAIN file.signals}

Present(path) ==
    \/ path = CpuCount \/ path \in Ids
    \/ Len(path) > 1 /\ Last(path) \in StatSuffixes /\ Front(path) \in Ids

(* Whatever collectors fail: a rule or pattern joined by AND alone has fired  *)
(* only if everything it names was there, any other only if all that one of   *)
(* its comparisons names was (pattern/mod.rs: "a missing signal makes the     *)
(* predicate false"). Every finding is one of these, or of a baseline, a rule *)
(* file or a CPU profile.                                                    *)
FiresOnlyOnPresent ==
    LET grounded(t) == Present(t.path) /\ (t.to = <<>> \/ Present(t.to))
        grounds(when) ==
            IF \A i \in DOMAIN when.rest : when.rest[i].and
            THEN \A t \in ToSet(Terms(when)) : grounded(t)
            ELSE \E t \in ToSet(Terms(when)) : grounded(t)
        named(id) == {r \in ToSet(rules) \cup ToSet(Patterns) : r.id = id}
        own == ToSet(OutlierFindings(file.signals)) \cup ToSet(loadFindings)
               \cup UNION {ToSet(fs) : fs \in ProfileFindings}
    IN  file.state = "whole" =>
            \A f \in Shown \ own : \E r \in named(f.id) : grounds(r.when)

(* What a report says was checked was there, and a rule is never passed over: *)
(* it has its finding, or what it cites and is there counts as checked.      *)
EveryRuleAnswers ==
    file.state = "whole" =>
        /\ file.report.checkedOk \subseteq Ids \cup {CpuCount}
        /\ \A r \in ToSet(rules) :
              \/ r.id \in {f.id : f \in Shown}
              \/ ToSet(r.evidence) \cap (Ids \cup {CpuCount}) \subseteq file.report.checkedOk

(* The overview tells of a resource what the findings below it tell: no       *)
(* finding that cites the resource is worse than the severity shown, and one  *)
(* is as bad, also after the findings added late.                            *)
OverviewFits ==
    file.state = "whole" =>
        \A res \in Resources :
            LET worst == file.report.vitals[res].severity
                citing == {f \in Shown : \E i \in DOMAIN f.evidence :
                              Len(f.evidence[i].signal) > 1 /\ f.evidence[i].signal[1] = res}
            IN  /\ \A f \in citing : worst <= f.severity
                /\ worst # NoSeverity => \E f \in citing : f.severity = worst

(* The threshold shown for a signal is that of a rule of the highest severity *)
(* that compares the signal with a number, among those the earliest, however  *)
(* built-in rules, the user's and the workload's are put together.           *)
ThresholdsFit ==
    LET numeric(r) == {k \in DOMAIN Terms(r.when) :
                          Terms(r.when)[k].to = <<>> /\ Terms(r.when)[k].value.type = "number"}
        places == UNION {{i} \X numeric(rules[i]) : i \in DOMAIN rules}
        term(at) == Terms(rules[at[1]].when)[at[2]]
        severity(at) == rules[at[1]].severity
        before(a, b) ==
            \/ severity(a) < severity(b)
            \/ severity(a) = severity(b) /\ (a[1] < b[1] \/ (a[1] = b[1] /\ a[2] < b[2]))
        shown == file.report.thresholds
    IN  file.state = "whole" =>
            /\ DOMAIN shown = {term(at).path : at \in places}
            /\ \A at \in places :
                  (\A other \in places \ {at} : term(other).path = term(at).path => before(at, other))
                      => /\ shown[term(at).path].op = term(at).op
                         /\ shown[term(at).path].value = term(at).value.v
                         /\ shown[term(at).path].severity = severity(at)

(* A file of the user that cannot be used is told of in the report and costs  *)
(* neither a built-in rule nor one of another file (rule/mod.rs: "malformed   *)
(* user files do NOT poison built-ins").                                     *)
BadRuleFileIsLocal ==
    file.state = "whole" =>
        /\ \A r \in ToSet(Builtins) : r \in ToSet(rules)
        /\ \A i \in DOMAIN userDir.files :
              IF IsBad(userDir.files[i])
              THEN \E f \in Shown : f.id = <<"rules", userDir.files[i].state>> /\ f.severity = Warn
              ELSE ToSet(userDir.files[i].rules) \subseteq ToSet(rules)
        /\ userDir.state = "unreadable" =>
              \E f \in Shown : f.id = <<"rules", "user_dir_unreadable">>

(* A diff tells of the values that the rules of either report have seen,      *)
(* although a report may have several signals of one id; it is empty for the  *)
(* same report, and what is compared the other way round is told the other    *)
(* way round (diff.rs:44-108, rule/mod.rs:232).                              *)
DiffFits ==
    LET this == [signals |-> file.signals, findings |-> file.report.findings]
        seen(rep, id) == rep.signals[Index(rep.signals, id)].value
    IN  file.state = "whole" =>
            \A e \in Earlier :
                LET d == Diff(e, this)
                    back == Diff(this, e)
                    Both == {s.id : s \in ToSet(e.signals)} \cap Ids
                IN  /\ \A id \in Both : seen(e, id).type = "number" /\ seen(this, id).type = "number" =>
                          IF id \in DOMAIN d.signalDeltas
                          THEN seen(this, id).v = seen(e, id).v + d.signalDeltas[id]
                          ELSE seen(this, id) = seen(e, id)
                    /\ d.findingsOnlyInB = {f.id : f \in Shown} \ {f.id : f \in ToSet(e.findings)}
                    /\ Diff(this, this) = Diff([signals |-> <<>>, findings |-> <<>>],
                                              [signals |-> <<>>, findings |-> <<>>])
                    /\ d.signalsOnlyInA = back.signalsOnlyInB
                    /\ d.findingsOnlyInA = back.findingsOnlyInB
                    /\ DOMAIN d.severityChanged = DOMAIN back.severityChanged

(* Violated: with --baseline a signal that has moved by more than half of     *)
(* what is recorded of it, as in scenario C of the README, gets a finding.    *)
DeviationReported ==
    file.state = "whole" =>
        \A i \in DOMAIN file.signals, k \in DOMAIN baseline :
            LET s == file.signals[i]
            IN  s.id \in DOMAIN baseline[k] /\ s.value.type = "number"
                /\ 2 * Magnitude(s.value.v - baseline[k][s.id]) > Magnitude(baseline[k][s.id])
                    => \E f \in Shown : f.id = OutlierId(s.id)
===============================================================================
