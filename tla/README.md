# usereport: a verification project

`usereport` collects diagnostics of a host (the USE method) and turns them into
a report: it runs the commands of a profile in parallel, reads counters of the
system, evaluates rules and patterns over the signals it got, compares them with
a baseline, and renders the findings. This directory holds TLA+ modules that
model the parts of it that carry its own logic, TLC configurations that check
them on small instances, and proofs that TLAPS checks for every instance.
Paths and lines refer to the repository; `PROJECT.json` says for each definition
which lines it stands for.

## 1. The system

| Component | State it keeps | Operations | Talks to |
|---|---|---|---|
| Runner (`runner.rs`) | chunk, threads, their channel, results | `run`, `create_children`, `create_child`, `wait_for_results` | one thread per command; progress events |
| Command execution (`command.rs`) | child process, deadline | `exec`, `terminate`, `fail` | the operating system |
| Progress bar (`cli/mod.rs` 1663-1702) | spinners by number, count | a thread of its own that takes events | the runner, through a channel; joined by the report |
| Analysis (`analysis.rs`) | results, signals, findings | `run`, `run_diagnostics`, vital signs, USE coverage | runner, collectors, engines |
| Report generation (`cli/mod.rs`) | the report, the output file, the exit code | `main`, `generate_report`, `compute_exit_code` | everything else |
| Rule engine, loader, patterns (`rule/`, `pattern/`, `finding.rs`) | rules | `evaluate`, `run`, `signal_thresholds`, `load`, `sort_findings` | signals in, findings out |
| Baseline statistics (`baseline/mod.rs`, `stats.rs`) | none | median, MAD, z-score, percentile, trend, `annotate`, `outlier_findings` | signals and records |
| Rolling baseline (`baseline/store.rs`) | `_rolling.jsonl`, a `flock` | `append_rolling`, `load_rolling` | other processes, through the file |
| Named baselines (`store.rs`, `cli/mod.rs` 760-829) | `<name>.json` | record, list, show, delete, `--baseline` | other processes, through the file |
| Collectors (`collector/`) | two snapshots of counters, or samples; others look once | `collect`, `collect_sampled` | `/proc`, `/sys`, `iostat`, BPF tools, the analysis |
| Platform readers (`collector/platform/`) | none | the tables of the kernel and of tools, by column | collectors |
| Predicate parser (`rule/mod.rs` 251-531) | none | a `when` as text to a predicate, a file to rules | rule loader |
| Extraction (`extract.rs`) | none | a regular expression over a command's output | analysis |
| Configuration, selection (`cli/config.rs`, `cli/mod.rs`) | profiles, commands | `validate`, `create_commands` | report generation |
| Diff (`diff.rs`) | none | `diff` | two reports |
| Check, explain, show (`cli/mod.rs` 466-731, 920-1036) | none; they look at the `PATH` again and again | what a configuration names | the same command line as the report |
| Convert, LLM output, redaction (`cli/mod.rs` 834-918, `llm.rs`, `redact.rs`) | an output file | JSON of a report to another output | files of earlier reports |
| Rendering, flame graph, workload packs | none | functions of their input | report generation |

What is hard in it, and what must hold where:

* *Runner.* Threads finish, panic and fail to start in any order. The results
  must be complete and in the order of the commands, chunks must not overlap,
  and the caller must not wait for a message that can no longer come.
* *Command execution.* The process may end in the moment its time is up. No
  process may be left behind, none that was reaped may be signalled, the verdict
  must fit what the process did.
* *Progress.* Two threads that wait for each other through a channel: the
  report must drop the analysis, which holds a sender, before it joins.
* *Rolling baseline.* Processes share a file that is truncated before it is
  written again; a crash, a full disk and a reader without the lock come between.
* *Named baselines.* The same without any lock.
* *Report.* A long sequence of steps each of which may fail, after the output
  file has been emptied. The exit code, the findings, the overview and the log
  must agree about one and the same report.
* *Collectors.* Between the two reads counters go back, devices vanish and come
  again, reads fail. What is reported must be what was counted in the window, and
  the windows of a sampled run must cover it without gap or overlap.
* *Selection.* Names may be listed twice, defined twice, unknown, added or removed.
  What was asked for must be what runs, or the run must be refused.
* *Diff.* A report may have several signals or findings of one id.
* *Rules.* Signals may be missing because a collector failed; ids may be there
  twice, end like a statistic, or be sampled. Nothing may fire on what is missing.
* *Readers.* Text that others wrote: an extra token, a missing column, a value
  that is no number. What is accepted must mean what was written, and a value must
  never come back under the name of its neighbour.
* *Check.* Two counts of what lacks are subtracted, and the `PATH` may change
  between them. What passes should be enough for the report, which looks for it
  in another way.
* *Convert.* It empties a file that may be the report itself; numbers may not
  survive JSON; what the patterns of the redaction match must not show.

## 2. The modules

| Module | Models | Corresponds to the code |
|---|---|---|
| `RunnerSpec` | what `run` promises | each command begins and ends once, chunk after chunk; `Return` with every result in order, or `GiveUp` |
| `ThreadRunner` | `runner.rs`, thread by thread | `main` is the position of the caller, `child[s].at` that of the thread with sequence number `s`, `chan` the channel; one action per call that another thread can observe |
| `Positions` | what a `filter` or `flat_map` leaves of a vector | `Pick(q, S)`, the elements at the positions `S` in their order |
| `CommandExec` | `Command::exec` in several threads | `exec[t]` is the position in the function, `proc[t]` the process; `Exit` and `Tick` belong to the operating system |
| `CommandPool` | both composed | the `exec` step of a thread is the whole of `CommandExec` for it |
| `CommandSelection` | `Config::validate`, profiles, host information, filters | operators from a configuration and options to the commands that run, or to a refusal |
| `AnalysisRun` | `Analysis::run` and the progress thread | extends `ThreadRunner` and `CommandSelection`: a request is refused, or the runner is called for its host information and for each repetition; `bar`, `spinners` are the progress thread |
| `RollingLog` | what `append_rolling` promises | an atomic log of the last `Window` records; an append that goes wrong may lose the newest of them (`LoseNewest`, under `MayLose`), and leaves a beginning of what it would have left; one that cannot read all of the log cuts it behind what it has read (`LoseUnread`), and then appends as if nothing had been |
| `RollingStore` | `append_rolling`, `load_rolling` | `writer[p].at` is the position, `lock` the `flock`; truncation, each line and the write-out of the buffer are steps; a read may break off behind any line (`MayRead`) |
| `NamedBaseline` | record, show, delete of one name | each call of the file system is a step; files are kept apart from the name, so a deleted file can still be written |
| `Inspection` | what `main` makes of a command line | extends `AnalysisRun`: the report it is, or `check`, `explain` and the `--show` options over the same configuration; `path` is what `which` finds, `files` what `Path::exists` finds, and `PathChanges` changes both while `check` counts |
| `Stats` | `baseline/stats.rs` | operators; a quotient is kept as an exact multiple of itself |
| `Rules` | predicates, rule engine, patterns, annotation, order | operators over signals, rules and findings |
| `ReportDiff` | `diff.rs` | operators over signals and findings of two reports |
| `Predicates` | the parser of predicates, rule and pattern files | a text is a sequence of tokens; one operator per function of the parser, which gives what it made and what it left |
| `Extraction` | `extract.rs` | operators; a line says what matching it yields |
| `Probes` | the collectors that look once, and the readers of the platforms | operators from tables of fields to signals |
| `Conversion` | JSON of a report, `llm.rs`, `redact.rs` | operators; JSON has no number for what is not finite and one kind of number. A text is a sequence of units: a character, or a host name or address as a whole. `Addresses` are those that the patterns of `redact.rs` match, others are like any text; a limit leaves of a unit what `Remains` says, which no pattern need match |
| `Reading` | all of the four, and `convert` | a behaviour picks an input and reads it; of `convert` each step that touches the output file is an action, `target` is that file |
| `Collectors` | the collectors that read counters twice, and the sampling loop | `kernel` holds the counters, `prev` the last snapshot, `samples` the windows; `at` is the position in `collect`; `World` is the kernel |
| `Report` | `generate_report` and the exit code | `pc` is the position; `file` the output file; `report` the `AnalysisReport` |

`CommandPool` and `AnalysisRun` extend `ThreadRunner`, `Inspection` extends
`AnalysisRun`; `CommandPool` instantiates
`CommandExec`; `RollingStore` instantiates `RollingLog`, `ThreadRunner`
instantiates `RunnerSpec`; `Report` extends `ReportDiff` and `Rules`, which extends `Stats`. In
`Report` the commands simply end with results or an error: that they end, in
order, is what `AnalysisRun` shows. The `MC` modules give the constants values.

Proofs are kept apart, in a module of their own that extends what it is about:
`CommandExecProofs`, `CompositionProofs` (about the runner and what is composed
with it, `CommandPool`, `AnalysisRun` and `Inspection`; it uses the former as an
instance), `RollingStoreProofs`, `NamedBaselineProofs`, `ReportProofs`,
`CollectorsProofs`, `ReadingProofs`, and `PositionsProofs` with the lemmas about
vectors and sums. Section 5 tells of them.

Data is abstract throughout: a command is a model value, a record of the rolling
file is the moment it was captured, a record of a named baseline its owner's
blocks, an id the sequence of its segments, a number a hundredfold integer.

## 3. The runs

| Run | Question | Bounds and why they do |
|---|---|---|
| `runner` | Are results complete and ordered, do chunks end, does `run` return, does it implement `RunnerSpec`? | four commands in chunks of three: two chunks, the last not full, three threads interleaving; an empty and a single-command list; two kinds of results |
| `exec` | Is the verdict right, is no process left or signalled late, does `exec` return? | two threads, timeouts unset, 0 and 1 s, one process that may not be killed |
| `pool` | Does the composition still behave as `ThreadRunner` says, though processes hang? | three commands in chunks of two, timeout 1 s |
| `analysis_run` | Do report and progress thread both end, is every run complete, is it what was asked for, and do `check` and `explain` agree with it? | one host command, three commands in chunks of two, twice: each number is used again; profiles and commands that are defined or listed twice, filters of each kind, and one configuration for each reason to refuse; four states of the `PATH`, each lacking other kinds of tools, without or with files of the name of what lacks, and `MaxChanges` changes of either during a check; a name of each kind of topic, of two kinds, of none |
| `rolling` | Does the file implement the log, what may cost a record, what do readers get, does every append come back? | two writers, one reader, window 2, every fault, a read that breaks off behind any line among them, five initial files (empty, full, longer than the window, with a malformed line, with one that is not UTF-8) |
| `rolling_flush` | disagreement, section 6 | two writers, failing flush |
| `report` | Do exit code, file, findings, overview, thresholds and log agree? | two collectors with up to five outcomes and failure, duplicate, sampled and text-like signals, five built-in rules of every form, four states of the rules directory, all exit policies, two outputs |
| `baseline_deviation` | disagreement, section 6 | the same rules with one output and policy |
| `collectors` | Is what is reported what was counted in the window? | every collector, two devices of which one may be away, three events between reads, each part of a snapshot that may lack (`MCLossy`), two CPUs, all of `duration` and `interval` 0 and 1 s: no, one and two windows, and the division by zero |
| `collectors_percent` | disagreement, section 6 | macOS, uptime 100 s, three loads |
| `reading` | Does what is read say what was written, and what does `convert` leave? | predicates of up to three terms, written with and without white space and damaged by every token at every place; rule files of up to two rules, good and bad; outputs of up to three lines; tables with the columns of old and new kernels, of three versions of `free` and of two of `netstat`; histories of up to four values; reports of up to two signals of every kind, with an address that the patterns match, one that they do not, and texts whose limit falls in an address and in the name of the host |
| `named` | What can a load return, what can leave a torn file, what does a record without `--force` replace? | three processes with one command each, records of one and two blocks, a name that is there or not |

Every property has a mutant in `PROJECT.json`: a plausible bug of the code under
which the run finds it violated. `Terminated`, `Done` and `AllDone` stutter when
everything has ended, so deadlock is checked in every run.

What `report` says in more words: a script that looks only at the exit code
knows whether the file shows a whole report and a finding of its level, also when
a rule file is malformed or a profile fails (`ExitCodeFits`); whatever collectors
fail, no rule fires on signals that are not there (`FiresOnlyOnPresent`); a rule
that is silent has its present signals listed as checked (`EveryRuleAnswers`);
the severities of the overview are those of the findings (`OverviewFits`); the
threshold shown is that of the most severe rule and, among equals, the earliest
(`ThresholdsFit`); a bad rule file costs only itself (`BadRuleFileIsLocal`);
and the diff of the report with an earlier one and the reverse diff tell the
same, each change once (`DiffFits`).

What `reading` says: what is accepted as a predicate is what was written, and
what was written is accepted as it was meant unless its right side begins like a
number; a file of rules is taken whole or not at all (`RulesFit`). An extract with
a value shows in one signal, which is the count, the last, the least, the greatest
or the mean of what was captured, and one without in none (`ExtractionFits`).
What a probe reports lies within what it looked at, and a median where half of
the events are (`ProbesFit`). A column of `/proc` comes back under its own name,
whichever of them the kernel has; what `free` and `netstat` print is taken by its
place, and `TablesFit` says which number that is. Median, MAD, percentile and trend
are what counting says they are (`StatsFit`). What a conversion shows is the report it was
given, a second one shows the same; redacted, no text has in it what the patterns
match, and no excerpt the name of the host (`ConvertedShows`). That is less than the
documents of the program promise: section 6 tells what stays readable.

`InspectionFits` says of `check` that its verdict is about what the report's own
selection takes up, while nothing changes, and how far changes can reach. `check` is
content with a file of the name (`cli/mod.rs:639`, `:694`), also one that cannot be
executed; `exec` asks `which` alone (`command.rs:191`). So what passes is run by a
report, or is such a file and is skipped as missing. That tools for profiling and
BPF are exempt the property takes from the code and its comment. Of `explain` it says
that it knows what it lists and nothing else.

`rolling` allows the log to lose records throughout, since every fault is on: the
newest of what an append would have left, or, when it could not read on, all behind
what it has read, in front of its own. That neither is ever without a fault of the
append itself is `OnlyFaultsLose`; an append that could not read everything is such a
fault although it returns `Ok`.

`collectors` lets a snapshot lack a part although the read succeeds. A part that is
not there counts as 0; `DeltasWithinWindow` says for which counters that shows as
everything since boot, for the TCP counters when the first read lacked them, and that
it shows as no more than was counted for all others. `PercentagesFit` bounds the
shares by the whole and by what `iowait` went back.

## 4. Fairness

* `ThreadRunner`: weak fairness of the caller and of each thread. The operating
  system schedules them, and `exec` returns; the latter is not taken for granted:
  `CommandPool` shows `FairSpec` of `ThreadRunner` from the fairness of `exec`'s
  steps and of the clock. A listener that goes away, threads that cannot be
  created and panics are never forced.
* `CommandExec`: weak fairness of each step of `exec` and of the clock. The process
  itself has none: it may hang for ever. A process that may not be killed
  (a set-uid program) makes `terminate` wait without limit; `ExecReturns` says so.
* `AnalysisRun`, `Inspection`: additionally the caller of `run`, the progress thread
  and each step of the commands that only look. The `PATH` need never change.
* `RollingStore`: weak fairness of each writer and reader, without the errors of
  `open` and `flock`, which would otherwise excuse a process from waiting for a
  lock that is never released. A crash is never forced.
* `Report`, `NamedBaseline`, `Collectors` and `Reading` have no liveness properties: their steps follow
  one another without waiting.

## 5. The proofs

TLAPS checks everything in the `*Proofs` modules, for every value of the
constants under the assumptions below. `PROJECT.json` lists the theorems with the
property each one states; TLC checks the same definitions on the instances of
section 3, and checked each inductive invariant before it was proved.

An invariant that a run checks mostly speaks of the end, and is not inductive.
Each module therefore has a stronger one, in named parts, that tells what holds
on the way there; the initial states have it, each action keeps it (one lemma per
action that disturbs something), and it implies the property.

| Module | Proved | The inductive invariant, and why it is needed |
|---|---|---|
| `CompositionProofs`, the threads | `TypeOK`, `ResultsInOrder`; `Spec => ImplementsRunnerSpec` | `IInv` follows a result from the thread to the vector: `ChildrenFit` (the threads of a chunk are the first `spawned`, each with the command of its place), `MessagesFit` and `OneMessageEach` (a message is from a thread that has sent, and the only one), `AllTaken`, `Aligned`, `Prefix` (the results so far are those of the first `base` commands). At the end of a chunk the pigeonhole facts on finite sets make the sort put each message in its place (`SortBySeqOrders`) |
| `CommandExecProofs` | `TypeOK`, `NoProcessLeft`, `VerdictFits`, `NoSignalAfterReap` | `ThreadInv(t)`, what holds at each point of `exec`: `Watched` (while it polls nobody has waited for the process), `Doomed` (what is terminated is there, and its result stands), `Awaited`, `Settled` |
| `CompositionProofs`, the processes | `PoolSpec => Spec` of `ThreadRunner`, hence `ImplementsRunnerSpec`; `NoProcessBetweenChunks` | `PoolInv`: that of the threads, that of `exec` from the instance, and `InStep` (the `exec` of a thread is under way exactly while the thread is in it) |
| `CompositionProofs`, the report and what only looks | `RunsComplete`, `RunsWhatWasAsked`, `NoSpinnerReplaced`, of `RunSpec` and of `MainSpec`; `InspectionFits` | `RunIInv`: that of the runner, what it was called with at each stage, what is complete by then, and `Turns`: the events in the channel lead from the spinners that are shown to the threads that are at work, one due event after the other (`History`), although the numbers begin anew with each chunk. `InspectInv`: what is looked for has every command of every profile that is checked, what was counted lacked where `PATH` and files differ from the present ones only in what came or went since (`CountFits`), and the answer is made of both |
| `RollingStoreProofs` | `TypeOK`, `OneHolder` (exactly the writer that the lock names is behind it), `Chronological`; `Spec => ImplementsRollingLog`, `OnlyFaultsLose` | `IInv`: the file ascends (`Sound`); a writer behind the lock will leave the last records of what it has read, a beginning of the file, with its own (`Planned`), before it truncates the file is still that (`Unharmed`), afterwards a beginning of what it will be (`Begun`); what a reader can still find is newer than all it has, in the file as it is and as each writer is going to leave it (`Newer`), since a reader reads on across rewrites it does not see |
| `NamedBaselineProofs` | `LoadsAreWhole`, `TornOnlyByOverlap`, `UnforcedSparesWhatItSaw` | `IInv`: the last block of a record was written by a write that was told to be complete, and only a failed one leaves a beginning that is not whole (`Sourced`), in every file and in every buffer; unless two have met, each file has one writer at most, for whom it is empty (`Apart`); all that was completed since a process looked in vain it knows to be fresh (`Seen`) |
| `ReportProofs` | all seven invariants of the run `report` | `IInv`: a whole file shows the report as it is and goes with its exit code (`WholeFits`), the rules are those of the program, of the directory and of the options (`RulesFit`), the findings come from the diagnosis of just these signals (`DiagnosisFits`), and nothing that cites a signal is added after the overview was made (`OverviewInv`). The rest is about the operators: the sort gives the same findings, the worst first (`Graded`), the index finds the last signal of an id, a predicate of any length is true only on what is there, the thresholds keep the foremost comparison (`ShowsForemost`), the diff of a report with itself is empty and turns round with its arguments |
| `CollectorsProofs` | `DeltasWithinWindow`, `SamplesCoverTheRun`, `PercentagesFit` | `IInv`: a counter shows what it showed in the last snapshot and what was counted since, or less if it was disturbed (`CounterFits`), or it lacked in the last snapshot and is counted from 0 (`lost`), although the property speaks of one window only, since each read begins the next one; a snapshot has every counter but those of a device that came or went (`Holds`); the samples so far add up to the way from the first snapshot to the last one (`Cover`). The sums over sets of counters count pairs (`SumIsCount`), so that they compare (`SumCompares`) also where the one runs over signals and the other over devices; the share of each disk is cut off at the whole, and so is the worst |
| `ReadingProofs` | `StatsFit`, `ConvertedShows`, `ProbesFit`, `TablesFit`, `ExtractionFits`, `RulesFit`: all invariants of the run `reading` | `IInv`: an input is one of those there are, and what was read is what the reader makes of it (`Looking`); of a conversion how far it is: until the output file is opened it is as before, then it is empty, and only what was read back and shown in full counts as a success (`Converting`). The steps are whole computations, so the work is in the functions: the rank of a value makes the sort a rearrangement that ascends, whose middle and tails are then counted (`MadHalves`), a sum is followed from element to element, to the bucket in which half of the events are passed and for the slope of the trend, which is linear (`SumLinear`), a report shows as it does after it was written and read (`FloatedAlike`), redacted or not, the extractions of all commands are matched with their signals one by one across a flattened vector (`AnswersFit`), each parser finds the number below the column it names (`PrintedIs`, `PlaceIs`). For the parser of predicates there are two inductions over the terms: on what it accepts, it has at each step written down in full what it has taken, or is stuck behind the end of a word that began as a number (`Displays`, `AfterEach`); and of a predicate that was written, what is still to be read at each step is what was written behind that term (`Still`, `ExprGiven`), unless a side begins like a number (`Swallowed`, `NothingSwallowed`) |
| `PositionsProofs` | no theorem of its own, lemmas | counting and order of `Pick`; `FlattenElements`, `ConcatVectors`, `PickSet`: what is in a vector that is put together of others; how vectors behind each other are cut, picked from and compared (`ConcatIs`, `CutAt`, `PickConcat`, `FlattenMatches`, `Unflattening`) |

The refinements are proved for the steps: the initial states map to initial
states, and under the inductive invariant each step maps to a step of the abstract
specification or changes nothing there. `RollingLog` has its log in an expression
over the file and the plans of the writer behind the lock; that a rewrite changes
the log in one step, the truncation, and that a fault after it takes the newest
records away and no others, is what `Planned` and `Begun` are for. `OnlyFaultsLose`
is the refinement without `LoseNewest` for every step that is not a fault.

Assumptions, all of them `ASSUME`d in the module that declares the constant, so
that TLC evaluates them on the instances:

* `MaxParallelAssumption`, `InputsAssumption`, `NamesAssumption` (`ThreadRunner`): a
  number of threads, lists of commands, and "none" is no command;
* `TimeoutsAssumption`, `KillableAssumption` (`CommandExec`), `PoolTimeoutsAssumption`,
  `PoolKillableAssumption`, `PoolKindAssumption` (`CommandPool`): time-outs are whole
  seconds, as `timeout_sec` is;
* `RunAssumption` (`AnalysisRun`): what is read from the configuration file and the
  command line are vectors, and a command has its name; nothing is assumed of the
  names: they may be unknown, or listed and defined several times;
* `BpfccAssumption` (`Inspection`): the table of BPF tools is finite;
* `WindowAssumption`, `FaultsAssumption`, `WriterAssumption`, `InitFilesAssumption`
  (`RollingStore`): the window is not 0, which `validate` refuses, and the file holds
  lines in the order of their capture at first, readable or not. `append_rolling`
  could not make any other; a file that was edited by hand is not covered;
* `SizeAssumption` (`NamedBaseline`): a record has at least one block;
* `RulesAssumption`, `SignalsAssumption`, `PoliciesAssumption` (`Report`): rules,
  patterns and signals have the types of the structs; ids may occur several times;
* `NullAssumption`, `ExcerptAssumption`, `HashAssumption` (`Conversion`): `null` is no
  number and no vector; the limit of an excerpt is not 0; a hash, 32 hexadecimal
  digits in brackets, has in it none of the names it hides: no pattern matches it, and
  no host is named like a part of it (`Hides`, in `ConversionsAssumption` for the hosts).
  Beyond the assumptions, whether the patterns match a unit of a text is taken not to
  depend on what stands around it;
* `MarkersAssumption`, `ToolsAssumption` (`Probes`): what stands for "missing" and "no
  number" is neither;
* `Reading` says of its inputs what the operating system or an earlier part of the
  program grants: a line says of every pattern that is looked for what it yields
  (`ResultsAssumption`); counters are natural numbers (`InterruptsAssumption`,
  `CpuHostsAssumption`); a bucket has a lower bound and an upper one
  (`BpfAssumption`), the limit of a group of version 1 is one number
  (`CgroupsAssumption`); a history is not empty, for the statistics of an empty one
  are `None` (`HistoriesAssumption`); a report has the types of the structs, and only
  a float can be no number (`ConversionsAssumption`); `/proc/stat` has its first four
  columns, `free` the first three of its own, no two interfaces of `/proc` have one
  name, and `netstat` has any columns and as many rows of an interface as it likes
  (`MachinesAssumption`); a predicate that is written
  compares paths with what the grammar has, numbers being those that are read whole
  (`WhensAssumption`), and a file is no TOML, or tables each with a text of tokens as
  its predicate, however wrong (`FilesAssumption`);
* `CollectorAssumption`, `DevAssumption`, `SamplingAssumption`, `CountAssumption`,
  `LoadAssumption` (`Collectors`): finitely many devices, none of which is called
  `max`, as the signal of the worst disk is; any part of a snapshot may lack;
  durations and intervals are whole seconds; the parts of the load are percentages.

Induction and recursion over the natural numbers are lemmas about sets there
(`Induction`, `Recursion` in `PositionsProofs`), which the provers can apply, unlike
the ones of the library that take an operator. So what a recursive function does
for every length can be proved (`FlattenElements`, the thresholds), and so can what
a fold of the library gives (`MapThenSumSet`, `FoldSeq` in `CollectorsProofs`): the
function that the library chooses is shown to exist, and to be the only one.

Only model-checked:

* every liveness property (`RunReturns`, `ThreadsEnd`, `ExecReturns`, `ReportGoesOn`,
  `BarStops`, `AppendEnds`), and the fairness half of `ImplementsThreadRunner`, which
  `CommandPool` is checked for: they need `ENABLED`.

`TypeOK` of `CommandExec` and of `RollingStore` only types the variables, for the
proofs; no run lists it, since it says nothing beyond that.

## 6. Where code and documents disagree

Shown by a run:

* `OkMeansAppended` (`store.rs:230`): the `BufWriter` is flushed by its drop, which
  ignores errors; `append_rolling` returns `Ok` for a record that is not there.
* `DeviationReported` (`cli/mod.rs:1428`): `--baseline NAME` gives one record,
  whose MAD is 0, for which the z-score is 0: no signal can ever be an outlier,
  though the README describes such findings for just that use.
* `PercentagesAddUp` (`collector/platform/macos.rs:71`): the "cumulative" ticks are
  the percentages of the moment times the uptime, so a change of the load makes
  shares of the CPU of several thousand per cent.

Met while modelling, and modelled as the code does:

* Findings about rule files and of `--profile-cpu` are appended after the sort
  (`cli/mod.rs:1445`); nothing sorts again, and the "top concern" of the templates
  is the first finding.
* `check` looks neither at the commands of the host information nor at those that a
  filter adds (`cli/mod.rs:581`), though it is to "Verify all required tools are
  installed on this host" (`README.md:113`).
* `check` passes with a file of the name in the working directory, also one that is
  not executable (`cli/mod.rs:639`, `:694`), which a report then skips as missing
  (`command.rs:191`).
* "Exits 1 if anything is missing" (`README.md:256`): not if what is missing is a tool
  for profiling or BPF, which the comment in the code exempts (`cli/mod.rs:633`).
* With version 1 of cgroups the CPU time used is reported as the time throttled
  (`cgroup.rs:105`).
* The sixth column of `free -m` is taken as what is available; older versions have
  what is cached there.
* On macOS the last column of `netstat` is taken for the drops of what came in, `Idrop`
  by the comment at `macos.rs:181`. In the table of its own test (`macos.rs:399`) `Idrop`
  is the eighth column and others follow, and without an option of its own `netstat`
  ends in collisions. Rows that end in no number are left out, and of several
  rows of an interface the last one counts.
* A part of a snapshot that cannot be read counts as 0 (`linux.rs:69`, `macos.rs:150`).
  If it is the TCP counters of the first snapshot, what was counted since boot is
  reported as counted in the window.
* `iowait` may go back (`cpu.rs:63`), and then the shares of the CPU make more than the
  whole, by as much.
* A host or a `dmesg` that cannot be read shows as zeros, which rules compare.
* A report with a value that is not finite is written with `null` and cannot be
  read by `convert` or `diff` (`signal.rs:27`).
* `convert` empties its output before it reads the template (`cli/mod.rs:893`).
* An integer that went through JSON is a float; `convert` shows it as such.
* `--redact` has no effect on any output but the document for language models.
* "nothing sensitive leaves the machine" (`README.md:213`, `:642`): the document for
  language models still has an IPv6 address that is written with `::` (`redact.rs:53`),
  what is left of an address or of the host name where an excerpt was cut before it was
  redacted (`llm.rs:108`), the output of `uname` with the host name in it (`llm.rs:93`),
  and the host name in signals, findings and names of commands. A hash is longer than
  what it hides, so a redacted excerpt may pass the limit of its length.
* A path on the right of a comparison that begins with `inf` or `nan` makes the
  predicate fail (`rule/mod.rs:302`).
* "Wait until all commands return" (`runner.rs:20`): when a thread cannot be
  created, `run` returns an error and the threads before it go on.
* `duration / interval` with an interval of 0 is infinite, and the `+ 1` that
  follows panics in a debug build; in a release build there is no window at all
  (`cpu.rs:133`).
* Of several findings of one id the diff takes the last, which is the mildest.
* `timeout_sec` is documented to default to 1 s, the code uses 5 (`command.rs:215`).
* Output that is not UTF-8 makes a succeeded command an `Error` (`command.rs:232`).
* A value that is not finite is written as `null` and never reads back (`store.rs:232`);
  a line that is not UTF-8 ends the reading of the lines after it (`store.rs:212`).
* An error of reading does the same: the append writes back what it has read, its own
  record behind it, and returns `Ok`; what it could not read is lost. `load_rolling`
  returns such an error.
* `load_rolling` takes no lock and may see an emptied file; only tests and library
  users call it, and `generate_report` never annotates with the rolling baseline.
* A record without `--force` may replace one that was made while it collected
  its signals; one that finds a torn file refuses, `--force` recovers.
* The output file is emptied before the renderer, profile, workload, durations,
  baseline and commands are looked at, and `--profile-cpu`'s duration is parsed
  only after the commands have run: a refused run has destroyed the old report.
* Exit code 1 is also that of every error.
* Of two signals with one id the rules see the last (`rule/mod.rs:232`), the
  overview the first (`analysis.rs:415`).
* Of a sampled signal rules see the median, their evidence the last value; the
  evidence of a pattern leaves out paths with a suffix like `.p95`.
* "Every successful run appends a snapshot unconditionally" (`README.md:916`): only
  one with signals, and failures are logged.
* `max_parallel_commands = 0` is not refused and panics in `chunks(0)` (`runner.rs:60`).

## 7. What is not modelled, and the plan

Left out for good: the texts (templates, the layout of listings and tables, the
texts of rules and patterns), TOML and JSON below the level of values, regular
expressions (what matching yields is an input), the tables of `iostat` and
`sysctl` of macOS, the drawing of flame graphs and of the progress bar, errors of
writing to the terminal. They keep no state; what their outcome does to the
state is in the models. Floating point is exact
here: the models decide a comparison as over the reals.

The order of the work was: the runner and `exec` with their composition, since
every report depends on them; the rolling file, the one place where independent
processes meet; the report, in which everything else comes together; the named
baselines; the selection of commands, the collectors and the diff; the readers
of text, `check`, `explain` and `convert`. The proofs followed in the same order:
every safety property that a run checks is now proved. What is left to the runs is
the liveness.

Proving also corrected the models. `ProbesFit` had asked that no limit of a group
pass `NoLimit`, which no run had refuted for want of such a group: only version 1
compares with it (`cgroup.rs:97`), and the run now has a group of version 2 beyond.
