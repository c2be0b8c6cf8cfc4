------------------------------ MODULE Inspection ------------------------------
(***************************************************************************)
(* What main makes of a command line (cli/mod.rs:384-464): a report, which *)
(* is AnalysisRun, or one of the commands that only look: `check`          *)
(* (581-731) for the binaries that are needed, `explain` (920-1036) for    *)
(* what a name stands for, and the --show options (466-551). `check` looks *)
(* for the binaries three times, and they may change in between. It finds  *)
(* one on the PATH or as a file of that name, seen from the directory in   *)
(* which it runs (694), whereas a report runs what is on the PATH alone    *)
(* (command.rs:191). The platform is Linux, built with the feature bpf.    *)
(***************************************************************************)
EXTENDS AnalysisRun

CONSTANTS Ask,           \* [command, id, profile, shows, output] with the request and what
                         \* is there at first, [ask, request, path, files]
          BinaryOf,      \* of every command, the first word of it
          EmitsOf,       \* of every command, the signals that are extracted from it
          Bpfcc,         \* of every BPF tool, the name under which Ubuntu has it
          RuleIds,       \* the ids of the built-in rules
          CollectorIds,  \* the signals of builtin_collector_signals()
          MaxChanges     \* bound: how often the PATH changes during a check

ASSUME BpfccAssumption == IsFiniteSet(DOMAIN Bpfcc)

VARIABLES ask,       \* what was asked
          path,      \* the binaries that `which` finds
          files,     \* those of which Path::exists finds a file
          changed,   \* those that came or went since the check began
          budget,    \* changes left
          rows,      \* checks: what is looked for
          missing,   \* how many of them run_check_inner did not find
          answer     \* what is printed or returned

inspectVars == <<path, files, changed, budget, rows, missing, answer>>
mainVarsAll == <<allVars, ask, inspectVars>>

CollectorTools == <<"dmesg", "free">>
ProfilingTools == <<"perf", "bpftrace">>
Advisory == {"profiling", "bpf"}

config == request.config
Binaries == {BinaryOf[c.command] : c \in ToSet(config.commands)} \cup ToSet(CollectorTools)
            \cup ToSet(ProfilingTools) \cup DOMAIN Bpfcc \cup Range(Bpfcc)

NoAnswer == [kind |-> "none"]

MainInit ==
    /\ RunInit
    /\ \E q \in Ask : q.request = request /\ ask = q.ask /\ path = q.path /\ files = q.files
    /\ changed = {} /\ budget = MaxChanges
    /\ rows = <<>> /\ missing = 0 /\ answer = NoAnswer

Asks(command) == ask.command = command /\ stage = "start"

(* Nothing of the runner is there when main only looks.                       *)
Answers(kind) ==
    /\ stage' = kind
    /\ UNCHANGED <<vars, request, hostinfo, reps, holder, barVars, ask>>

-------------------------------------------------------------------------------
(* run_check                                                                 *)

ByName(category, names) ==
    [i \in DOMAIN names |-> [category |-> category, name |-> names[i], binary |-> names[i]]]

ProfileRows(profile) ==
    LET taken == CommandNamesToCommands(config, profile.commands)
    IN  [i \in DOMAIN taken |->
            [category |-> profile.name, name |-> taken[i].name,
             binary |-> BinaryOf[taken[i].command]]]

(* The first profile of the name, or all.                                    *)
CheckedProfiles ==
    IF ask.profile = Default THEN config.profiles ELSE <<Profile(config, ask.profile)>>

(* resolve_bcc_tool, which asks the PATH alone: a tool that is not there is    *)
(* looked for by its bare name.                                              *)
ResolveBcc(tool) == IF tool \notin path /\ Bpfcc[tool] \in path THEN Bpfcc[tool] ELSE tool

BpfTools == SetToSeq(DOMAIN Bpfcc)

Checks ==
    FlattenSeq([i \in DOMAIN CheckedProfiles |-> ProfileRows(CheckedProfiles[i])])
    \o ByName("collectors", CollectorTools)
    \o ByName("profiling", ProfilingTools)
    \o [i \in DOMAIN BpfTools |->
           [category |-> "bpf", name |-> BpfTools[i], binary |-> ResolveBcc(BpfTools[i])]]

CheckRefused ==
    /\ Asks("check")
    /\ ~Validate(config) \/ (ask.profile # Default /\ ~HasProfile(config, ask.profile))
    /\ Answers("refused")
    /\ UNCHANGED inspectVars

BeginCheck ==
    /\ Asks("check")
    /\ Validate(config) /\ (ask.profile # Default => HasProfile(config, ask.profile))
    /\ rows' = Checks
    /\ Answers("checking")
    /\ UNCHANGED <<path, files, changed, budget, missing, answer>>

(* What a check finds, in both of its counts.                                 *)
There == path \cup files

(* How many of the rows have a binary that is not there.                      *)
Lacking(at) == Cardinality({i \in at : rows[i].binary \notin There})

(* run_check_inner: the table and the number of MISSING.                      *)
CountMissing ==
    /\ stage = "checking"
    /\ missing' = Lacking(DOMAIN rows)
    /\ Answers("counted")
    /\ UNCHANGED <<path, files, changed, budget, rows, answer>>

(* Mutant: what is optional counts like the rest.                            *)
RequiredMissingAll == missing

(* saturating_sub of those that are optional, looked for once more.            *)
RequiredMissing ==
    LET advisory == Lacking({i \in DOMAIN rows : rows[i].category \in Advisory})
    IN  IF missing > advisory THEN missing - advisory ELSE 0

EndCheck ==
    /\ stage = "counted"
    /\ answer' = [kind |-> IF RequiredMissing > 0 THEN "err" ELSE "ok"]
    /\ Answers("answered")
    /\ UNCHANGED <<path, files, changed, budget, rows, missing>>

Toggle(S, b) == IF b \in S THEN S \ {b} ELSE S \cup {b}

(* Somebody installs or removes something, or a file comes or goes.            *)
PathChanges(b) ==
    /\ stage \in {"checking", "counted"}
    /\ budget > 0
    /\ \/ path' = Toggle(path, b) /\ UNCHANGED files
       \/ files' = Toggle(files, b) /\ UNCHANGED path
    /\ changed' = changed \cup {b}
    /\ budget' = budget - 1
    /\ UNCHANGED <<allVars, ask, rows, missing, answer>>

-------------------------------------------------------------------------------
(* run_explain, which does not validate the configuration                     *)

Topics == <<"command", "rule", "signal", "collector signal", "profiling tool">>

Emitted == UNION {EmitsOf[c.command] : c \in ToSet(config.commands)}

IdsOf(topic) ==
    CASE topic = "command" -> Names(config)
      [] topic = "rule" -> RuleIds
      [] topic = "signal" -> Emitted
      [] topic = "collector signal" -> CollectorIds
      [] topic = "profiling tool" -> ToSet(ProfilingTools)

(* run_explain_list, and the end of the message about an unknown topic          *)
Known == UNION {IdsOf(t) \X {t} : t \in ToSet(Topics)}

Emitters(id) ==
    LET emitting == Pick(config.commands,
                         {i \in DOMAIN config.commands : id \in EmitsOf[config.commands[i].command]})
    IN  [i \in DOMAIN emitting |-> emitting[i].name]

(* The first topic that has the name, or 0.                                     *)
TopicOf(id) == SelectInSeq(Topics, LAMBDA topic : id \in IdsOf(topic))

FirstCommand(id) == config.commands[SelectInSeq(config.commands, LAMBDA c : c.name = id)]

(* Of a command name the first command, of a signal those that emit it.        *)
Explanation(topic, id) ==
    [kind |-> topic,
     of |-> CASE topic = "command" -> <<FirstCommand(id).command>>
              [] topic = "signal" -> Emitters(id)
              [] OTHER -> <<id>>]

Explain ==
    /\ Asks("explain") /\ ask.id # Default
    /\ LET t == TopicOf(ask.id)
       IN  answer' = IF t = 0 THEN [kind |-> "unknown", known |-> Known]
                     ELSE Explanation(Topics[t], ask.id)
    /\ Answers("answered")
    /\ UNCHANGED <<path, files, changed, budget, rows, missing>>

ExplainList ==
    /\ Asks("explain") /\ ask.id = Default
    /\ answer' = [kind |-> "list", known |-> Known]
    /\ Answers("answered")
    /\ UNCHANGED <<path, files, changed, budget, rows, missing>>

-------------------------------------------------------------------------------
(* The --show options, of which the first in this order is followed. They need   *)
(* a valid configuration, not the profile that was asked for.                  *)
Shows == <<"config", "output_template", "profiles", "commands">>
Wanted == SelectInSeq(Shows, LAMBDA s : s \in ask.shows)

Refusal == ~Validate(config) /\ Answers("refused") /\ UNCHANGED inspectVars

Show ==
    /\ Asks("none") /\ ask.shows # {}
    /\ \/ Refusal
       \/ /\ Validate(config)
          /\ answer' = IF Shows[Wanted] = "output_template" /\ ask.output \in {"json", "llm", "text"}
                       THEN [kind |-> "err"] ELSE [kind |-> Shows[Wanted]]
          /\ Answers("answered")
          /\ UNCHANGED <<path, files, changed, budget, rows, missing>>

-------------------------------------------------------------------------------

Inspect ==
    \/ CheckRefused \/ BeginCheck \/ CountMissing \/ EndCheck
    \/ Explain \/ ExplainList \/ Show

Reports == ask.command = "none" /\ ask.shows = {} /\ UNCHANGED <<ask, inspectVars>>

Inspected ==
    /\ ask.command # "none" \/ ask.shows # {}
    /\ stage \in {"answered", "refused"}
    /\ UNCHANGED mainVarsAll

MainNext ==
    \/ RunNext /\ Reports
    \/ Inspect
    \/ \E b \in Binaries : PathChanges(b)
    \/ Inspected

MainSpec ==
    /\ MainInit /\ [][MainNext]_mainVarsAll
    /\ WF_mainVarsAll(Report /\ Reports) /\ WF_mainVarsAll(Bar /\ Reports)
    /\ WF_mainVarsAll(RunnerMain /\ Reports)
    /\ \A s \in Seqs : WF_mainVarsAll(RunnerChild(s) /\ Reports)
    /\ WF_mainVarsAll(Inspect)

-------------------------------------------------------------------------------

(* The verdict of `check` is about what is needed: as long as nothing comes or   *)
(* goes meanwhile it fails if and only if a binary of a profile or a collector   *)
(* is neither on the PATH nor a file of that name, and when it passes, every     *)
(* command that a report of a checked profile takes up, by the rules of the      *)
(* report itself, is on the PATH and is run, or is one that the report skips as  *)
(* missing although check saw a file of its name (cli/mod.rs:581-680, 694,       *)
(* 1585-1603, command.rs:191). What does come or go can hide a binary that lacks *)
(* only if it is optional, and never makes a complete machine fail unless it was *)
(* taken away itself. The tools for profiling and BPF are optional, by the       *)
(* comment at cli/mod.rs:633 and against README.md:256 ("Exits 1 if anything is  *)
(* missing"), and a profile that is called like one of these categories is       *)
(* exempt as well.                                                               *)
CheckFits ==
    stage = "answered" /\ ask.command = "check" =>
        LET required == {r.binary : r \in {q \in ToSet(rows) : q.category \notin Advisory}}
            optional == {r.binary : r \in {q \in ToSet(rows) : q.category \in Advisory}}
            Exempt == \E p \in ToSet(CheckedProfiles) : p.name \in Advisory
            failed == answer.kind = "err"
        IN  ~Exempt =>
            /\ changed = {} => (failed <=> ~(required \subseteq There))
            /\ changed = {} /\ ~failed =>
                  \A p \in ToSet(CheckedProfiles) :
                     LET opt == [profile |-> p.name, filter_commands |-> {}]
                     IN  \A c \in ToSet(CreateCommands(opt, config)) :
                            BinaryOf[c.command] \notin path => BinaryOf[c.command] \in files
            /\ ~failed /\ (required \ changed) \ There # {} => optional \cap changed # {}
            /\ failed => (required \ There) \cup changed # {}

(* Whatever the list of topics names can be explained and nothing else can; a    *)
(* name of several topics is explained as the first of them; a signal is said    *)
(* to come from exactly the commands of which it is extracted, and a command     *)
(* whose name no other has is the one a report runs (cli/mod.rs:920-1036,        *)
(* config.rs:168-183). An invalid configuration does not keep from it.           *)
ExplainAnswers ==
    stage = "answered" /\ ask.command = "explain" /\ ask.id # Default =>
        LET Of(topic) == <<ask.id, topic>> \in Known
            same == {c \in ToSet(config.commands) : c.name = ask.id}
        IN  /\ answer.kind = "unknown" <=> \A t \in ToSet(Topics) : ~Of(t)
            /\ answer.kind = "unknown" => answer.known = Known
            /\ answer.kind = "signal" =>
                  /\ ~Of("command") /\ ~Of("rule")
                  /\ \A c \in ToSet(config.commands) :
                        ask.id \in EmitsOf[c.command] => Contains(answer.of, c.name)
                  /\ \A i \in DOMAIN answer.of : answer.of[i] \in Names(config)
            /\ answer.kind = "collector signal" => ~Of("signal")
            /\ answer.kind = "command" /\ Cardinality(same) = 1 =>
                  answer.of = <<CommandOf(config, ask.id).command>>

(* What `check` and `explain` answer: both of the above (cli/mod.rs:581-731,  *)
(* 920-1036).                                                                 *)
InspectionFits == CheckFits /\ ExplainAnswers
===============================================================================
