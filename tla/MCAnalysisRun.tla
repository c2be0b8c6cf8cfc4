---------------------------- MODULE MCAnalysisRun ----------------------------
(* An instance of Inspection for TLC:  one command for the host, profiles of *)
(* two and three commands run in chunks of two, up to two times.             *)
EXTENDS Inspection

Plain(n) == [name |-> n, command |-> n, pattern |-> "none"]
Other(n) == [name |-> n, command |-> "b2", pattern |-> "with_val"]
Bad(n) == [name |-> n, command |-> n, pattern |-> "without_val"]
MCCommand == {"h", "a", "b", "c", "b2"}
MCKind == {"Success"}
MCInputs == {}

Defaults == [profile |-> "default", repetitions |-> 1, baseline_rolling_n |-> 24]
Base == [defaults |-> Defaults, hostinfo |-> <<"h">>,
         profiles |-> <<[name |-> "default", commands |-> <<"a", "b", "c">>],
                        [name |-> "short", commands |-> <<"a", "b", "a">>],
                        [name |-> "short", commands |-> <<"c">>]>>,
         commands |-> <<Plain("h"), Plain("b"), Plain("a"), Plain("c")>>]
(* Two commands of one name, and no table of host information.               *)
Doubled == [Base EXCEPT !.commands = Append(@, Other("b")), !.hostinfo = <<>>]

Options == [profile |-> Default, repetitions |-> Default, filter_commands |-> {}]
Filters == {[prefix |-> "+", name |-> "b"], [prefix |-> "-", name |-> "a"],
            [prefix |-> "", name |-> "c"]}

MCRequest ==
    [config : {Base}, opt : {[Options EXCEPT !.repetitions = 2],
                             [Options EXCEPT !.profile = "unknown"]}] \cup
    [config : {Base, Doubled},
     opt : [profile : {"short"}, repetitions : {Default}, filter_commands : {{}, Filters}]] \cup
    [config : {[Base EXCEPT !.hostinfo = <<"h", "lost">>],
               [Base EXCEPT !.defaults.profile = "lost"],
               [Base EXCEPT !.profiles[2].commands = <<"lost">>],
               [Base EXCEPT !.commands[2] = Bad("b")],
               [Base EXCEPT !.defaults.baseline_rolling_n = 0]},
     opt : {Options}]

NoCommand == [command |-> "none", id |-> Default, profile |-> Default, shows |-> {}, output |-> "text"]
MCBinaryOf == [c \in MCCommand |-> IF c \in {"b", "b2"} THEN "sar" ELSE IF c = "c" THEN "perf" ELSE c]
MCEmitsOf == [c \in MCCommand |-> IF c \in {"a", "b"} THEN {"signal", "oom"} ELSE {}]
MCBpfcc == [runqlat |-> "runqlat-bpfcc"]
MCRuleIds == {"a", "rule"}
MCCollectorIds == {"oom", "usr_pct"}

Asked(c) == [config |-> c, opt |-> Options]
(* A profile that is called like the optional tools.                         *)
Named == [Base EXCEPT !.profiles = Append(@, [name |-> "bpf", commands |-> <<"b">>])]
Broken == [Base EXCEPT !.hostinfo = <<"h", "lost">>]

(* What is on the PATH, and of what there is only a file: both matter to      *)
(* checks alone.                                                              *)
Full == {"h", "a", "sar", "perf", "bpftrace", "dmesg", "free", "runqlat-bpfcc"}
MCPresent == {Full, Full \ {"a"}, Full \ {"runqlat-bpfcc", "bpftrace"}, Full \ {"free", "h", "perf"}}

MCFiles == {{}, {"a", "perf"}}

MCAsk ==
    [ask : {NoCommand}, request : MCRequest, path : {Full}, files : {{}}] \cup
    [ask : [command : {"check"}, id : {Default}, profile : {Default, "short", "unknown"},
            shows : {{}}, output : {"text"}],
     request : {Asked(Base), Asked(Named), Asked(Broken)}, path : MCPresent,
     files : MCFiles] \cup
    [ask : [command : {"explain"}, profile : {Default}, shows : {{}}, output : {"text"},
            id : {Default, "a", "b", "rule", "signal", "oom", "usr_pct", "perf", "other"}],
     request : {Asked(Base), Asked(Doubled), Asked(Broken)}, path : {Full},
     files : {{}}] \cup
    [ask : [command : {"none"}, id : {Default}, profile : {Default}, output : {"json", "html"},
            shows : {{"profiles", "output_template"}, {"commands", "config"}, {"commands"}}],
     request : {Asked(Base), Asked(Broken)}, path : {Full}, files : {{}}]
MCRequests == {a.request : a \in MCAsk}
===============================================================================
