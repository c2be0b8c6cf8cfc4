-------------------------------- MODULE MCReport --------------------------------
(* Instances of Report: a handful of rules of every form over two collectors. *)
EXTENDS Report

usr == <<"cpu", "usr_pct">>
util == <<"disk", "max_util_pct">>
peak == <<"disk", "max">>      \* Ends like a statistic, and is none.
oom == <<"mem", "oom">>
usrTrend == Append(usr, "trend")
usrMax == Append(usr, "max")

Rule(id, severity, when, evidence) ==
    [id |-> <<"rule", id>>, severity |-> severity, when |-> when, evidence |-> evidence]
Joined(first, and, second) == [first |-> first, rest |-> <<[and |-> and, term |-> second]>>]

MCBuiltins == <<
    Rule("usr_high", Warn, Only(Term(usr, ">", Number(5000))), <<usr>>),
    Rule("usr_rising", Info, Joined(Term(usrTrend, "==", Text("rising")), TRUE,
                                    Term(usrMax, ">=", Number(9000))), <<usr>>),
    Rule("disk_busy", Crit, Joined(Term(util, ">", Number(9000)), FALSE,
                                   Term(peak, ">", Number(800))), <<util, peak, CpuCount>>),
    Rule("disk_cores", Info, Only(TermPath(peak, ">", CpuCount)), <<peak, CpuCount>>),
    Rule("oom", Warn, Only(Term(oom, "!=", Boolean(FALSE))), <<oom>>) >>

userRule == Rule("a_user", Crit, Only(Term(usr, ">=", Number(9500))), <<usr, util>>)
workload == Rule("workload", Info, Only(Term(util, "<", Number(500))), <<util>>)

File(state, rs) == [state |-> state, rules |-> rs]
MCUserDirs == {
    NoDir,
    [state |-> "unreadable", files |-> <<>>],
    [state |-> "read", files |-> <<File("malformed_user_file", <<>>), File("rules", <<userRule>>)>>],
    [state |-> "read", files |-> <<File("rules", <<userRule>>), File("user_file_unreadable", <<>>)>>]}
MCExtraRules == {<<>>, <<workload>>}

MCPatterns == <<
    [id |-> <<"pattern", "busy">>, severity |-> Warn,
     when |-> Joined(Term(usr, ">", Number(2000)), TRUE, Term(util, ">", Number(5000)))] >>

MCPlace ==
    << "baseline", "outlier", "cpu", "usr_pct" >> :> 1 @@ << "baseline", "outlier", "disk", "max_util_pct" >> :> 2
    @@ <<"baseline", "outlier", "disk", "max">> :> 3 @@ <<"baseline", "outlier", "mem", "oom">> :> 4
    @@ <<"pattern", "busy">> :> 5 @@ <<"rule", "a_user">> :> 6 @@ <<"rule", "disk_busy">> :> 7
    @@ <<"rule", "disk_cores">> :> 8 @@ <<"rule", "oom">> :> 9 @@ <<"rule", "usr_high">> :> 10
    @@ <<"rule", "usr_rising">> :> 11 @@ <<"rule", "workload">> :> 12

MCStored == {usr :> 4100}

Result(outcome, dimension, extracted) ==
    [outcome |-> outcome, dimension |-> dimension, extracted |-> extracted]
MCFirstResults == {
    <<>>,
    <<Result("success", "cpu utilization", <<Signal(usr, Number(6000), NoSamples)>>),
      Result("skipped", "disk errors", <<>>)>>,
    <<Result("failed", "cpu utilization", <<Signal(usr, Number(6000), NoSamples)>>),
      Result("success", "disk errors", <<Signal(oom, Boolean(TRUE), NoSamples)>>)>> }

cpu(n) == Signal(usr, Number(100 * n), NoSamples)
MCCollectors == <<
    { <<>>, <<cpu(98)>>, <<cpu(30)>>, <<Signal(usr, Number(9800), <<20, 60, 98>>)>>,
      <<Signal(usr, Number(3000), <<95, 60, 30>>)>> },
    { <<>>, <<Signal(util, Number(9100), NoSamples), Signal(peak, Number(300), NoSamples)>>,
      <<Signal(util, Number(400), NoSamples), Signal(peak, Number(900), NoSamples)>> } >>

(* A quiet report, and one in which an extraction repeats a collected signal. *)
MCEarlier == {
    [signals |-> <<Signal(usr, Number(3000), NoSamples), Signal(oom, Boolean(FALSE), NoSamples)>>,
     findings |-> <<>>],
    [signals |-> <<Signal(usr, Number(6000), NoSamples), Signal(usr, Number(9800), NoSamples),
                   Signal(peak, Number(900), NoSamples)>>,
     findings |-> <<Finding(<<"rule", "usr_high">>, "rule", Crit, <<>>),
                    Finding(<<"rule", "workload">>, "rule", Info, <<>>)>>]}

MCOutputs == {"html", "template"}
MCExitPolicies == {"never", "info", "warn", "crit"}

(* One policy and one output, for the disagreements with the documents.      *)
MCOneOutput == {"html"}
MCOnePolicy == {"never"}
===============================================================================
