------------------------------ MODULE AnalysisRun ------------------------------
(***************************************************************************)
(* The runs of the runner that one report takes, and the progress bar that *)
(* watches them: a request that is not refused (CommandSelection) says     *)
(* which commands run and how often; Analysis::run calls the runner for    *)
(* the host information and then once per repetition for the commands      *)
(* (analysis.rs:133-137, 214-228); the threads of the runner send events   *)
(* to the progress thread (cli/mod.rs:1651-1702), which ends when every    *)
(* sender is gone, and the report waits for it (cli/mod.rs:1439-1442,      *)
(* 1498-1502).                                                             *)
(***************************************************************************)
EXTENDS ThreadRunner, CommandSelection

CONSTANT Request   \* pairs of options and configuration, [opt, config]

VARIABLES request,    \* the one of this run
          stage,      \* where main and generate_report stand
          hostinfo,   \* hostinfo_results
          reps,       \* command_results: the vectors of the repetitions done
          holder,     \* whether analysis, and with it the first sender, is alive
          bar,        \* the progress thread: "off", "running", "done", "dead"
          spinners    \* the seqs that have a spinner

(* What can be read from a file and from the command line: vectors, a number  *)
(* of repetitions, and `command` for the whole of a command, its name too.    *)
ASSUME RunAssumption ==
    \A r \in Request :
        LET config == r.config
        IN  /\ IsVector(config.commands) /\ IsVector(config.hostinfo)
            /\ IsVector(config.profiles)
            /\ \A p \in ToSet(config.profiles) : IsVector(p.commands)
            /\ \A c, d \in ToSet(config.commands) :
                  c.command \in Command /\ (c.command = d.command => c.name = d.name)
            /\ Repetitions(r.opt, config) \in Nat

reportVars == <<request, stage, hostinfo, reps, holder>>
barVars == <<bar, spinners>>
allVars == <<vars, reportVars, barVars>>

Whole(cs) == [i \in DOMAIN cs |-> cs[i].command]
HostInfo == Whole(CommandsForHostinfo(request.config))
Commands == Whole(CreateCommands(request.opt, request.config))
Times == Repetitions(request.opt, request.config)

RunInit ==
    /\ Init
    /\ request \in Request
    /\ stage = "start" /\ hostinfo = <<>> /\ reps = <<>> /\ holder = TRUE
    /\ bar = "off"
    /\ spinners = {}

-------------------------------------------------------------------------------
(* generate_report and Analysis::run                                         *)

(* A configuration or a profile that is refused: nothing has begun.          *)
Refuse ==
    /\ stage = "start"
    /\ Refused(request.opt, request.config)
    /\ stage' = "refused"
    /\ UNCHANGED <<vars, request, hostinfo, reps, holder, barVars>>

(* The progress thread is created with the runner when progress is wanted.    *)
RunHostInfo ==
    /\ stage = "start"
    /\ ~Refused(request.opt, request.config)
    /\ Call(HostInfo)
    /\ stage' = "hostinfo"
    /\ bar' = IF listener = "open" THEN "running" ELSE "off"
    /\ UNCHANGED <<request, hostinfo, reps, holder, spinners>>

(* The next repetition, or none is left and the diagnostics run.              *)
Repeat(done) ==
    IF Len(done) < Times
    THEN Call(Commands) /\ stage' = "commands"
    ELSE stage' = "analysed" /\ UNCHANGED vars

HostInfoDone ==
    /\ stage = "hostinfo"
    /\ main = "ok"
    /\ hostinfo' = results
    /\ Repeat(reps)
    /\ UNCHANGED <<request, reps, holder, barVars>>

RepetitionDone ==
    /\ stage = "commands"
    /\ main = "ok"
    /\ reps' = Append(reps, results)
    /\ Repeat(reps')
    /\ UNCHANGED <<request, hostinfo, holder, barVars>>

(* Mutant: the analysis outlives the error.                                 *)
RunFailedHolds ==
    /\ stage \in {"hostinfo", "commands"}
    /\ main \in {"err", "panic"}
    /\ stage' = "failed"
    /\ UNCHANGED <<vars, request, hostinfo, reps, holder, barVars>>

(* The error of run() leaves generate_report, a panic ends the program; both  *)
(* drop the analysis, and nobody joins the progress thread.                   *)
RunFailed ==
    /\ stage \in {"hostinfo", "commands"}
    /\ main \in {"err", "panic"}
    /\ stage' = "failed"
    /\ holder' = FALSE
    /\ UNCHANGED <<vars, request, hostinfo, reps, barVars>>

(* Mutant: the analysis is still alive when the progress thread is joined.   *)
DropAnalysisNot ==
    /\ stage = "analysed"
    /\ stage' = "dropped"
    /\ UNCHANGED <<vars, request, hostinfo, reps, holder, barVars>>

DropAnalysis ==
    /\ stage = "analysed"
    /\ stage' = "dropped"
    /\ holder' = FALSE
    /\ UNCHANGED <<vars, request, hostinfo, reps, barVars>>

(* handle.join(), when there is a progress thread; its panic is only logged.  *)
JoinProgress ==
    /\ stage = "dropped"
    /\ bar # "running"
    /\ stage' = "rendering"
    /\ UNCHANGED <<vars, request, hostinfo, reps, holder, barVars>>

-------------------------------------------------------------------------------
(* The progress thread of create_progress_bar                                *)

(* Mutant: the spinner of a finished command is not removed from the map.    *)
TakeEventKeepsSpinner ==
    /\ bar = "running"
    /\ events # <<>>
    /\ LET e == Head(events)
       IN  IF e.kind = "Started"
           THEN spinners' = spinners \cup {e.seq}
           ELSE UNCHANGED spinners
    /\ events' = Tail(events)
    /\ UNCHANGED <<mainVars, child, chan, listener, reportVars, bar>>

(* `for event in rx`: a spinner per started command, by its seq.              *)
TakeEvent ==
    /\ bar = "running"
    /\ events # <<>>
    /\ LET e == Head(events)
       IN  IF e.kind = "Started"
           THEN spinners' = spinners \cup {e.seq}
           ELSE spinners' = spinners \ {e.seq}
    /\ events' = Tail(events)
    /\ UNCHANGED <<mainVars, child, chan, listener, reportVars, bar>>

(* The loop ends when the channel is empty and no sender is left: the one     *)
(* inside the analysis and the clones of the threads.                         *)
BarEnds ==
    /\ bar = "running"
    /\ events = <<>>
    /\ ~holder
    /\ \A s \in Seqs : child[s].at \notin Unfinished
    /\ bar' = "done"
    /\ UNCHANGED <<vars, reportVars, spinners>>

(* The terminal library may panic, for one when it cannot create its ticker.  *)
BarPanics ==
    /\ bar = "running"
    /\ ListenerGone
    /\ bar' = "dead"
    /\ UNCHANGED <<reportVars, spinners>>

-------------------------------------------------------------------------------

Report ==
    \/ Refuse \/ RunHostInfo \/ HostInfoDone \/ RepetitionDone \/ RunFailed
    \/ DropAnalysis \/ JoinProgress

Bar == TakeEvent \/ BarEnds

(* The loops of the runner itself; Call belongs to the report here.           *)
RunnerMain ==
    /\ main # "idle"
    /\ Main
    /\ UNCHANGED <<reportVars, barVars>>

RunnerChild(s) == Child(s) /\ UNCHANGED <<reportVars, barVars>>

Finished ==
    /\ stage \in {"rendering", "failed", "refused"}
    /\ bar # "running"
    /\ stage # "refused" => Terminated
    /\ UNCHANGED allVars

RunNext ==
    \/ Report \/ Bar \/ BarPanics
    \/ RunnerMain \/ \E s \in Seqs : RunnerChild(s)
    \/ Finished

(* Every thread of the program is scheduled, the progress thread among them.  *)
RunSpec ==
    /\ RunInit /\ [][RunNext]_allVars
    /\ WF_allVars(Report) /\ WF_allVars(Bar) /\ WF_allVars(RunnerMain)
    /\ \A s \in Seqs : WF_allVars(RunnerChild(s))

-------------------------------------------------------------------------------

Matches(rs, cs) ==
    Len(rs) = Len(cs) /\ \A i \in DOMAIN cs : rs[i].command = cs[i]

(* What the diagnostics and the report read: the host information and every   *)
(* repetition, each complete and in the order of its commands                 *)
(* (analysis.rs:133-137, 214-222).                                            *)
RunsComplete ==
    stage \in {"analysed", "dropped", "rendering"} =>
        /\ Matches(hostinfo, HostInfo)
        /\ Len(reps) = Times
        /\ \A r \in DOMAIN reps : Matches(reps[r], Commands)

(* What is asked for is what is run: a report that is not refused has, of     *)
(* every name that the host information or the profile lists, once or several *)
(* times, and that is not removed, exactly one result per run, one more for   *)
(* every command that is added, and no others: a name never gets lost on the  *)
(* way, which flat_map would do without a word (config.rs:159-166, 177-184;   *)
(* cli/mod.rs:1585-1603).                                                    *)
RunsWhatWasAsked ==
    stage \in {"analysed", "dropped", "rendering"} =>
        LET opt == request.opt
            config == request.config
            Listed == ToSet(Profile(config, ProfileName(opt, config)).commands)
            One(set, name) == IF name \in set THEN 1 ELSE 0
            Named(n) == {c \in ToSet(config.commands) : c.name = n}
            CountName(rs, n) ==
                Cardinality({i \in DOMAIN rs : \E c \in Named(n) : c.command = rs[i].command})
        IN  \A n \in Names(config) \cup Listed \cup ToSet(config.hostinfo) :
               /\ CountName(hostinfo, n) = One(ToSet(config.hostinfo), n)
               /\ \A r \in DOMAIN reps :
                     CountName(reps[r], n) =
                         One(Listed \ Filtered(opt, "-"), n) +
                         One(Filtered(opt, "+"), n) *
                             Cardinality({i \in DOMAIN config.commands : config.commands[i].name = n})

(* The events name a command by its seq in its chunk, and the progress thread *)
(* keeps the spinners by seq (cli/mod.rs:1678-1690): seqs are used again by   *)
(* the next chunk and the next run, but no spinner that still turns is ever   *)
(* replaced by that of another command.                                       *)
NoSpinnerReplaced ==
    bar = "running" /\ events # <<>> /\ Head(events).kind = "Started" =>
        Head(events).seq \notin spinners

(* "drop it now so the progress thread's channel closes and handle.join()     *)
(* below does not deadlock" (cli/mod.rs:1440): the report gets past the join, *)
(* or the runner has failed.                                                  *)
ReportGoesOn == stage = "hostinfo" ~> stage \in {"rendering", "failed"}

(* The progress thread never outlives the report for good.                    *)
BarStops == bar = "running" ~> bar # "running"
===============================================================================
