------------------------------ MODULE CommandExec ------------------------------
(***************************************************************************)
(* `Command::exec` (command.rs:185-298) in each of several threads, with   *)
(* the operating system's process it starts: the checks that may stop it   *)
(* before there is a process, the wait with a timeout, the kill of a       *)
(* process that takes too long, and the CommandResult each way out gives.  *)
(* Time is counted in seconds, the unit of Command::timeout_sec.           *)
(***************************************************************************)
EXTENDS Integers, FiniteSets

CONSTANTS Thread,      \* the threads that call exec
          Timeouts,    \* the values of timeout_sec, Unset among them or not
          Killable     \* the threads whose process this user may kill

Unset == -1   \* the None of timeout_sec

ASSUME TimeoutsAssumption == Timeouts \subseteq Nat \cup {Unset}
ASSUME KillableAssumption == Killable \subseteq Thread

VARIABLES exec,     \* per thread: where exec stands
          timeout,  \* per thread: timeout_sec of its command
          proc,     \* per thread: its process
          success,  \* per thread: whether that process exited with status 0
          elapsed,  \* per thread: the seconds since the wait began
          result    \* per thread: the CommandResult

execVars == <<exec, timeout, proc, success, elapsed, result>>

DefaultTimeout == 5
NoResult == "none"

(* self.timeout_sec.unwrap_or(5) *)
Limit(t) == IF timeout[t] = Unset THEN DefaultTimeout ELSE timeout[t]

-------------------------------------------------------------------------------

Init ==
    /\ exec = [t \in Thread |-> "idle"]
    /\ timeout = [t \in Thread |-> Unset]
    /\ proc = [t \in Thread |-> "none"]
    /\ success = [t \in Thread |-> FALSE]
    /\ elapsed = [t \in Thread |-> 0]
    /\ result = [t \in Thread |-> NoResult]

(* exec is called on a command.                                             *)
Begin(t) ==
    /\ exec[t] = "idle"
    /\ exec' = [exec EXCEPT ![t] = "prepare"]
    /\ \E d \in Timeouts : timeout' = [timeout EXCEPT ![t] = d]
    /\ proc' = [proc EXCEPT ![t] = "none"]
    /\ success' = [success EXCEPT ![t] = FALSE]
    /\ elapsed' = [elapsed EXCEPT ![t] = 0]
    /\ result' = [result EXCEPT ![t] = NoResult]

Return(t, r) ==
    /\ exec' = [exec EXCEPT ![t] = "returned"]
    /\ result' = [result EXCEPT ![t] = r]

(* The command line cannot be split, its binary is not on $PATH, there is no *)
(* temporary file, or the process cannot be created.                         *)
NotStarted(t) ==
    /\ exec[t] = "prepare"
    /\ \E r \in {"Error", "SkippedMissing"} : Return(t, r)
    /\ UNCHANGED <<timeout, proc, success, elapsed>>

Create(t) ==
    /\ exec[t] = "prepare"
    /\ exec' = [exec EXCEPT ![t] = "waiting"]
    /\ proc' = [proc EXCEPT ![t] = "running"]
    /\ UNCHANGED <<timeout, success, elapsed, result>>

(* Mutant: the status of the exited process is dropped and asked for again.  *)
PollForgets(t) ==
    /\ exec[t] = "waiting"
    /\ proc' = [proc EXCEPT ![t] = IF @ = "exited" THEN "reaped" ELSE @]
    /\ exec' = [exec EXCEPT ![t] = "polled"]
    /\ UNCHANGED <<timeout, success, elapsed, result>>

(* wait_timeout asks for the status of the process without blocking.         *)
Poll(t) ==
    /\ exec[t] = "waiting"
    /\ IF proc[t] = "exited"
       THEN /\ proc' = [proc EXCEPT ![t] = "reaped"]
            /\ exec' = [exec EXCEPT ![t] = "read"]
       ELSE /\ exec' = [exec EXCEPT ![t] = "polled"]
            /\ UNCHANGED proc
    /\ UNCHANGED <<timeout, success, elapsed, result>>

(* Mutant: a timeout returns without terminate().                           *)
CheckDeadlineLeavesProcess(t) ==
    /\ exec[t] = "polled"
    /\ exec' = [exec EXCEPT ![t] = IF elapsed[t] >= Limit(t) THEN "returned" ELSE "waiting"]
    /\ result' = [result EXCEPT ![t] = IF elapsed[t] >= Limit(t) THEN "Timeout" ELSE @]
    /\ UNCHANGED <<timeout, proc, success, elapsed>>

(* The process was alive: give up at the deadline, otherwise sleep and ask   *)
(* again.                                                                    *)
CheckDeadline(t) ==
    /\ exec[t] = "polled"
    /\ exec' = [exec EXCEPT ![t] = IF elapsed[t] >= Limit(t) THEN "kill" ELSE "waiting"]
    /\ result' = [result EXCEPT ![t] = IF elapsed[t] >= Limit(t) THEN "Timeout" ELSE @]
    /\ UNCHANGED <<timeout, proc, success, elapsed>>

WaitFails(t) ==
    /\ exec[t] = "waiting"
    /\ exec' = [exec EXCEPT ![t] = "kill"]
    /\ result' = [result EXCEPT ![t] = "Error"]
    /\ UNCHANGED <<timeout, proc, success, elapsed>>

(* Mutant: terminate() waits without having killed.                         *)
KillOmitted(t) ==
    /\ exec[t] = "kill"
    /\ exec' = [exec EXCEPT ![t] = "reap"]
    /\ UNCHANGED <<timeout, proc, success, elapsed, result>>

(* terminate(): kill, whose failure is only logged, ...                      *)
Kill(t) ==
    /\ exec[t] = "kill"
    /\ exec' = [exec EXCEPT ![t] = "reap"]
    /\ proc' = [proc EXCEPT ![t] =
                   IF @ = "running" /\ t \in Killable THEN "exited" ELSE @]
    /\ UNCHANGED <<timeout, success, elapsed, result>>

(* ... and wait, without a limit, for the process to be gone.                *)
Reap(t) ==
    /\ exec[t] = "reap"
    /\ proc[t] = "exited"
    /\ proc' = [proc EXCEPT ![t] = "reaped"]
    /\ exec' = [exec EXCEPT ![t] = "returned"]
    /\ UNCHANGED <<timeout, success, elapsed, result>>

(* Mutant: any exit status counts as success.                               *)
ReadOutputAnyStatus(t) ==
    /\ exec[t] = "read"
    /\ Return(t, "Success") \/ Return(t, "Error")
    /\ UNCHANGED <<timeout, proc, success, elapsed>>

(* Rewind the temporary file and read it as UTF-8, which may fail.           *)
ReadOutput(t) ==
    /\ exec[t] = "read"
    /\ \/ Return(t, IF success[t] THEN "Success" ELSE "Failed")
       \/ Return(t, "Error")
    /\ UNCHANGED <<timeout, proc, success, elapsed>>

(* The caller takes the result.                                              *)
Leave(t) ==
    /\ exec[t] = "returned"
    /\ exec' = [exec EXCEPT ![t] = "idle"]
    /\ UNCHANGED <<timeout, proc, success, elapsed, result>>

(* The process exits by itself, or not at all.                               *)
Exit(t) ==
    /\ proc[t] = "running"
    /\ proc' = [proc EXCEPT ![t] = "exited"]
    /\ \E ok \in BOOLEAN : success' = [success EXCEPT ![t] = ok]
    /\ UNCHANGED <<exec, timeout, elapsed, result>>

(* A second passes; it makes no difference to exec after the deadline.       *)
Tick(t) ==
    /\ exec[t] \in {"waiting", "polled"}
    /\ elapsed[t] < Limit(t)
    /\ elapsed' = [elapsed EXCEPT ![t] = @ + 1]
    /\ UNCHANGED <<exec, timeout, proc, success, result>>

-------------------------------------------------------------------------------

(* What the thread itself does between Begin and Leave.                      *)
Step(t) ==
    \/ NotStarted(t) \/ Create(t)
    \/ Poll(t) \/ CheckDeadline(t) \/ WaitFails(t)
    \/ Kill(t) \/ Reap(t) \/ ReadOutput(t)

Next == \E t \in Thread : Begin(t) \/ Step(t) \/ Leave(t) \/ Exit(t) \/ Tick(t)

Spec == Init /\ [][Next]_execVars

(* Threads are scheduled and time passes; no process is obliged to exit.     *)
ExecFairness(t) == WF_execVars(Step(t)) /\ WF_execVars(Tick(t))

FairSpec == Spec /\ \A t \in Thread : ExecFairness(t)

-------------------------------------------------------------------------------

Kinds == {"Success", "Failed", "Timeout", "Error", "SkippedMissing"}

TypeOK ==
    /\ exec \in [Thread -> {"idle", "prepare", "waiting", "polled", "kill", "reap",
                            "read", "returned"}]
    /\ timeout \in [Thread -> Timeouts \cup {Unset}]
    /\ proc \in [Thread -> {"none", "running", "exited", "reaped"}]
    /\ success \in [Thread -> BOOLEAN]
    /\ elapsed \in [Thread -> Nat]
    /\ \A t \in Thread : elapsed[t] <= Limit(t)
    /\ result \in [Thread -> Kinds \cup {NoResult}]

(* However exec ends, it leaves neither a running process nor a zombie: the   *)
(* process was waited for, on its exit or after the kill (command.rs:215-298).*)
NoProcessLeft ==
    \A t \in Thread : exec[t] \in {"returned", "idle"} => proc[t] \in {"none", "reaped"}

(* The verdict fits what happened: Success and Failed need an exit status of  *)
(* the process itself, Timeout the full time, SkippedMissing no process.      *)
VerdictFits ==
    \A t \in Thread : exec[t] = "returned" =>
        /\ result[t] \in Kinds
        /\ result[t] = "Success" => proc[t] = "reaped" /\ success[t]
        /\ result[t] = "Failed" => proc[t] = "reaped" /\ ~success[t]
        /\ result[t] = "Timeout" => proc[t] = "reaped" /\ elapsed[t] = Limit(t)
        /\ result[t] = "SkippedMissing" => proc[t] = "none"

(* A process id is free for reuse once its process has been waited for: exec  *)
(* never signals it, and never waits for it, after that.                      *)
NoSignalAfterReap ==
    \A t \in Thread : exec[t] \in {"waiting", "polled", "kill", "reap"} =>
        proc[t] \in {"running", "exited"}

(* A command that hangs does not hang exec: the deadline ends the wait and    *)
(* the kill ends the process. The one wait without a limit is that of         *)
(* terminate (command.rs:296), for a process this user may not kill.          *)
ExecReturns ==
    \A t \in Thread : exec[t] = "prepare" ~>
        exec[t] = "returned" \/ (t \notin Killable /\ exec[t] = "reap")
===============================================================================
