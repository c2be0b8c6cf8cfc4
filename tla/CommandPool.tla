------------------------------ MODULE CommandPool ------------------------------
(***************************************************************************)
(* ThreadRunner and CommandExec together: the exec of the thread of seq s  *)
(* is the exec that CommandExec describes for s, so that what ThreadRunner *)
(* assumes of exec (that it returns) is shown and not assumed, and the     *)
(* processes a call of run() starts can be followed to their end.          *)
(***************************************************************************)
EXTENDS ThreadRunner

CONSTANTS Timeouts,   \* see CommandExec
          Killable

VARIABLES exec, timeout, proc, success, elapsed, result

X == INSTANCE CommandExec WITH Thread <- Seqs

ASSUME PoolTimeoutsAssumption == Timeouts \subseteq Nat \cup {X!Unset}
ASSUME PoolKillableAssumption == Killable \subseteq Seqs
ASSUME PoolKindAssumption == X!Kinds \subseteq Kind

execVars == <<exec, timeout, proc, success, elapsed, result>>
poolVars == <<vars, execVars>>

PoolInit == Init /\ X!Init

(* The closure of create_child calls command.exec() once Started is sent.    *)
StartExec(s) ==
    /\ SendStarted(s)
    /\ IF child'[s].at = "exec" THEN X!Begin(s) ELSE UNCHANGED execVars

DuringExec(s) ==
    /\ child[s].at = "exec"
    /\ X!Step(s)
    /\ UNCHANGED vars

EndExec(s) == X!Leave(s) /\ ExecReturns(s, result[s])

PoolChild(s) ==
    \/ StartExec(s)
    \/ DuringExec(s)
    \/ EndExec(s)
    \/ (SendResult(s) \/ SendFinished(s)) /\ UNCHANGED execVars

PoolMain == Main /\ UNCHANGED execVars

Environment ==
    \/ (ListenerGone \/ Terminated) /\ UNCHANGED execVars
    \/ \E s \in Seqs : (X!Exit(s) \/ X!Tick(s)) /\ UNCHANGED vars

PoolNext == PoolMain \/ (\E s \in Seqs : PoolChild(s)) \/ Environment

(* The threads are scheduled and time passes; a process may hang for ever.   *)
PoolSpec ==
    /\ PoolInit /\ [][PoolNext]_poolVars
    /\ WF_poolVars(PoolMain /\ main # "idle")
    /\ \A s \in Seqs : WF_poolVars(PoolChild(s)) /\ WF_poolVars(X!Tick(s) /\ UNCHANGED vars)

-------------------------------------------------------------------------------

(* With every process of a chunk killed in time, the runner behaves as        *)
(* ThreadRunner says, its fairness included: exec always returns to the       *)
(* thread, so run() returns although every command may hang.                  *)
ImplementsThreadRunner == FairSpec

(* Between two chunks and after Ok no process of the call is left, neither    *)
(* running nor as a zombie: the processes of two chunks never overlap         *)
(* (runner.rs:60-66 with command.rs:218-272).                                 *)
NoProcessBetweenChunks ==
    main \in {"chunks", "ok"} => \A s \in Seqs : proc[s] \in {"none", "reaped"}

===============================================================================
