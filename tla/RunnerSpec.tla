------------------------------ MODULE RunnerSpec ------------------------------
(***************************************************************************)
(* What `Runner::run` promises its caller (trait Runner, runner.rs:19-22,  *)
(* and the comment on ThreadRunner, runner.rs:49), without threads or      *)
(* channels: every command is executed once, at most MaxParallel at a time *)
(* and chunk after chunk, and run returns Ok only with one result per      *)
(* command, in the order of the commands.                                  *)
(***************************************************************************)
EXTENDS Integers, Sequences, FiniteSets

CONSTANTS Command,      \* the names of commands
          Kind,         \* the variants of CommandResult
          MaxParallel,  \* max_parallel_commands
          Inputs        \* the command lists run() may be called with

VARIABLES outcome,   \* "idle", "running", then "ok", "err" or "panic"
          commands,  \* the commands of the call
          status,    \* per command: "pending", "active", "finished" or "crashed"
          reply,     \* per finished command the kind of result it gave
          returned   \* the vector inside Ok

vars == <<outcome, commands, status, reply, returned>>

Unanswered == "none"

Init == /\ outcome = "idle"
        /\ commands = <<>> /\ status = <<>> /\ reply = <<>> /\ returned = <<>>

Call(cs) ==
    /\ outcome \in {"idle", "ok"}
    /\ outcome' = "running"
    /\ commands' = cs
    /\ status' = [i \in DOMAIN cs |-> "pending"]
    /\ reply' = [i \in DOMAIN cs |-> Unanswered]
    /\ returned' = <<>>

Chunk(i) == (i - 1) \div MaxParallel

Active == {i \in DOMAIN status : status[i] = "active"}

(* A command starts when every command of the earlier chunks has finished. *)
Begin(i) ==
    /\ status[i] = "pending"
    /\ Cardinality(Active) < MaxParallel
    /\ \A j \in DOMAIN commands : Chunk(j) < Chunk(i) => status[j] = "finished"
    /\ status' = [status EXCEPT ![i] = "active"]
    /\ UNCHANGED <<outcome, commands, reply, returned>>

End(i, k) ==
    /\ status[i] = "active"
    /\ status' = [status EXCEPT ![i] = "finished"]
    /\ reply' = [reply EXCEPT ![i] = k]
    /\ UNCHANGED <<outcome, commands, returned>>

(* The thread of a command panics before the command has a result. *)
Crash(i) ==
    /\ status[i] \in {"pending", "active"}
    /\ status' = [status EXCEPT ![i] = "crashed"]
    /\ UNCHANGED <<outcome, commands, reply, returned>>

Return ==
    /\ outcome = "running"
    /\ \A i \in DOMAIN commands : status[i] = "finished"
    /\ outcome' = "ok"
    /\ returned' = [i \in DOMAIN commands |->
                       [command |-> commands[i], kind |-> reply[i]]]
    /\ UNCHANGED <<commands, status, reply>>

(* run may give up at any time: a thread cannot be created, a child has     *)
(* panicked. What already runs then goes on without it.                     *)
GiveUp ==
    /\ outcome = "running"
    /\ outcome' \in {"err", "panic"}
    /\ UNCHANGED <<commands, status, reply, returned>>

Next ==
    \/ \E cs \in Inputs : Call(cs)
    \/ \E i \in DOMAIN commands : Begin(i) \/ Crash(i) \/ \E k \in Kind : End(i, k)
    \/ Return
    \/ GiveUp

Spec == Init /\ [][Next]_vars
===============================================================================
