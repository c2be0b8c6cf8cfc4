----------------------------- MODULE ThreadRunner -----------------------------
(***************************************************************************)
(* `ThreadRunner::run` (runner.rs): the commands are cut into chunks of    *)
(* max_parallel_commands, each chunk gets a result channel and one thread  *)
(* per command, and the caller receives as many results as it created      *)
(* threads, joins the threads, sorts the results by the sequence number of *)
(* the command in its chunk and goes on to the next chunk.                 *)
(*                                                                         *)
(* What the caller does not control is nondeterministic: the interleaving  *)
(* of the threads, whether a thread can be created, what exec returns and  *)
(* whether it panics, and when the receiver of the progress events goes.   *)
(***************************************************************************)
EXTENDS Integers, Sequences, FiniteSets

CONSTANTS Command,      \* the names of commands
          Kind,         \* the variants of CommandResult
          MaxParallel,  \* max_parallel_commands
          Inputs        \* the command lists run() may be called with

ASSUME MaxParallelAssumption == MaxParallel \in Nat
ASSUME InputsAssumption == Inputs \subseteq Seq(Command)
ASSUME NamesAssumption == "none" \notin Command \cup Kind

VARIABLES main,      \* where the thread that called run() stands
          commands,  \* the collected commands
          base,      \* how many commands the finished chunks had
          spawned,   \* threads created in the current chunk
          child,     \* those threads, by their seq
          chan,      \* every message sent into the chunk's channel, oldest first
          received,  \* how many of them wait_for_results has taken
          joined,    \* how many threads it has joined
          results,   \* the results of the finished chunks, in order
          events,    \* the progress channel
          listener   \* "none" (no progress_tx), "open", or "gone"

mainVars == <<main, commands, base, spawned, received, joined, results>>
progressVars == <<events, listener>>
vars == <<mainVars, child, chan, progressVars>>

-------------------------------------------------------------------------------

Seqs == 0 .. MaxParallel - 1

Idle == [at |-> "none", command |-> "none", kind |-> "none"]

Unfinished == {"start", "exec", "send", "sent"}
Stopped == {"done", "panicked"}
Ended == {"ok", "err", "panic"}

Smaller(a, b) == IF a < b THEN a ELSE b

(* Mutant: the commands are not cut into chunks.                            *)
ChunkLenUncut == Len(commands) - base

ChunkLen == Smaller(MaxParallel, Len(commands) - base)

(* The receiving end of the result channel lives until run() leaves the     *)
(* chunk, by returning the error of create_child, by panicking or normally. *)
ReceiverAlive == main \in {"create", "recv", "join"}

(* Mutant: the caller still holds a sender of the channel it receives from.  *)
DisconnectedNever == FALSE

(* Every sender of the result channel is gone: create_children has dropped  *)
(* its own when it returned and a thread drops its clone when it ends.      *)
Disconnected == \A s \in 0 .. spawned - 1 : child[s].at \in Stopped

Message == [seq : Seqs, result : [command : Command, kind : Kind]]

(* sort_by_key is stable: a message goes behind those of smaller seq and    *)
(* behind the earlier ones of equal seq.                                    *)
Before(q, i, j) == q[i].seq < q[j].seq \/ (q[i].seq = q[j].seq /\ i < j)
Rank(q, j) == Cardinality({i \in DOMAIN q : Before(q, i, j)}) + 1
(* Mutant: the results stay in the order in which they arrived.             *)
SortBySeqNot(q) == q

SortBySeq(q) == [r \in DOMAIN q |-> q[CHOOSE j \in DOMAIN q : Rank(q, j) = r]]

Received == [i \in 1 .. received |-> chan[i]]

(* Sending a progress event, when run() was given a progress_tx at all.     *)
Send(s, kind) ==
    IF listener = "open"
    THEN events' = Append(events, [seq |-> s, kind |-> kind])
    ELSE UNCHANGED events

-------------------------------------------------------------------------------

Init ==
    /\ main = "idle"
    /\ commands = <<>> /\ base = 0 /\ spawned = 0
    /\ child = [s \in Seqs |-> Idle]
    /\ chan = <<>> /\ received = 0 /\ joined = 0
    /\ results = <<>>
    /\ events = <<>>
    /\ listener \in {"none", "open"}

(* Mutant: the results of an earlier call are still there.                  *)
CallKeepsResults(cs) ==
    /\ main \in {"idle", "ok"}
    /\ main' = "chunks"
    /\ commands' = cs
    /\ base' = 0 /\ spawned' = 0 /\ received' = 0 /\ joined' = 0
    /\ chan' = <<>>
    /\ UNCHANGED <<results, child, progressVars>>

(* run() is called and collects the commands.                               *)
Call(cs) ==
    /\ main \in {"idle", "ok"}
    /\ main' = "chunks"
    /\ commands' = cs
    /\ base' = 0 /\ spawned' = 0 /\ received' = 0 /\ joined' = 0
    /\ results' = <<>>
    /\ chan' = <<>>
    /\ UNCHANGED <<child, progressVars>>

(* The head of the loop over the chunks; slice::chunks panics on size zero.  *)
NextChunk ==
    /\ main = "chunks"
    /\ main' = IF MaxParallel = 0 THEN "panic"
               ELSE IF base = Len(commands) THEN "ok" ELSE "create"
    /\ UNCHANGED <<commands, base, spawned, received, joined, results, child, chan, progressVars>>

(* create_child succeeds for the next command of the chunk.                 *)
Spawn ==
    /\ main = "create"
    /\ spawned < ChunkLen
    /\ child' = [child EXCEPT ![spawned] =
                    [at |-> "start", command |-> commands[base + spawned + 1],
                     kind |-> "none"]]
    /\ spawned' = spawned + 1
    /\ UNCHANGED <<main, commands, base, chan, received, joined, results, progressVars>>

(* The thread cannot be created: the ? of create_children and of run give   *)
(* the error to the caller and drop the receiver and the join handles.      *)
SpawnFails ==
    /\ main = "create"
    /\ spawned < ChunkLen
    /\ main' = "err"
    /\ UNCHANGED <<commands, base, spawned, received, joined, results, child, chan, progressVars>>

CreateDone ==
    /\ main = "create"
    /\ spawned = ChunkLen
    /\ main' = "recv"
    /\ UNCHANGED <<commands, base, spawned, received, joined, results, child, chan, progressVars>>

(* rx.recv() returns a message.                                             *)
Recv ==
    /\ main = "recv"
    /\ received < spawned
    /\ received < Len(chan)
    /\ received' = received + 1
    /\ UNCHANGED <<main, commands, base, spawned, joined, results, child, chan, progressVars>>

(* rx.recv() fails, and its expect panics.                                  *)
RecvDisconnected ==
    /\ main = "recv"
    /\ received < spawned
    /\ received = Len(chan)
    /\ Disconnected
    /\ main' = "panic"
    /\ UNCHANGED <<commands, base, spawned, received, joined, results, child, chan, progressVars>>

RecvDone ==
    /\ main = "recv"
    /\ received = spawned
    /\ main' = "join"
    /\ UNCHANGED <<commands, base, spawned, received, joined, results, child, chan, progressVars>>

(* child.join() waits for the thread; its expect panics if the thread did.  *)
Join ==
    /\ main = "join"
    /\ joined < spawned
    /\ \/ /\ child[joined].at = "done"
          /\ joined' = joined + 1
          /\ UNCHANGED main
       \/ /\ child[joined].at = "panicked"
          /\ main' = "panic"
          /\ UNCHANGED joined
    /\ UNCHANGED <<commands, base, spawned, received, results, child, chan, progressVars>>

(* Sort the chunk's results and append them to those of the earlier chunks.  *)
FinishChunk ==
    /\ main = "join"
    /\ joined = spawned
    /\ results' = results \o [r \in 1 .. received |-> SortBySeq(Received)[r].result]
    /\ base' = base + spawned
    /\ main' = "chunks"
    /\ child' = [s \in Seqs |-> Idle]
    /\ spawned' = 0 /\ received' = 0 /\ joined' = 0
    /\ chan' = <<>>
    /\ UNCHANGED <<commands, progressVars>>

-------------------------------------------------------------------------------
(* The closure of create_child, in the thread of sequence number s.         *)

Goto(s, at) == child' = [child EXCEPT ![s].at = at]

SendStarted(s) ==
    /\ child[s].at = "start"
    /\ Send(s, "Started")
    /\ Goto(s, IF listener = "gone" THEN "panicked" ELSE "exec")
    /\ UNCHANGED <<mainVars, chan, listener>>

ExecReturns(s, k) ==
    /\ child[s].at = "exec"
    /\ child' = [child EXCEPT ![s].at = "send", ![s].kind = k]
    /\ UNCHANGED <<mainVars, chan, progressVars>>

ExecPanics(s) ==
    /\ child[s].at = "exec"
    /\ Goto(s, "panicked")
    /\ UNCHANGED <<mainVars, chan, progressVars>>

(* Mutant: a channel without capacity, whose send waits for a receive.       *)
SendResultWaits(s) ==
    /\ child[s].at = "send"
    /\ ReceiverAlive
    /\ chan' = Append(chan, [seq |-> s, result |->
                   [command |-> child[s].command, kind |-> child[s].kind]])
    /\ Goto(s, "sent")
    /\ UNCHANGED <<mainVars, progressVars>>

(* Mutant: the closure sees the loop's counter instead of its own seq.       *)
SendResultSharedSeq(s) ==
    /\ child[s].at = "send"
    /\ IF ReceiverAlive
       THEN /\ chan' = Append(chan, [seq |-> spawned - 1, result |->
                          [command |-> child[s].command, kind |-> child[s].kind]])
            /\ Goto(s, "sent")
       ELSE /\ Goto(s, "panicked")
            /\ UNCHANGED chan
    /\ UNCHANGED <<mainVars, progressVars>>

SendResult(s) ==
    /\ child[s].at = "send"
    /\ IF ReceiverAlive
       THEN /\ chan' = Append(chan, [seq |-> s, result |->
                          [command |-> child[s].command, kind |-> child[s].kind]])
            /\ Goto(s, "sent")
       ELSE /\ Goto(s, "panicked")
            /\ UNCHANGED chan
    /\ UNCHANGED <<mainVars, progressVars>>

SendFinished(s) ==
    /\ child[s].at = "sent"
    /\ Send(s, "Finished")
    /\ Goto(s, IF listener = "gone" THEN "panicked" ELSE "done")
    /\ UNCHANGED <<mainVars, chan, listener>>

(* The receiver of the progress events disappears (its thread panics).      *)
ListenerGone ==
    /\ listener = "open"
    /\ listener' = "gone"
    /\ events' = <<>>
    /\ UNCHANGED <<mainVars, child, chan>>

-------------------------------------------------------------------------------

Exec(s) == ExecPanics(s) \/ \E k \in Kind : ExecReturns(s, k)

Child(s) == SendStarted(s) \/ Exec(s) \/ SendResult(s) \/ SendFinished(s)

Main ==
    \/ main = "idle" /\ \E cs \in Inputs : Call(cs)
    \/ NextChunk \/ Spawn \/ SpawnFails \/ CreateDone
    \/ Recv \/ RecvDisconnected \/ RecvDone
    \/ Join \/ FinishChunk

(* run() has returned or panicked and no thread of it is left.              *)
Terminated ==
    /\ main \in Ended
    /\ \A s \in Seqs : child[s].at \notin Unfinished
    /\ UNCHANGED vars

Next == Main \/ (\E s \in Seqs : Child(s)) \/ ListenerGone \/ Terminated

Spec == Init /\ [][Next]_vars

(* The operating system schedules every thread, and exec returns because it *)
(* waits for the process with a timeout (module CommandExec). Nothing       *)
(* forces a command list to be run or a listener to go away.                *)
Fairness ==
    /\ WF_vars(Main /\ main # "idle")
    /\ \A s \in Seqs : WF_vars(Child(s))

FairSpec == Spec /\ Fairness

-------------------------------------------------------------------------------

Phases == Unfinished \cup Stopped \cup {"none"}

TypeOK ==
    /\ main \in {"idle", "chunks", "create", "recv", "join"} \cup Ended
    /\ commands \in Seq(Command)
    /\ base \in 0 .. Len(commands)
    /\ spawned \in 0 .. MaxParallel
    /\ child \in [Seqs -> [at : Phases, command : Command \cup {"none"},
                           kind : Kind \cup {"none"}]]
    /\ chan \in Seq(Message)
    /\ received \in 0 .. Len(chan)
    /\ joined \in 0 .. spawned
    /\ results \in Seq([command : Command, kind : Kind])
    /\ events \in Seq([seq : Seqs, kind : {"Started", "Finished"}])
    /\ listener \in {"none", "open", "gone"}

(* "Ensures that results are in same order as commands" (runner.rs:49): when *)
(* run() returns Ok there is exactly one result per command, and the i-th    *)
(* result is the one of the i-th command, however the threads were scheduled.*)
ResultsInOrder ==
    main = "ok" =>
        /\ Len(results) = Len(commands)
        /\ \A i \in DOMAIN commands : results[i].command = commands[i]

(* Whatever panics or fails to start, a call of run() comes back: it never    *)
(* waits for a message nobody can send any more, nor for a thread forever.    *)
RunReturns == main \in {"chunks", "create", "recv", "join"} ~> main \in Ended

(* Every thread run() has created ends, also those it has left behind.        *)
ThreadsEnd ==
    \A s \in Seqs : child[s].at \in Unfinished ~> child[s].at \notin Unfinished

-------------------------------------------------------------------------------
(* The threads, the channel and the chunks implement RunnerSpec.              *)

Outcome == IF main \in Ended \cup {"idle"} THEN main ELSE "running"

ChildStatus(s) ==
    CASE child[s].at = "start" -> "pending"
      [] child[s].at = "exec" -> "active"
      [] child[s].at = "panicked" /\ child[s].kind = "none" -> "crashed"
      [] OTHER -> "finished"

Status == [i \in DOMAIN commands |->
              IF i <= base THEN "finished"
              ELSE IF i > base + spawned THEN "pending"
              ELSE ChildStatus(i - base - 1)]

Reply == [i \in DOMAIN commands |->
             IF i <= base THEN results[i].kind
             ELSE IF i > base + spawned THEN "none"
             ELSE child[i - base - 1].kind]

Abstract == INSTANCE RunnerSpec
    WITH outcome <- Outcome, commands <- commands, status <- Status, reply <- Reply,
         returned <- IF main = "ok" THEN results ELSE <<>>

(* Every step of the threads is a step of RunnerSpec or invisible to it: each  *)
(* command runs once, at most MaxParallel at a time, chunk after chunk, and Ok *)
(* carries what the thread of each command got from exec.                      *)
ImplementsRunnerSpec == Abstract!Spec
===============================================================================
