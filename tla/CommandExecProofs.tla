--------------------------- MODULE CommandExecProofs ---------------------------
(***************************************************************************)
(* Proofs about CommandExec, for any set of threads, any timeouts and any  *)
(* processes that may not be killed: the types, that no process is left    *)
(* behind, that none is signalled once it was reaped, and that the verdict *)
(* fits what the process did.                                              *)
(***************************************************************************)
EXTENDS CommandExec, TLAPS

-------------------------------------------------------------------------------
(* The inductive invariant: what holds of each thread at each point of exec.  *)

(* Before it creates a process a thread has none, and no result.              *)
Prepared(t) == exec[t] = "prepare" => proc[t] = "none" /\ result[t] = NoResult

(* While exec waits there is a process of its own that nobody has waited for, *)
(* and still no result.                                                       *)
Watched(t) ==
    exec[t] \in {"waiting", "polled"} =>
        proc[t] \in {"running", "exited"} /\ result[t] = NoResult

(* A process that is to be terminated is there, and the result stands: an     *)
(* error, or the timeout, when all of the time has passed.                    *)
Doomed(t) ==
    exec[t] \in {"kill", "reap"} =>
        /\ proc[t] \in {"running", "exited"}
        /\ result[t] \in {"Error", "Timeout"}
        /\ result[t] = "Timeout" => elapsed[t] = Limit(t)

(* What is read is the output of a process that has been waited for.          *)
Awaited(t) == exec[t] = "read" => proc[t] = "reaped"

(* Outside exec there is no process, and behind exec a result that fits: the  *)
(* two invariants of CommandExec for one thread.                              *)
Settled(t) ==
    /\ exec[t] \in {"returned", "idle"} => proc[t] \in {"none", "reaped"}
    /\ exec[t] = "returned" =>
          /\ result[t] \in Kinds
          /\ result[t] = "Success" => proc[t] = "reaped" /\ success[t]
          /\ result[t] = "Failed" => proc[t] = "reaped" /\ ~success[t]
          /\ result[t] = "Timeout" => proc[t] = "reaped" /\ elapsed[t] = Limit(t)
          /\ result[t] = "SkippedMissing" => proc[t] = "none"

ThreadInv(t) == Prepared(t) /\ Watched(t) /\ Doomed(t) /\ Awaited(t) /\ Settled(t)

IInv == TypeOK /\ \A t \in Thread : ThreadInv(t)

(* What one thread, its process and its clock do.                             *)
StepOf(t) == Begin(t) \/ Step(t) \/ Leave(t) \/ Exit(t) \/ Tick(t)

-------------------------------------------------------------------------------
(* Types.                                                                     *)

(* The timeout is a number of seconds, and no more of them pass.              *)
LEMMA TimeTyped ==
    ASSUME TypeOK, NEW t \in Thread
    PROVE  elapsed[t] \in Nat /\ Limit(t) \in Nat /\ elapsed[t] <= Limit(t)
<1>1. timeout[t] \in Nat \cup {Unset} /\ elapsed[t] \in Nat /\ elapsed[t] <= Limit(t)
  BY TimeoutsAssumption DEF TypeOK
<1>. QED  BY <1>1 DEF Limit, DefaultTimeout

(* A step of the thread t, or of its process or clock, keeps the types.       *)
LEMMA TypeStep ==
    ASSUME TypeOK, NEW t \in Thread, StepOf(t)
    PROVE  TypeOK'
<1>1. CASE Begin(t)
  BY <1>1, TimeoutsAssumption DEF Begin, TypeOK, Limit, DefaultTimeout, Unset
<1>2. CASE NotStarted(t) \/ Create(t) \/ Poll(t) \/ CheckDeadline(t) \/ WaitFails(t)
  BY <1>2 DEF NotStarted, Create, Poll, CheckDeadline, WaitFails, Return, TypeOK, Kinds, Limit
<1>3. CASE Kill(t) \/ Reap(t) \/ ReadOutput(t) \/ Leave(t) \/ Exit(t)
  BY <1>3 DEF Kill, Reap, ReadOutput, Leave, Exit, Return, TypeOK, Kinds, Limit
<1>4. CASE Tick(t)
  <2>1. /\ elapsed[t] + 1 \in Nat /\ elapsed[t] + 1 <= Limit(t)
        /\ elapsed' = [elapsed EXCEPT ![t] = elapsed[t] + 1]
        /\ UNCHANGED <<exec, timeout, proc, success, result>>
    BY <1>4, TimeTyped DEF Tick
  <2>2. elapsed' \in [Thread -> Nat]
    BY <2>1 DEF TypeOK
  <2>3. \A u \in Thread : elapsed'[u] <= Limit(u)'
    BY <2>1 DEF TypeOK, Limit
  <2>. QED  BY <2>1, <2>2, <2>3 DEF TypeOK
<1>. QED  BY <1>1, <1>2, <1>3, <1>4 DEF StepOf, Step

(* A step of t touches nothing that belongs to another thread.                *)
LEMMA OthersUntouched ==
    ASSUME TypeOK, NEW t \in Thread, StepOf(t), NEW u \in Thread \ {t}
    PROVE  /\ exec'[u] = exec[u] /\ timeout'[u] = timeout[u] /\ proc'[u] = proc[u]
           /\ success'[u] = success[u] /\ elapsed'[u] = elapsed[u] /\ result'[u] = result[u]
<1>1. CASE Begin(t) \/ Leave(t) \/ Exit(t) \/ Tick(t)
  BY <1>1 DEF TypeOK, Begin, Leave, Exit, Tick
<1>2. CASE NotStarted(t) \/ Create(t) \/ Poll(t) \/ CheckDeadline(t) \/ WaitFails(t)
  BY <1>2 DEF TypeOK, NotStarted, Create, Poll, CheckDeadline, WaitFails, Return
<1>3. CASE Kill(t) \/ Reap(t) \/ ReadOutput(t)
  BY <1>3 DEF TypeOK, Kill, Reap, ReadOutput, Return
<1>. QED  BY <1>1, <1>2, <1>3 DEF StepOf, Step

-------------------------------------------------------------------------------
(* The invariant is inductive.                                                *)

(* A step of exec, of its process or of the clock (command.rs:206-298) keeps  *)
(* what holds of its thread.                                                  *)
LEMMA StepOfThread ==
    ASSUME TypeOK, NEW t \in Thread, ThreadInv(t), StepOf(t)
    PROVE  ThreadInv(t)'
<1> USE DEF TypeOK, ThreadInv, Prepared, Watched, Doomed, Awaited, Settled, Kinds, NoResult
<1>1. CASE Begin(t)
  BY <1>1 DEF Begin
<1>2. CASE NotStarted(t)
  BY <1>2 DEF NotStarted, Return
<1>3. CASE Create(t)
  BY <1>3 DEF Create
<1>4. CASE Poll(t)
  BY <1>4 DEF Poll
<1>5. CASE CheckDeadline(t)
  <2>1. elapsed[t] >= Limit(t) => elapsed[t] = Limit(t)
    BY TimeTyped
  <2>. QED  BY <1>5, <2>1 DEF CheckDeadline, Limit
<1>6. CASE WaitFails(t)
  BY <1>6 DEF WaitFails
<1>7. CASE Kill(t)
  BY <1>7 DEF Kill, Limit
<1>8. CASE Reap(t)
  BY <1>8 DEF Reap, Limit
<1>9. CASE ReadOutput(t)
  BY <1>9 DEF ReadOutput, Return
<1>10. CASE Leave(t)
  BY <1>10 DEF Leave
<1>11. CASE Exit(t)
  BY <1>11 DEF Exit, Limit
<1>12. CASE Tick(t)
  BY <1>12 DEF Tick
<1>. QED  BY <1>1, <1>2, <1>3, <1>4, <1>5, <1>6, <1>7, <1>8, <1>9, <1>10, <1>11, <1>12
          DEF StepOf, Step

(* It holds before any thread has called exec.                                *)
LEMMA InitInvariant == Init => IInv
<1> SUFFICES ASSUME Init PROVE IInv
  OBVIOUS
<1>1. TypeOK
  BY DEF Init, TypeOK, Limit, DefaultTimeout, Unset
<1>2. ASSUME NEW t \in Thread PROVE ThreadInv(t)
  BY DEF Init, ThreadInv, Prepared, Watched, Doomed, Awaited, Settled
<1>. QED  BY <1>1, <1>2 DEF IInv

(* Every step keeps it: threads share nothing, so what holds of the others    *)
(* stays (command.rs:185-298).                                                *)
LEMMA NextInvariant == IInv /\ [Next]_execVars => IInv'
<1> SUFFICES ASSUME IInv, [Next]_execVars PROVE IInv'
  OBVIOUS
<1>1. ASSUME NEW t \in Thread, StepOf(t) PROVE IInv'
  <2>1. TypeOK'
    BY <1>1, TypeStep DEF IInv
  <2>2. ThreadInv(t)'
    BY <1>1, StepOfThread DEF IInv
  <2>3. ASSUME NEW u \in Thread \ {t} PROVE ThreadInv(u)'
    <3>1. ThreadInv(u)
      BY DEF IInv
    <3>. QED  BY <1>1, <3>1, OthersUntouched
              DEF IInv, ThreadInv, Prepared, Watched, Doomed, Awaited, Settled, Limit
  <2>. QED  BY <2>1, <2>2, <2>3 DEF IInv
<1>2. CASE UNCHANGED execVars
  BY <1>2 DEF execVars, IInv, TypeOK, Limit, ThreadInv, Prepared, Watched, Doomed, Awaited,
              Settled
<1>. QED  BY <1>1, <1>2 DEF Next, StepOf

(* The inductive invariant holds in every state of exec.                      *)
LEMMA InvariantHolds == Spec => []IInv
<1>. QED  BY InitInvariant, NextInvariant, PTL DEF Spec

-------------------------------------------------------------------------------
(* In every behaviour of Command::exec, in any number of threads and for any  *)
(* timeouts, zero among them, the variables keep the types of the code's      *)
(* values: in particular no more seconds pass than the timeout.               *)
THEOREM TypeCorrect == Spec => []TypeOK
<1>1. IInv => TypeOK
  BY DEF IInv
<1>. QED  BY <1>1, InvariantHolds, PTL

(* However exec ends, it leaves neither a running process nor a zombie        *)
(* (command.rs:215-298).                                                      *)
THEOREM NothingLeft == Spec => []NoProcessLeft
<1>1. IInv => NoProcessLeft
  BY DEF IInv, ThreadInv, Settled, NoProcessLeft
<1>. QED  BY <1>1, InvariantHolds, PTL

(* Success, Failed, Timeout and SkippedMissing are each given only for what   *)
(* the process of this very call did (command.rs:218-282).                    *)
THEOREM VerdictTrue == Spec => []VerdictFits
<1>1. IInv => VerdictFits
  BY DEF IInv, ThreadInv, Settled, VerdictFits
<1>. QED  BY <1>1, InvariantHolds, PTL

(* No process is signalled, or waited for, after it was waited for            *)
(* (command.rs:227-272, 284-298).                                             *)
THEOREM NeverSignalsReaped == Spec => []NoSignalAfterReap
<1>1. IInv => NoSignalAfterReap
  BY DEF IInv, ThreadInv, Watched, Doomed, NoSignalAfterReap
<1>. QED  BY <1>1, InvariantHolds, PTL
===============================================================================
