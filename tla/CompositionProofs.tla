--------------------------- MODULE CompositionProofs ---------------------------
(* Proofs about the runner and what is composed with it.                      *)
(*                                                                            *)
(* First ThreadRunner alone, for every list of commands, every chunk size and *)
(* every set of result kinds: the type invariant, that the results come back  *)
(* in the order of the commands, and that the threads, their channel and the  *)
(* chunks implement the runner of RunnerSpec.                                 *)
(*                                                                            *)
(* Then CommandPool, in which every thread runs Command::exec with its        *)
(* process, AnalysisRun, in which a report calls run() several times while a  *)
(* progress thread listens, and Inspection, in which main checks and explains *)
(* instead of reporting.  The invariants of the parts, proved here for the    *)
(* threads and in CommandExecProofs for exec, carry over; what is added is    *)
(* what relates the parts.                                                    *)
EXTENDS Inspection, CommandPool, PositionsProofs

-------------------------------------------------------------------------------
(* The inductive invariant of the threads.                                     *)

(* Outside a chunk there is no thread and no channel.                         *)
Quiet ==
    main \in {"idle", "chunks", "ok"} =>
        /\ spawned = 0 /\ chan = <<>>
        /\ child = [s \in Seqs |-> Idle]

(* The chunk fits into what is left of the commands, and all of its threads   *)
(* are created before the caller receives.                                    *)
ChunkFits ==
    /\ spawned <= MaxParallel /\ base + spawned <= Len(commands)
    /\ main \in {"recv", "join"} => spawned = ChunkLen

(* Every finished chunk but the last one of the call was full.                *)
Aligned == base = Len(commands) \/ \E q \in Nat : base = q * MaxParallel

(* The threads of the chunk are the first `spawned` ones, each with the       *)
(* command of its place in the chunk and, from exec on, with a result. Those  *)
(* that were joined are done.                                                 *)
ChildrenFit ==
    \A s \in Seqs :
        /\ s >= spawned => child[s].at = "none"
        /\ s < spawned => child[s].command = commands[base + s + 1]
        /\ child[s].at \in {"none", "start", "exec"} => child[s].kind = "none"
        /\ child[s].at \in {"send", "sent", "done"} => child[s].kind \in Kind
        /\ s < joined => child[s].at = "done"

(* A message in the channel was sent by the thread it names, which is past    *)
(* its send, and carries the command of that thread and what its exec gave.   *)
MessagesFit ==
    \A i \in DOMAIN chan :
        /\ chan[i].seq < spawned
        /\ child[chan[i].seq].at \in {"sent", "done", "panicked"}
        /\ chan[i].result.command = commands[base + chan[i].seq + 1]
        /\ chan[i].result.kind = child[chan[i].seq].kind

(* No thread has sent twice.                                                  *)
OneMessageEach ==
    \A i, j \in DOMAIN chan : chan[i].seq = chan[j].seq => i = j

(* As many results are taken as threads were created before any is joined.    *)
AllTaken == received <= spawned /\ (main = "join" => received = spawned)

(* The results of the finished chunks are those of the first commands.        *)
Prefix ==
    /\ Len(results) = base
    /\ \A i \in 1 .. base : results[i].command = commands[i]
    /\ main = "ok" => base = Len(commands)

IInv ==
    /\ TypeOK
    /\ Quiet /\ ChunkFits /\ Aligned /\ ChildrenFit
    /\ MessagesFit /\ OneMessageEach /\ AllTaken
    /\ Prefix

-------------------------------------------------------------------------------
(* Sorting.                                                                   *)

(* n messages of n threads: their seqs are different and below n.             *)
OneFromEach(n, q) ==
    /\ DOMAIN q = 1 .. n
    /\ \A i \in 1 .. n : q[i].seq \in 0 .. n - 1
    /\ \A i, j \in 1 .. n : q[i].seq = q[j].seq => i = j

(* Among them, the message of seq v is behind exactly v others.               *)
LEMMA RankIsSeq ==
    ASSUME NEW n \in Nat, NEW q, OneFromEach(n, q),
           NEW j \in 1 .. n
    PROVE  Rank(q, j) = q[j].seq + 1
<1> USE DEF OneFromEach
<1> DEFINE f == [i \in 1 .. n |-> q[i].seq]
           v == q[j].seq
           S == {i \in DOMAIN q : Before(q, i, j)}
           g == [i \in S |-> q[i].seq]
<1>0. v \in 0 .. n - 1
  OBVIOUS
<1>1. f \in Injection(1 .. n, 0 .. n - 1)
  BY DEF Injection, IsInjective
<1>2. f \in Surjection(1 .. n, 0 .. n - 1)
  <2>1. /\ IsFiniteSet(0 .. n - 1)
        /\ Cardinality(1 .. n) = n
        /\ Cardinality(0 .. n - 1) = n
    BY FirstNumbers, NumbersFromZero
  <2>. QED  BY <1>1, <2>1, FS_Injection
<1>3. \A i \in 1 .. n : Before(q, i, j) <=> q[i].seq < v
  BY DEF Before
<1>4. g \in Bijection(S, 0 .. v - 1)
  <2>1. g \in [S -> 0 .. v - 1]
    BY <1>3
  <2>2. g \in Injection(S, 0 .. v - 1)
    BY <2>1 DEF Injection, IsInjective
  <2>3. ASSUME NEW w \in 0 .. v - 1
        PROVE  \E i \in S : g[i] = w
    <3>1. w \in 0 .. n - 1
      BY <1>0
    <3>2. PICK i \in 1 .. n : f[i] = w
      BY <3>1, <1>2 DEF Surjection
    <3>3. q[i].seq = w
      BY <3>2
    <3>4. i \in S
      BY <3>3, <1>3
    <3>5. g[i] = w
      BY <3>3, <3>4
    <3>. QED  BY <3>4, <3>5
  <2>. QED  BY <2>2, <2>3 DEF Bijection, Surjection, Injection
<1>5. ExistsBijection(S, 0 .. v - 1)
  BY <1>4 DEF ExistsBijection
<1>6. IsFiniteSet(S)
  <2>1. IsFiniteSet(1 .. n)
    BY FS_Interval
  <2>. QED  BY <2>1, FS_Subset
<1>7. Cardinality(S) = v
  <2>1. Cardinality(0 .. v - 1) = v
    <3>. HIDE DEF v
    <3>1. v \in Nat /\ v - 1 \in Int /\ 0 \in Int
      BY <1>0
    <3>. QED  BY <3>1, NumbersFromZero
  <2>. QED  BY <2>1, <1>5, <1>6, FS_Bijection
<1>. QED  BY <1>7 DEF Rank

(* Sorted by seq, such messages stand in the order of their seqs: the r-th    *)
(* one is the message of seq r - 1 (sort_by_key, runner.rs:166).              *)
LEMMA SortBySeqOrders ==
    ASSUME NEW n \in Nat, NEW q, OneFromEach(n, q),
           NEW r \in 1 .. n
    PROVE  \E j \in 1 .. n : SortBySeq(q)[r] = q[j] /\ q[j].seq = r - 1
<1> USE DEF OneFromEach
<1> DEFINE f == [i \in 1 .. n |-> q[i].seq]
           pick == CHOOSE j \in DOMAIN q : Rank(q, j) = r
<1>1. f \in Injection(1 .. n, 0 .. n - 1)
  BY DEF Injection, IsInjective
<1>2. f \in Surjection(1 .. n, 0 .. n - 1)
  <2>1. /\ IsFiniteSet(0 .. n - 1)
        /\ Cardinality(1 .. n) = n
        /\ Cardinality(0 .. n - 1) = n
    BY FirstNumbers, NumbersFromZero
  <2>. QED  BY <1>1, <2>1, FS_Injection
<1>3. PICK j \in 1 .. n : q[j].seq = r - 1
  BY <1>2, r - 1 \in 0 .. n - 1 DEF Surjection
<1>4. Rank(q, j) = r
  BY <1>3, RankIsSeq
<1>5. pick \in 1 .. n /\ Rank(q, pick) = r
  BY <1>4
<1>6. q[pick].seq = r - 1
  <2>1. Rank(q, pick) = q[pick].seq + 1
    BY <1>5, RankIsSeq
  <2>2. q[pick].seq \in 0 .. n - 1
    BY <1>5
  <2>. QED  BY <1>5, <2>1, <2>2
<1>7. SortBySeq(q)[r] = q[pick]
  BY DEF SortBySeq
<1>. QED  BY <1>5, <1>6, <1>7

(* Concatenation, element by element.                                         *)
LEMMA ConcatElements ==
    ASSUME NEW S, NEW a \in Seq(S), NEW b \in Seq(S)
    PROVE  /\ a \o b \in Seq(S)
           /\ Len(a \o b) = Len(a) + Len(b)
           /\ \A i \in 1 .. Len(a) : (a \o b)[i] = a[i]
           /\ \A i \in 1 .. Len(b) : (a \o b)[Len(a) + i] = b[i]
  OBVIOUS

(* An element of a sequence is one of its set.                                *)
LEMMA ElementTyped ==
    ASSUME NEW S, NEW q \in Seq(S), NEW i \in DOMAIN q
    PROVE  q[i] \in S
  OBVIOUS

(* What the type of the channel says of a single message.                     *)
LEMMA MessageTyped ==
    ASSUME chan \in Seq(Message), NEW i \in DOMAIN chan
    PROVE  /\ chan[i].seq \in Seqs
           /\ chan[i].result \in [command : Command, kind : Kind]
<1>1. chan[i] \in Message
  OBVIOUS
<1>. QED  BY <1>1 DEF Message

-------------------------------------------------------------------------------
(* The invariant holds initially.                                             *)
LEMMA InitInvariant == Init => IInv
<1> SUFFICES ASSUME Init PROVE IInv
  OBVIOUS
<1>1. TypeOK
  BY InputsAssumption, MaxParallelAssumption DEF Init, TypeOK, Idle, Phases, Ended
<1>2. Quiet /\ ChunkFits /\ Aligned /\ ChildrenFit
  BY MaxParallelAssumption DEF Init, Quiet, ChunkFits, Aligned, ChildrenFit, Idle, Seqs
<1>3. MessagesFit /\ OneMessageEach /\ AllTaken /\ Prefix
  BY DEF Init, MessagesFit, OneMessageEach, AllTaken, Prefix
<1>. QED  BY <1>1, <1>2, <1>3 DEF IInv

(* A step of the caller that only moves it on inside the loop: no thread, no  *)
(* message and no result changes.                                             *)
LEMMA CallerMoves ==
    ASSUME IInv,
           NextChunk \/ SpawnFails \/ CreateDone \/ Recv
               \/ RecvDisconnected \/ RecvDone \/ Join
    PROVE  IInv'
<1> USE DEF NextChunk, SpawnFails, CreateDone, Recv, RecvDisconnected, RecvDone, Join
<1>1. TypeOK'
  BY DEF IInv, TypeOK, Ended, progressVars
<1>2. Quiet'
  BY DEF IInv, TypeOK, Quiet, progressVars
<1>3. ChunkFits' /\ Aligned' /\ MessagesFit' /\ OneMessageEach'
  BY DEF IInv, ChunkFits, ChunkLen, Aligned, MessagesFit, OneMessageEach
<1>4. ChildrenFit'
  <2>1. CASE joined' = joined
    BY <2>1 DEF IInv, ChildrenFit
  <2>2. CASE joined' = joined + 1 /\ child[joined].at = "done"
    <3>1. joined \in Nat /\ \A s \in Seqs : s < joined + 1 => s < joined \/ s = joined
      BY MaxParallelAssumption DEF IInv, TypeOK, Seqs
    <3>. QED  BY <2>2, <3>1 DEF IInv, ChildrenFit
  <2>. QED  BY <2>1, <2>2
<1>5. AllTaken'
  BY DEF IInv, TypeOK, AllTaken
<1>6. Prefix'
  BY DEF IInv, Prefix
<1>. QED  BY <1>1, <1>2, <1>3, <1>4, <1>5, <1>6 DEF IInv

(* A call of run() starts with an empty outer list: nothing is left to fit.   *)
LEMMA CallStep ==
    ASSUME IInv, NEW cs \in Seq(Command), Call(cs)
    PROVE  IInv'
<1> USE DEF Call
<1>1. TypeOK'
  BY MaxParallelAssumption DEF IInv, TypeOK, Quiet, progressVars
<1>2. Quiet'
  BY DEF IInv, Quiet
<1>3. ChunkFits' /\ Aligned' /\ ChildrenFit'
  BY MaxParallelAssumption DEF IInv, Quiet, ChunkFits, Aligned, ChildrenFit, Idle, Seqs
<1>4. MessagesFit' /\ OneMessageEach' /\ AllTaken' /\ Prefix'
  BY DEF MessagesFit, OneMessageEach, AllTaken, Prefix
<1>. QED  BY <1>1, <1>2, <1>3, <1>4 DEF IInv

(* Creating a thread adds one with the next seq and no message of its own yet *)
(* (runner.rs:93-97).                                                         *)
LEMMA SpawnStep ==
    ASSUME IInv, Spawn
    PROVE  IInv'
<1> USE DEF Spawn
<1>0. /\ spawned \in Seqs /\ spawned + 1 <= MaxParallel
      /\ base + spawned + 1 \in 1 .. Len(commands)
      /\ commands[base + spawned + 1] \in Command
  BY MaxParallelAssumption DEF IInv, TypeOK, ChunkLen, Smaller, Seqs
<1>1. TypeOK'
  <2>1. child' \in [Seqs -> [at : Phases, command : Command \cup {"none"},
                             kind : Kind \cup {"none"}]]
    BY <1>0 DEF IInv, TypeOK, Phases, Unfinished
  <2>. QED  BY <2>1, <1>0, MaxParallelAssumption DEF IInv, TypeOK, progressVars
<1>2. Quiet'
  BY DEF Quiet
<1>3. ChunkFits' /\ Aligned'
  BY <1>0 DEF IInv, TypeOK, ChunkFits, Aligned
<1>4. ChildrenFit'
  BY <1>0, MaxParallelAssumption, NamesAssumption DEF IInv, TypeOK, ChildrenFit, Seqs
<1>5. MessagesFit'
  <2> SUFFICES ASSUME NEW i \in DOMAIN chan
               PROVE  /\ chan[i].seq < spawned + 1
                      /\ child'[chan[i].seq].at \in {"sent", "done", "panicked"}
                      /\ chan[i].result.command = commands[base + chan[i].seq + 1]
                      /\ chan[i].result.kind = child'[chan[i].seq].kind
    BY DEF MessagesFit
  <2>1. chan[i].seq \in Seqs
    BY MessageTyped DEF IInv, TypeOK
  <2>2. chan[i].seq < spawned
    BY DEF IInv, MessagesFit
  <2>3. child'[chan[i].seq] = child[chan[i].seq]
    BY <2>1, <2>2, <1>0 DEF IInv, TypeOK, Seqs
  <2>4. chan[i].seq < spawned + 1
    BY <2>1, <2>2, <1>0, MaxParallelAssumption DEF Seqs
  <2>. QED  BY <2>3, <2>4 DEF IInv, MessagesFit
<1>6. OneMessageEach' /\ AllTaken' /\ Prefix'
  BY <1>0 DEF IInv, TypeOK, OneMessageEach, AllTaken, Prefix
<1>. QED  BY <1>1, <1>2, <1>3, <1>4, <1>5, <1>6 DEF IInv

(* The end of a chunk: its sorted results extend those of the earlier chunks  *)
(* by those of the next `spawned` commands, each with what exec gave to the   *)
(* thread of its command.                                                     *)
LEMMA ChunkResults ==
    ASSUME IInv, FinishChunk
    PROVE  /\ base \in Nat /\ spawned \in Nat /\ Len(results) = base
           /\ base + spawned <= Len(commands)
           /\ results' \in Seq([command : Command, kind : Kind])
           /\ Len(results') = base + spawned
           /\ \A i \in 1 .. base : results'[i] = results[i]
           /\ \A k \in 1 .. spawned : /\ results'[base + k].command = commands[base + k]
                                      /\ results'[base + k].kind = child[k - 1].kind
<1> DEFINE Result == [command : Command, kind : Kind]
           more == [r \in 1 .. received |-> SortBySeq(Received)[r].result]
<1>0. /\ received \in Nat /\ received = spawned /\ received <= Len(chan)
      /\ base \in Nat /\ base + received <= Len(commands)
      /\ chan \in Seq(Message) /\ results \in Seq(Result) /\ Len(results) = base
  BY DEF FinishChunk, IInv, TypeOK, AllTaken, ChunkFits, Prefix
<1>1. /\ DOMAIN Received = 1 .. received
      /\ \A i \in 1 .. received : Received[i] = chan[i] /\ i \in DOMAIN chan
  BY <1>0 DEF Received
<1>2. \A i \in 1 .. received : Received[i].seq \in 0 .. received - 1
  <2> SUFFICES ASSUME NEW i \in 1 .. received
               PROVE  chan[i].seq \in 0 .. received - 1
    BY <1>1
  <2>1. i \in DOMAIN chan
    BY <1>1
  <2>2. chan[i].seq \in Seqs
    BY <2>1, <1>0, MessageTyped
  <2>3. chan[i].seq < received
    BY <2>1, <1>0 DEF IInv, MessagesFit
  <2>. QED  BY <2>2, <2>3, <1>0, MaxParallelAssumption DEF Seqs
<1>3. OneFromEach(received, Received)
  BY <1>1, <1>2 DEF IInv, OneMessageEach, OneFromEach
<1>4. ASSUME NEW r \in 1 .. received
      PROVE  /\ more[r] \in Result /\ more[r].command = commands[base + r]
             /\ more[r].kind = child[r - 1].kind
  <2>1. PICK j \in 1 .. received :
           SortBySeq(Received)[r] = Received[j] /\ Received[j].seq = r - 1
    <3>. HIDE DEF more
    <3>1. received \in Nat
      BY <1>0
    <3>. QED  BY <3>1, <1>3, SortBySeqOrders
  <2>2. more[r] = chan[j].result /\ chan[j].seq = r - 1 /\ j \in DOMAIN chan
    BY <2>1, <1>1
  <2>3. chan[j].result \in Result
    BY <2>2, <1>0, MessageTyped
  <2>4. /\ chan[j].result.command = commands[base + (r - 1) + 1]
        /\ chan[j].result.kind = child[r - 1].kind
    BY <2>2 DEF IInv, MessagesFit
  <2>5. base + (r - 1) + 1 = base + r
    BY <1>0
  <2>. QED  BY <2>2, <2>3, <2>4, <2>5
<1>5. more \in Seq(Result) /\ Len(more) = received
  <2>1. more \in [1 .. received -> Result]
    BY <1>4
  <2>. QED  BY <2>1, <1>0
<1>6. results' = results \o more
  BY DEF FinishChunk
<1>. HIDE DEF more, Result
<1>7. /\ results' \in Seq(Result) /\ Len(results') = base + received
      /\ \A i \in 1 .. base : results'[i] = results[i]
      /\ \A i \in 1 .. received : results'[base + i] = more[i]
  <2>1. /\ results \o more \in Seq(Result)
        /\ Len(results \o more) = base + received
        /\ \A i \in 1 .. base : (results \o more)[i] = results[i]
        /\ \A i \in 1 .. received : (results \o more)[base + i] = more[i]
    <3>1. results \in Seq(Result) /\ more \in Seq(Result)
      BY <1>0, <1>5
    <3>2. /\ results \o more \in Seq(Result)
          /\ Len(results \o more) = Len(results) + Len(more)
          /\ \A i \in 1 .. Len(results) : (results \o more)[i] = results[i]
          /\ \A i \in 1 .. Len(more) : (results \o more)[Len(results) + i] = more[i]
      BY <3>1, ConcatElements
    <3>3. Len(results) = base /\ Len(more) = received
      BY <1>0, <1>5
    <3>. QED  BY <3>2, <3>3
  <2>. QED  BY <2>1, <1>6
<1>8. received = spawned
  BY <1>0
<1>. QED  BY <1>0, <1>4, <1>7, <1>8 DEF Result

(* It keeps the invariant: no thread and no message is left.                  *)
LEMMA FinishChunkStep ==
    ASSUME IInv, FinishChunk
    PROVE  IInv'
<1>1. TypeOK'
  <2>1. base' \in 0 .. Len(commands)
    BY ChunkResults DEF FinishChunk, IInv, TypeOK
  <2>2. child' \in [Seqs -> [at : Phases, command : Command \cup {"none"},
                             kind : Kind \cup {"none"}]]
    BY DEF FinishChunk, Idle, Phases
  <2>3. results' \in Seq([command : Command, kind : Kind])
    BY ChunkResults
  <2>4. /\ main' = "chunks" /\ commands' = commands /\ chan' = <<>>
        /\ spawned' = 0 /\ received' = 0 /\ joined' = 0
        /\ events' = events /\ listener' = listener
    BY DEF FinishChunk, progressVars
  <2>. QED  BY <2>1, <2>2, <2>3, <2>4, MaxParallelAssumption DEF IInv, TypeOK
<1>2. Quiet'
  BY DEF FinishChunk, Quiet
<1>3. ChunkFits' /\ ChildrenFit'
  BY ChunkResults, MaxParallelAssumption DEF FinishChunk, ChunkFits, ChildrenFit, Idle, Seqs
<1>4. Aligned'
  <2>1. spawned = MaxParallel \/ spawned = Len(commands) - base
    BY DEF FinishChunk, IInv, ChunkFits, ChunkLen, Smaller
  <2>2. base' = base + spawned /\ commands' = commands
    BY DEF FinishChunk
  <2>3. CASE spawned = Len(commands) - base
    BY <2>2, <2>3, ChunkResults DEF IInv, TypeOK, Aligned
  <2>4. CASE base = Len(commands)
    <3>1. spawned = 0
      BY <2>4, ChunkResults
    <3>. QED  BY <2>2, <2>4, <3>1, ChunkResults DEF Aligned
  <2>5. ASSUME NEW q \in Nat, base = q * MaxParallel, spawned = MaxParallel
        PROVE  base' = (q + 1) * MaxParallel
    BY <2>2, <2>5, MaxParallelAssumption
  <2>. QED  BY <2>1, <2>3, <2>4, <2>5 DEF IInv, Aligned
<1>5. MessagesFit' /\ OneMessageEach' /\ AllTaken'
  BY DEF FinishChunk, MessagesFit, OneMessageEach, AllTaken
<1>6. Prefix'
  <2>1. base' = base + spawned /\ main' = "chunks" /\ commands' = commands
    BY DEF FinishChunk
  <2>2. ASSUME NEW i \in 1 .. base + spawned
        PROVE  results'[i].command = commands[i]
    <3>1. CASE i \in 1 .. base
      BY <3>1, ChunkResults DEF IInv, Prefix
    <3>2. CASE i \notin 1 .. base
      <4>1. i - base \in 1 .. spawned /\ i = base + (i - base)
        BY <3>2, ChunkResults
      <4>. QED  BY <4>1, ChunkResults
    <3>. QED  BY <3>1, <3>2
  <2>. QED  BY <2>1, <2>2, ChunkResults DEF Prefix
<1>. QED  BY <1>1, <1>2, <1>3, <1>4, <1>5, <1>6 DEF IInv

-------------------------------------------------------------------------------
(* The steps of a thread.                                                     *)

(* A step of thread s to its next phase, or a panic of it, keeps the type and *)
(* the fit of the threads.                                                    *)
LEMMA GotoFits ==
    ASSUME IInv, NEW s \in Seqs, child[s].at \in Unfinished,
           NEW at \in {"exec", "sent", "done", "panicked"}, Goto(s, at),
           at = "exec" => child[s].at = "start",
           at = "sent" => child[s].at = "send",
           at = "done" => child[s].at = "sent",
           UNCHANGED <<main, commands, base, spawned, joined>>
    PROVE  /\ child' \in [Seqs -> [at : Phases, command : Command \cup {"none"},
                                   kind : Kind \cup {"none"}]]
           /\ s < spawned
           /\ main \notin {"idle", "chunks", "ok"}
           /\ ChildrenFit'
<1>1. main \notin {"idle", "chunks", "ok"}
  BY DEF IInv, Quiet, Idle, Unfinished
<1>2. s < spawned
  BY MaxParallelAssumption DEF IInv, TypeOK, ChildrenFit, Unfinished, Seqs
<1>3. child' \in [Seqs -> [at : Phases, command : Command \cup {"none"},
                           kind : Kind \cup {"none"}]]
  BY DEF IInv, TypeOK, Goto, Phases, Unfinished, Stopped
<1>4. ChildrenFit'
  BY <1>2 DEF IInv, TypeOK, ChildrenFit, Goto, Unfinished
<1>. QED  BY <1>1, <1>2, <1>3, <1>4

(* The progress messages, sent or dropped, change neither the channel nor what*)
(* the caller holds (runner.rs:113-132).                                      *)
LEMMA ProgressStep ==
    ASSUME IInv, NEW s \in Seqs, SendStarted(s) \/ SendFinished(s) \/ ExecPanics(s)
    PROVE  IInv'
<1>1. PICK at \in {"exec", "done", "panicked"} :
          /\ Goto(s, at)
          /\ child[s].at \in Unfinished
          /\ at = "exec" => child[s].at = "start"
          /\ at = "done" => child[s].at = "sent"
          /\ child[s].at = "sent" => at \in {"done", "panicked"}
  BY DEF SendStarted, SendFinished, ExecPanics, Unfinished
<1>2. UNCHANGED <<mainVars, chan>> /\ listener' = listener
  BY DEF SendStarted, SendFinished, ExecPanics, progressVars
<1>3. /\ child' \in [Seqs -> [at : Phases, command : Command \cup {"none"},
                              kind : Kind \cup {"none"}]]
      /\ main \notin {"idle", "chunks", "ok"}
      /\ ChildrenFit'
  BY <1>1, <1>2, GotoFits DEF mainVars, Phases, Unfinished, Stopped
<1>4. events' \in Seq([seq : Seqs, kind : {"Started", "Finished"}])
  <2> DEFINE E == [seq : Seqs, kind : {"Started", "Finished"}]
  <2>1. PICK e \in E : events' = events \/ events' = Append(events, e)
    <3>1. [seq |-> s, kind |-> "Started"] \in E /\ [seq |-> s, kind |-> "Finished"] \in E
      OBVIOUS
    <3>. HIDE DEF E
    <3>. QED  BY <3>1 DEF SendStarted, SendFinished, ExecPanics, Send, progressVars
  <2>2. events \in Seq(E)
    BY DEF IInv, TypeOK
  <2>. HIDE DEF E
  <2>3. events' \in Seq(E)
    BY <2>1, <2>2
  <2>. QED  BY <2>3 DEF E
<1>5. TypeOK'
  BY <1>2, <1>3, <1>4 DEF IInv, TypeOK, mainVars
<1>6. MessagesFit'
  <2> SUFFICES ASSUME NEW i \in DOMAIN chan
               PROVE  /\ child'[chan[i].seq].at \in {"sent", "done", "panicked"}
                      /\ child'[chan[i].seq].kind = child[chan[i].seq].kind
    BY <1>2 DEF IInv, MessagesFit, mainVars
  <2>1. chan[i].seq \in Seqs
    BY MessageTyped DEF IInv, TypeOK
  <2>2. child[chan[i].seq].at \in {"sent", "done", "panicked"}
    BY DEF IInv, MessagesFit
  <2>3. CASE chan[i].seq = s
    BY <2>1, <2>2, <2>3, <1>1 DEF IInv, TypeOK, Goto, Unfinished
  <2>4. CASE chan[i].seq # s
    BY <2>1, <2>2, <2>4, <1>1 DEF IInv, TypeOK, Goto
  <2>. QED  BY <2>3, <2>4
<1>7. Quiet' /\ ChunkFits' /\ Aligned' /\ OneMessageEach' /\ AllTaken' /\ Prefix'
  BY <1>2, <1>3 DEF IInv, Quiet, ChunkFits, ChunkLen, Aligned, OneMessageEach, AllTaken, Prefix, mainVars
<1>. QED  BY <1>3, <1>5, <1>6, <1>7 DEF IInv

(* exec's result is kept by the thread until it is sent (runner.rs:122).      *)
LEMMA ExecReturnsStep ==
    ASSUME IInv, NEW s \in Seqs, NEW k \in Kind, ExecReturns(s, k)
    PROVE  IInv'
<1>1. /\ child[s].at = "exec"
      /\ child' = [child EXCEPT ![s].at = "send", ![s].kind = k]
      /\ UNCHANGED <<main, commands, base, spawned, received, joined, results,
                     chan, events, listener>>
  BY DEF ExecReturns, mainVars, progressVars
<1>2. TypeOK'
  <2>1. child' \in [Seqs -> [at : Phases, command : Command \cup {"none"},
                             kind : Kind \cup {"none"}]]
    BY <1>1 DEF IInv, TypeOK, Phases, Unfinished
  <2>. QED  BY <2>1, <1>1 DEF IInv, TypeOK
<1>3. Quiet'
  BY <1>1 DEF IInv, Quiet, Idle
<1>4. ChildrenFit'
  BY <1>1, MaxParallelAssumption, SMTT(30) DEF IInv, TypeOK, ChildrenFit, Seqs
<1>5. MessagesFit'
  <2> SUFFICES ASSUME NEW i \in DOMAIN chan
               PROVE  /\ child'[chan[i].seq].at \in {"sent", "done", "panicked"}
                      /\ child'[chan[i].seq].kind = child[chan[i].seq].kind
    BY <1>1 DEF IInv, MessagesFit
  <2>1. chan[i].seq \in Seqs
    BY MessageTyped DEF IInv, TypeOK
  <2>2. child[chan[i].seq].at \in {"sent", "done", "panicked"}
    BY DEF IInv, MessagesFit
  <2>. QED  BY <2>1, <2>2, <1>1 DEF IInv, TypeOK
<1>6. ChunkFits' /\ Aligned' /\ OneMessageEach' /\ AllTaken' /\ Prefix'
  BY <1>1 DEF IInv, ChunkFits, ChunkLen, Aligned, OneMessageEach, AllTaken, Prefix
<1>. QED  BY <1>2, <1>3, <1>4, <1>5, <1>6 DEF IInv

(* A thread sends its result once: while it stands before its send no message *)
(* of it is in the channel.                                                   *)
LEMMA SendResultStep ==
    ASSUME IInv, NEW s \in Seqs, SendResult(s)
    PROVE  IInv'
<1> DEFINE m == [seq |-> s, result |->
                    [command |-> child[s].command, kind |-> child[s].kind]]
           n == Len(chan)
<1>0. child[s].at = "send" /\ UNCHANGED <<main, commands, base, spawned, received,
                                          joined, results, events, listener>>
  BY DEF SendResult, mainVars, progressVars
<1>1. PICK at \in {"sent", "panicked"} : Goto(s, at)
  BY DEF SendResult
<1>2. /\ child' \in [Seqs -> [at : Phases, command : Command \cup {"none"},
                              kind : Kind \cup {"none"}]]
      /\ s < spawned
      /\ main \notin {"idle", "chunks", "ok"}
      /\ ChildrenFit'
  BY <1>0, <1>1, GotoFits DEF Phases, Unfinished, Stopped
<1>3. /\ child'[s].at \in {"sent", "panicked"} /\ child'[s].kind = child[s].kind
      /\ \A t \in Seqs \ {s} : child'[t] = child[t]
  BY <1>1 DEF IInv, TypeOK, Goto
<1>4. \A i \in DOMAIN chan : chan[i].seq \in Seqs \ {s}
  <2> SUFFICES ASSUME NEW i \in DOMAIN chan
               PROVE  chan[i].seq \in Seqs \ {s}
    OBVIOUS
  <2>1. chan[i].seq \in Seqs
    BY MessageTyped DEF IInv, TypeOK
  <2>2. child[chan[i].seq].at # "send"
    BY DEF IInv, MessagesFit
  <2>. QED  BY <2>1, <2>2, <1>0
<1>5. /\ m \in Message /\ m.seq = s
      /\ m.result.command = commands[base + s + 1] /\ m.result.kind = child[s].kind
  <2>1. child[s].command = commands[base + s + 1] /\ child[s].kind \in Kind
    BY <1>0, <1>2 DEF IInv, ChildrenFit
  <2>2. base + s + 1 \in 1 .. Len(commands)
    BY <1>2, MaxParallelAssumption DEF IInv, TypeOK, ChunkFits, Seqs
  <2>3. commands[base + s + 1] \in Command
    BY <2>2 DEF IInv, TypeOK
  <2>. QED  BY <2>1, <2>3 DEF Message
<1>6. chan' = chan \/ chan' = Append(chan, m)
  BY DEF SendResult
<1>7. chan \in Seq(Message)
  BY DEF IInv, TypeOK
<1>. HIDE DEF m
<1>8. chan' \in Seq(Message) /\ Len(chan') >= Len(chan)
  BY <1>5, <1>6, <1>7
<1>9. \A i \in DOMAIN chan' : \/ i \in DOMAIN chan /\ chan'[i] = chan[i]
                              \/ i = n + 1 /\ chan'[i] = m
  BY <1>5, <1>6, <1>7
<1>10. TypeOK'
  <2>1. received' \in 0 .. Len(chan')
    BY <1>0, <1>7, <1>8 DEF IInv, TypeOK
  <2>. QED  BY <2>1, <1>0, <1>2, <1>8 DEF IInv, TypeOK
<1>11. MessagesFit'
  <2> SUFFICES ASSUME NEW i \in DOMAIN chan'
               PROVE  /\ chan'[i].seq < spawned
                      /\ child'[chan'[i].seq].at \in {"sent", "done", "panicked"}
                      /\ chan'[i].result.command = commands[base + chan'[i].seq + 1]
                      /\ chan'[i].result.kind = child'[chan'[i].seq].kind
    BY <1>0 DEF MessagesFit
  <2>1. CASE i \in DOMAIN chan /\ chan'[i] = chan[i]
    BY <2>1, <1>3, <1>4 DEF IInv, MessagesFit
  <2>2. CASE chan'[i] = m
    BY <2>2, <1>2, <1>3, <1>5
  <2>. QED  BY <2>1, <2>2, <1>9
<1>12. OneMessageEach'
  <2> SUFFICES ASSUME NEW i \in DOMAIN chan', NEW j \in DOMAIN chan',
                      chan'[i].seq = chan'[j].seq
               PROVE  i = j
    BY DEF OneMessageEach
  <2>1. CASE i \in DOMAIN chan /\ chan'[i] = chan[i]
    <3>1. CASE j \in DOMAIN chan /\ chan'[j] = chan[j]
      BY <2>1, <3>1 DEF IInv, OneMessageEach
    <3>2. CASE j = n + 1 /\ chan'[j] = m
      BY <2>1, <3>2, <1>4, <1>5
    <3>. QED  BY <3>1, <3>2, <1>9
  <2>2. CASE i = n + 1 /\ chan'[i] = m
    <3>1. CASE j \in DOMAIN chan /\ chan'[j] = chan[j]
      BY <2>2, <3>1, <1>4, <1>5
    <3>2. CASE j = n + 1 /\ chan'[j] = m
      BY <2>2, <3>2
    <3>. QED  BY <3>1, <3>2, <1>9
  <2>. QED  BY <2>1, <2>2, <1>9
<1>13. Quiet' /\ ChunkFits' /\ Aligned' /\ AllTaken' /\ Prefix'
  BY <1>0, <1>2 DEF IInv, Quiet, ChunkFits, ChunkLen, Aligned, AllTaken, Prefix
<1>. QED  BY <1>2, <1>10, <1>11, <1>12, <1>13 DEF IInv

(* The end of the progress thread only ends the progress messages.            *)
LEMMA ListenerGoneStep ==
    ASSUME IInv, ListenerGone
    PROVE  IInv'
<1>1. /\ UNCHANGED <<main, commands, base, spawned, child, chan, received, joined, results>>
      /\ events' = <<>> /\ listener' = "gone"
  BY DEF ListenerGone, mainVars
<1>2. TypeOK'
  BY <1>1 DEF IInv, TypeOK
<1>. QED  BY <1>1, <1>2 DEF IInv, Quiet, ChunkFits, ChunkLen, Aligned, ChildrenFit, MessagesFit,
                            OneMessageEach, AllTaken, Prefix

(* The invariant speaks of the variables only.                                *)
LEMMA StutterStep ==
    ASSUME IInv, UNCHANGED vars
    PROVE  IInv'
<1>1. UNCHANGED <<main, commands, base, spawned, child, chan, received, joined,
                  results, events, listener>>
  BY DEF vars, mainVars, progressVars
<1>. QED  BY <1>1 DEF IInv, TypeOK, Quiet, ChunkFits, ChunkLen, Aligned, ChildrenFit, MessagesFit,
                      OneMessageEach, AllTaken, Prefix

-------------------------------------------------------------------------------
(* Every step keeps the invariant.                                            *)
LEMMA NextInvariant == IInv /\ [Next]_vars => IInv'
<1> SUFFICES ASSUME IInv, [Next]_vars PROVE IInv'
  OBVIOUS
<1>1. CASE Main
  <2>1. ASSUME NEW cs \in Inputs, Call(cs) PROVE IInv'
    BY <2>1, CallStep, InputsAssumption
  <2>2. CASE NextChunk \/ SpawnFails \/ CreateDone \/ Recv
                 \/ RecvDisconnected \/ RecvDone \/ Join
    BY <2>2, CallerMoves
  <2>3. CASE Spawn
    BY <2>3, SpawnStep
  <2>4. CASE FinishChunk
    BY <2>4, FinishChunkStep
  <2>. QED  BY <1>1, <2>1, <2>2, <2>3, <2>4 DEF Main
<1>2. ASSUME NEW s \in Seqs, Child(s) PROVE IInv'
  <2>1. CASE SendStarted(s) \/ SendFinished(s) \/ ExecPanics(s)
    BY <2>1, ProgressStep
  <2>2. ASSUME NEW k \in Kind, ExecReturns(s, k) PROVE IInv'
    BY <2>2, ExecReturnsStep
  <2>3. CASE SendResult(s)
    BY <2>3, SendResultStep
  <2>. QED  BY <1>2, <2>1, <2>2, <2>3 DEF Child, Exec
<1>3. CASE ListenerGone
  BY <1>3, ListenerGoneStep
<1>4. CASE Terminated
  BY <1>4, StutterStep DEF Terminated
<1>5. CASE UNCHANGED vars
  BY <1>5, StutterStep
<1>. QED  BY <1>1, <1>2, <1>3, <1>4, <1>5 DEF Next

(* The inductive invariant holds in every state of run().                     *)
LEMMA InvariantHolds == Spec => []IInv
<1>. QED  BY InitInvariant, NextInvariant, PTL DEF Spec

(* In every behaviour of ThreadRunner::run, for every chunk size and every    *)
(* list of commands, the variables keep the types of the code's values.       *)
THEOREM TypeCorrect == Spec => []TypeOK
<1>1. IInv => TypeOK
  BY DEF IInv
<1>. QED  BY <1>1, InvariantHolds, PTL

(* run() returns Ok only with exactly one result per command, in the order of *)
(* the commands, however the threads were scheduled (runner.rs:49).           *)
THEOREM InOrder == Spec => []ResultsInOrder
<1>1. IInv => ResultsInOrder
  BY DEF IInv, TypeOK, Prefix, ResultsInOrder
<1>. QED  BY <1>1, InvariantHolds, PTL

-------------------------------------------------------------------------------
(* ThreadRunner implements RunnerSpec: the runner without threads.            *)

(* Before the first call nothing has been asked of the runner.                *)
LEMMA InitRefines == Init => Abstract!Init
  BY DEF Init, Abstract!Init, Outcome, Status, Reply, Ended

(* The commands of the chunk are those behind base, one for each thread.      *)
LEMMA CommandOfThread ==
    ASSUME IInv, NEW s \in Seqs, s < spawned
    PROVE  /\ base + s + 1 \in DOMAIN commands
           /\ Status[base + s + 1] = ChildStatus(s)
           /\ Reply[base + s + 1] = child[s].kind
<1> DEFINE here == base + s + 1
<1>1. /\ here \in DOMAIN commands /\ ~(here <= base) /\ ~(here > base + spawned)
      /\ here - base - 1 = s
  BY MaxParallelAssumption DEF IInv, TypeOK, ChunkFits, Seqs
<1>. HIDE DEF here
<1>2. Status[here] = ChildStatus(s)
  BY <1>1 DEF Status, ChildStatus
<1>3. Reply[here] = child[s].kind
  BY <1>1 DEF Reply
<1>. QED  BY <1>1, <1>2, <1>3 DEF here

(* A step of one thread moves its command alone.                              *)
LEMMA StatusOfThread ==
    ASSUME IInv, NEW s \in Seqs, s < spawned,
           UNCHANGED <<commands, base, spawned, results>>,
           \A t \in Seqs \ {s} : child'[t] = child[t]
    PROVE  /\ Status' = [Status EXCEPT ![base + s + 1] = ChildStatus(s)']
           /\ Reply' = [Reply EXCEPT ![base + s + 1] = child'[s].kind]
<1> DEFINE here == base + s + 1
<1>1. ASSUME NEW i \in DOMAIN commands, ~(i <= base), ~(i > base + spawned), i # here
      PROVE  i - base - 1 \in Seqs \ {s}
  BY <1>1, MaxParallelAssumption, SMTT(30) DEF IInv, TypeOK, ChunkFits, Seqs
<1>2. /\ here \in DOMAIN commands /\ ~(here <= base) /\ ~(here > base + spawned)
      /\ here - base - 1 = s
  BY MaxParallelAssumption DEF IInv, TypeOK, ChunkFits, Seqs
<1>3. \A t \in Seqs \ {s} : ChildStatus(t)' = ChildStatus(t)
  BY DEF ChildStatus
<1>. HIDE DEF here
<1>4. Status' = [Status EXCEPT ![here] = ChildStatus(s)']
  BY <1>1, <1>2, <1>3 DEF Status
<1>5. Reply' = [Reply EXCEPT ![here] = child'[s].kind]
  BY <1>1, <1>2 DEF Reply
<1>. QED  BY <1>4, <1>5 DEF here

(* The numbers of a chunk that begins at q * M are greater than those of all  *)
(* earlier chunks, and of no other.                                           *)
LEMMA EarlierChunk ==
    ASSUME NEW M \in Nat \ {0}, NEW q \in Nat,
           NEW i \in Nat, q * M < i, i <= q * M + M,
           NEW j \in Nat \ {0}, (j - 1) \div M < (i - 1) \div M
    PROVE  j <= q * M
  OBVIOUS

(* RunnerSpec counts with the Cardinality of its own instance of FiniteSets.  *)
LEMMA SameCardinality == \A S : Abstract!Cardinality(S) = Cardinality(S)
  BY DEF Abstract!Cardinality, Cardinality

(* When a thread starts its command, fewer than MaxParallel commands run, and *)
(* those of all earlier chunks are finished.                                  *)
LEMMA MayBegin ==
    ASSUME IInv, NEW s \in Seqs, s < spawned, child[s].at = "start"
    PROVE  /\ Cardinality(Abstract!Active) < MaxParallel
           /\ \A j \in DOMAIN commands :
                 Abstract!Chunk(j) < Abstract!Chunk(base + s + 1) => Status[j] = "finished"
<1> DEFINE here == base + s + 1
           others == (base + 1 .. base + spawned) \ {here}
<1>1. /\ base \in Nat /\ spawned \in Nat /\ spawned <= MaxParallel /\ MaxParallel \in Nat \ {0}
      /\ base + spawned <= Len(commands) /\ Len(commands) \in Nat
      /\ s \in Nat /\ commands \in Seq(Command)
  BY MaxParallelAssumption DEF IInv, TypeOK, ChunkFits, Seqs
<1>2. Abstract!Active \subseteq others
  <2> SUFFICES ASSUME NEW i \in DOMAIN commands, Status[i] = "active"
               PROVE  i \in others
    BY DEF Abstract!Active, Status
  <2>1. ~(i <= base) /\ ~(i > base + spawned)
    BY DEF Status
  <2>2. i # here
    <3>1. Status[here] = ChildStatus(s)
      BY CommandOfThread
    <3>. QED  BY <3>1 DEF ChildStatus
  <2>. QED  BY <2>1, <2>2, <1>1
<1>3. IsFiniteSet(others) /\ Cardinality(others) = spawned - 1
  <2>1. here \in base + 1 .. base + spawned
    BY <1>1
  <2>2. IsFiniteSet(base + 1 .. base + spawned)
        /\ Cardinality(base + 1 .. base + spawned) = spawned
    <3>1. base + 1 \in Int /\ base + spawned \in Int
      BY <1>1
    <3>2. /\ IsFiniteSet(base + 1 .. base + spawned)
          /\ Cardinality(base + 1 .. base + spawned) =
                IF base + 1 > base + spawned THEN 0 ELSE (base + spawned) - (base + 1) + 1
      BY <3>1, FS_Interval
    <3>. QED  BY <3>2, <1>1
  <2>. HIDE DEF here
  <2>. QED  BY <2>1, <2>2, FS_RemoveElement
<1>4. Cardinality(Abstract!Active) < MaxParallel
  <2>. HIDE DEF others
  <2>1. Cardinality(Abstract!Active) <= spawned - 1 /\ Cardinality(Abstract!Active) \in Nat
    <3>1. IsFiniteSet(Abstract!Active) /\ Cardinality(Abstract!Active) <= Cardinality(others)
      BY <1>2, <1>3, FS_Subset
    <3>. QED  BY <3>1, <1>3, FS_CardinalityType
  <2>. QED  BY <2>1, <1>1
<1>5. ASSUME NEW j \in DOMAIN commands, Abstract!Chunk(j) < Abstract!Chunk(here)
      PROVE  Status[j] = "finished"
  <2>1. PICK q \in Nat : base = q * MaxParallel
    BY <1>1 DEF IInv, Aligned
  <2>2. /\ here \in Nat /\ q * MaxParallel < here /\ here <= q * MaxParallel + MaxParallel
        /\ j \in Nat \ {0}
    <3>1. here \in Nat /\ base < here /\ here <= base + MaxParallel /\ j \in Nat \ {0}
      BY <1>1
    <3>. QED  BY <3>1, <2>1
  <2>3. (j - 1) \div MaxParallel < (here - 1) \div MaxParallel
    BY <1>5 DEF Abstract!Chunk
  <2>4. j <= q * MaxParallel
    <3>. HIDE DEF here
    <3>. QED  BY <2>2, <2>3, <1>1, EarlierChunk
  <2>. QED  BY <2>1, <2>4 DEF Status
<1>. QED  BY <1>4, <1>5

(* A step of a thread begins, ends or crashes its command, or is invisible.   *)
LEMMA ChildRefines ==
    ASSUME IInv, NEW s \in Seqs, Child(s)
    PROVE  [Abstract!Next]_(Abstract!vars)
<1> DEFINE here == base + s + 1
           Same == UNCHANGED <<Outcome, commands, IF main = "ok" THEN results ELSE <<>>>>
<1>1. child[s].at \in Unfinished /\ UNCHANGED mainVars
  BY DEF Child, Exec, SendStarted, ExecPanics, ExecReturns, SendResult, SendFinished, Unfinished
<1>2. s < spawned
  BY <1>1, MaxParallelAssumption DEF IInv, TypeOK, ChildrenFit, Unfinished, Seqs
<1>3. Same
  BY <1>1 DEF mainVars, Outcome
<1>4. /\ here \in DOMAIN commands
      /\ Status[here] = ChildStatus(s) /\ Reply[here] = child[s].kind
  BY <1>2, CommandOfThread
<1>5. \A t \in Seqs \ {s} : child'[t] = child[t]
  BY DEF IInv, TypeOK, Child, Exec, SendStarted, ExecPanics, ExecReturns, SendResult,
         SendFinished, Goto
<1>6. /\ Status' = [Status EXCEPT ![here] = ChildStatus(s)']
      /\ Reply' = [Reply EXCEPT ![here] = child'[s].kind]
  BY <1>1, <1>2, <1>5, StatusOfThread DEF mainVars
<1>7. Status = [i \in DOMAIN commands |-> Status[i]] /\ Reply = [i \in DOMAIN commands |-> Reply[i]]
  BY DEF Status, Reply
<1>8. child[s] \in [at : Phases, command : Command \cup {"none"}, kind : Kind \cup {"none"}]
  BY DEF IInv, TypeOK
<1>. HIDE DEF here
<1>9. ASSUME child'[s].kind = child[s].kind
      PROVE  UNCHANGED Reply
  BY <1>1, <1>4, <1>6, <1>7, <1>9 DEF mainVars
<1>14. ASSUME child'[s].kind = child[s].kind, ChildStatus(s)' = ChildStatus(s)
       PROVE  UNCHANGED Abstract!vars
  <2>1. UNCHANGED Status
    BY <1>1, <1>4, <1>6, <1>7, <1>14 DEF mainVars
  <2>. QED  BY <1>3, <1>9, <1>14, <2>1 DEF Abstract!vars
<1>15. ASSUME child'[s].kind = child[s].kind, ChildStatus(s) \in {"pending", "active"},
              ChildStatus(s)' = "crashed"
       PROVE  Abstract!Crash(here)
  <2>1. Status' = [Status EXCEPT ![here] = "crashed"]
    BY <1>6, <1>15
  <2>2. Status[here] \in {"pending", "active"}
    BY <1>4, <1>15
  <2>. QED  BY <1>3, <1>9, <1>15, <2>1, <2>2 DEF Abstract!Crash
<1>10. CASE SendStarted(s)
  <2>1. /\ child[s].at = "start" /\ child[s].kind = "none" /\ child'[s].kind = "none"
        /\ child'[s].at = (IF listener = "gone" THEN "panicked" ELSE "exec")
    BY <1>8, <1>10 DEF IInv, TypeOK, ChildrenFit, SendStarted, Goto
  <2>2. ChildStatus(s) = "pending"
    BY <2>1 DEF ChildStatus
  <2>3. CASE listener = "gone"
    <3>1. ChildStatus(s)' = "crashed"
      BY <2>1, <2>3 DEF ChildStatus
    <3>. QED  BY <1>4, <1>15, <2>1, <2>2, <3>1 DEF Abstract!Next
  <2>4. CASE listener # "gone"
    <3>1. ChildStatus(s)' = "active"
      BY <2>1, <2>4 DEF ChildStatus
    <3>2. /\ Cardinality(Abstract!Active) < MaxParallel
          /\ \A j \in DOMAIN commands :
                Abstract!Chunk(j) < Abstract!Chunk(here) => Status[j] = "finished"
      BY <1>2, <2>1, MayBegin DEF here
    <3>3. Status[here] = "pending" /\ Status' = [Status EXCEPT ![here] = "active"]
      BY <1>4, <1>6, <2>2, <3>1
    <3>4. UNCHANGED Reply
      BY <1>9, <2>1
    <3>5. Abstract!Begin(here)
      BY <1>3, <3>2, <3>3, <3>4, SameCardinality DEF Abstract!Begin
    <3>. QED  BY <1>4, <3>5 DEF Abstract!Next
  <2>. QED  BY <2>3, <2>4
<1>11. CASE ExecPanics(s)
  <2>1. /\ child[s].at = "exec" /\ child[s].kind = "none" /\ child'[s].kind = "none"
        /\ child'[s].at = "panicked"
    BY <1>8, <1>11 DEF IInv, TypeOK, ChildrenFit, ExecPanics, Goto
  <2>2. ChildStatus(s) = "active" /\ ChildStatus(s)' = "crashed"
    BY <2>1 DEF ChildStatus
  <2>. QED  BY <1>4, <1>15, <2>1, <2>2 DEF Abstract!Next
<1>12. ASSUME NEW k \in Kind, ExecReturns(s, k) PROVE [Abstract!Next]_(Abstract!vars)
  <2>1. child[s].at = "exec" /\ child'[s].at = "send" /\ child'[s].kind = k
    BY <1>8, <1>12 DEF IInv, TypeOK, ExecReturns
  <2>2. ChildStatus(s) = "active" /\ ChildStatus(s)' = "finished"
    BY <2>1 DEF ChildStatus
  <2>3. Abstract!End(here, k)
    BY <1>3, <1>4, <1>6, <2>1, <2>2 DEF Abstract!End
  <2>. QED  BY <1>4, <2>3 DEF Abstract!Next
<1>13. CASE SendResult(s) \/ SendFinished(s)
  <2>1. /\ child[s].at \in {"send", "sent"} /\ child'[s].at \in {"sent", "done", "panicked"}
        /\ child[s].kind \in Kind /\ child'[s].kind = child[s].kind
    BY <1>8, <1>13 DEF IInv, TypeOK, ChildrenFit, SendResult, SendFinished, Goto
  <2>2. ChildStatus(s) = "finished" /\ ChildStatus(s)' = "finished"
    BY <2>1, NamesAssumption DEF ChildStatus
  <2>. QED  BY <1>14, <2>1, <2>2
<1>. QED  BY <1>10, <1>11, <1>12, <1>13 DEF Child, Exec

(* A call of run() is a call of RunnerSpec: all commands pending.             *)
LEMMA CallRefines ==
    ASSUME IInv, NEW cs \in Inputs, Call(cs)
    PROVE  Abstract!Call(cs)
<1>1. /\ main \in {"idle", "ok"} /\ main' = "chunks" /\ commands' = cs
      /\ base' = 0 /\ spawned' = 0 /\ cs \in Seq(Command)
  BY InputsAssumption DEF Call
<1>2. Outcome \in {"idle", "ok"} /\ Outcome' = "running"
  BY <1>1 DEF Outcome, Ended
<1>3. \A i \in DOMAIN cs : ~(i <= base') /\ i > base' + spawned'
  BY <1>1
<1>4. Status' = [i \in DOMAIN cs |-> "pending"] /\ Reply' = [i \in DOMAIN cs |-> "none"]
  BY <1>1, <1>3 DEF Status, Reply
<1>. QED  BY <1>1, <1>2, <1>4 DEF Abstract!Call, Abstract!Unanswered

(* When no chunk is left run() returns, and no command is unfinished; with    *)
(* chunks of no command it panics.                                            *)
LEMMA NextChunkRefines ==
    ASSUME IInv, NextChunk
    PROVE  [Abstract!Next]_(Abstract!vars)
<1>1. /\ main = "chunks" /\ UNCHANGED <<commands, base, spawned, results, child>>
      /\ Outcome = "running"
  BY DEF NextChunk, Outcome, Ended
<1>2. UNCHANGED <<Status, Reply>>
  BY <1>1 DEF Status, Reply, ChildStatus
<1>3. CASE main' = "panic"
  BY <1>1, <1>2, <1>3 DEF Abstract!Next, Abstract!GiveUp, Outcome, Ended
<1>4. CASE main' = "create"
  BY <1>1, <1>2, <1>4 DEF Abstract!vars, Outcome, Ended
<1>5. CASE main' = "ok" /\ base = Len(commands)
  <2>1. /\ commands \in Seq(Command) /\ results \in Seq([command : Command, kind : Kind])
        /\ Len(results) = Len(commands)
        /\ \A i \in DOMAIN commands : results[i].command = commands[i]
    BY <1>5 DEF IInv, TypeOK, Prefix
  <2>2. \A i \in DOMAIN commands : i <= base
    BY <1>5, <2>1
  <2>3. \A i \in DOMAIN commands : Status[i] = "finished" /\ Reply[i] = results[i].kind
    BY <2>2 DEF Status, Reply
  <2>4. results = [i \in DOMAIN commands |-> [command |-> commands[i], kind |-> Reply[i]]]
    <3>1. /\ DOMAIN results = DOMAIN commands
          /\ results = [i \in DOMAIN results |-> results[i]]
      BY <2>1
    <3>2. ASSUME NEW i \in DOMAIN commands
          PROVE  results[i] = [command |-> commands[i], kind |-> Reply[i]]
      <4>1. i \in DOMAIN results
        BY <3>1
      <4>2. results[i] \in [command : Command, kind : Kind]
        BY <4>1, <2>1, ElementTyped
      <4>. QED  BY <4>2, <2>1, <2>3
    <3>. QED  BY <3>1, <3>2
  <2>5. Outcome' = "ok"
    BY <1>5 DEF Outcome, Ended
  <2>. QED  BY <1>1, <1>2, <1>5, <2>3, <2>4, <2>5 DEF Abstract!Next, Abstract!Return
<1>. QED  BY <1>3, <1>4, <1>5 DEF NextChunk

(* A new thread has not begun its command.                                    *)
LEMMA SpawnRefines ==
    ASSUME IInv, Spawn
    PROVE  UNCHANGED Abstract!vars
<1>1. /\ main' = main /\ UNCHANGED <<commands, base, results>>
      /\ spawned' = spawned + 1 /\ base \in Nat /\ spawned \in Seqs
      /\ child'[spawned] = [at |-> "start", command |-> commands[base + spawned + 1],
                            kind |-> "none"]
      /\ \A t \in Seqs \ {spawned} : child'[t] = child[t]
  BY MaxParallelAssumption DEF Spawn, IInv, TypeOK, ChunkLen, Smaller, Seqs
<1>2. ASSUME NEW i \in DOMAIN commands, ~(i <= base)
      PROVE  Status'[i] = Status[i] /\ Reply'[i] = Reply[i]
  <2>1. CASE i > base + spawned + 1
    <3>1. i > base + spawned /\ i > base + spawned'
      BY <1>1, <2>1, MaxParallelAssumption DEF Seqs, IInv, TypeOK
    <3>. QED  BY <1>1, <1>2, <3>1 DEF Status, Reply
  <2>2. CASE i = base + spawned + 1
    <3>1. i > base + spawned /\ ~(i > base + spawned') /\ i - base - 1 = spawned
      BY <1>1, <2>2, MaxParallelAssumption DEF Seqs
    <3>. QED  BY <1>1, <1>2, <3>1 DEF Status, Reply, ChildStatus
  <2>3. CASE i <= base + spawned
    <3>1. ~(i > base + spawned) /\ ~(i > base + spawned') /\ i - base - 1 \in Seqs \ {spawned}
      BY <1>1, <1>2, <2>3, MaxParallelAssumption, SMTT(30) DEF Seqs, IInv, TypeOK
    <3>. QED  BY <1>1, <1>2, <3>1 DEF Status, Reply, ChildStatus
  <2>. QED  BY <1>1, <2>1, <2>2, <2>3, MaxParallelAssumption DEF Seqs, IInv, TypeOK
<1>3. ASSUME NEW i \in DOMAIN commands, i <= base
      PROVE  Status'[i] = Status[i] /\ Reply'[i] = Reply[i]
  BY <1>1, <1>3 DEF Status, Reply
<1>4. /\ Status = [i \in DOMAIN commands |-> Status[i]]
      /\ Status' = [i \in DOMAIN commands |-> Status'[i]]
      /\ Reply = [i \in DOMAIN commands |-> Reply[i]]
      /\ Reply' = [i \in DOMAIN commands |-> Reply'[i]]
  BY <1>1 DEF Status, Reply
<1>5. UNCHANGED <<Status, Reply>>
  BY <1>2, <1>3, <1>4
<1>. QED  BY <1>1, <1>5 DEF Abstract!vars, Outcome

(* At the end of a chunk all of its commands are finished, and what their     *)
(* threads had is what the results have now.                                  *)
LEMMA FinishChunkRefines ==
    ASSUME IInv, FinishChunk
    PROVE  UNCHANGED Abstract!vars
<1>1. /\ main = "join" /\ main' = "chunks" /\ commands' = commands
      /\ base' = base + spawned /\ spawned' = 0 /\ joined = spawned
  BY DEF FinishChunk
<1>2. ASSUME NEW i \in DOMAIN commands, i <= base
      PROVE  Status'[i] = Status[i] /\ Reply'[i] = Reply[i]
  <2>1. i <= base' /\ i \in 1 .. base
    BY <1>1, <1>2, ChunkResults DEF IInv, TypeOK
  <2>. QED  BY <1>1, <1>2, <2>1, ChunkResults DEF Status, Reply
<1>3. ASSUME NEW i \in DOMAIN commands, ~(i <= base), ~(i > base + spawned)
      PROVE  Status'[i] = Status[i] /\ Reply'[i] = Reply[i]
  <2> DEFINE s == i - base - 1
  <2>1. /\ i <= base' /\ s \in Seqs /\ s < joined
    BY <1>1, <1>3, ChunkResults, MaxParallelAssumption, SMTT(30) DEF IInv, TypeOK, ChunkFits, Seqs
  <2>. HIDE DEF s
  <2>2. child[s].at = "done"
    BY <2>1 DEF IInv, ChildrenFit
  <2>3. results'[i].kind = child[s].kind
    <3>1. PICK k \in 1 .. spawned : i = base + k /\ k - 1 = s
      <4>1. i - base \in 1 .. spawned /\ i = base + (i - base) /\ (i - base) - 1 = s
        BY <1>3, ChunkResults DEF s, IInv, TypeOK
      <4>. QED  BY <4>1
    <3>2. results'[base + k].kind = child[k - 1].kind
      BY ChunkResults
    <3>. QED  BY <3>1, <3>2
  <2>4. ChildStatus(s) = "finished"
    BY <2>2 DEF ChildStatus
  <2>5. Status[i] = ChildStatus(s) /\ Reply[i] = child[s].kind
    BY <1>3 DEF Status, Reply, ChildStatus, s
  <2>6. Status'[i] = "finished" /\ Reply'[i] = results'[i].kind
    BY <1>1, <2>1 DEF Status, Reply
  <2>. QED  BY <2>3, <2>4, <2>5, <2>6
<1>4. ASSUME NEW i \in DOMAIN commands, i > base + spawned
      PROVE  Status'[i] = Status[i] /\ Reply'[i] = Reply[i]
  <2>1. ~(i <= base) /\ ~(i <= base') /\ i > base' + spawned'
    BY <1>1, <1>4, ChunkResults DEF IInv, TypeOK
  <2>. QED  BY <1>1, <1>4, <2>1 DEF Status, Reply
<1>5. /\ Status = [i \in DOMAIN commands |-> Status[i]]
      /\ Status' = [i \in DOMAIN commands |-> Status'[i]]
      /\ Reply = [i \in DOMAIN commands |-> Reply[i]]
      /\ Reply' = [i \in DOMAIN commands |-> Reply'[i]]
  BY <1>1 DEF Status, Reply
<1>6. UNCHANGED <<Status, Reply>>
  BY <1>2, <1>3, <1>4, <1>5
<1>. QED  BY <1>1, <1>6 DEF Abstract!vars, Outcome, Ended

(* Every other step of the caller stays within the call or gives it up.       *)
LEMMA CallerRefines ==
    ASSUME IInv, Main
    PROVE  [Abstract!Next]_(Abstract!vars)
<1>1. ASSUME NEW cs \in Inputs, Call(cs) PROVE Abstract!Next
  BY <1>1, CallRefines DEF Abstract!Next
<1>2. CASE SpawnFails \/ CreateDone \/ Recv \/ RecvDisconnected \/ RecvDone \/ Join
  <2>1. /\ main \in {"create", "recv", "join"}
        /\ main' \in {"create", "recv", "join", "err", "panic"}
        /\ UNCHANGED <<commands, base, spawned, results, child>>
    BY <1>2 DEF SpawnFails, CreateDone, Recv, RecvDisconnected, RecvDone, Join
  <2>2. UNCHANGED <<Status, Reply>>
    BY <2>1 DEF Status, Reply, ChildStatus
  <2>3. CASE main' \in {"err", "panic"}
    BY <2>1, <2>2, <2>3 DEF Abstract!Next, Abstract!GiveUp, Outcome, Ended
  <2>4. CASE main' \in {"create", "recv", "join"}
    BY <2>1, <2>2, <2>4 DEF Abstract!vars, Outcome, Ended
  <2>. QED  BY <2>1, <2>3, <2>4
<1>. QED  BY <1>1, <1>2, NextChunkRefines, SpawnRefines, FinishChunkRefines DEF Main

(* Every step of the caller, of a thread or of the listener is a step of      *)
(* RunnerSpec or invisible there (runner.rs:55-170).                          *)
LEMMA NextRefines == IInv /\ [Next]_vars => [Abstract!Next]_(Abstract!vars)
<1> SUFFICES ASSUME IInv, [Next]_vars PROVE [Abstract!Next]_(Abstract!vars)
  OBVIOUS
<1>1. CASE Main
  BY <1>1, CallerRefines
<1>2. ASSUME NEW s \in Seqs, Child(s) PROVE [Abstract!Next]_(Abstract!vars)
  BY <1>2, ChildRefines
<1>3. CASE ListenerGone \/ Terminated \/ UNCHANGED vars
  <2>1. UNCHANGED <<main, commands, base, spawned, results, child>>
    BY <1>3 DEF ListenerGone, Terminated, vars, mainVars
  <2>. QED  BY <2>1 DEF Abstract!vars, Outcome, Status, Reply, ChildStatus
<1>. QED  BY <1>1, <1>2, <1>3 DEF Next

(* ThreadRunner::run does what the trait Runner promises (runner.rs:19-22,    *)
(* 49), for every list of commands and every chunk size: every step of its    *)
(* threads begins, ends or crashes one command, at most MaxParallel of them   *)
(* run at a time, a chunk only after all earlier ones, and Ok carries what    *)
(* the thread of each command got from exec.                                  *)
THEOREM RunnerImplementsSpec == Spec => ImplementsRunnerSpec
<1>. QED  BY InitRefines, NextRefines, InvariantHolds, PTL
          DEF Spec, ImplementsRunnerSpec, Abstract!Spec

E == INSTANCE CommandExecProofs WITH Thread <- Seqs

-------------------------------------------------------------------------------
(* The inductive invariant of the runner with its processes.                  *)

(* The exec of seq s is under way exactly while its thread is in it.          *)
InStep(s) == child[s].at = "exec" <=> exec[s] # "idle"

PoolInv == IInv /\ E!IInv /\ \A s \in Seqs : InStep(s)

-------------------------------------------------------------------------------
(* CommandExec and CommandExecProofs speak of the same exec.                  *)

(* What the exec of one seq, its process and its clock do.                    *)
ExecStep(s) == X!Begin(s) \/ X!Step(s) \/ X!Leave(s) \/ X!Exit(s) \/ X!Tick(s)

(* At first the invariant of exec holds of every seq.                         *)
LEMMA ExecInit == X!Init => E!IInv
<1>1. X!Init => E!Init
  BY DEF X!Init, E!Init, X!Unset, E!Unset, X!NoResult, E!NoResult
<1>. QED  BY <1>1, E!InitInvariant, PoolTimeoutsAssumption, PoolKillableAssumption
          DEF X!Unset, E!Unset, E!TimeoutsAssumption, E!KillableAssumption

(* A step of an exec in the pool is a step that CommandExecProofs speaks of   *)
(* (command.rs:185-298).                                                      *)
LEMMA SameStep == ASSUME NEW s \in Seqs PROVE ExecStep(s) <=> E!StepOf(s)
<1>1. X!Limit(s) = E!Limit(s)
  BY DEF X!Limit, E!Limit, X!Unset, E!Unset, X!DefaultTimeout, E!DefaultTimeout
<1>2. X!Begin(s) <=> E!Begin(s)
  BY DEF X!Begin, E!Begin, X!NoResult, E!NoResult
<1>3. X!Leave(s) <=> E!Leave(s)
  BY DEF X!Leave, E!Leave
<1>4. X!Exit(s) <=> E!Exit(s)
  BY DEF X!Exit, E!Exit
<1>5. X!Tick(s) <=> E!Tick(s)
  BY <1>1 DEF X!Tick, E!Tick
<1>6. X!Step(s) <=> E!Step(s)
  <2>1. X!NotStarted(s) <=> E!NotStarted(s)
    BY DEF X!NotStarted, E!NotStarted, X!Return, E!Return
  <2>2. X!Create(s) <=> E!Create(s)
    BY DEF X!Create, E!Create
  <2>3. X!Poll(s) <=> E!Poll(s)
    BY DEF X!Poll, E!Poll
  <2>4. X!CheckDeadline(s) <=> E!CheckDeadline(s)
    BY <1>1 DEF X!CheckDeadline, E!CheckDeadline
  <2>5. X!WaitFails(s) <=> E!WaitFails(s)
    BY DEF X!WaitFails, E!WaitFails
  <2>6. X!Kill(s) <=> E!Kill(s)
    BY DEF X!Kill, E!Kill
  <2>7. X!Reap(s) <=> E!Reap(s)
    BY DEF X!Reap, E!Reap
  <2>8. X!ReadOutput(s) <=> E!ReadOutput(s)
    BY DEF X!ReadOutput, E!ReadOutput, X!Return, E!Return
  <2>. QED  BY <2>1, <2>2, <2>3, <2>4, <2>5, <2>6, <2>7, <2>8 DEF X!Step, E!Step
<1>. QED  BY <1>2, <1>3, <1>4, <1>5, <1>6 DEF ExecStep, E!StepOf

(* Whatever one exec does keeps its invariant, and that of the others.        *)
LEMMA ExecKeeps ==
    ASSUME E!IInv, UNCHANGED execVars \/ \E s \in Seqs : ExecStep(s)
    PROVE  E!IInv'
<1>1. [E!Next]_(E!execVars)
  BY SameStep DEF E!Next, E!StepOf, execVars, E!execVars
<1>. QED  BY <1>1, E!NextInvariant, PoolTimeoutsAssumption, PoolKillableAssumption
          DEF X!Unset, E!Unset, E!TimeoutsAssumption, E!KillableAssumption

-------------------------------------------------------------------------------
(* The pool does what ThreadRunner says.                                      *)

(* A step of a thread is one of ThreadRunner; what exec gives it back is one  *)
(* of the kinds of results (command.rs:185-298).                              *)
LEMMA ChildOfRunner ==
    ASSUME PoolInv, NEW s \in Seqs, PoolChild(s)
    PROVE  Child(s) \/ UNCHANGED vars
<1>1. CASE StartExec(s)
  BY <1>1 DEF StartExec, Child
<1>2. CASE DuringExec(s)
  BY <1>2 DEF DuringExec
<1>3. CASE EndExec(s)
  <2>1. exec[s] = "returned" /\ ExecReturns(s, result[s])
    BY <1>3 DEF EndExec, X!Leave
  <2>2. result[s] \in E!Kinds
    BY <2>1 DEF PoolInv, E!IInv, E!ThreadInv, E!Settled
  <2>3. result[s] \in Kind
    BY <2>2, PoolKindAssumption DEF E!Kinds, X!Kinds
  <2>. QED  BY <2>1, <2>3 DEF Child, Exec
<1>4. CASE SendResult(s) \/ SendFinished(s)
  BY <1>4 DEF Child
<1>. QED  BY <1>1, <1>2, <1>3, <1>4 DEF PoolChild

(* A step of the pool is one of the runner, or changes nothing there          *)
(* (runner.rs:89-132).                                                        *)
LEMMA StepOfRunner == PoolInv /\ [PoolNext]_poolVars => [Next]_vars
<1> SUFFICES ASSUME PoolInv, [PoolNext]_poolVars PROVE [Next]_vars
  OBVIOUS
<1>1. CASE PoolMain
  BY <1>1 DEF PoolMain, Next
<1>2. ASSUME NEW s \in Seqs, PoolChild(s) PROVE [Next]_vars
  BY <1>2, ChildOfRunner DEF Next
<1>3. CASE Environment
  BY <1>3 DEF Environment, Next
<1>4. CASE UNCHANGED poolVars
  BY <1>4 DEF poolVars
<1>. QED  BY <1>1, <1>2, <1>3, <1>4 DEF PoolNext

-------------------------------------------------------------------------------
(* The invariant is inductive.                                                *)

(* It holds before run() is called.                                           *)
LEMMA PoolInitInvariant == PoolInit => PoolInv
<1> SUFFICES ASSUME PoolInit PROVE PoolInv
  OBVIOUS
<1>1. IInv /\ E!IInv
  BY InitInvariant, ExecInit DEF PoolInit
<1>2. ASSUME NEW s \in Seqs PROVE InStep(s)
  BY DEF PoolInit, Init, X!Init, Idle, InStep
<1>. QED  BY <1>1, <1>2 DEF PoolInv

(* The caller creates a thread that has not come to exec, and clears away     *)
(* threads that have all left it.                                             *)
LEMMA MainKeepsStep ==
    ASSUME PoolInv, PoolMain, NEW t \in Seqs
    PROVE  InStep(t)'
<1>1. Main /\ exec' = exec /\ InStep(t) /\ IInv
  BY DEF PoolMain, PoolInv, execVars
<1>2. CASE Spawn
  <2>1. /\ child \in [Seqs -> [at : Phases, command : Command \cup {"none"},
                               kind : Kind \cup {"none"}]]
        /\ t = spawned => child[t].at = "none"
    BY <1>1, MaxParallelAssumption DEF IInv, TypeOK, ChildrenFit, Seqs
  <2>. QED  BY <1>1, <1>2, <2>1 DEF Spawn, InStep
<1>3. CASE FinishChunk
  <2>1. child[t].at # "exec"
    <3>1. joined = spawned /\ spawned \in Nat
      BY <1>1, <1>3 DEF FinishChunk, IInv, TypeOK
    <3>2. t < joined \/ t >= spawned
      BY <3>1, MaxParallelAssumption DEF Seqs
    <3>. QED  BY <1>1, <3>2 DEF IInv, ChildrenFit
  <2>2. child'[t].at = "none"
    BY <1>3 DEF FinishChunk, Idle
  <2>. QED  BY <1>1, <2>1, <2>2 DEF InStep
<1>4. CASE child' = child
  BY <1>1, <1>4 DEF InStep
<1>. QED  BY <1>1, <1>2, <1>3, <1>4
          DEF Main, Call, NextChunk, SpawnFails, CreateDone, Recv, RecvDisconnected, RecvDone,
              Join

(* A thread begins its exec when it comes to it, and is in it until it ends.  *)
LEMMA ChildKeepsStep ==
    ASSUME PoolInv, NEW s \in Seqs, PoolChild(s), NEW t \in Seqs
    PROVE  InStep(t)'
<1>1. /\ InStep(s) /\ InStep(t)
      /\ child \in [Seqs -> [at : Phases, command : Command \cup {"none"},
                             kind : Kind \cup {"none"}]]
      /\ exec \in [Seqs -> {"idle", "prepare", "waiting", "polled", "kill", "reap",
                            "read", "returned"}]
  BY DEF PoolInv, IInv, TypeOK, E!IInv, E!TypeOK
<1>2. CASE StartExec(s)
  BY <1>1, <1>2 DEF StartExec, SendStarted, Goto, X!Begin, execVars, InStep
<1>3. CASE DuringExec(s)
  BY <1>1, <1>3 DEF DuringExec, vars, InStep, X!Step, X!NotStarted, X!Create, X!Poll,
                    X!CheckDeadline, X!WaitFails, X!Kill, X!Reap, X!ReadOutput, X!Return
<1>4. CASE EndExec(s)
  BY <1>1, <1>4 DEF EndExec, ExecReturns, X!Leave, InStep
<1>5. CASE (SendResult(s) \/ SendFinished(s)) /\ UNCHANGED execVars
  BY <1>1, <1>5 DEF SendResult, SendFinished, Goto, execVars, InStep
<1>. QED  BY <1>2, <1>3, <1>4, <1>5 DEF PoolChild

(* Every step of the caller, of a thread, of a process or of the clock keeps it.*)
LEMMA PoolNextInvariant == PoolInv /\ [PoolNext]_poolVars => PoolInv'
<1> SUFFICES ASSUME PoolInv, [PoolNext]_poolVars PROVE PoolInv'
  OBVIOUS
<1>1. IInv'
  BY StepOfRunner, NextInvariant DEF PoolInv
<1>2. UNCHANGED execVars \/ \E s \in Seqs : ExecStep(s)
  BY DEF PoolNext, PoolMain, PoolChild, StartExec, DuringExec, EndExec, Environment, ExecStep,
         poolVars
<1>3. E!IInv'
  BY <1>2, ExecKeeps DEF PoolInv
<1>4. ASSUME NEW t \in Seqs PROVE InStep(t)'
  <2>1. ASSUME NEW s \in Seqs, X!Exit(s) \/ X!Tick(s), UNCHANGED vars PROVE InStep(t)'
    BY <2>1 DEF X!Exit, X!Tick, vars, InStep, PoolInv
  <2>2. CASE ((ListenerGone \/ Terminated) /\ UNCHANGED execVars) \/ UNCHANGED poolVars
    BY <2>2 DEF ListenerGone, Terminated, vars, execVars, poolVars, InStep, PoolInv
  <2>. QED  BY <2>1, <2>2, MainKeepsStep, ChildKeepsStep DEF PoolNext, Environment
<1>. QED  BY <1>1, <1>3, <1>4 DEF PoolInv

(* It holds in every state of the pool.                                       *)
LEMMA PoolInvariantHolds == PoolSpec => []PoolInv
<1>. QED  BY PoolInitInvariant, PoolNextInvariant, PTL DEF PoolSpec

-------------------------------------------------------------------------------
(* With the processes of Command::exec in it, the runner shows no behaviour   *)
(* that ThreadRunner, where exec is a single step, does not have              *)
(* (runner.rs:105-132 with command.rs:185-298).                               *)
THEOREM PoolImplementsRunner == PoolSpec => Spec
<1>1. PoolInit => Init
  BY DEF PoolInit
<1>. QED  BY <1>1, StepOfRunner, PoolInvariantHolds, PTL DEF PoolSpec, Spec

(* And so run() keeps what the trait Runner promises while commands hang, are *)
(* killed at their deadline, and end in that very moment (runner.rs:19-22).   *)
THEOREM PoolImplementsRunnerSpec == PoolSpec => ImplementsRunnerSpec
<1>. QED  BY PoolImplementsRunner, RunnerImplementsSpec, PTL

(* Whenever run() begins a chunk or returns Ok, no process of an earlier one  *)
(* is left, neither running nor as a zombie (runner.rs:60-66,                 *)
(* command.rs:218-272).                                                       *)
THEOREM ChunksDoNotOverlap == PoolSpec => []NoProcessBetweenChunks
<1>1. PoolInv => NoProcessBetweenChunks
  <2> SUFFICES ASSUME PoolInv, main \in {"chunks", "ok"}, NEW s \in Seqs
               PROVE  proc[s] \in {"none", "reaped"}
    BY DEF NoProcessBetweenChunks
  <2>1. exec[s] = "idle"
    BY DEF PoolInv, IInv, Quiet, Idle, InStep
  <2>. QED  BY <2>1 DEF PoolInv, E!IInv, E!ThreadInv, E!Settled
<1>. QED  BY <1>1, PoolInvariantHolds, PTL


-------------------------------------------------------------------------------
(* From names to commands.                                                    *)

(* A configuration as RunAssumption has it.                                   *)
Readable(conf) ==
    /\ IsVector(conf.commands) /\ IsVector(conf.hostinfo)
    /\ IsVector(conf.profiles)
    /\ \A p \in ToSet(conf.profiles) : IsVector(p.commands)
    /\ \A c, d \in ToSet(conf.commands) :
          c.command \in Command /\ (c.command = d.command => c.name = d.name)

(* How many commands of cs have the name n.                                   *)
CountNamed(cs, n) == Cardinality({i \in DOMAIN cs : cs[i].name = n})

(* The map has a command for every name of the configuration.                 *)
LEMMA CommandOfName ==
    ASSUME NEW conf, IsVector(conf.commands), NEW n \in Names(conf)
    PROVE  CommandOf(conf, n) \in ToSet(conf.commands) /\ CommandOf(conf, n).name = n
<1> DEFINE q == conf.commands
           S == {i \in DOMAIN q : q[i].name = n}
<1>1. Len(q) \in Nat /\ DOMAIN q = 1 .. Len(q)
  BY DEF IsVector
<1>2. S \in SUBSET (1 .. Len(q)) /\ S # {}
  BY <1>1 DEF Names, ToSet
<1>3. PICK x \in S : \A j \in S : j <= x
  BY <1>1, <1>2, FirstAndLast
<1>4. /\ x \in DOMAIN q /\ q[x].name = n
      /\ \A j \in DOMAIN q : q[j].name = n => j <= x
  BY <1>3
<1>. QED  BY <1>4 DEF CommandOf, ToSet

(* A profile that exists is found.                                            *)
LEMMA ProfileOfName ==
    ASSUME NEW conf, IsVector(conf.profiles), NEW n, HasProfile(conf, n)
    PROVE  Profile(conf, n) \in ToSet(conf.profiles) /\ Profile(conf, n).name = n
<1> DEFINE q == conf.profiles
           S == {i \in DOMAIN q : q[i].name = n}
<1>1. Len(q) \in Nat /\ DOMAIN q = 1 .. Len(q)
  BY DEF IsVector
<1>2. S \in SUBSET (1 .. Len(q)) /\ S # {}
  BY <1>1 DEF HasProfile, ToSet
<1>3. PICK x \in S : \A j \in S : x <= j
  BY <1>1, <1>2, FirstAndLast
<1>4. /\ x \in DOMAIN q /\ q[x].name = n
      /\ \A j \in DOMAIN q : q[j].name = n => x <= j
  BY <1>3
<1>. QED  BY <1>4 DEF Profile, ToSet

(* Names that are all known give one command each, however often they are     *)
(* listed (config.rs:168-176).                                                *)
LEMMA NamesToCommands ==
    ASSUME NEW conf, IsVector(conf.commands),
           NEW names, IsVector(names), ToSet(names) \subseteq Names(conf)
    PROVE  /\ CommandNamesToCommands(conf, names) \in Seq(ToSet(conf.commands))
           /\ \A n : CountNamed(CommandNamesToCommands(conf, names), n)
                        = IF n \in ToSet(names) THEN 1 ELSE 0
           /\ ToSet(CommandNamesToCommands(conf, names)) = {CommandOf(conf, n) : n \in ToSet(names)}
<1> DEFINE T == ToSet(names)
           S == TakenAt(conf, names)
           taken == Pick(names, S)
           cs == CommandNamesToCommands(conf, names)
<1>1. names \in Seq(T) /\ Len(names) \in Nat /\ DOMAIN names = 1 .. Len(names)
  BY DEF IsVector, ToSet
<1>2. S \in SUBSET (1 .. Len(names))
  BY <1>1 DEF TakenAt
<1>3. taken \in Seq(T)
  <2>. HIDE DEF T, S
  <2>. QED  BY <1>1, <1>2, PickTyped
<1>4. Len(taken) \in Nat /\ DOMAIN taken = 1 .. Len(taken) /\ \A i \in DOMAIN taken : taken[i] \in Names(conf)
  BY <1>3
<1>5. cs = [i \in DOMAIN taken |-> CommandOf(conf, taken[i])]
  BY DEF CommandNamesToCommands
<1>. HIDE DEF cs, taken
<1>6. \A i \in DOMAIN taken : /\ cs[i] \in ToSet(conf.commands)
                              /\ cs[i].name = taken[i]
  BY <1>4, <1>5, CommandOfName
<1>7. cs \in Seq(ToSet(conf.commands)) /\ DOMAIN cs = DOMAIN taken
  BY <1>4, <1>5, <1>6
<1>8. ASSUME NEW n
      PROVE  Cardinality({i \in DOMAIN cs : cs[i].name = n}) = IF n \in T THEN 1 ELSE 0
  <2> DEFINE At == {i \in S : names[i] \in {n}}
  <2>1. {i \in DOMAIN cs : cs[i].name = n} = {i \in DOMAIN taken : taken[i] \in {n}}
    BY <1>6, <1>7
  <2>2. Cardinality({i \in DOMAIN taken : taken[i] \in {n}}) = Cardinality(At)
    <3> DEFINE W == {n}
    <3>1. CountAt(taken, DOMAIN taken, W) = CountAt(names, S, W)
      <4>. HIDE DEF T, S, W
      <4>. QED  BY <1>1, <1>2, PickCounts DEF taken
    <3>. QED  BY <3>1 DEF CountAt
  <2>3. CASE n \notin T
    <3>1. At = {}
      BY <1>1, <1>2, <2>3 DEF ToSet
    <3>. QED  BY <2>1, <2>2, <2>3, <3>1, FS_EmptySet
  <2>4. CASE n \in T
    <3> DEFINE Of == {i \in DOMAIN names : names[i] = n}
    <3>1. Of \in SUBSET (1 .. Len(names)) /\ Of # {}
      BY <1>1, <2>4 DEF ToSet
    <3>2. PICK x \in Of : \A j \in Of : x <= j
      <4>. HIDE DEF Of
      <4>. QED  BY <1>1, <3>1, FirstAndLast
    <3>3. At = {x}
      <4>1. x \in 1 .. Len(names) /\ names[x] = n /\ n \in Names(conf)
        BY <1>1, <2>4, <3>2
      <4>2. \A j \in 1 .. x - 1 : names[j] # names[x]
        <5> SUFFICES ASSUME NEW j \in 1 .. x - 1, names[j] = n PROVE FALSE
          BY <4>1
        <5>1. j \in 1 .. Len(names) /\ j < x
          BY <1>1, <4>1
        <5>2. j \in Of
          BY <5>1, <1>1
        <5>. QED  BY <5>1, <5>2, <3>2, <4>1
      <4>3. x \in At
        BY <1>1, <4>1, <4>2 DEF TakenAt
      <4>4. ASSUME NEW i \in At PROVE i = x
        <5>1. i \in 1 .. Len(names) /\ names[i] = n /\ \A j \in 1 .. i - 1 : names[j] # names[i]
          BY <1>1 DEF TakenAt
        <5>2. x <= i
          BY <5>1, <3>2, <1>1
        <5>3. ~(x \in 1 .. i - 1)
          BY <5>1, <4>1
        <5>. QED  BY <5>1, <5>2, <5>3, <4>1
      <4>. QED  BY <4>3, <4>4
    <3>. QED  BY <2>1, <2>2, <2>4, <3>3, FS_Singleton
  <2>. QED  BY <2>3, <2>4
<1>9. {cs[i] : i \in DOMAIN cs} = {CommandOf(conf, n) : n \in T}
  <2>1. ASSUME NEW i \in DOMAIN cs PROVE \E n \in T : cs[i] = CommandOf(conf, n)
    <3>. HIDE DEF T
    <3>. QED  BY <1>3, <1>4, <1>5, <1>7
  <2>2. ASSUME NEW n \in T PROVE \E i \in DOMAIN cs : cs[i] = CommandOf(conf, n)
    <3>1. {i \in DOMAIN cs : cs[i].name = n} # {}
      BY <1>8, <2>2, FS_EmptySet
    <3>2. PICK i \in DOMAIN cs : cs[i].name = n
      BY <3>1
    <3>. QED  BY <3>2, <1>5, <1>6, <1>7
  <2>. QED  BY <2>1, <2>2
<1>. QED  BY <1>7, <1>8, <1>9 DEF cs, CountNamed, ToSet

(* The commands of the profile without those removed, and those added         *)
(* (cli/mod.rs:1585-1603): typed, and how many there are of each name.        *)
LEMMA CommandsCreated ==
    ASSUME NEW opt, NEW conf, Readable(conf), ~Refused(opt, conf)
    PROVE  /\ CreateCommands(opt, conf) \in Seq(ToSet(conf.commands))
           /\ \A n :
                 CountNamed(CreateCommands(opt, conf), n)
                     = (IF n \in ToSet(Profile(conf, ProfileName(opt, conf)).commands)
                                  \ Filtered(opt, "-") THEN 1 ELSE 0)
                       + (IF n \in Filtered(opt, "+")
                          THEN CountNamed(conf.commands, n) ELSE 0)
<1> DEFINE all == conf.commands
           T == ToSet(all)
           names == Profile(conf, ProfileName(opt, conf)).commands
           ofProfile == CommandNamesToCommands(conf, names)
           Kept == {i \in DOMAIN ofProfile : ofProfile[i].name \notin Filtered(opt, "-")}
           Added == {i \in DOMAIN all : all[i].name \in Filtered(opt, "+")}
           a == Pick(ofProfile, Kept)
           b == Pick(all, Added)
<1>1. IsVector(names) /\ ToSet(names) \subseteq Names(conf)
  <2>1. Profile(conf, ProfileName(opt, conf)) \in ToSet(conf.profiles)
    BY ProfileOfName DEF Readable, Refused
  <2>. QED  BY <2>1 DEF Readable, Refused, Validate, ValidateProfilesCommands
<1>2. all \in Seq(T) /\ DOMAIN all = 1 .. Len(all)
  BY DEF Readable, IsVector, ToSet
<1>. HIDE DEF names
<1>3. /\ ofProfile \in Seq(T)
      /\ \A n : CountNamed(ofProfile, n)
                   = IF n \in ToSet(names) THEN 1 ELSE 0
  BY <1>1, NamesToCommands DEF Readable
<1>4. CreateCommands(opt, conf) = a \o b
  BY DEF CreateCommands, names
<1>. HIDE DEF T, all, ofProfile
<1>5. DOMAIN ofProfile = 1 .. Len(ofProfile)
  BY <1>3
<1>6. Kept \in SUBSET (1 .. Len(ofProfile)) /\ Added \in SUBSET (1 .. Len(all))
  BY <1>2, <1>5
<1>. HIDE DEF Kept, Added
<1>7. a \in Seq(T) /\ b \in Seq(T)
  BY <1>2, <1>3, <1>6, PickTyped
<1>8. a \o b \in Seq(T)
  <2>. HIDE DEF a, b
  <2>. QED  BY <1>7
<1>9. ASSUME NEW n
      PROVE  Cardinality({i \in DOMAIN (a \o b) : (a \o b)[i].name = n})
                = (IF n \in ToSet(names) \ Filtered(opt, "-") THEN 1 ELSE 0)
                  + (IF n \in Filtered(opt, "+")
                     THEN Cardinality({i \in DOMAIN all : all[i].name = n}) ELSE 0)
  <2> DEFINE W == {c \in T : c.name = n}
  <2>1. CountAt(a \o b, DOMAIN (a \o b), W) = CountAt(a, DOMAIN a, W) + CountAt(b, DOMAIN b, W)
    <3>. HIDE DEF a, b, W
    <3>. QED  BY <1>7, ConcatCounts
  <2>2. {i \in DOMAIN (a \o b) : (a \o b)[i] \in W} = {i \in DOMAIN (a \o b) : (a \o b)[i].name = n}
    <3>. HIDE DEF a, b
    <3>1. \A i \in DOMAIN (a \o b) : (a \o b)[i] \in T
      BY <1>8
    <3>. QED  BY <3>1
  <2>3. CountAt(a, DOMAIN a, W) = CountAt(ofProfile, Kept, W)
    <3>. HIDE DEF W
    <3>. QED  BY <1>3, <1>6, PickCounts
  <2>4. CountAt(b, DOMAIN b, W) = CountAt(all, Added, W)
    <3>. HIDE DEF W
    <3>. QED  BY <1>2, <1>6, PickCounts
  <2>5. Cardinality({i \in Kept : ofProfile[i] \in W})
            = IF n \in ToSet(names) \ Filtered(opt, "-") THEN 1 ELSE 0
    <3>1. \A i \in DOMAIN ofProfile : ofProfile[i] \in T
      BY <1>3
    <3>2. CASE n \in Filtered(opt, "-")
      <4>1. {i \in Kept : ofProfile[i] \in W} = {}
        BY <3>2 DEF Kept
      <4>. QED  BY <4>1, <3>2, FS_EmptySet
    <3>3. CASE n \notin Filtered(opt, "-")
      <4>1. {i \in Kept : ofProfile[i] \in W} = {i \in DOMAIN ofProfile : ofProfile[i].name = n}
        BY <3>1, <3>3 DEF Kept
      <4>. QED  BY <4>1, <3>3, <1>3 DEF CountNamed
    <3>. QED  BY <3>2, <3>3
  <2>6. Cardinality({i \in Added : all[i] \in W})
            = IF n \in Filtered(opt, "+") THEN Cardinality({i \in DOMAIN all : all[i].name = n}) ELSE 0
    <3>1. \A i \in DOMAIN all : all[i] \in T
      BY <1>2
    <3>2. CASE n \notin Filtered(opt, "+")
      <4>1. {i \in Added : all[i] \in W} = {}
        BY <3>2 DEF Added
      <4>. QED  BY <4>1, <3>2, FS_EmptySet
    <3>3. CASE n \in Filtered(opt, "+")
      <4>1. {i \in Added : all[i] \in W} = {i \in DOMAIN all : all[i].name = n}
        BY <3>1, <3>3 DEF Added
      <4>. QED  BY <4>1, <3>3
    <3>. QED  BY <3>2, <3>3
  <2>. HIDE DEF W, a, b
  <2>7. CountAt(a \o b, DOMAIN (a \o b), W) = Cardinality({i \in DOMAIN (a \o b) : (a \o b)[i].name = n})
    BY <2>2 DEF CountAt
  <2>. QED  BY <2>1, <2>3, <2>4, <2>5, <2>6, <2>7 DEF CountAt
<1>. HIDE DEF a, b
<1>. QED  BY <1>4, <1>8, <1>9 DEF T, all, names, CountNamed

-------------------------------------------------------------------------------
(* The inductive invariant of a report, which calls the runner several times. *)

Results == Seq([command : Command, kind : Kind])
Event == [seq : Seqs, kind : {"Started", "Finished"}]

Beginning == {"start", "refused", "checking", "counted", "answered"}
Analysed == {"analysed", "dropped", "rendering"}

RunTypes ==
    /\ request \in Request
    /\ stage \in Beginning \cup {"hostinfo", "commands", "failed"} \cup Analysed
    /\ hostinfo \in Results
    /\ reps \in Seq(Results)
    /\ spinners \in SUBSET Seqs

(* What the runner was called with last, and that nothing was refused then.   *)
Stages ==
    /\ main = "idle" <=> stage \in Beginning
    /\ stage = "hostinfo" => commands = HostInfo
    /\ stage = "commands" => commands = Commands
    /\ stage \notin Beginning => ~Refused(request.opt, request.config)

(* What is complete of the results.                                           *)
Complete ==
    /\ stage \in Beginning \cup {"hostinfo"} => reps = <<>>
    /\ stage = "commands" => Len(reps) < Times
    /\ stage \in Analysed => Len(reps) = Times
    /\ stage \in {"commands"} \cup Analysed => Matches(hostinfo, HostInfo)
    /\ \A r \in DOMAIN reps : Matches(reps[r], Commands)

(* The progress thread listens as long as it runs, and has not begun before   *)
(* the runner.                                                                *)
Listening ==
    /\ stage \in Beginning => bar = "off" /\ events = <<>> /\ spinners = {}
    /\ bar = "running" => listener = "open"

(* The threads that have sent their first event and not their second one.     *)
Turning == {s \in Seqs : child[s].at \in {"exec", "send", "sent", "panicked"}}

(* An event as it is due, and what turns after it.                            *)
Turn(e, before, after) ==
    IF e.kind = "Started"
    THEN e.seq \notin before /\ after = before \cup {e.seq}
    ELSE e.seq \in before /\ after = before \ {e.seq}

(* The events of q lead from what turns before them to what turns after them, *)
(* each as it is due.                                                         *)
History(q, before, after) ==
    \E on \in [0 .. Len(q) -> SUBSET Seqs] :
        /\ on[0] = before /\ on[Len(q)] = after
        /\ \A i \in 1 .. Len(q) : Turn(q[i], on[i - 1], on[i])

(* The channel leads from the spinners that are shown to the threads that are *)
(* at work: it holds neither a second start nor an end without one, although  *)
(* the next chunk and the next run use the same seqs.                         *)
Turns == bar = "running" => History(events, spinners, Turning)

RunIInv == IInv /\ RunTypes /\ Stages /\ Complete /\ Listening /\ Turns

-------------------------------------------------------------------------------
(* Events.                                                                    *)

(* No event, no change.                                                       *)
LEMMA HistoryEmpty ==
    ASSUME NEW a \in SUBSET Seqs
    PROVE  History(<<>>, a, a)
<1> DEFINE on == [i \in 0 .. 0 |-> a]
<1>1. Len(<<>>) = 0 /\ 1 .. 0 = {}
  OBVIOUS
<1>2. on \in [0 .. 0 -> SUBSET Seqs] /\ on[0] = a
  OBVIOUS
<1>. HIDE DEF on
<1>. QED  BY <1>1, <1>2 DEF History

(* A thread sends the event that is due of it.                                *)
LEMMA HistoryAppend ==
    ASSUME NEW q \in Seq(Event), NEW e \in Event, NEW a \in SUBSET Seqs,
           NEW b \in SUBSET Seqs, NEW c \in SUBSET Seqs,
           History(q, a, b), Turn(e, b, c)
    PROVE  History(Append(q, e), a, c)
<1> DEFINE n == Len(q)
           r == Append(q, e)
<1>1. PICK on \in [0 .. n -> SUBSET Seqs] :
          /\ on[0] = a /\ on[n] = b
          /\ \A i \in 1 .. n : Turn(q[i], on[i - 1], on[i])
  BY DEF History
<1>2. n \in Nat /\ Len(r) = n + 1 /\ r[n + 1] = e /\ \A i \in 1 .. n : r[i] = q[i]
  OBVIOUS
<1> DEFINE on2 == [i \in 0 .. n + 1 |-> IF i <= n THEN on[i] ELSE c]
<1>. HIDE DEF n, r
<1>3. on2 \in [0 .. n + 1 -> SUBSET Seqs]
  BY <1>1, <1>2
<1>4. on2[0] = a /\ on2[n + 1] = c /\ on2[n] = b
  BY <1>1, <1>2
<1>5. ASSUME NEW i \in 1 .. n + 1 PROVE Turn(r[i], on2[i - 1], on2[i])
  <2>1. CASE i = n + 1
    <3>1. i - 1 = n /\ on2[i - 1] = b /\ on2[i] = c /\ r[i] = e
      <4>. HIDE DEF on2
      <4>. QED  BY <2>1, <1>2, <1>4
    <3>. QED  BY <3>1
  <2>2. CASE i # n + 1
    <3>1. i \in 1 .. n /\ i - 1 \in 0 .. n /\ i \in 0 .. n /\ i <= n /\ i - 1 <= n
      BY <2>2, <1>2
    <3>2. on2[i] = on[i] /\ on2[i - 1] = on[i - 1] /\ r[i] = q[i]
      BY <3>1, <1>2
    <3>. QED  BY <3>1, <3>2, <1>1
  <2>. QED  BY <2>1, <2>2
<1>. HIDE DEF on2
<1>6. History(r, a, c)
  BY <1>2, <1>3, <1>4, <1>5 DEF History
<1>. QED  BY <1>6 DEF r

(* The progress thread takes the oldest event.                                *)
LEMMA HistoryTail ==
    ASSUME NEW q \in Seq(Event), q # <<>>, NEW a \in SUBSET Seqs, NEW b \in SUBSET Seqs,
           History(q, a, b)
    PROVE  \E c \in SUBSET Seqs : Turn(Head(q), a, c) /\ History(Tail(q), c, b)
<1> DEFINE n == Len(q)
           t == Tail(q)
<1>1. PICK on \in [0 .. n -> SUBSET Seqs] :
          /\ on[0] = a /\ on[n] = b
          /\ \A i \in 1 .. n : Turn(q[i], on[i - 1], on[i])
  BY DEF History
<1>2. /\ n \in Nat \ {0} /\ Len(t) = n - 1 /\ Head(q) = q[1]
      /\ \A i \in 1 .. n - 1 : t[i] = q[i + 1]
  OBVIOUS
<1> DEFINE on2 == [i \in 0 .. n - 1 |-> on[i + 1]]
<1>. HIDE DEF n, t
<1>3. on2 \in [0 .. n - 1 -> SUBSET Seqs] /\ on2[0] = on[1] /\ on2[n - 1] = b
  BY <1>1, <1>2
<1>4. ASSUME NEW i \in 1 .. n - 1 PROVE Turn(t[i], on2[i - 1], on2[i])
  <2>1. i + 1 \in 1 .. n /\ i - 1 \in 0 .. n - 1 /\ i \in 0 .. n - 1 /\ (i + 1) - 1 = i /\ (i - 1) + 1 = i
    BY <1>2
  <2>2. on2[i] = on[i + 1] /\ on2[i - 1] = on[i] /\ t[i] = q[i + 1]
    BY <2>1, <1>2
  <2>3. Turn(q[i + 1], on[i], on[i + 1])
    BY <2>1, <1>1
  <2>. QED  BY <2>2, <2>3
<1>. HIDE DEF on2
<1>5. History(t, on[1], b)
  BY <1>2, <1>3, <1>4 DEF History
<1>6. Turn(Head(q), a, on[1]) /\ on[1] \in SUBSET Seqs
  <2>1. 1 \in 1 .. n /\ 1 \in 0 .. n /\ 1 - 1 = 0
    BY <1>2
  <2>. QED  BY <2>1, <1>1, <1>2
<1>. QED  BY <1>5, <1>6 DEF t

-------------------------------------------------------------------------------
(* The steps of the report.                                                   *)

(* What is asked for does not change.                                         *)
LEMMA RequestStays ==
    ASSUME request' = request
    PROVE  HostInfo' = HostInfo /\ Commands' = Commands /\ Times' = Times
  BY DEF HostInfo, Commands, Times

(* The runner is called with lists of commands, a number of times.            *)
LEMMA CallsTyped ==
    ASSUME request \in Request, ~Refused(request.opt, request.config)
    PROVE  /\ HostInfo \in Seq(Command) /\ Commands \in Seq(Command)
           /\ Times \in Nat
           /\ Readable(request.config)
<1> DEFINE conf == request.config
           T == ToSet(conf.commands)
<1>1. Readable(conf) /\ Repetitions(request.opt, conf) \in Nat
  BY RunAssumption DEF Readable
<1>2. ASSUME NEW cs \in Seq(T) PROVE Whole(cs) \in Seq(Command)
  <2>1. \A i \in DOMAIN cs : cs[i].command \in Command
    BY <1>1 DEF Readable
  <2>. HIDE DEF T
  <2>2. DOMAIN cs = 1 .. Len(cs) /\ Len(cs) \in Nat
    OBVIOUS
  <2>. QED  BY <2>1, <2>2 DEF Whole
<1>3. CommandsForHostinfo(conf) \in Seq(T)
  <2>1. IsVector(conf.hostinfo) /\ ToSet(conf.hostinfo) \subseteq Names(conf)
    BY <1>1 DEF Readable, Refused, Validate, ValidateHostInfo
  <2>. QED  BY <1>1, <2>1, NamesToCommands DEF CommandsForHostinfo, Readable
<1>4. CreateCommands(request.opt, conf) \in Seq(T)
  BY <1>1, CommandsCreated
<1>. HIDE DEF T
<1>. QED  BY <1>1, <1>2, <1>3, <1>4 DEF HostInfo, Commands, Times

(* Nothing of the runner changes.                                             *)
LEMMA RunnerRests ==
    ASSUME UNCHANGED vars
    PROVE  /\ UNCHANGED <<main, commands, child, events, listener, results>>
           /\ Turning' = Turning
  BY DEF vars, mainVars, progressVars, Turning

(* A step of a command that only looks, `check`, `explain` or --show.         *)
Inspects ==
    /\ stage \in Beginning /\ stage' \in Beginning
    /\ UNCHANGED <<vars, request, hostinfo, reps, holder, barVars>>

(* The steps of the report and of the progress thread that leave the runner   *)
(* alone and complete nothing.                                                *)
LEMMA RestingSteps ==
    ASSUME RunIInv,
           Refuse \/ RunFailed \/ DropAnalysis \/ JoinProgress \/ BarEnds \/ Finished
               \/ Inspects \/ UNCHANGED allVars
    PROVE  RunIInv'
<1>1. UNCHANGED <<vars, request, hostinfo, reps, spinners>>
  BY DEF Inspects, Refuse, RunFailed, DropAnalysis, JoinProgress, BarEnds, Finished, allVars, reportVars, barVars
<1>2. UNCHANGED <<main, commands, child, events, listener>> /\ Turning' = Turning
  BY <1>1, RunnerRests
<1>3. HostInfo' = HostInfo /\ Commands' = Commands /\ Times' = Times
  BY <1>1, RequestStays
<1>4. /\ \/ stage' = stage
         \/ stage = "start" /\ stage' = "refused"
         \/ stage \in Beginning /\ stage' \in Beginning
         \/ stage \in {"hostinfo", "commands"} /\ stage' = "failed"
         \/ stage = "analysed" /\ stage' = "dropped"
         \/ stage = "dropped" /\ stage' = "rendering"
      /\ bar' = bar \/ (bar = "running" /\ bar' = "done")
  BY DEF Inspects, Refuse, RunFailed, DropAnalysis, JoinProgress, BarEnds, Finished, allVars, reportVars, barVars
<1>5. IInv'
  BY <1>1, StutterStep DEF RunIInv
<1>6. RunTypes'
  BY <1>1, <1>4 DEF RunIInv, RunTypes, Beginning, Analysed
<1>7. Stages'
  BY <1>1, <1>2, <1>3, <1>4 DEF RunIInv, Stages, Beginning
<1>8. Complete'
  BY <1>1, <1>3, <1>4 DEF RunIInv, Complete, Matches, Beginning, Analysed
<1>9. Listening'
  BY <1>1, <1>2, <1>4 DEF RunIInv, Listening, Beginning
<1>10. Turns'
  BY <1>1, <1>2, <1>4 DEF RunIInv, Turns
<1>. QED  BY <1>5, <1>6, <1>7, <1>8, <1>9, <1>10 DEF RunIInv

(* No thread is left when run() may be called again, and none before.         *)
LEMMA NothingTurns ==
    ASSUME IInv, main \in {"idle", "ok"}
    PROVE  Turning = {}
  BY DEF IInv, Quiet, Turning, Idle

(* The first call, for the host information; the progress thread begins.      *)
LEMMA RunHostInfoStep ==
    ASSUME RunIInv, RunHostInfo
    PROVE  RunIInv'
<1>1. /\ stage = "start" /\ stage' = "hostinfo" /\ ~Refused(request.opt, request.config)
      /\ Call(HostInfo)
      /\ UNCHANGED <<request, hostinfo, reps, spinners>>
      /\ bar' = IF listener = "open" THEN "running" ELSE "off"
  BY DEF RunHostInfo
<1>2. HostInfo' = HostInfo /\ Commands' = Commands /\ Times' = Times
  BY <1>1, RequestStays
<1>3. HostInfo \in Seq(Command)
  BY <1>1, CallsTyped DEF RunIInv, RunTypes
<1>4. IInv'
  BY <1>1, <1>3, CallStep DEF RunIInv
<1>5. /\ main' = "chunks" /\ commands' = HostInfo
      /\ UNCHANGED <<child, events, listener>>
  BY <1>1 DEF Call, progressVars
<1>6. RunTypes'
  BY <1>1 DEF RunIInv, RunTypes
<1>7. Stages'
  BY <1>1, <1>2, <1>5 DEF RunIInv, Stages, Beginning
<1>8. Complete'
  BY <1>1, <1>2 DEF RunIInv, Complete, Beginning, Analysed
<1>9. Listening' /\ events = <<>> /\ spinners = {}
  BY <1>1, <1>5 DEF RunIInv, Listening, Beginning
<1>10. Turns'
  <2>1. main \in {"idle", "ok"}
    BY <1>1 DEF Call
  <2>2. Turning' = {}
    BY <2>1, <1>5, NothingTurns DEF RunIInv, Turning
  <2>. QED  BY <2>2, <1>1, <1>5, <1>9, HistoryEmpty DEF Turns
<1>. QED  BY <1>4, <1>6, <1>7, <1>8, <1>9, <1>10 DEF RunIInv

(* A call has come back: its results are those of what it was called with, in *)
(* order, and the next repetition begins, if there is one                     *)
(* (analysis.rs:133-137, 214-222).                                            *)
LEMMA CallDoneStep ==
    ASSUME RunIInv, HostInfoDone \/ RepetitionDone
    PROVE  RunIInv'
<1>1. /\ main = "ok" /\ UNCHANGED <<request, spinners, bar>>
      /\ stage \in {"hostinfo", "commands"}
      /\ Repeat(reps')
  BY DEF HostInfoDone, RepetitionDone, barVars
<1>2. HostInfo' = HostInfo /\ Commands' = Commands /\ Times' = Times
  BY <1>1, RequestStays
<1>3. /\ Commands \in Seq(Command) /\ HostInfo \in Seq(Command) /\ Times \in Nat
      /\ ~Refused(request.opt, request.config)
  BY <1>1, CallsTyped DEF RunIInv, RunTypes, Stages, Beginning
<1>4. results \in Results /\ Matches(results, commands)
  BY <1>1 DEF RunIInv, IInv, TypeOK, Prefix, Matches, Results
<1>5. \/ Len(reps') < Times /\ Call(Commands) /\ stage' = "commands"
      \/ ~(Len(reps') < Times) /\ stage' = "analysed" /\ UNCHANGED vars
  BY <1>1 DEF Repeat
<1>6. IInv'
  BY <1>3, <1>5, CallStep, StutterStep DEF RunIInv
<1>7. /\ UNCHANGED <<child, events, listener>> /\ main' # "idle"
      /\ stage' = "commands" => commands' = Commands
  BY <1>1, <1>5 DEF Call, vars, mainVars, progressVars
<1>8. /\ hostinfo' \in Results /\ Matches(hostinfo', HostInfo)
      /\ reps' \in Seq(Results)
      /\ \A r \in DOMAIN reps' : Matches(reps'[r], Commands)
      /\ Len(reps') <= Times
  <2>1. CASE HostInfoDone
    <3>1. hostinfo' = results /\ reps' = reps /\ stage = "hostinfo"
      BY <2>1 DEF HostInfoDone
    <3>2. commands = HostInfo /\ reps = <<>>
      BY <3>1 DEF RunIInv, Stages, Complete, Beginning
    <3>. QED  BY <3>1, <3>2, <1>3, <1>4
  <2>2. CASE RepetitionDone
    <3>1. hostinfo' = hostinfo /\ reps' = Append(reps, results) /\ stage = "commands"
      BY <2>2 DEF RepetitionDone
    <3>2. /\ commands = Commands /\ Len(reps) < Times /\ reps \in Seq(Results)
          /\ Matches(hostinfo, HostInfo) /\ hostinfo \in Results
          /\ \A r \in DOMAIN reps : Matches(reps[r], Commands)
      BY <3>1 DEF RunIInv, RunTypes, Stages, Complete
    <3>3. reps' \in Seq(Results) /\ Len(reps') = Len(reps) + 1
      <4>. HIDE DEF Results
      <4>. QED  BY <3>1, <3>2, <1>4
    <3>4. \A r \in DOMAIN reps' : reps'[r] = results \/ (r \in DOMAIN reps /\ reps'[r] = reps[r])
      BY <3>1, <3>2
    <3>5. \A r \in DOMAIN reps' : Matches(reps'[r], Commands)
      <4> SUFFICES ASSUME NEW r \in DOMAIN reps' PROVE Matches(reps'[r], Commands)
        OBVIOUS
      <4>1. CASE reps'[r] = results
        BY <4>1, <3>2, <1>4
      <4>2. CASE r \in DOMAIN reps /\ reps'[r] = reps[r]
        BY <4>2, <3>2
      <4>. QED  BY <4>1, <4>2, <3>4
    <3>6. Len(reps') <= Times
      BY <3>2, <3>3, <1>3
    <3>. QED  BY <3>1, <3>2, <3>3, <3>5, <3>6
  <2>. QED  BY <2>1, <2>2
<1>9. RunTypes'
  BY <1>1, <1>5, <1>8 DEF RunIInv, RunTypes, Analysed
<1>10. Stages'
  BY <1>1, <1>2, <1>3, <1>5, <1>7 DEF Stages, Beginning
<1>11. Complete'
  <2>1. stage' = "analysed" => Len(reps') = Times
    BY <1>3, <1>5, <1>8
  <2>2. stage' \in {"commands", "analysed"} /\ (stage' = "commands" => Len(reps') < Times)
    BY <1>5
  <2>. QED  BY <2>1, <2>2, <1>2, <1>8 DEF Complete, Matches, Beginning, Analysed
<1>12. Listening'
  BY <1>1, <1>5, <1>7 DEF RunIInv, Listening, Beginning
<1>13. Turns'
  BY <1>1, <1>7 DEF RunIInv, Turns, Turning
<1>. QED  BY <1>6, <1>9, <1>10, <1>11, <1>12, <1>13 DEF RunIInv

-------------------------------------------------------------------------------
(* The steps of the progress thread.                                          *)

(* The progress thread shows or removes what the oldest event names.          *)
LEMMA TakeEventStep ==
    ASSUME RunIInv, TakeEvent
    PROVE  RunIInv'
<1>1. /\ bar = "running" /\ events # <<>> /\ events' = Tail(events)
      /\ UNCHANGED <<main, commands, base, spawned, child, chan, received, joined,
                     results, listener, request, stage, hostinfo, reps, bar>>
      /\ spinners' = IF Head(events).kind = "Started"
                     THEN spinners \cup {Head(events).seq}
                     ELSE spinners \ {Head(events).seq}
  BY DEF TakeEvent, mainVars, reportVars
<1>2. HostInfo' = HostInfo /\ Commands' = Commands /\ Times' = Times
  BY <1>1, RequestStays
<1>3. events \in Seq(Event) /\ spinners \in SUBSET Seqs
  BY DEF RunIInv, IInv, TypeOK, RunTypes, Event
<1>4. PICK c \in SUBSET Seqs : Turn(Head(events), spinners, c) /\ History(Tail(events), c, Turning)
  <2>1. History(events, spinners, Turning) /\ Turning \in SUBSET Seqs
    BY <1>1 DEF RunIInv, Turns, Turning
  <2>. HIDE DEF Turning
  <2>. QED  BY <1>1, <1>3, <2>1, HistoryTail
<1>5. c = spinners'
  BY <1>1, <1>4 DEF Turn
<1>6. IInv'
  <2>1. Tail(events) \in Seq(Event)
    <3>. HIDE DEF Event
    <3>. QED  BY <1>1, <1>3
  <2>2. TypeOK'
    BY <1>1, <2>1 DEF RunIInv, IInv, TypeOK, Event
  <2>. QED  BY <1>1, <2>2 DEF RunIInv, IInv, Quiet, ChunkFits, ChunkLen, Aligned, ChildrenFit,
                              MessagesFit, OneMessageEach, AllTaken, Prefix
<1>7. RunTypes'
  BY <1>1, <1>5 DEF RunIInv, RunTypes
<1>8. Stages' /\ Complete'
  BY <1>1, <1>2 DEF RunIInv, Stages, Complete, Matches
<1>9. Listening'
  BY <1>1 DEF RunIInv, Listening
<1>10. Turns'
  <2>1. Turning' = Turning
    BY <1>1 DEF Turning
  <2>. QED  BY <2>1, <1>1, <1>4, <1>5 DEF Turns
<1>. QED  BY <1>6, <1>7, <1>8, <1>9, <1>10 DEF RunIInv

(* When the progress thread panics nobody looks at the spinners any more.     *)
LEMMA BarPanicsStep ==
    ASSUME RunIInv, BarPanics
    PROVE  RunIInv'
<1>1. /\ bar = "running" /\ bar' = "dead" /\ ListenerGone
      /\ UNCHANGED <<main, commands, results, request, stage, hostinfo, reps, spinners>>
  BY DEF BarPanics, ListenerGone, mainVars, reportVars
<1>2. HostInfo' = HostInfo /\ Commands' = Commands /\ Times' = Times
  BY <1>1, RequestStays
<1>3. IInv'
  BY <1>1, ListenerGoneStep DEF RunIInv
<1>4. RunTypes' /\ Stages' /\ Complete'
  BY <1>1, <1>2 DEF RunIInv, RunTypes, Stages, Complete, Matches
<1>5. Listening' /\ Turns'
  BY <1>1 DEF RunIInv, Listening, Turns
<1>. QED  BY <1>3, <1>4, <1>5 DEF RunIInv

-------------------------------------------------------------------------------
(* The steps of the runner.                                                   *)

(* What a step of the runner has to keep of the report.                       *)
LEMMA RunnerKeeps ==
    ASSUME RunIInv, UNCHANGED <<reportVars, barVars>>,
           IInv', main # "idle", main' # "idle", commands' = commands, listener' = listener,
           History(events, spinners, Turning) /\ bar = "running"
               => History(events', spinners, Turning')
    PROVE  RunIInv'
<1>1. UNCHANGED <<request, stage, hostinfo, reps, bar, spinners>>
  BY DEF reportVars, barVars
<1>2. HostInfo' = HostInfo /\ Commands' = Commands /\ Times' = Times
  BY <1>1, RequestStays
<1>3. RunTypes' /\ Stages' /\ Complete'
  BY <1>1, <1>2 DEF RunIInv, RunTypes, Stages, Complete, Matches
<1>4. Listening'
  BY <1>1 DEF RunIInv, Listening, Stages
<1>5. Turns'
  BY <1>1 DEF RunIInv, Turns
<1>. QED  BY <1>3, <1>4, <1>5 DEF RunIInv

(* The caller creates threads that have not begun, and forgets threads that   *)
(* have ended: what turns stays the same.                                     *)
LEMMA RunnerMainStep ==
    ASSUME RunIInv, RunnerMain
    PROVE  RunIInv'
<1>1. Main /\ main # "idle" /\ UNCHANGED <<reportVars, barVars>>
  BY DEF RunnerMain
<1>2. /\ main' # "idle"
      /\ UNCHANGED <<commands, events, listener>>
  BY <1>1 DEF Main, NextChunk, Spawn, SpawnFails, CreateDone, Recv, RecvDisconnected, RecvDone,
              Join, FinishChunk, progressVars
<1>3. IInv'
  BY <1>1, NextInvariant DEF RunIInv, Next
<1>4. Turning' = Turning
  <2>1. CASE UNCHANGED child
    BY <2>1 DEF Turning
  <2>2. CASE Spawn
    <3>1. spawned \in Seqs /\ child[spawned].at = "none"
      BY <2>2, MaxParallelAssumption
         DEF RunIInv, IInv, TypeOK, ChildrenFit, Spawn, ChunkLen, Smaller, Seqs
    <3>2. /\ child'[spawned].at = "start"
          /\ \A s \in Seqs \ {spawned} : child'[s] = child[s]
      BY <2>2, <3>1 DEF RunIInv, IInv, TypeOK, Spawn
    <3>. QED  BY <3>1, <3>2 DEF Turning
  <2>3. CASE FinishChunk
    <3>1. \A s \in Seqs : child[s].at \in {"none", "done"}
      BY <2>3, MaxParallelAssumption DEF RunIInv, IInv, TypeOK, ChildrenFit, FinishChunk, Seqs
    <3>2. \A s \in Seqs : child'[s].at = "none"
      BY <2>3 DEF FinishChunk, Idle
    <3>. QED  BY <3>1, <3>2 DEF Turning
  <2>. QED  BY <1>1, <2>1, <2>2, <2>3
            DEF Main, NextChunk, SpawnFails, CreateDone, Recv, RecvDisconnected, RecvDone, Join
<1>. QED  BY <1>1, <1>2, <1>3, <1>4, RunnerKeeps

(* A thread sends the start of its command before and the end after all that  *)
(* it does: each is the event that is due of it (runner.rs:113-132).          *)
LEMMA RunnerChildStep ==
    ASSUME RunIInv, NEW s \in Seqs, RunnerChild(s)
    PROVE  RunIInv'
<1>1. Child(s) /\ UNCHANGED <<reportVars, barVars>>
  BY DEF RunnerChild
<1>2. IInv'
  BY <1>1, NextInvariant DEF RunIInv, Next
<1>3. /\ child[s].at \in Unfinished
      /\ UNCHANGED <<main, commands, listener>>
  BY <1>1 DEF Child, SendStarted, Exec, ExecReturns, ExecPanics, SendResult, SendFinished,
              mainVars, progressVars, Unfinished
<1>4. main # "idle"
  BY <1>3 DEF RunIInv, IInv, Quiet, Idle, Unfinished
<1>5. ASSUME History(events, spinners, Turning), bar = "running"
      PROVE  History(events', spinners, Turning')
  <2>1. listener = "open"
    BY <1>5 DEF RunIInv, Listening
  <2>2. /\ events \in Seq(Event) /\ spinners \in SUBSET Seqs /\ Turning \in SUBSET Seqs
        /\ [seq |-> s, kind |-> "Started"] \in Event /\ [seq |-> s, kind |-> "Finished"] \in Event
    BY DEF RunIInv, IInv, TypeOK, RunTypes, Turning, Event
  <2>3. child \in [Seqs -> [at : Phases, command : Command \cup {"none"}, kind : Kind \cup {"none"}]]
    BY DEF RunIInv, IInv, TypeOK
  <2>4. CASE SendStarted(s)
    <3>1. /\ child[s].at = "start" /\ child' = [child EXCEPT ![s].at = "exec"]
          /\ events' = Append(events, [seq |-> s, kind |-> "Started"])
      BY <2>1, <2>4 DEF SendStarted, Send, Goto
    <3>2. s \notin Turning /\ Turning' = Turning \cup {s}
      BY <2>3, <3>1 DEF Turning
    <3>3. Turn([seq |-> s, kind |-> "Started"], Turning, Turning')
      BY <3>2 DEF Turn
    <3>4. Turning' \in SUBSET Seqs
      BY <2>2, <3>2
    <3>. HIDE DEF Turning
    <3>. QED  BY <1>5, <2>2, <3>1, <3>3, <3>4, HistoryAppend
  <2>5. CASE SendFinished(s)
    <3>1. /\ child[s].at = "sent" /\ child' = [child EXCEPT ![s].at = "done"]
          /\ events' = Append(events, [seq |-> s, kind |-> "Finished"])
      BY <2>1, <2>5 DEF SendFinished, Send, Goto
    <3>2. s \in Turning /\ Turning' = Turning \ {s}
      BY <2>3, <3>1 DEF Turning
    <3>3. Turn([seq |-> s, kind |-> "Finished"], Turning, Turning')
      BY <3>2 DEF Turn
    <3>4. Turning' \in SUBSET Seqs
      BY <2>2, <3>2
    <3>. HIDE DEF Turning
    <3>. QED  BY <1>5, <2>2, <3>1, <3>3, <3>4, HistoryAppend
  <2>6. CASE Exec(s) \/ SendResult(s)
    <3>1. /\ events' = events
          /\ child[s].at \in {"exec", "send"}
          /\ child'[s].at \in {"send", "sent", "panicked"}
          /\ \A t \in Seqs \ {s} : child'[t] = child[t]
      BY <2>3, <2>6 DEF Exec, ExecReturns, ExecPanics, SendResult, Goto, progressVars
    <3>2. Turning' = Turning
      BY <3>1 DEF Turning
    <3>. QED  BY <1>5, <3>1, <3>2
  <2>. QED  BY <1>1, <2>4, <2>5, <2>6 DEF Child
<1>. QED  BY <1>1, <1>2, <1>3, <1>4, <1>5, RunnerKeeps

-------------------------------------------------------------------------------
(* The invariant holds initially ...                                          *)
LEMMA RunInitInvariant == RunInit => RunIInv
<1> SUFFICES ASSUME RunInit PROVE RunIInv
  OBVIOUS
<1>1. IInv
  BY InitInvariant DEF RunInit
<1>2. RunTypes
  BY DEF RunInit, RunTypes, Beginning, Results
<1>3. Stages /\ Complete /\ Listening /\ Turns
  BY DEF RunInit, Init, Stages, Complete, Listening, Turns, Beginning, Analysed
<1>. QED  BY <1>1, <1>2, <1>3 DEF RunIInv

(* ... and every step keeps it.                                               *)
LEMMA RunNextInvariant == RunIInv /\ [RunNext]_allVars => RunIInv'
<1> SUFFICES ASSUME RunIInv, [RunNext]_allVars PROVE RunIInv'
  OBVIOUS
<1>1. CASE Refuse \/ RunFailed \/ DropAnalysis \/ JoinProgress \/ BarEnds \/ Finished
               \/ UNCHANGED allVars
  BY <1>1, RestingSteps
<1>2. CASE RunHostInfo
  BY <1>2, RunHostInfoStep
<1>3. CASE HostInfoDone \/ RepetitionDone
  BY <1>3, CallDoneStep
<1>4. CASE TakeEvent
  BY <1>4, TakeEventStep
<1>5. CASE BarPanics
  BY <1>5, BarPanicsStep
<1>6. CASE RunnerMain
  BY <1>6, RunnerMainStep
<1>7. ASSUME NEW s \in Seqs, RunnerChild(s) PROVE RunIInv'
  BY <1>7, RunnerChildStep
<1>. QED  BY <1>1, <1>2, <1>3, <1>4, <1>5, <1>6, <1>7 DEF RunNext, Report, Bar

(* Whether a report is made or a command only looks, main keeps it.           *)
LEMMA MainNextInvariant == RunIInv /\ [MainNext]_mainVarsAll => RunIInv'
<1> SUFFICES ASSUME RunIInv, [MainNext]_mainVarsAll PROVE RunIInv'
  OBVIOUS
<1>1. CASE RunNext
  BY <1>1, RunNextInvariant
<1>2. CASE Inspect
  <2>1. Inspects
    BY <1>2 DEF Inspect, CheckRefused, BeginCheck, CountMissing, EndCheck, Explain, ExplainList,
                Show, Refusal, Asks, Answers, Inspects, Beginning
  <2>. QED  BY <2>1, RestingSteps
<1>3. CASE UNCHANGED allVars
  BY <1>3, RestingSteps
<1>. QED  BY <1>1, <1>2, <1>3 DEF MainNext, PathChanges, Inspected, mainVarsAll

(* It holds in every state of a report, and of whatever else main does.       *)
LEMMA RunInvariantHolds == (RunSpec => []RunIInv) /\ (MainSpec => []RunIInv)
<1>1. RunSpec => []RunIInv
  BY RunInitInvariant, RunNextInvariant, PTL DEF RunSpec
<1>2. MainInit => RunInit
  BY DEF MainInit
<1>3. MainSpec => []RunIInv
  BY <1>2, RunInitInvariant, MainNextInvariant, PTL DEF MainSpec
<1>. QED  BY <1>1, <1>3

(* Whatever the commands do and however they are scheduled, the diagnostics   *)
(* and the report read the host information and every repetition complete and *)
(* in the order of their commands (analysis.rs:133-137, 214-222).             *)
THEOREM ReportReadsAll == (RunSpec => []RunsComplete) /\ (MainSpec => []RunsComplete)
<1>1. RunIInv => RunsComplete
  BY DEF RunIInv, Complete, RunsComplete, Analysed
<1>. QED  BY <1>1, RunInvariantHolds, PTL

(* The events of the threads reach the progress thread in an order in which   *)
(* no spinner that turns is replaced, although the next chunk and the next    *)
(* run use the same seqs (cli/mod.rs:1678-1690).                              *)
THEOREM SpinnersApart == (RunSpec => []NoSpinnerReplaced) /\ (MainSpec => []NoSpinnerReplaced)
<1>1. RunIInv => NoSpinnerReplaced
  <2> SUFFICES ASSUME RunIInv, bar = "running", events # <<>>, Head(events).kind = "Started"
               PROVE  Head(events).seq \notin spinners
    BY DEF NoSpinnerReplaced
  <2>1. events \in Seq(Event) /\ spinners \in SUBSET Seqs /\ Turning \in SUBSET Seqs
    BY DEF RunIInv, IInv, TypeOK, RunTypes, Turning, Event
  <2>2. History(events, spinners, Turning)
    BY DEF RunIInv, Turns
  <2>3. PICK c \in SUBSET Seqs : Turn(Head(events), spinners, c)
    <3>. HIDE DEF Turning
    <3>. QED  BY <2>1, <2>2, HistoryTail
  <2>. QED  BY <2>3 DEF Turn
<1>. QED  BY <1>1, RunInvariantHolds, PTL

(* How many of the results are of a command of the name n, by their commands. *)
CountResults(conf, rs, n) ==
    Cardinality({i \in DOMAIN rs : \E c \in {d \in ToSet(conf.commands) : d.name = n} :
                                       c.command = rs[i].command})

(* In the results of commands, those of the commands of one name are found by *)
(* their commands.                                                            *)
LEMMA ResultsOfName ==
    ASSUME NEW conf, Readable(conf), NEW cs \in Seq(ToSet(conf.commands)),
           NEW rs \in Results, Matches(rs, Whole(cs)), NEW n
    PROVE  CountResults(conf, rs, n) = CountNamed(cs, n)
<1> DEFINE T == ToSet(conf.commands)
<1>0. cs \in Seq(T)
  OBVIOUS
<1>1. DOMAIN cs = 1 .. Len(cs) /\ Len(cs) \in Nat /\ \A i \in DOMAIN cs : cs[i] \in T
  <2>. HIDE DEF T
  <2>. QED  BY <1>0
<1>2. DOMAIN rs = 1 .. Len(rs) /\ Len(rs) \in Nat
  BY DEF Results
<1>3. Len(Whole(cs)) = Len(cs) /\ DOMAIN Whole(cs) = DOMAIN cs
      /\ \A i \in DOMAIN cs : Whole(cs)[i] = cs[i].command
  BY <1>1 DEF Whole
<1>4. DOMAIN rs = DOMAIN cs /\ \A i \in DOMAIN cs : rs[i].command = cs[i].command
  BY <1>1, <1>2, <1>3 DEF Matches
<1>5. \A c, d \in T : c.command = d.command => c.name = d.name
  BY DEF Readable
<1>. HIDE DEF T
<1>6. {i \in DOMAIN rs : \E c \in {d \in T : d.name = n} : c.command = rs[i].command}
          = {i \in DOMAIN cs : cs[i].name = n}
  BY <1>1, <1>4, <1>5
<1>. QED  BY <1>6 DEF T, CountResults, CountNamed

(* What is run is what was asked for: of every name one result if the host    *)
(* information or the profile lists it and it is not removed, one more for    *)
(* each command that is added, and no name gets lost on the way               *)
(* (config.rs:159-184, cli/mod.rs:1585-1603).                                 *)
THEOREM AskedIsRun == (RunSpec => []RunsWhatWasAsked) /\ (MainSpec => []RunsWhatWasAsked)
<1>1. RunIInv => RunsWhatWasAsked
  <2> SUFFICES ASSUME RunIInv PROVE RunsWhatWasAsked
    OBVIOUS
  <2> DEFINE conf == request.config
             opt == request.opt
             T == ToSet(conf.commands)
             Listed == ToSet(Profile(conf, ProfileName(opt, conf)).commands)
             host == CommandsForHostinfo(conf)
             cs == CreateCommands(opt, conf)
             One(set, n) == IF n \in set THEN 1 ELSE 0
             Added(n) == CountNamed(conf.commands, n)
             Fits == \A n \in Names(conf) \cup Listed \cup ToSet(conf.hostinfo) :
                        /\ CountResults(conf, hostinfo, n) = One(ToSet(conf.hostinfo), n)
                        /\ \A r \in DOMAIN reps :
                              CountResults(conf, reps[r], n) =
                                  One(Listed \ Filtered(opt, "-"), n) +
                                  One(Filtered(opt, "+"), n) * Added(n)
  <2>1. SUFFICES ASSUME stage \in Analysed PROVE Fits
    BY DEF RunsWhatWasAsked, Analysed, CountResults, CountNamed
  <2>2. /\ ~Refused(opt, conf) /\ request \in Request
        /\ hostinfo \in Results /\ reps \in Seq(Results)
        /\ Matches(hostinfo, Whole(host))
        /\ \A r \in DOMAIN reps : Matches(reps[r], Whole(cs))
    BY <2>1 DEF RunIInv, RunTypes, Stages, Complete, Analysed, Beginning, HostInfo, Commands
  <2>3. Readable(conf)
    BY <2>2, CallsTyped
  <2>4. /\ host \in Seq(T)
        /\ \A n : CountNamed(host, n) = One(ToSet(conf.hostinfo), n)
    <3>1. IsVector(conf.hostinfo) /\ ToSet(conf.hostinfo) \subseteq Names(conf)
      BY <2>2, <2>3 DEF Readable, Refused, Validate, ValidateHostInfo
    <3>. QED  BY <2>3, <3>1, NamesToCommands DEF CommandsForHostinfo, Readable
  <2>5. /\ cs \in Seq(T)
        /\ \A n : CountNamed(cs, n) =
                      One(Listed \ Filtered(opt, "-"), n) +
                      (IF n \in Filtered(opt, "+") THEN Added(n) ELSE 0)
    BY <2>2, <2>3, CommandsCreated
  <2>6. \A n : Added(n) \in Nat
    <3> SUFFICES ASSUME NEW n PROVE Added(n) \in Nat
      OBVIOUS
    <3>1. {i \in DOMAIN conf.commands : conf.commands[i].name = n} \in SUBSET (1 .. Len(conf.commands))
          /\ Len(conf.commands) \in Nat
      BY <2>3 DEF Readable, IsVector
    <3>. QED  BY <3>1, NumbersFinite DEF CountNamed
  <2>7. ASSUME NEW n PROVE CountResults(conf, hostinfo, n) = One(ToSet(conf.hostinfo), n)
    <3>. HIDE DEF host
    <3>1. CountResults(conf, hostinfo, n) = CountNamed(host, n)
      BY <2>2, <2>3, <2>4, ResultsOfName
    <3>. QED  BY <3>1, <2>4
  <2>8. ASSUME NEW n, NEW r \in DOMAIN reps
        PROVE  CountResults(conf, reps[r], n) =
                   One(Listed \ Filtered(opt, "-"), n) + One(Filtered(opt, "+"), n) * Added(n)
    <3>. HIDE DEF cs
    <3>1. reps[r] \in Results /\ Matches(reps[r], Whole(cs))
      <4>. HIDE DEF Results
      <4>. QED  BY <2>2
    <3>2. CountResults(conf, reps[r], n) = CountNamed(cs, n)
      BY <2>3, <2>5, <3>1, ResultsOfName
    <3>3. One(Filtered(opt, "+"), n) * Added(n) = IF n \in Filtered(opt, "+") THEN Added(n) ELSE 0
      <4>1. Added(n) \in Nat
        BY <2>6
      <4>. HIDE DEF Added
      <4>. QED  BY <4>1
    <3>. QED  BY <3>2, <3>3, <2>5
  <2>. QED  BY <2>7, <2>8
<1>. QED  BY <1>1, RunInvariantHolds, PTL

-------------------------------------------------------------------------------
(* What the commands that only look answer.                                   *)

(* A check is under way, or has answered.                                     *)
Begun == stage \in {"checking", "counted", "answered"} /\ ask.command = "check"

(* Only a check looks for binaries.                                           *)
AskFits == stage \in {"checking", "counted"} => ask.command = "check"

(* Every command of every profile that is checked is looked for, under the    *)
(* name of the profile.                                                       *)
RowsFit ==
    Begun =>
        /\ Validate(config) /\ (ask.profile # Default => HasProfile(config, ask.profile))
        /\ IsFiniteSet(DOMAIN rows)
        /\ \A p \in ToSet(CheckedProfiles) : \A n \in ToSet(p.commands) :
              \E i \in DOMAIN rows : /\ rows[i].category = p.name
                                     /\ rows[i].binary = BinaryOf[CommandOf(config, n).command]

(* What was counted lacked at a moment that differs from the present one in   *)
(* nothing but what came or went since the check began.                       *)
CountFits ==
    Begun /\ stage # "checking" =>
        \E was \in SUBSET changed :
            missing = Cardinality({i \in DOMAIN rows : rows[i].binary \notin (There \ changed) \cup was})

(* What explain says of the name it was asked for.                            *)
Told ==
    LET t == TopicOf(ask.id)
    IN  IF t = 0 THEN [kind |-> "unknown", known |-> Known] ELSE Explanation(Topics[t], ask.id)

AnswerFits ==
    stage = "answered" =>
        /\ ask.command = "check" =>
              answer.kind = IF RequiredMissing > 0 THEN "err" ELSE "ok"
        /\ ask.command = "explain" /\ ask.id # Default => answer = Told

InspectInv == AskFits /\ RowsFit /\ CountFits /\ AnswerFits

(* A finite set in some order is a vector.                                    *)
LEMMA SetAsVector ==
    ASSUME NEW S, IsFiniteSet(S)
    PROVE  IsVector(SetToSeq(S))
<1> DEFINE n == Cardinality(S)
<1>1. n \in Nat /\ ExistsBijection(1 .. n, S)
  BY FS_CardinalityType
<1>2. \E f \in [1 .. n -> S] : IsInjective(f)
  BY <1>1 DEF ExistsBijection, Bijection, Injection, IsInjective
<1>3. SetToSeq(S) \in [1 .. n -> S]
  BY <1>2 DEF SetToSeq
<1>4. SetToSeq(S) \in Seq(S)
  BY <1>1, <1>3
<1>. QED  BY <1>4, VectorElements

(* The rows that a check begins with.                                         *)
LEMMA ChecksRows ==
    ASSUME Readable(config), Validate(config),
           ask.profile # Default => HasProfile(config, ask.profile)
    PROVE  /\ IsFiniteSet(DOMAIN Checks)
           /\ \A p \in ToSet(CheckedProfiles) : \A n \in ToSet(p.commands) :
                 \E i \in DOMAIN Checks : /\ Checks[i].category = p.name
                                          /\ Checks[i].binary = BinaryOf[CommandOf(config, n).command]
<1> DEFINE conf == config
           ps == CheckedProfiles
           qs == [i \in DOMAIN ps |-> ProfileRows(ps[i])]
           rest == ByName("collectors", CollectorTools)
           tools == ByName("profiling", ProfilingTools)
           bpf == [i \in DOMAIN BpfTools |->
                      [category |-> "bpf", name |-> BpfTools[i], binary |-> ResolveBcc(BpfTools[i])]]
<1>1. IsVector(ps) /\ ToSet(ps) \subseteq ToSet(conf.profiles)
  <2>1. CASE ask.profile = Default
    BY <2>1 DEF CheckedProfiles, Readable
  <2>2. CASE ask.profile # Default
    <3>1. Profile(conf, ask.profile) \in ToSet(conf.profiles)
      BY <2>2, ProfileOfName DEF Readable
    <3>2. ps = <<Profile(conf, ask.profile)>>
      BY <2>2 DEF CheckedProfiles
    <3>3. ps \in Seq({Profile(conf, ask.profile)}) /\ ToSet(ps) = {Profile(conf, ask.profile)}
      <4>. HIDE DEF conf
      <4>. QED  BY <3>2 DEF ToSet
    <3>. QED  BY <3>1, <3>3, VectorElements
  <2>. QED  BY <2>1, <2>2
<1>. HIDE DEF ps
<1>2. ASSUME NEW p \in ToSet(ps)
      PROVE  /\ IsVector(ProfileRows(p))
             /\ \A n \in ToSet(p.commands) :
                   \E r \in ToSet(ProfileRows(p)) :
                      r.category = p.name /\ r.binary = BinaryOf[CommandOf(conf, n).command]
  <2> DEFINE taken == CommandNamesToCommands(conf, p.commands)
             made == ProfileRows(p)
  <2>1. IsVector(p.commands) /\ ToSet(p.commands) \subseteq Names(conf) /\ IsVector(conf.commands)
    BY <1>1 DEF Readable, Validate, ValidateProfilesCommands
  <2>2. /\ taken \in Seq(ToSet(conf.commands))
        /\ ToSet(taken) = {CommandOf(conf, n) : n \in ToSet(p.commands)}
    BY <2>1, NamesToCommands
  <2>3. IsVector(taken)
    BY <2>2, VectorElements
  <2>4. made = [i \in DOMAIN taken |->
                   [category |-> p.name, name |-> taken[i].name,
                    binary |-> BinaryOf[taken[i].command]]]
    BY DEF ProfileRows
  <2>. HIDE DEF taken, made
  <2>5. IsVector(made)
    BY <2>3, <2>4, MadeOf
  <2>6. ASSUME NEW n \in ToSet(p.commands)
        PROVE  \E r \in ToSet(made) :
                  r.category = p.name /\ r.binary = BinaryOf[CommandOf(conf, n).command]
    <3>1. PICK i \in DOMAIN taken : taken[i] = CommandOf(conf, n)
      BY <2>2, <2>6 DEF ToSet
    <3>2. made[i] \in ToSet(made)
      BY <2>4 DEF ToSet
    <3>. QED  BY <2>4, <3>1, <3>2
  <2>. QED  BY <2>5, <2>6 DEF made
<1>3. IsVector(qs) /\ DOMAIN qs = DOMAIN ps /\ \A i \in DOMAIN qs : IsVector(qs[i])
  <2>1. \A i \in DOMAIN ps : ps[i] \in ToSet(ps)
    BY DEF ToSet
  <2>. QED  BY <2>1, <1>1, <1>2, MadeOf
<1>4. IsVector(rest) /\ IsVector(tools)
  <2>1. /\ CollectorTools \in Seq({"dmesg", "free"})
        /\ ProfilingTools \in Seq({"perf", "bpftrace"})
    BY DEF CollectorTools, ProfilingTools
  <2>2. IsVector(CollectorTools) /\ IsVector(ProfilingTools)
    BY <2>1, VectorElements
  <2>. QED  BY <2>2, MadeOf DEF ByName
<1>5. IsVector(bpf)
  <2>1. IsVector(BpfTools)
    BY BpfccAssumption, SetAsVector DEF BpfTools
  <2>. QED  BY <2>1, MadeOf
<1>6. IsVector(FlattenSeq(qs)) /\ ToSet(FlattenSeq(qs)) = UNION {ToSet(qs[i]) : i \in DOMAIN qs}
  <2>. HIDE DEF qs
  <2>. QED  BY <1>3, FlattenElements
<1>7. Checks = FlattenSeq(qs) \o rest \o tools \o bpf
  BY DEF Checks, ps
<1>8. /\ IsVector(Checks)
      /\ ToSet(FlattenSeq(qs)) \subseteq ToSet(Checks)
  <2>. HIDE DEF qs, rest, tools, bpf
  <2>. QED  BY <1>4, <1>5, <1>6, <1>7, ConcatVectors
<1>9. IsFiniteSet(DOMAIN Checks)
  <2>1. Len(Checks) \in Nat /\ DOMAIN Checks = 1 .. Len(Checks)
    BY <1>8, VectorElements
  <2>2. IsFiniteSet(1 .. Len(Checks))
    BY <2>1, FS_Interval
  <2>. QED  BY <2>1, <2>2
<1>10. ASSUME NEW p \in ToSet(ps), NEW n \in ToSet(p.commands)
       PROVE  \E i \in DOMAIN Checks : /\ Checks[i].category = p.name
                                       /\ Checks[i].binary = BinaryOf[CommandOf(conf, n).command]
  <2>1. PICK r \in ToSet(ProfileRows(p)) :
           r.category = p.name /\ r.binary = BinaryOf[CommandOf(conf, n).command]
    BY <1>2, <1>10
  <2>2. PICK j \in DOMAIN ps : ps[j] = p
    BY DEF ToSet
  <2>3. qs[j] = ProfileRows(p) /\ j \in DOMAIN qs
    BY <2>2
  <2>4. r \in ToSet(Checks)
    <3>. HIDE DEF qs
    <3>. QED  BY <2>1, <2>3, <1>6, <1>8
  <2>. QED  BY <2>1, <2>4 DEF ToSet
<1>. QED  BY <1>9, <1>10 DEF ps

(* A report of a profile that is not changed by filters runs the commands of  *)
(* its names.                                                                 *)
LEMMA RunByName ==
    ASSUME NEW conf, NEW opt, Readable(conf), ~Refused(opt, conf), opt.filter_commands = {}
    PROVE  ToSet(CreateCommands(opt, conf)) \subseteq
              {CommandOf(conf, n) : n \in ToSet(Profile(conf, ProfileName(opt, conf)).commands)}
<1> DEFINE all == conf.commands
           names == Profile(conf, ProfileName(opt, conf)).commands
           ofProfile == CommandNamesToCommands(conf, names)
           Kept == {i \in DOMAIN ofProfile : ofProfile[i].name \notin Filtered(opt, "-")}
           Added == {i \in DOMAIN all : all[i].name \in Filtered(opt, "+")}
<1>1. IsVector(names) /\ ToSet(names) \subseteq Names(conf) /\ IsVector(all)
  <2>1. Profile(conf, ProfileName(opt, conf)) \in ToSet(conf.profiles)
    BY ProfileOfName DEF Readable, Refused
  <2>. QED  BY <2>1 DEF Readable, Refused, Validate, ValidateProfilesCommands
<1>2. CreateCommands(opt, conf) = Pick(ofProfile, Kept) \o Pick(all, Added)
  BY DEF CreateCommands
<1>3. Added = {}
  BY DEF Filtered
<1>. HIDE DEF names, all
<1>4. IsVector(ofProfile) /\ ToSet(ofProfile) = {CommandOf(conf, n) : n \in ToSet(names)}
  BY <1>1, NamesToCommands, VectorElements DEF all
<1>5. Kept \in SUBSET DOMAIN ofProfile /\ Added \in SUBSET DOMAIN all
  OBVIOUS
<1>. HIDE DEF ofProfile, Kept, Added
<1>6. /\ IsVector(Pick(ofProfile, Kept)) /\ ToSet(Pick(ofProfile, Kept)) \subseteq ToSet(ofProfile)
      /\ IsVector(Pick(all, Added)) /\ ToSet(Pick(all, Added)) = {}
  <2>1. ToSet(Pick(ofProfile, Kept)) = {ofProfile[i] : i \in Kept} /\ IsVector(Pick(ofProfile, Kept))
    BY <1>4, <1>5, PickSet
  <2>2. ToSet(Pick(all, Added)) = {all[i] : i \in Added} /\ IsVector(Pick(all, Added))
    BY <1>1, <1>5, PickSet
  <2>. QED  BY <2>1, <2>2, <1>3, <1>5 DEF ToSet
<1>. QED  BY <1>2, <1>4, <1>6, ConcatVectors DEF names

(* A report never becomes one of the others.                                  *)
LEMMA ReportsApart ==
    ASSUME InspectInv, RunNext, Reports
    PROVE  InspectInv'
<1>1. ask' = ask /\ ask.command = "none"
  BY DEF Reports
<1>2. stage' \in {"checking", "counted"} => stage' = stage
  BY DEF RunNext, Report, Bar, Refuse, RunHostInfo, HostInfoDone, RepetitionDone, Repeat, RunFailed,
         DropAnalysis, JoinProgress, TakeEvent, BarEnds, BarPanics, RunnerMain, RunnerChild,
         Finished, allVars, reportVars
<1>. QED  BY <1>1, <1>2 DEF InspectInv, AskFits, RowsFit, CountFits, AnswerFits, Begun

(* A check begins: all that is needed is looked for.                          *)
LEMMA BeginCheckStep ==
    ASSUME RunIInv, BeginCheck
    PROVE  InspectInv'
<1>1. /\ ask.command = "check" /\ ask' = ask /\ request' = request /\ path' = path
      /\ stage' = "checking" /\ rows' = Checks
      /\ Validate(config) /\ (ask.profile # Default => HasProfile(config, ask.profile))
  BY DEF BeginCheck, Asks, Answers
<1>2. Readable(config)
  BY RunAssumption DEF RunIInv, RunTypes, Readable, config
<1>3. config' = config /\ CheckedProfiles' = CheckedProfiles
  BY <1>1 DEF config, CheckedProfiles
<1>4. RowsFit'
  BY <1>1, <1>2, <1>3, ChecksRows DEF RowsFit
<1>. QED  BY <1>1, <1>4 DEF InspectInv, AskFits, CountFits, AnswerFits, Begun

(* What is looked for stays, once the check has begun.                        *)
LEMMA RowsStay ==
    ASSUME RowsFit, UNCHANGED <<request, ask, rows>>, Begun' => Begun
    PROVE  RowsFit'
<1>1. config' = config /\ CheckedProfiles' = CheckedProfiles
  BY DEF config, CheckedProfiles
<1>. QED  BY <1>1 DEF RowsFit

(* The first count is made of what is there.                                  *)
LEMMA CountMissingStep ==
    ASSUME InspectInv, CountMissing
    PROVE  InspectInv'
<1>1. /\ stage = "checking" /\ stage' = "counted"
      /\ UNCHANGED <<request, ask, path, files, changed, rows>>
      /\ missing' = Cardinality({i \in DOMAIN rows : rows[i].binary \notin There})
  BY DEF CountMissing, Answers, Lacking
<1>2. ask.command = "check"
  BY <1>1 DEF InspectInv, AskFits
<1>3. RowsFit'
  BY <1>1, <1>2, RowsStay DEF InspectInv, Begun
<1>4. CountFits'
  <2> DEFINE was == There \cap changed
  <2>1. was \in SUBSET changed /\ (There \ changed) \cup was = There
    OBVIOUS
  <2>2. missing' = Cardinality({i \in DOMAIN rows : rows[i].binary \notin (There \ changed) \cup was})
    BY <1>1, <2>1
  <2>. HIDE DEF was
  <2>3. There' = There
    BY <1>1 DEF There
  <2>. QED  BY <1>1, <2>1, <2>2, <2>3 DEF CountFits
<1>. QED  BY <1>1, <1>2, <1>3, <1>4 DEF InspectInv, AskFits, AnswerFits

(* The answer is made of the count and of what is optional.                   *)
LEMMA EndCheckStep ==
    ASSUME InspectInv, EndCheck
    PROVE  InspectInv'
<1>1. /\ stage = "counted" /\ stage' = "answered"
      /\ UNCHANGED <<request, ask, path, files, changed, rows, missing>>
      /\ answer'.kind = IF RequiredMissing > 0 THEN "err" ELSE "ok"
  BY DEF EndCheck, Answers
<1>2. ask.command = "check"
  BY <1>1 DEF InspectInv, AskFits
<1>3. RowsFit'
  BY <1>1, <1>2, RowsStay DEF InspectInv, Begun
<1>4. CountFits'
  BY <1>1, <1>2 DEF InspectInv, CountFits, Begun, There
<1>5. RequiredMissing' = RequiredMissing
  BY <1>1 DEF RequiredMissing, Lacking, There
<1>. QED  BY <1>1, <1>2, <1>3, <1>4, <1>5 DEF InspectInv, AskFits, AnswerFits

(* What comes or goes is noted as such, so that what was counted still tells  *)
(* of a moment that differs in nothing else.                                  *)
LEMMA PathChangesStep ==
    ASSUME InspectInv, NEW b \in Binaries, PathChanges(b)
    PROVE  InspectInv'
<1>1. /\ stage \in {"checking", "counted"} /\ stage' = stage
      /\ UNCHANGED <<request, ask, rows, missing>>
      /\ There' \ {b} = There \ {b}
      /\ changed' = changed \cup {b}
  BY DEF PathChanges, Toggle, There, allVars, reportVars
<1>2. ask.command = "check"
  BY <1>1 DEF InspectInv, AskFits
<1>3. RowsFit'
  BY <1>1, <1>2, RowsStay DEF InspectInv, Begun
<1>4. ASSUME stage # "checking"
      PROVE  \E was \in SUBSET changed' :
                missing' = Cardinality({i \in DOMAIN rows' :
                                          rows'[i].binary \notin (There' \ changed') \cup was})
  <2>1. PICK was \in SUBSET changed :
           missing = Cardinality({i \in DOMAIN rows : rows[i].binary \notin (There \ changed) \cup was})
    BY <1>1, <1>2, <1>4 DEF InspectInv, CountFits, Begun
  <2> DEFINE now == was \cup (IF b \in There \ changed THEN {b} ELSE {})
  <2>2. now \in SUBSET changed' /\ (There' \ changed') \cup now = (There \ changed) \cup was
    BY <1>1
  <2>. HIDE DEF now
  <2>3. missing' = Cardinality({i \in DOMAIN rows' : rows'[i].binary \notin (There' \ changed') \cup now})
    BY <2>1, <2>2, <1>1
  <2>. QED  BY <2>2, <2>3
<1>5. CountFits'
  BY <1>1, <1>4 DEF CountFits
<1>. QED  BY <1>1, <1>2, <1>3, <1>5 DEF InspectInv, AskFits, AnswerFits

(* What is explained depends on nothing that changes.                         *)
LEMMA ToldStays ==
    ASSUME UNCHANGED <<request, ask>>
    PROVE  Told' = Told
  BY DEF Told, TopicOf, Explanation, FirstCommand, Known, IdsOf, Emitted, Emitters, config, Topics,
         SelectInSeq

(* The commands that answer at once.                                          *)
LEMMA AnswersStep ==
    ASSUME CheckRefused \/ Explain \/ ExplainList \/ Show
    PROVE  InspectInv'
<1>1. /\ stage' \in {"refused", "answered"} /\ ask' = ask
      /\ stage' = "answered" => ask.command # "check"
  BY DEF CheckRefused, Explain, ExplainList, Show, Refusal, Asks, Answers
<1>2. AnswerFits'
  <2>1. CASE Explain
    <3>1. answer' = Told /\ request' = request /\ ask' = ask
      BY <2>1 DEF Explain, Told, Answers
    <3>2. Told' = Told
      BY <3>1, ToldStays
    <3>. QED  BY <1>1, <3>1, <3>2 DEF AnswerFits
  <2>2. CASE CheckRefused \/ ExplainList \/ Show
    BY <1>1, <2>2
       DEF AnswerFits, CheckRefused, ExplainList, Show, Refusal, Asks, Answers
  <2>. QED  BY <2>1, <2>2
<1>. QED  BY <1>1, <1>2 DEF InspectInv, AskFits, RowsFit, CountFits, Begun

(* Every step of main keeps it.                                               *)
LEMMA InspectNextInvariant == RunIInv /\ InspectInv /\ [MainNext]_mainVarsAll => InspectInv'
<1> SUFFICES ASSUME RunIInv, InspectInv, [MainNext]_mainVarsAll PROVE InspectInv'
  OBVIOUS
<1>1. CASE RunNext /\ Reports
  BY <1>1, ReportsApart
<1>2. CASE Inspect
  BY <1>2, BeginCheckStep, CountMissingStep, EndCheckStep, AnswersStep DEF Inspect
<1>3. ASSUME NEW b \in Binaries, PathChanges(b) PROVE InspectInv'
  BY <1>3, PathChangesStep
<1>4. CASE UNCHANGED mainVarsAll
  <2>1. UNCHANGED <<request, stage, ask, path, files, changed, rows, missing, answer>>
    BY <1>4 DEF mainVarsAll, inspectVars, allVars, reportVars
  <2>2. RowsFit'
    BY <2>1, RowsStay DEF InspectInv, Begun
  <2>3. Told' = Told /\ RequiredMissing' = RequiredMissing
    BY <2>1, ToldStays DEF RequiredMissing, Lacking, There
  <2>4. CountFits'
    BY <2>1 DEF InspectInv, CountFits, Begun, There
  <2>. QED  BY <2>1, <2>2, <2>3, <2>4 DEF InspectInv, AskFits, AnswerFits
<1>. QED  BY <1>1, <1>2, <1>3, <1>4 DEF MainNext, Inspected

(* The invariant of the commands that only look holds in every behaviour.      *)
LEMMA InspectInvariantHolds == MainSpec => []InspectInv
<1>1. MainInit => InspectInv
  BY DEF MainInit, RunInit, InspectInv, AskFits, RowsFit, CountFits, AnswerFits, Begun
<1>. QED  BY <1>1, InspectNextInvariant, RunInvariantHolds, PTL DEF MainSpec

(* The smallest of some positions is one.                                     *)
LEMMA SmallestPosition ==
    ASSUME NEW m \in Nat, NEW S \in SUBSET (1 .. m), S # {}
    PROVE  Min(S) \in S /\ \A j \in S : Min(S) <= j
<1>1. \E x \in S : \A j \in S : x <= j
  BY FirstAndLast
<1>. QED  BY <1>1 DEF Min

(* What `check` says, by how many rows lacked when they were counted and how  *)
(* many of the optional ones lacked when they were looked for once more.      *)
LEMMA CheckIsRight == InspectInv /\ RunIInv => CheckFits
<1> SUFFICES ASSUME InspectInv, RunIInv, stage = "answered", ask.command = "check",
                    ~(\E p \in ToSet(CheckedProfiles) : p.name \in Advisory)
             PROVE  LET required == {r.binary : r \in {q \in ToSet(rows) : q.category \notin Advisory}}
                        optional == {r.binary : r \in {q \in ToSet(rows) : q.category \in Advisory}}
                        failed == answer.kind = "err"
                    IN  /\ changed = {} => (failed <=> ~(required \subseteq There))
                        /\ changed = {} /\ ~failed =>
                              \A p \in ToSet(CheckedProfiles) :
                                 LET opt == [profile |-> p.name, filter_commands |-> {}]
                                 IN  \A c \in ToSet(CreateCommands(opt, config)) :
                                        BinaryOf[c.command] \notin path => BinaryOf[c.command] \in files
                        /\ ~failed /\ (required \ changed) \ There # {} => optional \cap changed # {}
                        /\ failed => (required \ There) \cup changed # {}
  BY DEF CheckFits
<1> DEFINE required == {r.binary : r \in {q \in ToSet(rows) : q.category \notin Advisory}}
           optional == {r.binary : r \in {q \in ToSet(rows) : q.category \in Advisory}}
           failed == answer.kind = "err"
           D == DOMAIN rows
           Optional == {i \in D : rows[i].category \in Advisory}
           Gone == {i \in Optional : rows[i].binary \notin There}
<1>1. Begun /\ stage # "checking"
  BY DEF Begun
<1>2. PICK was \in SUBSET changed :
         missing = Cardinality({i \in D : rows[i].binary \notin (There \ changed) \cup was})
  BY <1>1 DEF InspectInv, CountFits
<1> DEFINE Lost == {i \in D : rows[i].binary \notin (There \ changed) \cup was}
<1>3. /\ IsFiniteSet(D) /\ IsFiniteSet(Lost) /\ IsFiniteSet(Gone)
      /\ missing \in Nat /\ Cardinality(Gone) \in Nat
  <2>1. IsFiniteSet(D)
    BY <1>1 DEF InspectInv, RowsFit
  <2>2. Lost \in SUBSET D /\ Gone \in SUBSET D
    OBVIOUS
  <2>3. IsFiniteSet(Lost) /\ IsFiniteSet(Gone)
    BY <2>1, <2>2, FS_Subset
  <2>. QED  BY <2>1, <2>3, <1>2, FS_CardinalityType
<1>4. failed <=> missing > Cardinality(Gone)
  <2>1. answer.kind = IF RequiredMissing > 0 THEN "err" ELSE "ok"
    BY DEF InspectInv, AnswerFits
  <2>2. RequiredMissing = IF missing > Cardinality(Gone) THEN missing - Cardinality(Gone) ELSE 0
    BY DEF RequiredMissing, Lacking
  <2>. HIDE DEF Gone
  <2>. QED  BY <2>1, <2>2, <1>3
<1>5. Gone \subseteq Lost => (failed <=> Lost # Gone)
  <2> SUFFICES ASSUME Gone \in SUBSET Lost PROVE failed <=> Lost # Gone
    OBVIOUS
  <2>. HIDE DEF Gone, Lost, failed
  <2>1. Cardinality(Gone) <= Cardinality(Lost) /\ (Cardinality(Lost) = Cardinality(Gone) => Lost = Gone)
    BY <1>3, FS_Subset
  <2>2. missing = Cardinality(Lost)
    BY <1>2 DEF Lost
  <2>. QED  BY <2>1, <2>2, <1>3, <1>4
<1>6. /\ required = {rows[i].binary : i \in D \ Optional}
      /\ optional = {rows[i].binary : i \in Optional}
  BY DEF ToSet
<1>. HIDE DEF failed, required, optional
<1>7. changed = {} => (failed <=> ~(required \subseteq There))
  <2> SUFFICES ASSUME changed = {} PROVE failed <=> ~(required \subseteq There)
    OBVIOUS
  <2>1. Lost = {i \in D : rows[i].binary \notin There}
    OBVIOUS
  <2>2. Gone \subseteq Lost /\ (Lost # Gone <=> ~(required \subseteq There))
    BY <2>1, <1>6
  <2>. QED  BY <2>2, <1>5
<1>8. ASSUME changed = {}, ~failed, NEW p \in ToSet(CheckedProfiles),
             NEW c \in ToSet(CreateCommands([profile |-> p.name, filter_commands |-> {}], config))
      PROVE  BinaryOf[c.command] \notin path => BinaryOf[c.command] \in files
  <2> DEFINE opt == [profile |-> p.name, filter_commands |-> {}]
             name == ProfileName(opt, config)
             first == Profile(config, name)
  <2>1. /\ Validate(config) /\ (ask.profile # Default => HasProfile(config, ask.profile))
        /\ \A q \in ToSet(CheckedProfiles) : \A n \in ToSet(q.commands) :
              \E i \in DOMAIN rows : /\ rows[i].category = q.name
                                     /\ rows[i].binary = BinaryOf[CommandOf(config, n).command]
    BY <1>1 DEF InspectInv, RowsFit
  <2>2. Readable(config)
    BY RunAssumption DEF RunIInv, RunTypes, Readable, config
  <2>3. HasProfile(config, name) /\ first \in ToSet(CheckedProfiles)
    <3>1. CASE ask.profile = Default
      <4>1. CheckedProfiles = config.profiles
        BY <3>1 DEF CheckedProfiles
      <4>2. HasProfile(config, name)
        BY <4>1, <2>1 DEF HasProfile, Validate, ProfileName
      <4>. QED  BY <4>1, <4>2, <2>2, ProfileOfName DEF Readable
    <3>2. CASE ask.profile # Default
      <4>1. CheckedProfiles = <<Profile(config, ask.profile)>> /\ HasProfile(config, ask.profile)
        BY <3>2, <2>1 DEF CheckedProfiles
      <4>2. ToSet(CheckedProfiles) = {Profile(config, ask.profile)}
        BY <4>1 DEF ToSet
      <4>3. Profile(config, ask.profile).name = ask.profile
        BY <4>1, <2>2, ProfileOfName DEF Readable
      <4>4. name = ask.profile
        BY <4>2, <4>3, <3>2 DEF ProfileName
      <4>. QED  BY <4>1, <4>2, <4>4
    <3>. QED  BY <3>1, <3>2
  <2>4. PICK n \in ToSet(first.commands) : c = CommandOf(config, n)
    <3>1. ~Refused(opt, config) /\ opt.filter_commands = {}
      BY <2>1, <2>3 DEF Refused
    <3>2. c \in ToSet(CreateCommands(opt, config))
      BY <1>8
    <3>. HIDE DEF opt
    <3>. QED  BY <2>2, <3>1, <3>2, RunByName
  <2>. HIDE DEF first
  <2>5. PICK i \in D : /\ rows[i].category = first.name
                       /\ rows[i].binary = BinaryOf[CommandOf(config, n).command]
    BY <2>1, <2>3, <2>4
  <2>6. rows[i].binary \in required
    BY <2>3, <2>5, <1>6
  <2>7. BinaryOf[c.command] \in There
    BY <2>4, <2>5, <2>6, <1>7, <1>8
  <2>. QED  BY <2>7 DEF There
<1>9. ASSUME ~failed, (required \ changed) \ There # {}, optional \cap changed = {}
      PROVE  FALSE
  <2>1. \A i \in Optional : rows[i].binary \notin changed
    BY <1>6, <1>9
  <2>2. Gone \subseteq Lost
    BY <1>2, <2>1
  <2>3. PICK i \in D \ Optional : rows[i].binary \notin changed /\ rows[i].binary \notin There
    BY <1>6, <1>9
  <2>4. i \in Lost /\ i \notin Gone
    BY <1>2, <2>3
  <2>. QED  BY <2>2, <2>4, <1>5, <1>9
<1>. QED  BY <1>7, <1>8, <1>9 DEF required, optional, failed

(* A name is explained as the first topic that has it.                        *)
LEMMA FirstTopic ==
    ASSUME NEW id, NEW t, t = TopicOf(id)
    PROVE  /\ t \in 0 .. 5
           /\ t = 0 => \A i \in 1 .. 5 : id \notin IdsOf(Topics[i])
           /\ t # 0 => id \in IdsOf(Topics[t]) /\ \A j \in 1 .. t - 1 : id \notin IdsOf(Topics[j])
<1> DEFINE S == {i \in 1 .. 5 : id \in IdsOf(Topics[i])}
<1>1. Len(Topics) = 5
  BY DEF Topics
<1>2. t = IF S # {} THEN Min(S) ELSE 0
  BY <1>1 DEF TopicOf, SelectInSeq
<1>3. S # {} => t \in S /\ \A j \in S : t <= j
  <2>1. S \in SUBSET (1 .. 5)
    OBVIOUS
  <2>. HIDE DEF S
  <2>. QED  BY <1>2, <2>1, SmallestPosition
<1>4. CASE S = {}
  <2>1. t = 0
    BY <1>2, <1>4
  <2>. QED  BY <2>1, <1>4
<1>5. CASE S # {}
  <2>1. t \in 1 .. 5 /\ id \in IdsOf(Topics[t]) /\ \A j \in S : t <= j
    BY <1>3, <1>5
  <2>2. ASSUME NEW j \in 1 .. t - 1 PROVE id \notin IdsOf(Topics[j])
    <3>1. j \in 1 .. 5 /\ ~(t <= j)
      BY <2>1
    <3>. QED  BY <2>1, <3>1
  <2>. QED  BY <2>1, <2>2
<1>. QED  BY <1>4, <1>5

(* What is said of a name, by its topic.                                      *)
LEMMA Explanations ==
    ASSUME NEW id
    PROVE  /\ \A topic : Explanation(topic, id).kind = topic
           /\ Explanation("command", id).of = <<FirstCommand(id).command>>
           /\ Explanation("signal", id).of = Emitters(id)
<1>1. "command" # "signal"
  OBVIOUS
<1>. QED  BY <1>1, Zenon DEF Explanation

(* The command that `explain` finds has the name.                             *)
LEMMA FirstOfName ==
    ASSUME IsVector(config.commands), NEW id \in Names(config)
    PROVE  FirstCommand(id) \in ToSet(config.commands) /\ FirstCommand(id).name = id
<1> DEFINE all == config.commands
           S == {i \in 1 .. Len(all) : all[i].name = id}
<1>1. Len(all) \in Nat /\ DOMAIN all = 1 .. Len(all)
  BY VectorElements
<1>2. S # {} /\ S \in SUBSET (1 .. Len(all))
  BY <1>1 DEF Names, ToSet
<1>3. FirstCommand(id) = all[Min(S)]
  BY <1>2 DEF FirstCommand, SelectInSeq
<1>4. Min(S) \in S
  <2>. HIDE DEF S
  <2>. QED  BY <1>1, <1>2, SmallestPosition
<1>. QED  BY <1>1, <1>3, <1>4 DEF ToSet

(* Of the topics: a name is known as what it can be explained as, the first   *)
(* of the kinds is told, and of a signal whoever emits it.                    *)
LEMMA ExplainIsRight == InspectInv /\ RunIInv => ExplainAnswers
<1> SUFFICES ASSUME InspectInv, RunIInv,
                    stage = "answered", ask.command = "explain", ask.id # Default
             PROVE  LET Of(topic) == <<ask.id, topic>> \in Known
                        same == {c \in ToSet(config.commands) : c.name = ask.id}
                    IN  /\ answer.kind = "unknown" <=> \A t \in ToSet(Topics) : ~Of(t)
                        /\ answer.kind = "unknown" => answer.known = Known
                        /\ answer.kind = "signal" =>
                              /\ ~Of("command") /\ ~Of("rule")
                              /\ \A c \in ToSet(config.commands) :
                                    ask.id \in EmitsOf[c.command] => Contains(answer.of, c.name)
                              /\ \A i \in DOMAIN answer.of : answer.of[i] \in Names(config)
                        /\ answer.kind = "collector signal" => ~Of("signal")
                        /\ answer.kind = "command" /\ Cardinality(same) = 1 =>
                              answer.of = <<CommandOf(config, ask.id).command>>
  BY DEF ExplainAnswers
<1> DEFINE id == ask.id
           all == config.commands
           t == TopicOf(id)
           Of(topic) == <<id, topic>> \in Known
           same == {c \in ToSet(all) : c.name = id}
<1>0. answer = IF t = 0 THEN [kind |-> "unknown", known |-> Known] ELSE Explanation(Topics[t], id)
  BY DEF InspectInv, AnswerFits, Told
<1>1. /\ t \in 0 .. 5
      /\ t = 0 => \A i \in 1 .. 5 : id \notin IdsOf(Topics[i])
      /\ t # 0 => id \in IdsOf(Topics[t]) /\ \A j \in 1 .. t - 1 : id \notin IdsOf(Topics[j])
  BY FirstTopic
<1>. HIDE DEF t
<1>2. /\ ToSet(Topics) = {"command", "rule", "signal", "collector signal", "profiling tool"}
      /\ t = 0 => \A topic \in ToSet(Topics) : id \notin IdsOf(topic)
      /\ t # 0 => Topics[t] \in ToSet(Topics) /\ id \in IdsOf(Topics[t])
      /\ Topics[t] = "command" => t = 1 \/ t = 0
      /\ Topics[t] = "signal" => t = 3 \/ t = 0
      /\ Topics[t] = "collector signal" => t = 4 \/ t = 0
      /\ t = 3 => id \notin IdsOf("command") /\ id \notin IdsOf("rule")
      /\ t = 4 => id \notin IdsOf("signal")
  <2>1. /\ Topics[1] = "command" /\ Topics[2] = "rule" /\ Topics[3] = "signal"
        /\ Topics[4] = "collector signal" /\ Topics[5] = "profiling tool"
        /\ DOMAIN Topics = 1 .. 5
    BY DEF Topics
  <2>2. ToSet(Topics) = {"command", "rule", "signal", "collector signal", "profiling tool"}
    <3>1. 1 .. 5 = {1, 2, 3, 4, 5}
      OBVIOUS
    <3>. QED  BY <2>1, <3>1 DEF ToSet
  <2>3. t \in {0, 1, 2, 3, 4, 5}
    BY <1>1
  <2>4. t = 3 => id \notin IdsOf(Topics[1]) /\ id \notin IdsOf(Topics[2])
    BY <1>1
  <2>5. t = 4 => id \notin IdsOf(Topics[3])
    BY <1>1
  <2>6. t = 0 => \A i \in {1, 2, 3, 4, 5} : id \notin IdsOf(Topics[i])
    BY <1>1
  <2>7. /\ t # 0 => Topics[t] \in ToSet(Topics)
        /\ Topics[t] = "command" => t = 1 \/ t = 0
        /\ Topics[t] = "signal" => t = 3 \/ t = 0
        /\ Topics[t] = "collector signal" => t = 4 \/ t = 0
    BY <2>1, <2>2, <2>3
  <2>8. t = 0 => \A topic \in ToSet(Topics) : id \notin IdsOf(topic)
    <3> SUFFICES ASSUME t = 0, NEW topic \in ToSet(Topics) PROVE id \notin IdsOf(topic)
      OBVIOUS
    <3>1. PICK i \in DOMAIN Topics : topic = Topics[i]
      BY DEF ToSet
    <3>2. i \in 1 .. 5
      BY <2>1
    <3>3. i \in {1, 2, 3, 4, 5}
      BY <3>2
    <3>. QED  BY <2>6, <3>1, <3>3
  <2>9. /\ t = 3 => id \notin IdsOf("command") /\ id \notin IdsOf("rule")
        /\ t = 4 => id \notin IdsOf("signal")
    BY <2>1, <2>4, <2>5, Zenon
  <2>. QED  BY <1>1, <2>2, <2>7, <2>8, <2>9, Zenon
<1>3. ASSUME NEW topic \in ToSet(Topics) PROVE Of(topic) <=> id \in IdsOf(topic)
  BY DEF Known
<1>4. Readable(config) /\ IsVector(all)
  BY RunAssumption DEF RunIInv, RunTypes, Readable, config
<1>5. t # 0 => answer.kind = Topics[t] /\ answer = Explanation(Topics[t], id)
  BY <1>0, Explanations
<1>6. answer.kind = "unknown" <=> t = 0
  <2>1. t = 0 => answer.kind = "unknown"
    BY <1>0
  <2>2. t # 0 => Topics[t] # "unknown"
    BY <1>2
  <2>. QED  BY <2>1, <2>2, <1>5
<1>7. answer.kind = "unknown" <=> \A topic \in ToSet(Topics) : ~Of(topic)
  <2>1. t = 0 <=> \A topic \in ToSet(Topics) : id \notin IdsOf(topic)
    BY <1>2
  <2>. QED  BY <2>1, <1>3, <1>6
<1>8. answer.kind = "unknown" => answer.known = Known
  BY <1>0, <1>6
<1>9. ASSUME answer.kind = "signal"
      PROVE  /\ ~Of("command") /\ ~Of("rule")
             /\ \A c \in ToSet(all) : id \in EmitsOf[c.command] => Contains(answer.of, c.name)
             /\ \A i \in DOMAIN answer.of : answer.of[i] \in Names(config)
  <2>1. t = 3
    BY <1>2, <1>5, <1>6, <1>9
  <2>2. id \notin IdsOf("command") /\ id \notin IdsOf("rule")
    BY <1>2, <2>1
  <2>3. answer.of = Emitters(id)
    BY <1>5, <1>9, <2>1, Explanations
  <2> DEFINE S == {i \in DOMAIN all : id \in EmitsOf[all[i].command]}
             emitting == Pick(all, S)
  <2>4. IsVector(emitting) /\ ToSet(emitting) = {all[i] : i \in S}
    BY <1>4, PickSet
  <2>5. Emitters(id) = [i \in DOMAIN emitting |-> emitting[i].name]
    BY DEF Emitters
  <2>. HIDE DEF emitting
  <2>6. /\ DOMAIN answer.of = DOMAIN emitting /\ DOMAIN emitting = 1 .. Len(emitting)
        /\ Len(emitting) \in Nat
        /\ \A i \in DOMAIN emitting : answer.of[i] = emitting[i].name
    BY <2>3, <2>4, <2>5, VectorElements
  <2>7. Len(answer.of) = Len(emitting)
    BY <2>3, <2>5, <2>6
  <2>8. ASSUME NEW c \in ToSet(all), id \in EmitsOf[c.command]
        PROVE  Contains(answer.of, c.name)
    <3>1. c \in ToSet(emitting)
      BY <2>4, <2>8 DEF ToSet
    <3>2. PICK i \in DOMAIN emitting : emitting[i] = c
      BY <3>1 DEF ToSet
    <3>. QED  BY <3>2, <2>6, <2>7 DEF Contains
  <2>9. ASSUME NEW i \in DOMAIN answer.of PROVE answer.of[i] \in Names(config)
    <3>1. emitting[i] \in ToSet(all)
      BY <2>4, <2>6 DEF ToSet
    <3>. QED  BY <3>1, <2>6 DEF Names
  <2>10. "command" \in ToSet(Topics) /\ "rule" \in ToSet(Topics)
    BY <1>2
  <2>. QED  BY <2>2, <2>8, <2>9, <2>10, <1>3
<1>10. answer.kind = "collector signal" => ~Of("signal")
  <2> SUFFICES ASSUME answer.kind = "collector signal" PROVE ~Of("signal")
    OBVIOUS
  <2>1. t = 4
    BY <1>2, <1>5, <1>6
  <2>2. id \notin IdsOf("signal") /\ "signal" \in ToSet(Topics)
    BY <1>2, <2>1
  <2>. QED  BY <2>2, <1>3
<1>11. ASSUME answer.kind = "command", Cardinality(same) = 1
       PROVE  answer.of = <<CommandOf(config, id).command>>
  <2>1. t = 1
    BY <1>2, <1>5, <1>6, <1>11
  <2>2. id \in Names(config)
    <3>1. Topics[t] = "command" /\ t # 0
      BY <1>5, <1>11, <2>1
    <3>. HIDE DEF id
    <3>2. id \in IdsOf("command")
      BY <1>2, <3>1, Zenon
    <3>3. IdsOf("command") = Names(config)
      BY Zenon DEF IdsOf
    <3>. QED  BY <3>2, <3>3
  <2>3. answer.of = <<FirstCommand(id).command>>
    BY <1>5, <1>11, <2>1, Explanations
  <2>4. FirstCommand(id) \in ToSet(all) /\ FirstCommand(id).name = id
    BY <1>4, <2>2, FirstOfName
  <2>5. FirstCommand(id) \in same /\ CommandOf(config, id) \in same
    BY <2>2, <2>4, <1>4, CommandOfName
  <2>6. IsFiniteSet(same)
    <3>1. IsFiniteSet(ToSet(all))
      <4>1. Len(all) \in Nat /\ DOMAIN all = 1 .. Len(all)
        BY <1>4, VectorElements
      <4>2. all \in Surjection(1 .. Len(all), ToSet(all))
        BY <1>4, <4>1 DEF IsVector, ToSet, Surjection
      <4>3. IsFiniteSet(1 .. Len(all))
        BY <4>1, FS_Interval
      <4>. QED  BY <4>2, <4>3, FS_Surjection
    <3>2. same \in SUBSET ToSet(all)
      OBVIOUS
    <3>. QED  BY <3>1, <3>2, FS_Subset
  <2>7. PICK x : same = {x}
    <3>. HIDE DEF same
    <3>. QED  BY <2>6, <1>11, FS_Singleton
  <2>. QED  BY <2>3, <2>5, <2>7
<1>. QED  BY <1>7, <1>8, <1>9, <1>10, <1>11

(* `check` fails if and only if something that is needed lacks, for every     *)
(* configuration and whatever comes or goes while it looks; what passes is on *)
(* the PATH, or is a file of that name, which a report looks for on the PATH  *)
(* in vain and skips (cli/mod.rs:639, 694; command.rs:191); and `explain`     *)
(* tells of every known name what it stands for first, of no other anything,  *)
(* and forgets no command that emits a signal (cli/mod.rs:581-731, 920-1036,  *)
(* 1585-1603).                                                                *)
THEOREM InspectionTells == MainSpec => []InspectionFits
<1>1. InspectInv /\ RunIInv => InspectionFits
  BY CheckIsRight, ExplainIsRight DEF InspectionFits
<1>. QED  BY <1>1, InspectInvariantHolds, RunInvariantHolds, PTL
================================================================================
