--------------------------- MODULE RollingStoreProofs ---------------------------
(***************************************************************************)
(* Proofs about RollingStore, for any number of writers and readers, any   *)
(* window, any set of faults and whatever the file may hold at first: the  *)
(* lock excludes, the records are in the order of their capture in the     *)
(* file and in what a reader gets, also across a rewrite that it misses,   *)
(* the rewrites implement the log of RollingLog, and only a fault of its   *)
(* own, the read that broke off among them, makes an append take from it   *)
(* more than the oldest record.                                            *)
(***************************************************************************)
EXTENDS RollingStore, PositionsProofs, SequenceTheorems, FunctionTheorems,
        FiniteSetTheorems, TLAPS

-------------------------------------------------------------------------------
(* The records that reading finds.                                            *)

(* What is read is a part of the lines, in their order, that moves no record  *)
(* to a later place.                                                          *)
LEMMA ReadRecordsSelect ==
    ASSUME NEW ls \in Seq(Lines)
    PROVE  \E at \in [1 .. Len(ReadRecords(ls)) -> DOMAIN ls] :
              /\ ReadRecords(ls) \in Seq(Lines)
              /\ \A k \in 1 .. Len(ReadRecords(ls)) :
                    /\ ReadRecords(ls)[k] = ls[at[k]] /\ IsRecord(ls[at[k]])
                    /\ at[k] >= k
                    /\ \A h \in 1 .. Len(ReadRecords(ls)) : h < k => at[h] < at[k]
<1> DEFINE R == RecordsAt(ls)
           n == Cardinality(R)
           at == [k \in 1 .. n |-> Nth(R, k)]
<1>1. Len(ls) \in Nat /\ R \in SUBSET (1 .. Len(ls))
  BY DEF RecordsAt
<1>2. n \in Nat
  BY <1>1, NumbersFinite
<1>3. ASSUME NEW k \in 1 .. n
      PROVE  /\ at[k] \in R /\ at[k] \in DOMAIN ls /\ IsRecord(ls[at[k]]) /\ at[k] >= k
             /\ ls[at[k]] \in Lines /\ \A h \in 1 .. n : h < k => at[h] < at[k]
  <2>. HIDE DEF n
  <2>1. Nth(R, k) \in R /\ Nth(R, k) >= k
    BY <1>1, NthExists, NthAscends DEF n
  <2>2. \A h \in 1 .. n : h < k => Nth(R, h) < Nth(R, k)
    BY <1>1, NthAscends DEF n
  <2>. QED  BY <1>1, <2>1, <2>2 DEF RecordsAt
<1>4. ReadRecords(ls) = [k \in 1 .. n |-> ls[at[k]]]
  BY DEF ReadRecords, Pick
<1>. HIDE DEF at, n
<1>5. ReadRecords(ls) \in Seq(Lines) /\ Len(ReadRecords(ls)) = n
  BY <1>2, <1>3, <1>4
<1>6. at \in [1 .. n -> DOMAIN ls]
  BY <1>3 DEF at
<1>7. \A k \in 1 .. n : ReadRecords(ls)[k] = ls[at[k]]
  BY <1>4
<1>. QED  BY <1>3, <1>5, <1>6, <1>7

(* The last Window elements of a sequence.                                    *)
LEMMA LastOfSelect ==
    ASSUME NEW S, NEW s \in Seq(S)
    PROVE  /\ LastOf(s) \in Seq(S)
           /\ Len(LastOf(s)) = IF Len(s) > Window THEN Window ELSE Len(s)
           /\ \A k \in 1 .. Len(LastOf(s)) :
                 /\ LastOf(s)[k] = s[Len(s) - Len(LastOf(s)) + k]
                 /\ Len(s) - Len(LastOf(s)) + k \in k .. Len(s)
<1>1. Len(s) \in Nat /\ Window \in Nat \ {0}
  BY WindowAssumption
<1>2. CASE Len(s) > Window
  <2> DEFINE m == Len(s) - Window + 1
  <2>1. m \in 1 .. Len(s)
    BY <1>1, <1>2
  <2>2. /\ SubSeq(s, m, Len(s)) \in Seq(S)
        /\ Len(SubSeq(s, m, Len(s))) = Len(s) - m + 1
        /\ \A k \in 1 .. Len(s) - m + 1 : SubSeq(s, m, Len(s))[k] = s[m + k - 1]
    BY <1>1, <2>1, SMTT(30)
  <2>3. LastOf(s) = SubSeq(s, m, Len(s))
    BY <1>2 DEF LastOf
  <2>4. Len(s) - m + 1 = Window
    BY <1>1
  <2>5. \A k \in 1 .. Window : m + k - 1 = Len(s) - Window + k /\ Len(s) - Window + k \in k .. Len(s)
    BY <1>1, <1>2
  <2>. HIDE DEF m
  <2>. QED  BY <1>2, <2>2, <2>3, <2>4, <2>5, SMTT(30)
<1>3. CASE ~(Len(s) > Window)
  <2>1. LastOf(s) = SubSeq(s, 1, Len(s))
    BY <1>3 DEF LastOf
  <2>2. SubSeq(s, 1, Len(s)) = s
    BY SubSeqFull
  <2>3. \A k \in 1 .. Len(s) : Len(s) - Len(s) + k = k /\ k \in k .. Len(s)
    BY <1>1
  <2>4. LastOf(s) = s
    BY <2>1, <2>2
  <2>. QED  BY <1>1, <1>3, <2>3, <2>4
<1>. QED  BY <1>2, <1>3

-------------------------------------------------------------------------------
(* The inductive invariant.                                                   *)

(* The writers from the flock to its release, and among them those that have  *)
(* decided what the file will hold.                                           *)
Holding(p) == writer[p].at \in {"locked", "truncate", "write", "drop", "unlock"}
Rewriting(p) == writer[p].at \in {"write", "drop"}
Busy(p) == writer[p].at = "truncate" \/ Rewriting(p)

(* At most one writer at a time is behind the flock.                          *)
OneHolder == \A p \in Writer : Holding(p) <=> lock = p

(* Lines whose records ascend and are not from the future, seen from t.       *)
Sound(ls, t) == Ascending(ls) /\ \A i \in DOMAIN ls : ls[i].at <= t

(* What a writer is going to leave: the last records it has read and its own, *)
(* or a line that does not read back.                                         *)
Planned(p) ==
    LET old == writer[p].existing
    IN  /\ Sound(old, now) /\ \A i \in DOMAIN old : IsRecord(old[i])
        /\ Sound(writer[p].kept, now)
        /\ \E l \in Lines :
              /\ writer[p].kept = LastOf(Append(old, l))
              /\ \/ IsRecord(l) /\ \A i \in DOMAIN old : old[i].at < l.at
                 \/ l = Malformed /\ "nonfinite" \in Faults

(* Before it truncates, what it has read is still in the file, and none of    *)
(* the records will move to a later line.                                     *)
Unharmed(p) ==
    /\ writer[p].existing \in MayRead(file)
    /\ \A j \in DOMAIN file, k \in DOMAIN writer[p].kept :
          j < k /\ IsRecord(file[j]) /\ IsRecord(writer[p].kept[k])
              => file[j].at < writer[p].kept[k].at

(* Behind that the file is the beginning of what it will be.                  *)
Begun(p) ==
    /\ Len(file) <= Len(writer[p].kept)
    /\ \A i \in DOMAIN file : file[i] = writer[p].kept[i]

(* All that a reader may still find in ls is newer than what it has.          *)
Newer(r, ls) ==
    \A i \in DOMAIN reader[r].got, k \in DOMAIN ls :
        k > reader[r].pos /\ IsRecord(ls[k]) => reader[r].got[i].at < ls[k].at

Reads(r) ==
    /\ Sound(reader[r].got, now) /\ \A i \in DOMAIN reader[r].got : IsRecord(reader[r].got[i])
    /\ Newer(r, file)
    /\ \A p \in Writer : Busy(p) => Newer(r, writer[p].kept)

IInv ==
    /\ TypeOK /\ OneHolder /\ Sound(file, now)
    /\ \A p \in Writer :
          /\ Busy(p) => Planned(p)
          /\ writer[p].at = "truncate" => Unharmed(p)
          /\ Rewriting(p) => Begun(p)
    /\ \A r \in Reader : Reads(r)

-------------------------------------------------------------------------------

(* At first no process has come to anything yet.                              *)
LEMMA InitInvariant == Init => IInv
<1>. SUFFICES ASSUME Init PROVE IInv
  OBVIOUS
<1>1. file \in Seq(Lines) /\ Ascending(file) /\ now = Len(file) /\ now \in Nat
  BY InitFilesAssumption DEF Init
<1>2. \A i \in DOMAIN file : file[i].at <= now
  BY InitFilesAssumption DEF Init
<1>3. \A p \in Writer : writer[p] = NewWriter
  BY DEF Init
<1>4. \A r \in Reader : reader[r] = NewReader
  BY DEF Init
<1>5. NewWriter \in WriterStates /\ NewReader \in ReaderStates
  BY DEF NewWriter, NewReader, WriterStates, ReaderStates
<1>6. TypeOK
  <2>1. writer \in [Writer -> WriterStates] /\ reader \in [Reader -> ReaderStates]
    BY <1>5 DEF Init
  <2>2. \A p \in Writer : Len(writer[p].kept) <= Window
    BY <1>3, WindowAssumption DEF NewWriter
  <2>. QED  BY <1>1, <2>1, <2>2 DEF TypeOK, Init
<1>7. OneHolder
  BY <1>3, WriterAssumption DEF OneHolder, Holding, NewWriter, Init
<1>8. \A p \in Writer : ~Busy(p) /\ ~Rewriting(p) /\ writer[p].at # "truncate"
  BY <1>3 DEF Busy, Rewriting, NewWriter
<1>9. \A r \in Reader : Reads(r)
  BY <1>4, <1>8 DEF Reads, Newer, Sound, Ascending, NewReader
<1>. QED  BY <1>1, <1>2, <1>6, <1>7, <1>8, <1>9 DEF IInv, Sound

(* A step of a writer that leaves the file and its plan alone, and does not   *)
(* go on to a state that promises more.                                       *)
LEMMA QuietStep ==
    ASSUME IInv, NEW p \in Writer,
           UNCHANGED <<file, reader, now>>,
           lock' \in Writer \cup {"free"}, OneHolder',
           writer' \in [Writer -> WriterStates],
           \A q \in Writer : q # p => writer'[q] = writer[q],
           Busy(p)' => /\ writer'[p].existing = writer[p].existing
                       /\ writer'[p].kept = writer[p].kept,
           Len(writer'[p].kept) <= Window,
           writer'[p].at = "truncate" => writer[p].at = "truncate",
           Rewriting(p)' => Rewriting(p)
    PROVE  IInv'
<1>1. TypeOK'
  <2>1. \A q \in Writer : Len(writer'[q].kept) <= Window
    BY DEF IInv, TypeOK
  <2>. QED  BY <2>1 DEF IInv, TypeOK
<1>2. Sound(file, now)'
  BY DEF IInv, Sound, Ascending
<1>3. ASSUME NEW q \in Writer
      PROVE  /\ Busy(q)' => Busy(q)
             /\ Rewriting(q)' => Rewriting(q)
             /\ (writer[q].at = "truncate")' => writer[q].at = "truncate"
             /\ Busy(q)' => /\ writer'[q].kept = writer[q].kept
                            /\ writer'[q].existing = writer[q].existing
  BY DEF Busy, Rewriting
<1>4. ASSUME NEW q \in Writer
      PROVE  /\ (Busy(q) => Planned(q))'
             /\ (writer[q].at = "truncate" => Unharmed(q))'
             /\ (Rewriting(q) => Begun(q))'
  <2>1. (Busy(q) => Planned(q))'
    BY <1>3 DEF IInv, Planned, Sound
  <2>2. (writer[q].at = "truncate" => Unharmed(q))'
    BY <1>3 DEF IInv, Unharmed, Busy
  <2>3. (Rewriting(q) => Begun(q))'
    BY <1>3 DEF IInv, Begun, Busy
  <2>. QED  BY <2>1, <2>2, <2>3
<1>5. ASSUME NEW r \in Reader PROVE Reads(r)'
  BY <1>3 DEF IInv, Reads, Newer, Sound
<1>. QED  BY <1>1, <1>2, <1>4, <1>5 DEF IInv

(* A step that changes the file when no writer is left that has a plan.       *)
LEMMA TornStep ==
    ASSUME IInv, NEW p \in Writer, Holding(p),
           file' \in Seq(Lines), Sound(file, now)', now' = now,
           \A r \in Reader : Newer(r, file)',
           reader' \in [Reader -> ReaderStates],
           \A r \in Reader : reader'[r].got = reader[r].got,
           lock' \in Writer \cup {"free"}, OneHolder',
           writer' \in [Writer -> WriterStates],
           \A q \in Writer : q # p => writer'[q] = writer[q],
           Len(writer'[p].kept) <= Window,
           ~Busy(p)'
    PROVE  IInv'
<1>1. TypeOK'
  <2>1. \A q \in Writer : Len(writer'[q].kept) <= Window
    BY DEF IInv, TypeOK
  <2>. QED  BY <2>1 DEF IInv, TypeOK
<1>2. ASSUME NEW q \in Writer PROVE ~Busy(q)'
  <2>1. q # p => ~Holding(q)
    BY DEF IInv, OneHolder
  <2>. QED  BY <2>1 DEF Busy, Rewriting, Holding
<1>3. \A r \in Reader : Reads(r)'
  BY <1>2 DEF IInv, Reads, Sound
<1>. QED  BY <1>1, <1>2, <1>3 DEF IInv, Busy

(* A writer gets through the flock when it is free, and gives it back.        *)
LEMMA OneHolderKept ==
    ASSUME IInv, NEW p \in Writer,
           writer' \in [Writer -> WriterStates],
           \A q \in Writer : q # p => writer'[q] = writer[q],
           \/ lock' = lock /\ (Holding(p)' <=> Holding(p))
           \/ lock = "free" /\ lock' = p /\ Holding(p)'
           \/ lock = p /\ lock' = "free" /\ ~Holding(p)'
    PROVE  lock' \in Writer \cup {"free"} /\ OneHolder'
<1>1. lock' \in Writer \cup {"free"}
  BY DEF IInv, TypeOK
<1>2. \A q \in Writer : q # p => (Holding(q)' <=> Holding(q))
  BY DEF Holding
<1>. QED  BY <1>1, <1>2, WriterAssumption DEF IInv, OneHolder

(* What EXCEPT does to the state of one writer.                               *)
LEMMA WriterMoves ==
    ASSUME TypeOK, NEW p \in Writer,
           NEW at \in {"idle", "locking", "locked", "truncate", "write", "drop", "unlock",
                       "returned", "crashed"},
           NEW result \in {"none", "ok", "err"},
           \/ writer' = [writer EXCEPT ![p].at = at] /\ result = writer[p].result
           \/ writer' = [writer EXCEPT ![p].at = at, ![p].result = result]
    PROVE  /\ writer' \in [Writer -> WriterStates]
           /\ \A q \in Writer : q # p => writer'[q] = writer[q]
           /\ writer'[p].existing = writer[p].existing
           /\ writer'[p].kept = writer[p].kept /\ Len(writer'[p].kept) <= Window
           /\ writer'[p].at = at
           /\ writer'[p].result = result
<1>1. /\ writer \in [Writer -> WriterStates] /\ writer[p] \in WriterStates
      /\ Len(writer[p].kept) <= Window
  BY DEF TypeOK
<1>2. CASE writer' = [writer EXCEPT ![p].at = at] /\ result = writer[p].result
  <2>1. [writer[p] EXCEPT !.at = at] \in WriterStates
    BY <1>1 DEF WriterStates
  <2>. QED  BY <1>1, <1>2, <2>1 DEF WriterStates
<1>3. CASE writer' = [writer EXCEPT ![p].at = at, ![p].result = result]
  <2> DEFINE w == [[writer[p] EXCEPT !.at = at] EXCEPT !.result = result]
  <2>1. w \in WriterStates /\ w.existing = writer[p].existing /\ w.kept = writer[p].kept
        /\ w.at = at /\ w.result = result
    BY <1>1 DEF WriterStates
  <2>2. writer' = [writer EXCEPT ![p] = w]
    BY <1>1, <1>3
  <2>. HIDE DEF w
  <2>. QED  BY <1>1, <2>1, <2>2
<1>4. writer'[p].kept = writer[p].kept
  BY <1>2, <1>3
<1>. QED  BY <1>1, <1>2, <1>3, <1>4

(* An append that is over has no plan.                                        *)
LEMMA WriterLeaves ==
    ASSUME TypeOK, NEW p \in Writer, NEW at \in {"returned", "crashed"}, Leave(p, at)
    PROVE  /\ writer' \in [Writer -> WriterStates]
           /\ \A q \in Writer : q # p => writer'[q] = writer[q]
           /\ Len(writer'[p].kept) <= Window
           /\ writer'[p].at = at
<1> DEFINE w == [NewWriter EXCEPT !.at = at, !.result = writer[p].result]
<1>1. w \in WriterStates /\ w.at = at /\ w.kept = <<>>
  <2>1. writer[p].result \in {"none", "ok", "err"}
    BY DEF TypeOK, WriterStates
  <2>2. NewWriter \in WriterStates /\ NewWriter.kept = <<>>
    BY DEF NewWriter, WriterStates
  <2>3. at \in {"idle", "locking", "locked", "truncate", "write", "drop", "unlock",
                "returned", "crashed"}
    OBVIOUS
  <2>. HIDE DEF NewWriter
  <2>. QED  BY <2>1, <2>2, <2>3 DEF WriterStates
<1>2. writer' = [writer EXCEPT ![p] = w] /\ writer \in [Writer -> WriterStates]
  BY DEF Leave, TypeOK
<1>. HIDE DEF w
<1>3. writer'[p] = w /\ writer' \in [Writer -> WriterStates]
  BY <1>1, <1>2
<1>4. Len(<<>>) = 0 /\ 0 <= Window
  BY WindowAssumption
<1>. QED  BY <1>1, <1>2, <1>3, <1>4

(* The steps that leave the file alone, or the log.                           *)
LEMMA QuietSteps ==
    ASSUME IInv, NEW p \in Writer,
           \/ Open(p) \/ Acquire(p) \/ OpenFails(p)
           \/ LoopDone(p) \/ FlushDone(p) \/ Unlock(p)
    PROVE  IInv'
<1>1. TypeOK /\ writer[p] \in WriterStates
  BY DEF IInv, TypeOK
<1>2. CASE Open(p)
  <2>. QED  BY <1>1, <1>2, WriterMoves, OneHolderKept, QuietStep, ZenonT(30)
            DEF Open, At, Goto, Holding, Rewriting, WriterStates
<1>3. CASE Acquire(p)
  BY <1>1, <1>3, WriterMoves, OneHolderKept, QuietStep, ZenonT(30)
  DEF Acquire, At, Goto, Holding, Rewriting, WriterStates
<1>4. CASE OpenFails(p)
  BY <1>1, <1>4, WriterMoves, OneHolderKept, QuietStep
  DEF OpenFails, Holding, Rewriting, WriterStates
<1>5. CASE LoopDone(p)
  BY <1>1, <1>5, WriterMoves, OneHolderKept, QuietStep
  DEF LoopDone, At, Holding, Rewriting, WriterStates
<1>6. CASE FlushDone(p)
  BY <1>1, <1>6, WriterMoves, OneHolderKept, QuietStep
  DEF FlushDone, At, Goto, Holding, Rewriting, WriterStates
<1>7. CASE Unlock(p)
  <2>1. lock = p
    BY <1>7 DEF IInv, OneHolder, Holding, Unlock, At
  <2>2. /\ writer' \in [Writer -> WriterStates]
        /\ \A q \in Writer : q # p => writer'[q] = writer[q]
        /\ Len(writer'[p].kept) <= Window /\ writer'[p].at = "returned"
    BY <1>1, <1>7, WriterLeaves DEF Unlock
  <2>3. lock' \in Writer \cup {"free"} /\ OneHolder'
    BY <1>7, <2>1, <2>2, OneHolderKept DEF Unlock, Holding
  <2>. QED  BY <1>7, <2>2, <2>3, QuietStep DEF Unlock, Busy, Rewriting
<1>. QED  BY <1>2, <1>3, <1>4, <1>5, <1>6, <1>7

-------------------------------------------------------------------------------
(* The plan of an append.                                                     *)

(* What is sound stays so as time passes.                                     *)
LEMMA SoundLater ==
    ASSUME NEW ls \in Seq(Lines), NEW t \in Nat, Sound(ls, t)
    PROVE  /\ \A i \in DOMAIN ls : ls[i].at \in Nat /\ ls[i].at <= t /\ ls[i].at < t + 1
           /\ Sound(ls, t + 1)
<1>1. ASSUME NEW i \in DOMAIN ls
      PROVE  ls[i].at \in Nat /\ ls[i].at <= t /\ ls[i].at <= t + 1 /\ ls[i].at < t + 1
  <2>1. ls[i] \in Lines /\ ls[i].at <= t
    BY DEF Sound
  <2>. QED  BY <2>1 DEF Lines
<1>. QED  BY <1>1 DEF Sound

(* The records that are read from sound lines are sound.                      *)
LEMMA ReadSound ==
    ASSUME NEW ls \in Seq(Lines), NEW t, Sound(ls, t)
    PROVE  /\ ReadRecords(ls) \in Seq(Lines) /\ Sound(ReadRecords(ls), t)
           /\ \A k \in DOMAIN ReadRecords(ls) :
                 /\ IsRecord(ReadRecords(ls)[k])
                 /\ \E y \in DOMAIN ls : y >= k /\ ReadRecords(ls)[k] = ls[y]
<1> DEFINE old == ReadRecords(ls)
<1>1. PICK at \in [1 .. Len(old) -> DOMAIN ls] :
         /\ old \in Seq(Lines)
         /\ \A k \in 1 .. Len(old) :
               /\ old[k] = ls[at[k]] /\ IsRecord(ls[at[k]]) /\ at[k] >= k
               /\ \A h \in 1 .. Len(old) : h < k => at[h] < at[k]
  BY ReadRecordsSelect
<1>. HIDE DEF old
<1>2. DOMAIN old = 1 .. Len(old)
  BY <1>1
<1>3. Ascending(old)
  <2>1. ASSUME NEW h \in DOMAIN old, NEW k \in DOMAIN old, h < k
        PROVE  old[h].at < old[k].at
    <3>1. at[h] \in DOMAIN ls /\ at[k] \in DOMAIN ls /\ at[h] < at[k]
      BY <1>1, <1>2, <2>1
    <3>. QED  BY <1>1, <1>2, <3>1 DEF Sound, Ascending
  <2>. QED  BY <2>1 DEF Ascending
<1>4. \A k \in DOMAIN old : at[k] \in DOMAIN ls /\ old[k].at <= t
  BY <1>1, <1>2 DEF Sound
<1>. QED  BY <1>1, <1>2, <1>3, <1>4 DEF Sound, old

(* The first elements of a sequence.                                          *)
LEMMA FirstOf ==
    ASSUME NEW S, NEW s \in Seq(S), NEW n \in 0 .. Len(s)
    PROVE  /\ SubSeq(s, 1, n) \in Seq(S) /\ Len(SubSeq(s, 1, n)) = n
           /\ \A k \in 1 .. n : k \in DOMAIN s /\ SubSeq(s, 1, n)[k] = s[k]
           /\ SubSeq(s, 1, n) # s => n < Len(s)
<1>1. Len(s) \in Nat /\ DOMAIN s = 1 .. Len(s)
  OBVIOUS
<1>2. n \in Nat /\ n <= Len(s)
  BY <1>1
<1>3. \A k \in 1 .. n : k \in 1 .. Len(s)
  BY <1>1, <1>2
<1>4. SubSeq(s, 1, n) = [k \in 1 .. n |-> s[k]]
  BY <1>1, <1>2, <1>3
<1>5. SubSeq(s, 1, n) \in Seq(S) /\ Len(SubSeq(s, 1, n)) = n
  BY <1>2, <1>3, <1>4
<1>6. n = Len(s) => SubSeq(s, 1, n) = s
  BY SubSeqFull
<1>7. SubSeq(s, 1, n) # s => n < Len(s)
  <2> DEFINE m == Len(s)
  <2>0. m \in Nat /\ n \in Nat /\ n <= m
    BY <1>1, <1>2
  <2>. HIDE DEF m
  <2>1. n = m \/ n < m
    BY <2>0
  <2>. QED  BY <1>6, <2>1, Zenon DEF m
<1>8. \A k \in 1 .. n : SubSeq(s, 1, n)[k] = s[k]
  BY <1>4
<1>. QED  BY <1>1, <1>3, <1>5, <1>7, <1>8

(* A read that broke off has the first of the records.                        *)
LEMMA MayReadFirst ==
    ASSUME NEW ls \in Seq(Lines), NEW old \in MayRead(ls)
    PROVE  \E n \in 0 .. Len(ReadRecords(ls)) :
              /\ old = SubSeq(ReadRecords(ls), 1, n)
              /\ old \in Seq(Lines) /\ Len(old) = n
              /\ \A k \in 1 .. n : k \in DOMAIN ReadRecords(ls) /\ old[k] = ReadRecords(ls)[k]
              /\ old # ReadRecords(ls) => n < Len(ReadRecords(ls)) /\ "io" \in Faults
<1>1. PICK all \in Seq(Lines) : all = ReadRecords(ls)
  BY ReadRecordsSelect
<1>2. Len(all) \in 0 .. Len(all)
  OBVIOUS
<1>3. PICK n \in 0 .. Len(all) : old = SubSeq(all, 1, n) /\ (n = Len(all) \/ "io" \in Faults)
  BY <1>1, <1>2 DEF MayRead
<1>4. /\ SubSeq(all, 1, n) \in Seq(Lines) /\ Len(SubSeq(all, 1, n)) = n
      /\ \A k \in 1 .. n : k \in DOMAIN all /\ SubSeq(all, 1, n)[k] = all[k]
      /\ SubSeq(all, 1, n) # all => n < Len(all)
  BY FirstOf
<1>5. n = Len(all) => ~(n < Len(all))
  BY <1>2
<1>. QED  BY <1>1, <1>3, <1>4, <1>5

(* What an append may have read of sound lines is sound.                      *)
LEMMA MayReadSound ==
    ASSUME NEW ls \in Seq(Lines), NEW t, Sound(ls, t), NEW old \in MayRead(ls)
    PROVE  /\ old \in Seq(Lines) /\ Sound(old, t)
           /\ \A k \in DOMAIN old :
                 IsRecord(old[k]) /\ \E y \in DOMAIN ls : y >= k /\ old[k] = ls[y]
<1> DEFINE all == ReadRecords(ls)
<1>1. /\ all \in Seq(Lines) /\ Sound(all, t)
      /\ \A k \in DOMAIN all :
            IsRecord(all[k]) /\ \E y \in DOMAIN ls : y >= k /\ all[k] = ls[y]
  BY ReadSound
<1>2. PICK n \in 0 .. Len(all) :
         /\ old \in Seq(Lines) /\ Len(old) = n
         /\ \A k \in 1 .. n : k \in DOMAIN all /\ old[k] = all[k]
  BY MayReadFirst
<1>. HIDE DEF all
<1>3. DOMAIN old = 1 .. n
  BY <1>2
<1>4. Sound(old, t)
  BY <1>1, <1>2, <1>3 DEF Sound, Ascending
<1>. QED  BY <1>1, <1>2, <1>3, <1>4

(* What an append keeps: records of the file at no later a line, then its own.*)
LEMMA KeptSound ==
    ASSUME file \in Seq(Lines), Sound(file, now), now \in Nat, NEW old \in MayRead(file),
           NEW l \in Lines, l = Record(now + 1) \/ l = Malformed,
           NEW kept, kept = LastOf(Append(old, l))
    PROVE  /\ kept \in Seq(Lines) /\ Len(kept) <= Window
           /\ Sound(kept, now + 1) /\ Sound(old, now + 1)
           /\ \A k \in DOMAIN kept : IsRecord(kept[k]) =>
                 \/ kept[k].at = now + 1
                 \/ \E y \in DOMAIN file : y >= k /\ kept[k] = file[y]
<1> DEFINE s == Append(old, l)
<1>1. /\ old \in Seq(Lines) /\ Sound(old, now)
      /\ \A k \in DOMAIN old :
            IsRecord(old[k]) /\ \E y \in DOMAIN file : y >= k /\ old[k] = file[y]
  BY MayReadSound
<1>2. l.at \in Nat /\ l.at <= now + 1 /\ (IsRecord(l) => l.at = now + 1)
  BY DEF Record, Malformed, IsRecord
<1>3. /\ s \in Seq(Lines) /\ Len(s) = Len(old) + 1 /\ Len(old) \in Nat /\ s[Len(s)] = l
      /\ \A i \in 1 .. Len(old) : s[i] = old[i]
      /\ DOMAIN old = 1 .. Len(old)
  BY <1>1
<1>. HIDE DEF s
<1>4. /\ \A i \in 1 .. Len(s) : s[i] \in Lines /\ s[i].at <= now + 1 /\ s[i].at \in Nat
      /\ \A i \in 1 .. Len(s), j \in 1 .. Len(s) :
            i < j /\ IsRecord(s[i]) /\ IsRecord(s[j]) => s[i].at < s[j].at
  <2>1. ASSUME NEW i \in 1 .. Len(old) PROVE old[i].at \in Nat /\ old[i].at <= now
    BY <1>1, <1>3, SoundLater
  <2>2. ASSUME NEW i \in 1 .. Len(s) PROVE s[i] \in Lines /\ s[i].at <= now + 1 /\ s[i].at \in Nat
    <3>1. i = Len(s) \/ i \in 1 .. Len(old)
      BY <1>3
    <3>. QED  BY <1>2, <1>3, <2>1, <3>1
  <2>3. ASSUME NEW i \in 1 .. Len(s), NEW j \in 1 .. Len(s),
               i < j, IsRecord(s[i]), IsRecord(s[j])
        PROVE  s[i].at < s[j].at
    <3>1. i \in 1 .. Len(old) /\ (j = Len(s) \/ j \in 1 .. Len(old))
      BY <1>3, <2>3
    <3>2. CASE j = Len(s)
      BY <3>1, <3>2, <1>2, <1>3, <2>1, <2>3
    <3>3. CASE j \in 1 .. Len(old)
      BY <3>1, <3>3, <1>1, <1>3, <2>3 DEF Sound, Ascending
    <3>. QED  BY <3>1, <3>2, <3>3
  <2>. QED  BY <2>2, <2>3
<1>5. /\ kept \in Seq(Lines)
      /\ Len(kept) = IF Len(s) > Window THEN Window ELSE Len(s)
      /\ \A k \in 1 .. Len(kept) :
            /\ kept[k] = s[Len(s) - Len(kept) + k]
            /\ Len(s) - Len(kept) + k \in k .. Len(s)
  BY <1>3, LastOfSelect DEF s
<1>6. Len(kept) <= Window /\ DOMAIN kept = 1 .. Len(kept) /\ Len(kept) \in Nat
  BY <1>3, <1>5, WindowAssumption
<1>7. Sound(kept, now + 1)
  <2>1. ASSUME NEW i \in 1 .. Len(kept) PROVE kept[i].at <= now + 1
    <3> DEFINE x == Len(s) - Len(kept) + i
    <3>1. x \in 1 .. Len(s) /\ kept[i] = s[x]
      BY <1>3, <1>5, <1>6
    <3>. HIDE DEF x
    <3>. QED  BY <1>4, <3>1
  <2>2. ASSUME NEW i \in 1 .. Len(kept), NEW j \in 1 .. Len(kept),
               i < j, IsRecord(kept[i]), IsRecord(kept[j])
        PROVE  kept[i].at < kept[j].at
    <3> DEFINE x == Len(s) - Len(kept) + i
               y == Len(s) - Len(kept) + j
    <3>1. x \in 1 .. Len(s) /\ y \in 1 .. Len(s) /\ x < y
      BY <1>3, <1>5, <1>6, <2>2
    <3>2. kept[i] = s[x] /\ kept[j] = s[y]
      BY <1>5
    <3>. HIDE DEF x, y
    <3>. QED  BY <1>4, <3>1, <3>2, <2>2
  <2>. QED  BY <1>6, <2>1, <2>2 DEF Sound, Ascending
<1>8. Sound(old, now + 1)
  BY <1>1, SoundLater
<1>9. ASSUME NEW k \in 1 .. Len(kept), IsRecord(kept[k])
      PROVE  \/ kept[k].at = now + 1
             \/ \E y \in DOMAIN file : y >= k /\ kept[k] = file[y]
  <2> DEFINE x == Len(s) - Len(kept) + k
  <2>1. x \in k .. Len(s) /\ kept[k] = s[x]
    BY <1>5
  <2>. HIDE DEF x
  <2>2. CASE x = Len(s)
    BY <1>2, <1>3, <1>9, <2>1, <2>2
  <2>3. CASE x # Len(s)
    <3>1. x \in 1 .. Len(old) /\ x >= k /\ kept[k] = old[x]
      BY <1>3, <2>1, <2>3
    <3>2. PICK y \in DOMAIN file : y >= x /\ old[x] = file[y]
      BY <1>1, <1>3, <3>1
    <3>. QED  BY <3>1, <3>2
  <2>. QED  BY <2>2, <2>3
<1>. QED  BY <1>5, <1>6, <1>7, <1>8, <1>9

(* An append that has read and pruned has a plan, and so does nobody else.    *)
LEMMA ReadAndPruneStep ==
    ASSUME IInv, NEW p \in Writer, ReadAndPrune(p)
    PROVE  IInv'
<1>0. /\ TypeOK /\ file \in Seq(Lines) /\ Sound(file, now) /\ now \in Nat /\ At(p, "locked")
      /\ now' = now + 1 /\ file' = file /\ lock' = lock /\ reader' = reader
      /\ writer[p] \in WriterStates
  BY DEF IInv, TypeOK, ReadAndPrune
<1> DEFINE Planning(old, l) ==
        /\ l = Record(now + 1) \/ (l = Malformed /\ "nonfinite" \in Faults)
        /\ writer' = [writer EXCEPT ![p].at = "truncate",
                                    ![p].existing = old,
                                    ![p].kept = LastOf(Append(old, l))]
<1>old. PICK old \in MayRead(file) : \E l : Planning(old, l)
  BY DEF ReadAndPrune
<1>1. PICK l : Planning(old, l)
  BY <1>old
<1> DEFINE kept == LastOf(Append(old, l))
<1>2. l \in Lines /\ (IsRecord(l) => l = Record(now + 1))
  BY <1>0, <1>1 DEF Lines, Record, Malformed, IsRecord
<1>3. /\ old \in Seq(Lines) /\ Sound(old, now)
      /\ \A k \in DOMAIN old : IsRecord(old[k])
  BY <1>0, MayReadSound
<1>4. /\ kept \in Seq(Lines) /\ Len(kept) <= Window /\ Sound(kept, now + 1) /\ Sound(old, now + 1)
      /\ \A k \in DOMAIN kept : IsRecord(kept[k]) =>
            \/ kept[k].at = now + 1
            \/ \E y \in DOMAIN file : y >= k /\ kept[k] = file[y]
  BY <1>0, <1>1, <1>2, KeptSound
<1>. HIDE DEF kept
<1>5. /\ writer' \in [Writer -> WriterStates]
      /\ \A q \in Writer : q # p => writer'[q] = writer[q]
      /\ writer'[p].at = "truncate" /\ writer'[p].existing = old /\ writer'[p].kept = kept
  <2> DEFINE w == [[[writer[p] EXCEPT !.at = "truncate"] EXCEPT !.existing = old] EXCEPT !.kept = kept]
  <2>1. /\ w \in WriterStates /\ w.at = "truncate" /\ w.existing = old /\ w.kept = kept
    BY <1>0, <1>3, <1>4 DEF WriterStates
  <2>2. writer' = [writer EXCEPT ![p] = w]
    BY <1>0, <1>1 DEF TypeOK, kept
  <2>. HIDE DEF w
  <2>. QED  BY <1>0, <2>1, <2>2 DEF TypeOK
<1>6. OneHolder'
  BY <1>0, <1>5, OneHolderKept DEF Holding, At
<1>7. ASSUME NEW q \in Writer, q # p PROVE ~Busy(q)'
  <2>1. ~Holding(q)
    BY <1>0, <1>7 DEF IInv, OneHolder, Holding, At
  <2>. QED  BY <2>1, <1>5, <1>7 DEF Busy, Rewriting, Holding
<1>8. TypeOK'
  <2>1. Len(writer'[p].kept) <= Window
    BY <1>4, <1>5
  <2>2. \A q \in Writer : Len(writer[q].kept) <= Window
    BY <1>0 DEF TypeOK
  <2>3. \A q \in Writer : Len(writer'[q].kept) <= Window
    <3> HIDE DEF WriterStates
    <3>. QED  BY <1>5, <2>1, <2>2
  <2>4. /\ file' \in Seq(Lines) /\ lock' \in Writer \cup {"free"}
        /\ reader' \in [Reader -> ReaderStates] /\ now' \in Nat
    BY <1>0 DEF TypeOK
  <2>. QED  BY <1>5, <2>3, <2>4 DEF TypeOK
<1>9. Sound(file, now)'
  BY <1>0, SoundLater
<1>10. Planned(p)'
  <2>1. IsRecord(l) => \A i \in DOMAIN old : old[i].at < l.at
    <3>1. \A i \in DOMAIN old : old[i].at < now + 1
      BY <1>0, <1>3, SoundLater
    <3>2. IsRecord(l) => l.at = now + 1
      BY <1>2 DEF Record
    <3>. QED  BY <3>1, <3>2
  <2>2. \/ IsRecord(l) /\ \A i \in DOMAIN old : old[i].at < l.at
        \/ l = Malformed /\ "nonfinite" \in Faults
    BY <1>1, <2>1 DEF Record, IsRecord
  <2>3. kept = LastOf(Append(old, l))
    BY DEF kept
  <2>. QED  BY <1>0, <1>2, <1>3, <1>4, <1>5, <2>2, <2>3 DEF Planned
<1>11. Unharmed(p)'
  <2>1. ASSUME NEW j \in DOMAIN file, NEW k \in DOMAIN kept,
               j < k, IsRecord(file[j]), IsRecord(kept[k])
        PROVE  file[j].at < kept[k].at
    <3>1. CASE kept[k].at = now + 1
      BY <1>0, <3>1, SoundLater
    <3>2. ASSUME NEW y \in DOMAIN file, y >= k, kept[k] = file[y]
          PROVE  file[j].at < kept[k].at
      <4>1. j < y
        BY <1>0, <1>4, <2>1, <3>2
      <4>. QED  BY <1>0, <2>1, <3>2, <4>1 DEF Sound, Ascending
    <3>. QED  BY <1>4, <2>1, <3>1, <3>2
  <2>. QED  BY <1>0, <1>1, <1>5, <2>1 DEF Unharmed
<1>12. ASSUME NEW r \in Reader PROVE Reads(r)'
  <2>1. Reads(r) /\ reader[r] \in ReaderStates
    BY <1>0 DEF IInv, TypeOK
  <2>2. ASSUME NEW i \in DOMAIN reader[r].got, NEW k \in DOMAIN kept,
               k > reader[r].pos, IsRecord(kept[k])
        PROVE  reader[r].got[i].at < kept[k].at
    <3>1. reader[r].got[i].at \in Nat /\ reader[r].got[i].at <= now
      BY <1>0, <2>1, SoundLater DEF Reads, ReaderStates
    <3>2. CASE kept[k].at = now + 1
      BY <1>0, <3>1, <3>2
    <3>3. ASSUME NEW y \in DOMAIN file, y >= k, kept[k] = file[y]
          PROVE  reader[r].got[i].at < kept[k].at
      <4>1. y > reader[r].pos
        BY <1>0, <1>4, <2>1, <2>2, <3>3 DEF ReaderStates
      <4>. QED  BY <2>1, <2>2, <3>3, <4>1 DEF Reads, Newer
    <3>. QED  BY <1>4, <2>2, <3>2, <3>3
  <2>3. (\A q \in Writer : Busy(q) => Newer(r, writer[q].kept))'
    BY <1>0, <1>5, <1>7, <2>2 DEF Newer
  <2>4. Newer(r, file)'
    BY <1>0, <2>1 DEF Reads, Newer
  <2>5. Sound(reader[r].got, now)'
    BY <1>0, <2>1, SoundLater DEF Reads, ReaderStates
  <2>. QED  BY <1>0, <2>1, <2>3, <2>4, <2>5 DEF Reads
<1>13. \A q \in Writer : /\ (Busy(q) => Planned(q))'
                         /\ (writer[q].at = "truncate" => Unharmed(q))'
                         /\ (Rewriting(q) => Begun(q))'
  BY <1>5, <1>7, <1>10, <1>11 DEF Busy, Rewriting
<1>. QED  BY <1>6, <1>8, <1>9, <1>12, <1>13 DEF IInv

-------------------------------------------------------------------------------
(* The rewrite.                                                               *)

(* Before set_len(0) the file is what was read; behind it is empty, which is  *)
(* the beginning of everything.                                               *)
LEMMA TruncateStep ==
    ASSUME IInv, NEW p \in Writer, Truncate(p)
    PROVE  IInv'
<1>1. /\ TypeOK /\ writer[p] \in WriterStates /\ writer[p].at = "truncate" /\ Holding(p)
      /\ lock' = lock /\ now' = now
  BY DEF IInv, TypeOK, Truncate, At, Holding
<1>2. ASSUME file' = <<>> \/ UNCHANGED file, OffsetsStale \/ UNCHANGED reader
      PROVE  /\ file' \in Seq(Lines) /\ Sound(file, now)' /\ reader' \in [Reader -> ReaderStates]
             /\ \A r \in Reader : /\ reader'[r].got = reader[r].got /\ reader'[r].pos = reader[r].pos
                                  /\ Newer(r, file)'
  <2>1. file' \in Seq(Lines)
    <3>1. file \in Seq(Lines) /\ <<>> \in Seq(Lines)
      BY <1>1 DEF TypeOK
    <3>. QED  BY <1>2, <3>1
  <2>2. Sound(file, now)'
    BY <1>1, <1>2 DEF IInv, Sound, Ascending
  <2>3. /\ reader' \in [Reader -> ReaderStates]
        /\ \A r \in Reader : reader'[r].got = reader[r].got /\ reader'[r].pos = reader[r].pos
    <3>1. CASE OffsetsStale
      <4>1. ASSUME NEW r \in Reader
            PROVE  /\ [reader[r] EXCEPT !.stale = (reader[r].at = "reading")] \in ReaderStates
                   /\ reader'[r] = [reader[r] EXCEPT !.stale = (reader[r].at = "reading")]
                   /\ reader'[r].got = reader[r].got /\ reader'[r].pos = reader[r].pos
        <5>1. reader[r] \in ReaderStates
          BY <1>1 DEF TypeOK
        <5>2. reader'[r] = [reader[r] EXCEPT !.stale = (reader[r].at = "reading")]
          BY <3>1 DEF OffsetsStale
        <5>. QED  BY <5>1, <5>2 DEF ReaderStates
      <4>. QED  BY <3>1, <4>1 DEF OffsetsStale
    <3>2. CASE UNCHANGED reader
      BY <1>1, <3>2 DEF TypeOK
    <3>. QED  BY <1>2, <3>1, <3>2
  <2>4. ASSUME NEW r \in Reader PROVE Newer(r, file)'
    BY <1>2, <2>3 DEF IInv, Reads, Newer
  <2>. QED  BY <2>1, <2>2, <2>3, <2>4
<1>3. CASE Fail(p)
  <2>1. /\ file' \in Seq(Lines) /\ Sound(file, now)' /\ reader' \in [Reader -> ReaderStates]
        /\ \A r \in Reader : reader'[r].got = reader[r].got /\ Newer(r, file)'
    BY <1>2, <1>3 DEF Truncate
  <2>2. /\ writer' \in [Writer -> WriterStates]
        /\ \A q \in Writer : q # p => writer'[q] = writer[q]
        /\ Len(writer'[p].kept) <= Window /\ writer'[p].at = "unlock"
    BY <1>1, <1>3, WriterMoves DEF Fail
  <2>3. lock' \in Writer \cup {"free"} /\ OneHolder'
    BY <1>1, <2>2, OneHolderKept DEF Holding
  <2>. QED  BY <1>1, <2>1, <2>2, <2>3, TornStep DEF Busy, Rewriting
<1>4. CASE Goto(p, "write") /\ file' = <<>> /\ OffsetsStale
  <2>1. /\ file' \in Seq(Lines) /\ Sound(file, now)' /\ reader' \in [Reader -> ReaderStates]
        /\ \A r \in Reader : /\ reader'[r].got = reader[r].got /\ reader'[r].pos = reader[r].pos
                             /\ Newer(r, file)'
    BY <1>2, <1>4
  <2>2. /\ writer' \in [Writer -> WriterStates]
        /\ \A q \in Writer : q # p => writer'[q] = writer[q]
        /\ writer'[p].kept = writer[p].kept /\ writer'[p].existing = writer[p].existing
        /\ writer'[p].at = "write"
    BY <1>1, <1>4, WriterMoves DEF Goto, WriterStates
  <2>3. lock' \in Writer \cup {"free"} /\ OneHolder'
    BY <1>1, <2>2, OneHolderKept DEF Holding
  <2>4. ASSUME NEW q \in Writer
        PROVE  writer'[q].at # "truncate" /\ (Busy(q)' => q = p)
    <3>1. q # p => ~Holding(q)
      BY <1>1 DEF IInv, OneHolder
    <3>. QED  BY <3>1, <2>2 DEF Busy, Rewriting, Holding
  <2>5. Planned(p)'
    BY <1>1, <2>2 DEF IInv, Busy, Planned
  <2>6. Begun(p)'
    BY <1>1, <1>4, <2>2 DEF Begun, TypeOK, WriterStates
  <2>7. TypeOK'
    BY <1>1, <2>1, <2>2, <2>3 DEF TypeOK
  <2>8. ASSUME NEW r \in Reader PROVE Reads(r)'
    <3>1. Newer(r, writer[p].kept)
      BY <1>1 DEF IInv, Reads, Busy
    <3>2. (\A q \in Writer : Busy(q) => Newer(r, writer[q].kept))'
      BY <2>1, <2>2, <2>4, <3>1 DEF Newer
    <3>. QED  BY <1>1, <2>1, <3>2 DEF IInv, Reads
  <2>. QED  BY <2>1, <2>3, <2>4, <2>5, <2>6, <2>7, <2>8 DEF IInv, Busy, Rewriting
<1>. QED  BY <1>3, <1>4 DEF Truncate

(* The file gets the next line of the plan.                                   *)
LEMMA PutLineStep ==
    ASSUME IInv, NEW p \in Writer, WriteLine(p) \/ FlushLine(p)
    PROVE  IInv'
<1> DEFINE kept == writer[p].kept
<1>1. /\ TypeOK /\ file \in Seq(Lines) /\ kept \in Seq(Lines) /\ Rewriting(p) /\ Busy(p)
      /\ Len(file) < Len(kept) /\ file' = Append(file, kept[Len(file) + 1])
      /\ lock' = lock /\ writer' = writer /\ reader' = reader /\ now' = now
  BY DEF IInv, TypeOK, WriterStates, WriteLine, FlushLine, PutLine, At, Rewriting, Busy
<1>2. /\ Begun(p) /\ Sound(kept, now) /\ \A r \in Reader : Reads(r) /\ Newer(r, kept)
  BY <1>1 DEF IInv, Planned, Reads
<1>3. /\ file' \in Seq(Lines) /\ Len(file') = Len(file) + 1 /\ Len(file') <= Len(kept)
      /\ \A i \in DOMAIN file' : i \in DOMAIN kept /\ file'[i] = kept[i]
  <2>1. Len(file) \in Nat /\ Len(kept) \in Nat /\ Len(file) + 1 \in 1 .. Len(kept)
    BY <1>1
  <2>2. kept[Len(file) + 1] \in Lines
    BY <1>1, <2>1
  <2>3. /\ file' \in Seq(Lines) /\ Len(file') = Len(file) + 1 /\ DOMAIN file' = 1 .. Len(file) + 1
        /\ file'[Len(file) + 1] = kept[Len(file) + 1]
        /\ \A i \in 1 .. Len(file) : file'[i] = file[i]
    BY <1>1, <2>2
  <2>4. ASSUME NEW i \in 1 .. Len(file) + 1
        PROVE  i \in DOMAIN kept /\ file'[i] = kept[i]
    <3>1. i \in DOMAIN kept
      BY <1>1, <2>1
    <3>2. i \in 1 .. Len(file) \/ i = Len(file) + 1
      BY <2>1
    <3>. QED  BY <1>1, <1>2, <2>3, <3>1, <3>2 DEF Begun
  <2>. QED  BY <2>1, <2>3, <2>4
<1>. HIDE DEF kept
<1>4. Sound(file, now)'
  BY <1>1, <1>2, <1>3 DEF Sound, Ascending
<1>5. ASSUME NEW q \in Writer PROVE Busy(q) => q = p
  <2>1. q # p => ~Holding(q)
    BY <1>1 DEF IInv, OneHolder, Rewriting, Holding
  <2>. QED  BY <2>1 DEF Busy, Rewriting, Holding
<1>6. ASSUME NEW q \in Writer
      PROVE  /\ (Busy(q) => Planned(q))'
             /\ (writer[q].at = "truncate" => Unharmed(q))'
             /\ (Rewriting(q) => Begun(q))'
  <2>1. (Busy(q) => Planned(q))'
    BY <1>1 DEF IInv, Busy, Rewriting, Planned
  <2>2. writer'[q].at # "truncate"
    BY <1>1, <1>5 DEF Busy, Rewriting
  <2>3. (Rewriting(q) => Begun(q))'
    <3>1. Rewriting(q)' => q = p
      BY <1>1, <1>5 DEF Busy, Rewriting
    <3>. QED  BY <3>1, <1>1, <1>3 DEF Begun, kept
  <2>. QED  BY <2>1, <2>2, <2>3
<1>7. ASSUME NEW r \in Reader PROVE Reads(r)'
  <2>1. Newer(r, file)'
    BY <1>1, <1>2, <1>3 DEF Newer
  <2>. QED  BY <1>1, <1>2, <2>1 DEF Reads, Busy, Rewriting, Newer
<1>8. TypeOK' /\ OneHolder'
  BY <1>1, <1>3 DEF IInv, TypeOK, OneHolder, Holding
<1>. QED  BY <1>4, <1>6, <1>7, <1>8 DEF IInv

(* A torn line is no record.                                                  *)
LEMMA TornFile ==
    ASSUME IInv, file' \in {file, Append(file, Malformed)}, UNCHANGED <<reader, now>>
    PROVE  /\ file' \in Seq(Lines) /\ Sound(file, now)'
           /\ \A r \in Reader : Newer(r, file)'
<1>1. /\ file \in Seq(Lines) /\ now \in Nat /\ Sound(file, now)
      /\ \A r \in Reader : Newer(r, file)
  BY DEF IInv, TypeOK, Reads
<1>2. CASE file' = file
  BY <1>1, <1>2 DEF Sound, Ascending, Newer
<1>3. CASE file' = Append(file, Malformed)
  <2>1. Malformed \in Lines /\ ~IsRecord(Malformed) /\ Malformed.at <= now
    BY <1>1 DEF Malformed, Lines, IsRecord
  <2>2. /\ file' \in Seq(Lines) /\ DOMAIN file' = 1 .. Len(file) + 1
        /\ file'[Len(file) + 1] = Malformed /\ DOMAIN file = 1 .. Len(file)
        /\ \A i \in 1 .. Len(file) : file'[i] = file[i]
    BY <1>1, <1>3, <2>1
  <2>. HIDE DEF Malformed
  <2>3. ASSUME NEW i \in DOMAIN file'
        PROVE  file'[i].at <= now /\ (IsRecord(file'[i]) => i \in DOMAIN file /\ file'[i] = file[i])
    <3>1. i = Len(file) + 1 \/ i \in 1 .. Len(file)
      BY <1>1, <2>2
    <3>. QED  BY <1>1, <2>1, <2>2, <3>1 DEF Sound
  <2>4. Sound(file, now)'
    BY <1>1, <2>3 DEF Sound, Ascending
  <2>5. \A r \in Reader : Newer(r, file)'
    BY <1>1, <2>3 DEF Newer
  <2>. QED  BY <2>2, <2>4, <2>5
<1>. QED  BY <1>2, <1>3

(* A write or a flush that fails, and a crash.                                *)
LEMMA TornSteps ==
    ASSUME IInv, NEW p \in Writer, WriteFails(p) \/ FlushFails(p) \/ Crash(p)
    PROVE  IInv'
<1>1. /\ TypeOK /\ writer[p] \in WriterStates /\ UNCHANGED <<reader, now>>
      /\ reader \in [Reader -> ReaderStates]
  BY DEF IInv, TypeOK, WriteFails, FlushFails, Crash
<1>2. ASSUME WriteFails(p) \/ FlushFails(p) PROVE IInv'
  <2>1. /\ file' \in Seq(Lines) /\ Sound(file, now)' /\ \A r \in Reader : Newer(r, file)'
    BY <1>1, <1>2, TornFile DEF WriteFails, FlushFails
  <2>2. /\ writer' \in [Writer -> WriterStates]
        /\ \A q \in Writer : q # p => writer'[q] = writer[q]
        /\ Len(writer'[p].kept) <= Window /\ writer'[p].at = "unlock"
    BY <1>1, <1>2, WriterMoves DEF WriteFails, FlushFails, Fail, Goto, WriterStates
  <2>3. Holding(p) /\ lock' = lock
    BY <1>2 DEF WriteFails, FlushFails, At, Holding
  <2>4. lock' \in Writer \cup {"free"} /\ OneHolder'
    BY <2>2, <2>3, OneHolderKept DEF Holding
  <2>. QED  BY <1>1, <2>1, <2>2, <2>3, <2>4, TornStep DEF Busy, Rewriting
<1>3. ASSUME Crash(p) PROVE IInv'
  <2>1. file' \in {file, Append(file, Malformed)}
    BY <1>3 DEF Crash
  <2>2. /\ file' \in Seq(Lines) /\ Sound(file, now)' /\ \A r \in Reader : Newer(r, file)'
    BY <1>1, <2>1, TornFile
  <2>3. /\ writer' \in [Writer -> WriterStates]
        /\ \A q \in Writer : q # p => writer'[q] = writer[q]
        /\ Len(writer'[p].kept) <= Window /\ writer'[p].at = "crashed"
    BY <1>1, <1>3, WriterLeaves DEF Crash
  <2>4. lock' \in Writer \cup {"free"} /\ OneHolder'
    <3>1. Holding(p) <=> lock = p
      BY DEF IInv, OneHolder
    <3>. QED  BY <1>3, <2>3, <3>1, OneHolderKept DEF Crash, Holding
  <2>5. CASE Holding(p)
    BY <1>1, <2>2, <2>3, <2>4, <2>5, TornStep DEF Busy, Rewriting
  <2>6. CASE ~Holding(p)
    <3>1. file' = file
      BY <1>3, <2>6 DEF Crash, Holding
    <3>. QED  BY <1>1, <2>3, <2>4, <3>1, QuietStep DEF Busy, Rewriting
  <2>. QED  BY <2>5, <2>6
<1>. QED  BY <1>2, <1>3

-------------------------------------------------------------------------------
(* The readers.                                                               *)

(* A line that a reader takes leaves only newer ones behind it, in the file   *)
(* and in what a writer is about to put there.                                *)
LEMMA LoadLineStep ==
    ASSUME IInv, NEW r \in Reader, LoadLine(r)
    PROVE  IInv'
<1> DEFINE got == reader[r].got
           pos == reader[r].pos
           l == file[pos + 1]
<1>1. /\ TypeOK /\ file \in Seq(Lines) /\ Sound(file, now) /\ now \in Nat
      /\ reader[r] \in ReaderStates /\ reader \in [Reader -> ReaderStates] /\ Reads(r)
      /\ pos \in Nat /\ pos < Len(file)
      /\ UNCHANGED <<file, lock, writer, now>>
  BY DEF IInv, TypeOK, LoadLine, ReaderStates
<1>2. pos + 1 \in DOMAIN file /\ l \in Lines
  BY <1>1
<1>. HIDE DEF l
<1>3. /\ reader' \in [Reader -> ReaderStates]
      /\ \A q \in Reader : q # r => reader'[q] = reader[q]
      /\ reader'[r].pos = pos + 1
      /\ \/ reader'[r].got = got
         \/ IsRecord(l) /\ reader'[r].got = Append(got, l)
  <2>1. PICK whole \in BOOLEAN :
           reader' = [reader EXCEPT
               ![r].pos = @ + 1,
               ![r].at = IF IsBinary(l) THEN "failed" ELSE @,
               ![r].got = IF IsRecord(l) /\ whole THEN Append(@, l) ELSE @]
    BY DEF LoadLine, l
  <2> DEFINE newAt == IF IsBinary(l) THEN "failed" ELSE reader[r].at
             newGot == IF IsRecord(l) /\ whole THEN Append(got, l) ELSE got
             R == [[[reader[r] EXCEPT !.pos = pos + 1] EXCEPT !.at = newAt] EXCEPT !.got = newGot]
  <2>2. /\ newAt \in {"idle", "reading", "loaded", "failed"} /\ newGot \in Seq(Lines)
        /\ pos + 1 \in Nat
    BY <1>1, <1>2 DEF ReaderStates
  <2>3. reader' = [reader EXCEPT ![r] = R]
    BY <1>1, <2>1
  <2>4. newGot = got \/ (IsRecord(l) /\ newGot = Append(got, l))
    OBVIOUS
  <2>. HIDE DEF newAt, newGot, pos, got
  <2>5. R \in ReaderStates /\ R.pos = pos + 1 /\ R.got = newGot
    BY <1>1, <2>2 DEF ReaderStates
  <2>. HIDE DEF R
  <2>. QED  BY <1>1, <2>3, <2>4, <2>5
<1>4. ASSUME NEW ls \in Seq(Lines), Newer(r, ls),
             IsRecord(l) => \A k \in DOMAIN ls : k > pos + 1 /\ IsRecord(ls[k]) => l.at < ls[k].at
      PROVE  \A i \in DOMAIN reader'[r].got, k \in DOMAIN ls :
                k > reader'[r].pos /\ IsRecord(ls[k]) => reader'[r].got[i].at < ls[k].at
  <2> SUFFICES ASSUME NEW i \in DOMAIN reader'[r].got, NEW k \in DOMAIN ls,
                      k > pos + 1, IsRecord(ls[k])
               PROVE  reader'[r].got[i].at < ls[k].at
    BY <1>3
  <2>1. k > pos
    BY <1>1
  <2>2. i \in DOMAIN got => got[i].at < ls[k].at
    BY <1>4, <2>1 DEF Newer
  <2>3. CASE reader'[r].got = got
    BY <2>2, <2>3
  <2>4. CASE IsRecord(l) /\ reader'[r].got = Append(got, l)
    <3>1. \/ i \in DOMAIN got /\ reader'[r].got[i] = got[i]
          \/ reader'[r].got[i] = l
      BY <1>1, <1>2, <2>4 DEF ReaderStates
    <3>. QED  BY <1>4, <2>2, <2>4, <3>1
  <2>. QED  BY <1>3, <2>3, <2>4
<1>5. Newer(r, file)'
  <2>1. IsRecord(l) => \A k \in DOMAIN file : k > pos + 1 /\ IsRecord(file[k]) => l.at < file[k].at
    BY <1>1, <1>2 DEF Sound, Ascending, l
  <2>. QED  BY <1>1, <1>4, <2>1 DEF Reads, Newer
<1>6. ASSUME NEW p \in Writer, Busy(p) PROVE Newer(r, writer[p].kept)'
  <2> DEFINE kept == writer[p].kept
  <2>1. kept \in Seq(Lines) /\ Newer(r, kept) /\ Sound(kept, now)
    BY <1>1, <1>6 DEF IInv, TypeOK, WriterStates, Reads, Planned
  <2>2. ASSUME IsRecord(l), NEW k \in DOMAIN kept, k > pos + 1, IsRecord(kept[k])
        PROVE  l.at < kept[k].at
    <3>1. CASE writer[p].at = "truncate"
      BY <1>1, <1>2, <2>2, <3>1 DEF IInv, Unharmed, l
    <3>2. CASE Rewriting(p)
      <4>1. pos + 1 \in DOMAIN kept /\ l = kept[pos + 1]
        BY <1>1, <1>2, <2>1, <3>2 DEF IInv, Begun, l
      <4>. QED  BY <2>1, <2>2, <4>1 DEF Sound, Ascending
    <3>. QED  BY <1>6, <3>1, <3>2 DEF Busy
  <2>. HIDE DEF kept
  <2>3. \A i \in DOMAIN reader'[r].got, k \in DOMAIN kept :
           k > reader'[r].pos /\ IsRecord(kept[k]) => reader'[r].got[i].at < kept[k].at
    BY <1>4, <2>1, <2>2
  <2>. QED  BY <1>1, <2>3 DEF Newer, kept
<1>7. /\ Sound(reader[r].got, now)'
      /\ \A i \in DOMAIN reader'[r].got : IsRecord(reader'[r].got[i])
  <2>1. Sound(got, now) /\ \A i \in DOMAIN got : IsRecord(got[i])
    BY <1>1 DEF Reads
  <2>2. IsRecord(l) => l.at <= now /\ \A i \in DOMAIN got : got[i].at < l.at
    BY <1>1, <1>2 DEF Reads, Newer, Sound, l
  <2>3. CASE reader'[r].got = got
    BY <1>1, <2>1, <2>3 DEF Sound
  <2>4. CASE IsRecord(l) /\ reader'[r].got = Append(got, l)
    <3>1. /\ got \in Seq(Lines) /\ DOMAIN reader'[r].got = 1 .. Len(got) + 1
          /\ reader'[r].got[Len(got) + 1] = l /\ DOMAIN got = 1 .. Len(got)
          /\ Len(got) \in Nat
          /\ \A i \in 1 .. Len(got) : reader'[r].got[i] = got[i]
      BY <1>1, <1>2, <2>4 DEF ReaderStates
    <3>. HIDE DEF got
    <3>2. ASSUME NEW i \in DOMAIN reader'[r].got
          PROVE  /\ IsRecord(reader'[r].got[i]) /\ reader'[r].got[i].at <= now
                 /\ \A j \in DOMAIN reader'[r].got :
                       j < i => reader'[r].got[j].at < reader'[r].got[i].at
      <4>1. i = Len(got) + 1 \/ i \in 1 .. Len(got)
        BY <3>1
      <4>2. CASE i = Len(got) + 1
        <5>1. \A j \in 1 .. Len(got) + 1 : j < i => j \in 1 .. Len(got)
          BY <3>1, <4>2
        <5>. QED  BY <2>2, <2>4, <3>1, <4>2, <5>1
      <4>3. CASE i \in 1 .. Len(got)
        <5>1. \A j \in 1 .. Len(got) + 1 : j < i => j \in 1 .. Len(got)
          BY <3>1, <4>3
        <5>. QED  BY <2>1, <3>1, <4>3, <5>1 DEF Sound, Ascending
      <4>. QED  BY <4>1, <4>2, <4>3
    <3>. QED  BY <1>1, <3>2 DEF Sound, Ascending
  <2>. QED  BY <1>3, <2>3, <2>4
<1>8. ASSUME NEW q \in Reader PROVE Reads(q)'
  <2>1. CASE q = r
    BY <1>1, <1>5, <1>6, <1>7, <2>1 DEF Reads, Busy, Rewriting
  <2>2. CASE q # r
    <3>1. Reads(q)
      BY DEF IInv
    <3>. QED  BY <1>1, <1>3, <2>2, <3>1 DEF Reads, Busy, Rewriting, Newer, Sound
  <2>. QED  BY <2>1, <2>2
<1>9. TypeOK' /\ OneHolder' /\ Sound(file, now)'
  BY <1>1, <1>3 DEF IInv, TypeOK, OneHolder, Holding, Sound, Ascending
<1>10. ASSUME NEW p \in Writer
       PROVE  /\ (Busy(p) => Planned(p))'
              /\ (writer[p].at = "truncate" => Unharmed(p))'
              /\ (Rewriting(p) => Begun(p))'
  <2>1. (Busy(p) => Planned(p))'
    BY <1>1 DEF IInv, Busy, Rewriting, Planned, Sound
  <2>2. (writer[p].at = "truncate" => Unharmed(p))'
    BY <1>1 DEF IInv, Unharmed
  <2>3. (Rewriting(p) => Begun(p))'
    BY <1>1 DEF IInv, Rewriting, Begun
  <2>. QED  BY <2>1, <2>2, <2>3
<1>. QED  BY <1>8, <1>9, <1>10 DEF IInv

(* Opening and coming to the end leave what was read alone.                   *)
LEMMA ReaderRests ==
    ASSUME IInv, UNCHANGED <<file, lock, writer, now>>,
           reader' \in [Reader -> ReaderStates],
           \A r \in Reader : reader'[r].got = reader[r].got /\ reader'[r].pos = reader[r].pos
    PROVE  IInv'
<1>1. TypeOK' /\ OneHolder' /\ Sound(file, now)'
  BY DEF IInv, TypeOK, OneHolder, Holding, Sound, Ascending
<1>2. ASSUME NEW p \in Writer
      PROVE  /\ (Busy(p) => Planned(p))'
             /\ (writer[p].at = "truncate" => Unharmed(p))'
             /\ (Rewriting(p) => Begun(p))'
  <2>1. (Busy(p) => Planned(p))'
    BY DEF IInv, Busy, Rewriting, Planned, Sound
  <2>2. (writer[p].at = "truncate" => Unharmed(p))'
    BY DEF IInv, Unharmed
  <2>3. (Rewriting(p) => Begun(p))'
    BY DEF IInv, Rewriting, Begun
  <2>. QED  BY <2>1, <2>2, <2>3
<1>3. ASSUME NEW r \in Reader PROVE Reads(r)'
  BY DEF IInv, Reads, Busy, Rewriting, Newer, Sound
<1>. QED  BY <1>1, <1>2, <1>3 DEF IInv

(* Every step of load_rolling, its errors included.                           *)
LEMMA LoadSteps ==
    ASSUME IInv, NEW r \in Reader, LoadRolling(r) \/ LoadFails(r)
    PROVE  IInv'
<1>1. reader \in [Reader -> ReaderStates] /\ reader[r] \in ReaderStates
  BY DEF IInv, TypeOK
<1>2. ASSUME NEW at \in {"reading", "loaded", "failed"},
             reader' = [reader EXCEPT ![r].at = at], UNCHANGED <<file, lock, writer, now>>
      PROVE  IInv'
  <2>1. /\ [reader[r] EXCEPT !.at = at] \in ReaderStates
        /\ reader' = [reader EXCEPT ![r] = [reader[r] EXCEPT !.at = at]]
    BY <1>1, <1>2 DEF ReaderStates
  <2>2. /\ reader' \in [Reader -> ReaderStates]
        /\ \A q \in Reader : reader'[q].got = reader[q].got /\ reader'[q].pos = reader[q].pos
    BY <1>1, <2>1 DEF ReaderStates
  <2>. QED  BY <1>2, <2>2, ReaderRests
<1>. QED  BY <1>2, LoadLineStep DEF LoadRolling, LoadOpen, LoadEnd, LoadFails

-------------------------------------------------------------------------------

(* Every step keeps the inductive invariant.                                  *)
LEMMA NextInvariant == IInv /\ [Next]_vars => IInv'
<1>. SUFFICES ASSUME IInv, [Next]_vars PROVE IInv'
  OBVIOUS
<1>1. ASSUME NEW p \in Writer, AppendRolling(p) \/ OpenFails(p) \/ Crash(p) PROVE IInv'
  BY <1>1, QuietSteps, ReadAndPruneStep, TruncateStep, PutLineStep, TornSteps DEF AppendRolling
<1>2. ASSUME NEW r \in Reader, LoadRolling(r) \/ LoadFails(r) PROVE IInv'
  BY <1>2, LoadSteps
<1>3. CASE UNCHANGED vars
  BY <1>3, ReaderRests DEF vars, IInv, TypeOK
<1>. QED  BY <1>1, <1>2, <1>3 DEF Next, Terminated

(* The inductive invariant holds in every reachable state.                    *)
LEMMA InvariantHolds == Spec => []IInv
<1>. QED  BY InitInvariant, NextInvariant, PTL DEF Spec

(* The file, the lock, the appends and the loads keep to their types, and     *)
(* what an append keeps to the window (store.rs:185-239).                     *)
THEOREM TypeCorrect == Spec => []TypeOK
<1>. QED  BY InvariantHolds, PTL DEF IInv

(* Exactly the process that the flock counts as its holder is between         *)
(* acquiring and releasing it, also after crashes and on the error paths      *)
(* (store.rs:196-239, 275-291).                                               *)
THEOREM LockExcludes == Spec => []OneHolder
<1>. QED  BY InvariantHolds, PTL DEF IInv

(* "Return all rolling records in chronological order (oldest first)"         *)
(* (store.rs:241-268): in the file, and in what a reader gets that reads      *)
(* across any number of rewrites it does not see.                             *)
THEOREM RecordsInOrder == Spec => []Chronological
<1>1. IInv => Chronological
  BY DEF IInv, Chronological, Sound, Reads
<1>. QED  BY <1>1, InvariantHolds, PTL

-------------------------------------------------------------------------------
(* The rewrites implement the log.                                            *)

Times(s) == [i \in DOMAIN s |-> s[i].at]

(* Records with at most one torn line behind them are read as they are.       *)
LEMMA ReadPrefix ==
    ASSUME NEW ls \in Seq(Lines), NEW n \in Nat,
           Len(ls) = n \/ (Len(ls) = n + 1 /\ ls[n + 1] = Malformed),
           \A i \in 1 .. n : IsRecord(ls[i])
    PROVE  ReadRecords(ls) = [i \in 1 .. n |-> ls[i]]
<1>1. RecordsAt(ls) = 1 .. n
  <2>1. DOMAIN ls = 1 .. Len(ls) /\ Len(ls) \in {n, n + 1}
    OBVIOUS
  <2>2. ~IsRecord(Malformed)
    BY DEF IsRecord, Malformed
  <2>3. \A i \in 1 .. n : i \in DOMAIN ls /\ IsRecord(ls[i]) /\ ~IsBinary(ls[i])
    BY <2>1 DEF IsRecord, IsBinary
  <2>. HIDE DEF Malformed
  <2>4. ASSUME NEW i \in RecordsAt(ls) PROVE i \in 1 .. n
    <3>1. i \in 1 .. Len(ls) /\ IsRecord(ls[i])
      BY <2>1, <2>4 DEF RecordsAt
    <3>2. i # n + 1 \/ Len(ls) = n
      BY <2>2, <3>1
    <3>3. CASE Len(ls) = n
      BY <3>1, <3>3
    <3>4. CASE Len(ls) = n + 1 /\ i # n + 1
      <4>1. i \in 1 .. n + 1
        BY <3>1, <3>4
      <4>. QED  BY <4>1, <3>4
    <3>. QED  BY <2>1, <3>2, <3>3, <3>4
  <2>5. ASSUME NEW i \in 1 .. n PROVE i \in RecordsAt(ls)
    <3>1. \A j \in 1 .. i : j \in 1 .. n
      OBVIOUS
    <3>. QED  BY <2>3, <3>1 DEF RecordsAt
  <2>. QED  BY <2>4, <2>5
<1>2. Cardinality(1 .. n) = n
  BY FS_Interval
<1>3. \A k \in 1 .. n : Nth(1 .. n, k) = k
  BY NthOfInterval
<1>. QED  BY <1>1, <1>2, <1>3 DEF ReadRecords, Pick

(* The times of the last lines are the last of the times.                     *)
LEMMA TimesOfLast ==
    ASSUME NEW s \in Seq(Lines), NEW u \in Seq(Nat), Len(u) = Len(s), Len(s) > 0,
           \A i \in 1 .. Len(s) - 1 : u[i] = s[i].at
    PROVE  /\ LastOf(s) \in Seq(Lines) /\ LastOf(u) \in Seq(Nat)
           /\ Len(LastOf(u)) = Len(LastOf(s)) /\ Len(LastOf(s)) > 0
           /\ LastOf(s)[Len(LastOf(s))] = s[Len(s)]
           /\ LastOf(u)[Len(LastOf(u))] = u[Len(u)]
           /\ \A i \in 1 .. Len(LastOf(s)) - 1 :
                 /\ LastOf(u)[i] = LastOf(s)[i].at
                 /\ \E k \in 1 .. Len(s) - 1 : LastOf(s)[i] = s[k]
<1> DEFINE kept == LastOf(s)
           whole == LastOf(u)
<1>1. /\ kept \in Seq(Lines)
      /\ Len(kept) = IF Len(s) > Window THEN Window ELSE Len(s)
      /\ \A k \in 1 .. Len(kept) :
            /\ kept[k] = s[Len(s) - Len(kept) + k]
            /\ Len(s) - Len(kept) + k \in k .. Len(s)
  BY LastOfSelect
<1>2. /\ whole \in Seq(Nat)
      /\ Len(whole) = IF Len(u) > Window THEN Window ELSE Len(u)
      /\ \A k \in 1 .. Len(whole) : whole[k] = u[Len(u) - Len(whole) + k]
  BY LastOfSelect
<1>. HIDE DEF kept, whole
<1>3. Len(whole) = Len(kept) /\ Len(kept) > 0 /\ Len(kept) \in Nat /\ Len(s) \in Nat
  BY <1>1, <1>2, WindowAssumption
<1>4. kept[Len(kept)] = s[Len(s)] /\ whole[Len(whole)] = u[Len(u)]
  <2>1. Len(kept) \in 1 .. Len(kept) /\ Len(s) - Len(kept) + Len(kept) = Len(s)
    BY <1>3
  <2>. QED  BY <2>1, <1>1, <1>2, <1>3
<1>5. ASSUME NEW i \in 1 .. Len(kept) - 1
      PROVE  whole[i] = kept[i].at /\ \E k \in 1 .. Len(s) - 1 : kept[i] = s[k]
  <2> DEFINE x == Len(s) - Len(kept) + i
  <2>1. i \in 1 .. Len(kept) /\ x \in 1 .. Len(s) - 1
    <3>1. 1 \in 1 .. Len(kept)
      BY <1>3
    <3>2. Len(s) - Len(kept) + 1 \in 1 .. Len(s)
      BY <1>1, <3>1
    <3>3. \A a, b \in Nat : b - a + 1 \in 1 .. b /\ i \in 1 .. a - 1 =>
             i \in 1 .. a /\ b - a + i \in 1 .. b - 1
      OBVIOUS
    <3>. QED  BY <1>3, <3>2, <3>3
  <2>2. kept[i] = s[x] /\ whole[i] = u[x]
    BY <1>1, <1>2, <1>3, <2>1
  <2>. HIDE DEF x
  <2>. QED  BY <2>1, <2>2
<1>. QED  BY <1>1, <1>2, <1>3, <1>4, <1>5 DEF kept, whole

(* So are those of the log that an append replaces.                           *)
LEMMA TimesOfKept ==
    ASSUME NEW old \in Seq(Lines), NEW l \in Lines, NEW t \in Nat
    PROVE  /\ Log!LastOf(Append(Times(old), t)) \in Seq(Nat)
           /\ LastOf(Append(old, l)) \in Seq(Lines)
           /\ Len(Log!LastOf(Append(Times(old), t))) = Len(LastOf(Append(old, l)))
           /\ Len(LastOf(Append(old, l))) > 0
           /\ LastOf(Append(old, l))[Len(LastOf(Append(old, l)))] = l
           /\ Log!LastOf(Append(Times(old), t))[Len(LastOf(Append(old, l)))] = t
           /\ \A i \in 1 .. Len(LastOf(Append(old, l))) - 1 :
                 /\ Log!LastOf(Append(Times(old), t))[i] = LastOf(Append(old, l))[i].at
                 /\ \E k \in DOMAIN old : LastOf(Append(old, l))[i] = old[k]
<1> DEFINE s == Append(old, l)
           u == Append(Times(old), t)
<1>1. /\ s \in Seq(Lines) /\ Len(s) = Len(old) + 1 /\ Len(old) \in Nat /\ s[Len(s)] = l
      /\ \A i \in 1 .. Len(old) : s[i] = old[i] /\ s[i] \in Lines
      /\ DOMAIN old = 1 .. Len(old)
  OBVIOUS
<1>2. /\ u \in Seq(Nat) /\ Len(u) = Len(old) + 1 /\ u[Len(u)] = t
      /\ \A i \in 1 .. Len(old) : u[i] = old[i].at
  <2>1. Times(old) \in Seq(Nat) /\ Len(Times(old)) = Len(old)
    BY <1>1 DEF Times, Lines
  <2>2. \A i \in 1 .. Len(old) : Times(old)[i] = old[i].at
    BY <1>1 DEF Times
  <2>. HIDE DEF Times
  <2>. QED  BY <2>1, <2>2
<1>3. Log!LastOf(u) = LastOf(u)
  BY DEF LastOf, Log!LastOf
<1>. HIDE DEF s, u
<1>4. Len(s) > 0 /\ Len(s) - 1 = Len(old) /\ Len(u) = Len(s)
  BY <1>1, <1>2
<1>5. /\ LastOf(s) \in Seq(Lines) /\ LastOf(u) \in Seq(Nat)
      /\ Len(LastOf(u)) = Len(LastOf(s)) /\ Len(LastOf(s)) > 0
      /\ LastOf(s)[Len(LastOf(s))] = s[Len(s)]
      /\ LastOf(u)[Len(LastOf(u))] = u[Len(u)]
      /\ \A i \in 1 .. Len(LastOf(s)) - 1 :
            /\ LastOf(u)[i] = LastOf(s)[i].at
            /\ \E k \in 1 .. Len(s) - 1 : LastOf(s)[i] = s[k]
  <2>1. \A i \in 1 .. Len(s) - 1 : u[i] = s[i].at
    BY <1>1, <1>2, <1>4
  <2>. QED  BY <1>1, <1>2, <1>4, <2>1, TimesOfLast
<1>6. \A i \in 1 .. Len(LastOf(s)) - 1 : \E k \in DOMAIN old : LastOf(s)[i] = old[k]
  <2>1. ASSUME NEW i \in 1 .. Len(LastOf(s)) - 1 PROVE \E k \in DOMAIN old : LastOf(s)[i] = old[k]
    <3>1. PICK k \in 1 .. Len(s) - 1 : LastOf(s)[i] = s[k]
      BY <1>5
    <3>2. k \in 1 .. Len(old)
      BY <1>4
    <3>3. k \in DOMAIN old /\ s[k] = old[k]
      BY <1>1, <3>2
    <3>. QED  BY <3>1, <3>3
  <2>. QED  BY <2>1
<1>7. /\ LastOf(u)[Len(LastOf(s))] = t /\ LastOf(s)[Len(LastOf(s))] = l
  BY <1>1, <1>2, <1>5
<1>. QED  BY <1>3, <1>5, <1>6, <1>7 DEF s, u

(* What a rewrite leaves that comes to an end, or is cut off, with the first  *)
(* lines of its plan in the file.                                             *)
LEMMA PlanLeft ==
    ASSUME IInv, NEW p \in Writer, Rewriting(p), ~InFlux',
           \/ UNCHANGED file
           \/ Len(file) < Len(writer[p].kept) /\ file' = Append(file, Malformed),
           Len(file) < Len(writer[p].kept) => Faults # {}
    PROVE  \/ /\ Len(file) = Len(writer[p].kept)
              /\ IsRecord(writer[p].kept[Len(writer[p].kept)])
              /\ Log!AppendRecord
           \/ /\ \/ Len(file) < Len(writer[p].kept)
                 \/ ~IsRecord(writer[p].kept[Len(writer[p].kept)])
              /\ Log!LoseNewest
<1> DEFINE kept == writer[p].kept
           old == writer[p].existing
<1>1. /\ file \in Seq(Lines) /\ kept \in Seq(Lines) /\ old \in Seq(Lines)
      /\ Len(file) \in Nat /\ Len(kept) \in Nat
      /\ Begun(p) /\ Planned(p) /\ lock = p /\ p # "free" /\ InFlux
  BY WriterAssumption DEF IInv, TypeOK, WriterStates, Busy, Rewriting, OneHolder, Holding, InFlux
<1>2. PICK l \in Lines :
         /\ kept = LastOf(Append(old, l))
         /\ \/ IsRecord(l) /\ \A i \in DOMAIN old : old[i].at < l.at
            \/ l = Malformed /\ "nonfinite" \in Faults
  BY <1>1 DEF Planned
<1>3. Complete = old /\ Complete' = ReadRecords(file')
  BY <1>1 DEF Complete
<1> DEFINE log == [i \in DOMAIN Complete |-> Complete[i].at]
           zeroed == Log!LastOf(Append(Times(old), 0))
<1>4. log = Times(old) /\ log' = Times(ReadRecords(file'))
  BY <1>3 DEF Times
<1>5. l.at \in Nat /\ 0 \in Nat
  BY DEF Lines
<1>6. /\ zeroed \in Seq(Nat) /\ Len(zeroed) = Len(kept)
      /\ Len(kept) > 0 /\ kept[Len(kept)] = l
      /\ \A i \in 1 .. Len(kept) - 1 : zeroed[i] = kept[i].at /\ IsRecord(kept[i])
  <2>1. \A k \in DOMAIN old : IsRecord(old[k])
    BY <1>1 DEF Planned
  <2>. HIDE DEF kept, old
  <2>2. /\ zeroed \in Seq(Nat) /\ Len(zeroed) = Len(kept)
        /\ Len(kept) > 0 /\ kept[Len(kept)] = l
        /\ \A i \in 1 .. Len(kept) - 1 :
              zeroed[i] = kept[i].at /\ \E k \in DOMAIN old : kept[i] = old[k]
    <3>1. old \in Seq(Lines)
      BY <1>1
    <3> DEFINE K == LastOf(Append(old, l))
    <3>2. zeroed \in Seq(Nat) /\ Len(zeroed) = Len(K) /\ Len(K) > 0 /\ K[Len(K)] = l
      BY <1>5, <3>1, TimesOfKept, ZenonT(30)
    <3>3. \A i \in 1 .. Len(K) - 1 : zeroed[i] = K[i].at /\ \E k \in DOMAIN old : K[i] = old[k]
      BY <1>5, <3>1, TimesOfKept, ZenonT(30)
    <3>4. kept = K
      BY <1>2
    <3>. HIDE DEF K, zeroed
    <3>. QED  BY <3>2, <3>3, <3>4
  <2>. QED  BY <2>1, <2>2
<1>7. Len(file) <= Len(kept) /\ \A i \in 1 .. Len(file) : file[i] = kept[i]
  BY <1>1 DEF Begun
<1>. HIDE DEF kept, old, zeroed
<1>8. ASSUME NEW n \in 0 .. Len(kept) - 1,
             ReadRecords(file') = [i \in 1 .. n |-> file'[i]],
             \A i \in 1 .. n : file'[i] = kept[i],
             Faults # {}
      PROVE  Log!LoseNewest
  <2>1. log' = SubSeq(zeroed, 1, n)
    <3>1. log' = [i \in 1 .. n |-> kept[i].at]
      BY <1>4, <1>8 DEF Times
    <3>2. SubSeq(zeroed, 1, n) = [i \in 1 .. n |-> zeroed[i]]
      BY <1>1, <1>6
    <3>3. \A i \in 1 .. n : i \in 1 .. Len(kept) - 1
      BY <1>1
    <3>. QED  BY <3>1, <3>2, <3>3, <1>6
  <2>2. zeroed = Log!LastOf(Append(log, 0))
    BY <1>4 DEF zeroed
  <2>. QED  BY <1>6, <1>8, <2>1, <2>2 DEF Log!LoseNewest
<1>9. CASE Len(file) < Len(kept)
  <2> DEFINE n == Len(file)
  <2>1. n \in 0 .. Len(kept) - 1 /\ n \in Nat
    BY <1>1, <1>9
  <2>2. \A i \in 1 .. n : i \in 1 .. Len(kept) - 1
    BY <1>1, <2>1
  <2>3. /\ file' \in Seq(Lines)
        /\ Len(file') = n \/ (Len(file') = n + 1 /\ file'[n + 1] = Malformed)
        /\ \A i \in 1 .. n : file'[i] = file[i]
    <3>1. Malformed \in Lines
      BY DEF Malformed, Lines
    <3>. HIDE DEF Malformed
    <3>2. CASE file' = file
      BY <1>1, <3>2
    <3>3. CASE file' = Append(file, Malformed)
      BY <1>1, <3>1, <3>3
    <3>. QED  BY <1>1, <3>2, <3>3
  <2>. HIDE DEF n
  <2>4. \A i \in 1 .. n : file'[i] = kept[i] /\ IsRecord(file'[i])
    BY <1>6, <1>7, <2>2, <2>3 DEF n
  <2>5. ReadRecords(file') = [i \in 1 .. n |-> file'[i]]
    BY <2>1, <2>3, <2>4, ReadPrefix
  <2>. QED  BY <1>8, <1>9, <2>1, <2>4, <2>5 DEF kept
<1>10. CASE Len(file) = Len(kept) /\ ~IsRecord(l)
  <2> DEFINE n == Len(kept) - 1
  <2>1. n \in 0 .. Len(kept) - 1 /\ n \in Nat /\ n + 1 = Len(kept)
    BY <1>1, <1>6
  <2>2. file' = file /\ l = Malformed /\ Faults # {}
    BY <1>2, <1>10, <1>1 DEF kept
  <2>3. Len(file') = n + 1 /\ file'[n + 1] = Malformed
    BY <1>6, <1>7, <1>10, <2>1, <2>2
  <2>4. \A i \in 1 .. n : file'[i] = kept[i] /\ IsRecord(file'[i])
    BY <1>1, <1>6, <1>7, <1>10, <2>2
  <2>. HIDE DEF n
  <2>5. ReadRecords(file') = [i \in 1 .. n |-> file'[i]]
    BY <1>1, <2>1, <2>2, <2>3, <2>4, ReadPrefix
  <2>. QED  BY <1>6, <1>8, <1>10, <2>1, <2>2, <2>4, <2>5 DEF kept
<1>11. CASE Len(file) = Len(kept) /\ IsRecord(l)
  <2>1. file' = file /\ file = kept
    <3>1. file' = file
      BY <1>1, <1>11 DEF kept
    <3>2. file = kept
      BY <1>1, <1>7, <1>11
    <3>. QED  BY <3>1, <3>2
  <2>2. \A i \in 1 .. Len(kept) : IsRecord(kept[i])
    <3>1. \A i \in 1 .. Len(kept) : i = Len(kept) \/ i \in 1 .. Len(kept) - 1
      BY <1>1
    <3>. QED  BY <1>6, <1>11, <3>1
  <2>3. ReadRecords(file') = [i \in 1 .. Len(kept) |-> kept[i]]
    BY <1>1, <2>1, <2>2, ReadPrefix
  <2>4. log' = [i \in 1 .. Len(kept) |-> kept[i].at]
    BY <1>4, <2>3 DEF Times
  <2> DEFINE whole == Log!LastOf(Append(Times(old), l.at))
  <2>5. /\ whole \in Seq(Nat) /\ Len(whole) = Len(kept) /\ whole[Len(whole)] = l.at
        /\ \A i \in 1 .. Len(kept) - 1 : whole[i] = kept[i].at
    <3>1. old \in Seq(Lines)
      BY <1>1
    <3> DEFINE t == l.at
    <3>2. t \in Nat
      BY <1>5
    <3>. HIDE DEF t
    <3>3. /\ Log!LastOf(Append(Times(old), t)) \in Seq(Nat)
          /\ Len(Log!LastOf(Append(Times(old), t))) = Len(LastOf(Append(old, l)))
      BY <3>1, <3>2, TimesOfKept, ZenonT(30)
    <3>5. Log!LastOf(Append(Times(old), t))[Len(LastOf(Append(old, l)))] = t
      BY <3>1, <3>2, TimesOfKept, ZenonT(30)
    <3>4. \A i \in 1 .. Len(LastOf(Append(old, l))) - 1 :
             Log!LastOf(Append(Times(old), t))[i] = LastOf(Append(old, l))[i].at
      BY <3>1, <3>2, TimesOfKept, ZenonT(30)
    <3>. QED  BY <1>2, <3>3, <3>4, <3>5 DEF t
  <2>. HIDE DEF whole
  <2>6. \A i \in 1 .. Len(kept) : whole[i] = kept[i].at
    <3>1. \A i \in 1 .. Len(kept) : i = Len(kept) \/ i \in 1 .. Len(kept) - 1
      BY <1>1
    <3>. QED  BY <1>6, <2>5, <3>1
  <2>7. log' = whole
    BY <1>1, <2>4, <2>5, <2>6
  <2>8. log'[Len(log')] = l.at /\ log' # <<>>
    BY <1>1, <1>6, <2>5, <2>7
  <2>9. whole = Log!LastOf(Append(log, l.at))
    BY <1>4 DEF whole
  <2>10. \A i \in DOMAIN log : log[i] < l.at
    BY <1>2, <1>4, <1>11 DEF Times, IsRecord, Malformed
  <2>11. Log!AppendRecord
    BY <2>7, <2>8, <2>9, <2>10 DEF Log!AppendRecord
  <2>. QED  BY <1>6, <1>11, <2>11 DEF kept
<1>. QED  BY <1>1, <1>7, <1>9, <1>10, <1>11

(* The file is in flux exactly while the holder of the lock rewrites it.      *)
LEMMA FluxIsRewriting ==
    ASSUME IInv, NEW p \in Writer
    PROVE  /\ Rewriting(p) => InFlux /\ Complete = writer[p].existing
           /\ Holding(p) /\ ~Rewriting(p) => ~InFlux /\ Complete = ReadRecords(file)
           /\ Holding(p) => lock = p /\ p # "free"
           /\ ~Holding(p) => lock # p
BY WriterAssumption DEF IInv, OneHolder, Holding, Rewriting, InFlux, Complete

(* A writer that is outside the lock, before and after, does not touch the    *)
(* log.                                                                       *)
LEMMA OutsideTheLock ==
    ASSUME IInv, NEW p \in Writer, lock # p, lock' = lock, file' = file,
           \A q \in Writer : q # p => writer'[q] = writer[q]
    PROVE  Complete' = Complete
<1>1. lock = "free" \/ (lock \in Writer /\ writer'[lock] = writer[lock])
  BY DEF IInv, TypeOK
<1>. QED  BY <1>1 DEF Complete, InFlux

(* To cut the file behind what was read of it takes the rest from the log.    *)
LEMMA UnreadLost ==
    ASSUME file \in Seq(Lines), NEW old \in MayRead(file), old # ReadRecords(file),
           Complete = ReadRecords(file), Complete' = old
    PROVE  Log!LoseUnread
<1> DEFINE all == ReadRecords(file)
           log == [i \in DOMAIN Complete |-> Complete[i].at]
<1>1. all \in Seq(Lines)
  BY ReadRecordsSelect
<1>2. PICK n \in 0 .. Len(all) :
         /\ old \in Seq(Lines) /\ Len(old) = n
         /\ \A k \in 1 .. n : k \in DOMAIN all /\ old[k] = all[k]
         /\ n < Len(all) /\ "io" \in Faults
  BY MayReadFirst
<1>3. log = Times(all) /\ log' = Times(old)
  BY DEF Times
<1>. HIDE DEF all, log
<1>4. /\ Times(all) \in Seq(Nat) /\ Len(Times(all)) = Len(all)
      /\ \A k \in DOMAIN all : Times(all)[k] = all[k].at
  <2>1. \A k \in DOMAIN all : all[k].at \in Nat
    <3>1. \A k \in DOMAIN all : all[k] \in Lines
      BY <1>1
    <3>. QED  BY <3>1 DEF Lines
  <2>2. Times(all) = [k \in 1 .. Len(all) |-> all[k].at] /\ DOMAIN all = 1 .. Len(all)
    BY <1>1 DEF Times
  <2>3. Len(all) \in Nat
    BY <1>1
  <2>. QED  BY <2>1, <2>2, <2>3
<1>5. Times(old) = [k \in 1 .. n |-> old[k].at]
  BY <1>2 DEF Times
<1>6. Len(all) \in Nat /\ n \in 0 .. Len(all) - 1
  BY <1>1, <1>2
<1>7. SubSeq(Times(all), 1, n) = [k \in 1 .. n |-> Times(all)[k]]
  BY <1>4, <1>6
<1>8. SubSeq(Times(all), 1, n) = Times(old)
  <2>1. \A k \in 1 .. n : Times(all)[k] = old[k].at
    BY <1>2, <1>4
  <2>. QED  BY <1>5, <1>7, <2>1
<1>9. n \in 0 .. Len(log) - 1 /\ log' = SubSeq(log, 1, n) /\ Faults # {}
  BY <1>2, <1>3, <1>4, <1>6, <1>8
<1>. QED  BY <1>9 DEF Log!LoseUnread, log

(* Every step leaves the log alone, or appends to it, or is a fault that      *)
(* costs the newest records or those that were not read.                      *)
LEMMA StepLogs ==
    ASSUME IInv, [Next]_vars
    PROVE  \/ Complete' = Complete
           \/ Log!AppendRecord
           \/ (\E p \in Writer : Faulty(p)) /\ (Log!LoseNewest \/ Log!LoseUnread)
<1>1. ASSUME NEW p \in Writer, Open(p) \/ OpenFails(p)
      PROVE  Complete' = Complete
  <2>1. lock # p
    BY <1>1, FluxIsRewriting DEF Open, OpenFails, At, Holding
  <2>2. \A q \in Writer : q # p => writer'[q] = writer[q]
    BY <1>1, WriterMoves, ZenonT(30) DEF Open, OpenFails, Goto, IInv, TypeOK, WriterStates
  <2>. QED  BY <1>1, <2>1, <2>2, OutsideTheLock DEF Open, OpenFails
<1>2. ASSUME NEW p \in Writer, Acquire(p)
      PROVE  Complete' = Complete
  <2>1. writer'[p].at = "locked"
    BY <1>2 DEF Acquire, Goto, IInv, TypeOK, WriterStates
  <2>. QED  BY <1>2, <2>1 DEF Acquire, Complete, InFlux
<1>3. ASSUME NEW p \in Writer, ReadAndPrune(p)
      PROVE  Complete' = Complete
  <2>1. writer'[p].at = "truncate"
    BY <1>3 DEF ReadAndPrune, IInv, TypeOK, WriterStates
  <2>2. Holding(p) /\ ~Rewriting(p)
    BY <1>3 DEF ReadAndPrune, At, Holding, Rewriting
  <2>. QED  BY <1>3, <2>1, <2>2, FluxIsRewriting DEF ReadAndPrune, Complete, InFlux
<1>4. ASSUME NEW p \in Writer, Truncate(p)
      PROVE  Complete' = Complete \/ (Faulty(p) /\ (Log!LoseNewest \/ Log!LoseUnread))
  <2>1. /\ writer[p].at = "truncate" /\ lock' = lock /\ lock = p /\ p # "free"
        /\ Complete = ReadRecords(file) /\ writer[p].existing \in MayRead(file)
    BY <1>4, FluxIsRewriting DEF IInv, Truncate, At, Holding, Rewriting, Unharmed
  <2>2. CASE Goto(p, "write")
    <3>1. writer'[p].at = "write" /\ writer'[p].existing = writer[p].existing
      BY <2>2 DEF Goto, IInv, TypeOK, WriterStates
    <3>2. Complete' = writer[p].existing
      BY <2>1, <3>1 DEF Complete, InFlux
    <3>3. CASE writer[p].existing = ReadRecords(file)
      BY <2>1, <3>2, <3>3
    <3>4. CASE writer[p].existing # ReadRecords(file)
      <4>1. Log!LoseUnread
        BY <2>1, <3>2, <3>4, UnreadLost DEF IInv, TypeOK
      <4>2. Faulty(p)
        BY <2>1, <3>1, <3>4 DEF Faulty, CutsUnread, At
      <4>. QED  BY <4>1, <4>2
    <3>. QED  BY <3>3, <3>4
  <2>3. CASE "io" \in Faults /\ Fail(p) /\ (file' = file \/ file' = <<>>)
    <3>1. writer'[p].at = "unlock" /\ writer'[p].result = "err"
      BY <2>3 DEF Fail, IInv, TypeOK, WriterStates
    <3>2. Complete' = ReadRecords(file')
      BY <2>1, <3>1 DEF Complete, InFlux
    <3>3. CASE file' = file
      BY <2>1, <3>2, <3>3
    <3>4. CASE file' = <<>>
      <4>1. ReadRecords(<<>>) = <<>>
        <5> DEFINE none == <<>>
        <5>1. none \in Seq(Lines) /\ Len(none) = 0 /\ 0 \in Nat /\ \A i \in 1 .. 0 : FALSE
          OBVIOUS
        <5>. HIDE DEF none
        <5>2. ReadRecords(none) = [i \in 1 .. 0 |-> none[i]]
          BY <5>1, ReadPrefix
        <5>. QED  BY <5>2 DEF none
      <4>2. [i \in DOMAIN Complete |-> Complete[i].at]' = <<>>
        BY <3>2, <3>4, <4>1
      <4> DEFINE old == ReadRecords(file)
      <4>3. old \in Seq(Lines) /\ Malformed \in Lines
        BY ReadRecordsSelect DEF IInv, TypeOK, Malformed, Lines
      <4>. HIDE DEF old
      <4>4. /\ Log!LastOf(Append(Times(old), 0)) \in Seq(Nat)
            /\ Len(Log!LastOf(Append(Times(old), 0))) = Len(LastOf(Append(old, Malformed)))
            /\ Len(LastOf(Append(old, Malformed))) > 0
        BY <4>3, TimesOfKept
      <4> DEFINE zeroed == Log!LastOf(Append(Times(old), 0))
      <4>5. zeroed = Log!LastOf(Append([i \in DOMAIN Complete |-> Complete[i].at], 0))
        BY <2>1 DEF Times, old
      <4>6. zeroed \in Seq(Nat) /\ Len(zeroed) \in Nat /\ Len(zeroed) > 0
        BY <4>4
      <4>. HIDE DEF zeroed
      <4>7. 0 \in 0 .. Len(zeroed) - 1 /\ SubSeq(zeroed, 1, 0) = <<>>
        BY <4>6
      <4>8. Log!LoseNewest
        BY <2>3, <4>2, <4>5, <4>7 DEF Log!LoseNewest
      <4>. QED  BY <2>1, <3>1, <4>8 DEF Faulty, At
    <3>. QED  BY <2>3, <3>3, <3>4
  <2>. QED  BY <1>4, <2>2, <2>3 DEF Truncate
<1>5. ASSUME NEW p \in Writer, WriteLine(p) \/ FlushLine(p) \/ LoopDone(p)
      PROVE  Complete' = Complete
  <2>1. Rewriting(p) /\ lock = p /\ lock' = p /\ p # "free"
    BY <1>5, FluxIsRewriting DEF WriteLine, FlushLine, LoopDone, At, Rewriting, Holding
  <2>2. Rewriting(p)' /\ writer'[p].existing = writer[p].existing
    BY <1>5, <2>1 DEF WriteLine, FlushLine, LoopDone, Rewriting, IInv, TypeOK, WriterStates
  <2>. QED  BY <2>1, <2>2 DEF Complete, InFlux, Rewriting
<1>6. ASSUME NEW p \in Writer, WriteFails(p) \/ FlushFails(p) \/ FlushDone(p)
      PROVE  Log!AppendRecord \/ (Faulty(p) /\ Log!LoseNewest)
  <2>1. Rewriting(p) /\ lock = p /\ lock' = p
    BY <1>6, FluxIsRewriting DEF WriteFails, FlushFails, FlushDone, At, Rewriting, Holding
  <2>2. writer'[p].at = "unlock"
    BY <1>6 DEF WriteFails, FlushFails, FlushDone, Fail, Goto, IInv, TypeOK, WriterStates
  <2>3. ~InFlux'
    BY <2>1, <2>2 DEF InFlux
  <2>4. CASE WriteFails(p) \/ FlushFails(p)
    <3>1. Len(file) < Len(writer[p].kept) /\ file' \in {file, Append(file, Malformed)} /\ Faults # {}
      BY <2>4 DEF WriteFails, FlushFails
    <3>. QED  BY <2>1, <2>3, <2>4, <3>1, PlanLeft DEF Faulty
  <2>5. CASE FlushDone(p)
    <3>1. Len(file) = Len(writer[p].kept) /\ UNCHANGED file
      BY <2>5 DEF FlushDone
    <3>2. ~(Len(file) < Len(writer[p].kept))
      BY <3>1 DEF IInv, TypeOK
    <3>. QED  BY <2>1, <2>3, <2>5, <3>1, <3>2, PlanLeft DEF Faulty
  <2>. QED  BY <1>6, <2>4, <2>5
<1>7. ASSUME NEW p \in Writer, Unlock(p)
      PROVE  Complete' = Complete
  <2>1. Holding(p) /\ ~Rewriting(p)
    BY <1>7 DEF Unlock, At, Holding, Rewriting
  <2>. QED  BY <1>7, <2>1, FluxIsRewriting DEF Unlock, Complete, InFlux
<1>8. ASSUME NEW p \in Writer, Crash(p)
      PROVE  Complete' = Complete \/ Log!AppendRecord \/ (Faulty(p) /\ Log!LoseNewest)
  <2>1. /\ writer'[p].at = "crashed"
        /\ \A q \in Writer : q # p => writer'[q] = writer[q]
    BY <1>8, WriterLeaves DEF Crash, IInv
  <2>2. CASE Rewriting(p)
    <3>1. lock' = "free"
      BY <1>8, <2>2, FluxIsRewriting DEF Crash, Rewriting, Holding
    <3>2. ~InFlux' /\ Faults # {}
      BY <1>8, <3>1 DEF InFlux, Crash
    <3>3. \/ UNCHANGED file
          \/ Len(file) < Len(writer[p].kept) /\ file' = Append(file, Malformed)
      BY <1>8 DEF Crash
    <3>. QED  BY <1>8, <2>2, <3>2, <3>3, PlanLeft DEF Faulty
  <2>3. CASE ~Rewriting(p)
    <3>1. file' = file
      BY <1>8, <2>3 DEF Crash, Rewriting
    <3>2. CASE lock = p
      <4>1. Holding(p) /\ lock' = "free"
        BY <1>8, <3>2 DEF Crash, IInv, OneHolder
      <4>. QED  BY <2>3, <3>1, <4>1, FluxIsRewriting DEF Complete, InFlux
    <3>3. CASE lock # p
      BY <1>8, <2>1, <3>1, <3>3, OutsideTheLock DEF Crash
    <3>. QED  BY <3>2, <3>3
  <2>. QED  BY <2>2, <2>3
<1>9. ASSUME UNCHANGED <<file, lock, writer>>
      PROVE  Complete' = Complete
  BY <1>9 DEF Complete, InFlux
<1>10. CASE Next
  <2>1. ASSUME NEW p \in Writer, AppendRolling(p) \/ OpenFails(p) \/ Crash(p)
        PROVE  \/ Complete' = Complete
               \/ Log!AppendRecord
               \/ Faulty(p) /\ (Log!LoseNewest \/ Log!LoseUnread)
    BY <2>1, <1>1, <1>2, <1>3, <1>4, <1>5, <1>6, <1>7, <1>8 DEF AppendRolling
  <2>2. ASSUME NEW r \in Reader, LoadRolling(r) \/ LoadFails(r)
        PROVE  Complete' = Complete
    BY <2>2, <1>9 DEF LoadRolling, LoadOpen, LoadLine, LoadEnd, LoadFails
  <2>3. CASE Terminated
    BY <2>3, <1>9 DEF Terminated, vars
  <2>. QED  BY <1>10, <2>1, <2>2, <2>3 DEF Next
<1>. QED  BY <1>9, <1>10 DEF vars

(* The rewrites are atomic appends to a window of the last records. One that  *)
(* goes wrong leaves a beginning of what it would have left, and one whose    *)
(* read broke off (store.rs:212) cuts the log behind what it has read before  *)
(* it appends, whichever way the appends, the loads, the faults and the       *)
(* crashes interleave (store.rs:185-239).                                     *)
THEOREM StoreImplementsLog == Spec => ImplementsRollingLog
<1>1. Init => Log!Init
  BY DEF Init, Log!Init, Complete, InFlux
<1>2. IInv /\ [Next]_vars
          => [Log!AppendRecord \/ Log!LoseNewest \/ Log!LoseUnread]_(Log!vars)
  BY StepLogs DEF Log!vars
<1>. QED  BY <1>1, <1>2, InvariantHolds, PTL DEF Spec, ImplementsRollingLog, Log!Spec, Log!vars

(* Only a fault of the append under way costs records, a read that broke off  *)
(* included (store.rs:212): two appends that meet never overwrite each        *)
(* other's record (store.rs:200-239).                                         *)
THEOREM NoUpdateLost == Spec => OnlyFaultsLose
<1>1. IInv /\ [Next]_vars => [(\E p \in Writer : Faulty(p)) \/ Log!AppendRecord]_(Log!vars)
  BY StepLogs DEF Log!vars
<1>. QED  BY <1>1, InvariantHolds, PTL DEF Spec, OnlyFaultsLose
===============================================================================
