----------------------------- MODULE RollingStore -----------------------------
(***************************************************************************)
(* The rolling baseline (baseline/store.rs): processes that append to      *)
(* _rolling.jsonl under an exclusive flock (append_rolling), readers that  *)
(* load it without a lock (load_rolling), and what may go wrong in a       *)
(* rewrite that truncates the file first: a read that breaks off, which is *)
(* taken for the end of the file, a crash, a write that fails, the flush   *)
(* that BufWriter does when it is dropped, a record that does not read     *)
(* back.                                                                   *)
(*                                                                         *)
(* A line of the file is a record, named by the moment it was captured, a  *)
(* malformed line (torn JSON, or a signal that is null because its value   *)
(* was not finite), or a line that is not UTF-8.                           *)
(***************************************************************************)
EXTENDS Integers, Sequences, FiniteSets, Positions

CONSTANTS Writer,      \* the processes that append, once each
          Reader,      \* the processes that load
          Window,      \* window_n, at least 1 (config.rs)
          InitFiles,   \* what the file may hold at first
          Faults       \* which of the faults below may happen

ASSUME WindowAssumption == Window \in Nat \ {0}
ASSUME FaultsAssumption ==
    Faults \subseteq {"crash", "io", "flush", "nonfinite"}
ASSUME WriterAssumption == "free" \notin Writer

VARIABLES file,      \* the lines of _rolling.jsonl
          lock,      \* the writer that holds the flock, or "free"
          writer,    \* per writer: where append_rolling stands and what it has read
          reader,    \* per reader: where load_rolling stands and what it has read
          now        \* the clock that captured_at is taken from

vars == <<file, lock, writer, reader, now>>

-------------------------------------------------------------------------------

Lines == [kind : {"record", "malformed", "binary"}, at : Nat]
Record(t) == [kind |-> "record", at |-> t]
Malformed == [kind |-> "malformed", at |-> 0]
Binary == [kind |-> "binary", at |-> 0]

IsRecord(l) == l.kind = "record"
IsBinary(l) == l.kind = "binary"

(* The records of s are in the order in which they were captured.            *)
Ascending(s) ==
    \A i, j \in DOMAIN s :
        i < j /\ IsRecord(s[i]) /\ IsRecord(s[j]) => s[i].at < s[j].at

(* Where `lines()` finds a record: at the lines that parse, up to the first   *)
(* error.                                                                    *)
RecordsAt(ls) ==
    {i \in DOMAIN ls : IsRecord(ls[i]) /\ \A j \in 1 .. i : ~IsBinary(ls[j])}

ReadRecords(ls) == Pick(ls, RecordsAt(ls))

(* What append_rolling may have read of ls when its loop ends: `Err(_) =>     *)
(* break` takes an I/O error, at whichever line, for the end of the file.     *)
MayRead(ls) ==
    LET all == ReadRecords(ls)
    IN  {SubSeq(all, 1, n) : n \in IF "io" \in Faults THEN 0 .. Len(all) ELSE {Len(all)}}

(* Mutant: one record too many is kept.                                     *)
LastOfOneMore(s) ==
    SubSeq(s, IF Len(s) > Window + 1 THEN Len(s) - Window ELSE 1, Len(s))

LastOf(s) == SubSeq(s, IF Len(s) > Window THEN Len(s) - Window + 1 ELSE 1, Len(s))

NewWriter == [at |-> "idle", existing |-> <<>>, kept |-> <<>>, result |-> "none"]
NewReader == [at |-> "idle", pos |-> 0, stale |-> FALSE, got |-> <<>>]

(* What earlier appends left, none of them from the future.                  *)
ASSUME InitFilesAssumption ==
    \A f \in InitFiles :
        /\ f \in Seq(Lines) /\ Ascending(f)
        /\ \A i \in DOMAIN f : f[i].at <= Len(f)

Init ==
    /\ file \in InitFiles
    /\ lock = "free"
    /\ writer = [p \in Writer |-> NewWriter]
    /\ reader = [r \in Reader |-> NewReader]
    /\ now = Len(file)

-------------------------------------------------------------------------------
(* append_rolling                                                            *)

At(p, at) == writer[p].at = at
Goto(p, at) == writer' = [writer EXCEPT ![p].at = at]

(* The locals go with the call.                                              *)
Leave(p, at) ==
    writer' = [writer EXCEPT ![p] = [NewWriter EXCEPT !.at = at, !.result = writer[p].result]]

(* Mutant: the way out on an error does not unlock.                         *)
FailKeepsLock(p) ==
    writer' = [writer EXCEPT ![p].at = "returned", ![p].result = "err"]

Fail(p) == writer' = [writer EXCEPT ![p].at = "unlock", ![p].result = "err"]

(* ensure_dir and open; without the file an empty one is created.            *)
Open(p) ==
    /\ At(p, "idle")
    /\ Goto(p, "locking")
    /\ UNCHANGED <<file, lock, reader, now>>

(* Mutant: a lock that others can share.                                    *)
AcquireShared(p) ==
    /\ At(p, "locking")
    /\ lock' = p
    /\ Goto(p, "locked")
    /\ UNCHANGED <<file, reader, now>>

(* flock(LOCK_EX) waits until nobody else holds the lock.                    *)
Acquire(p) ==
    /\ At(p, "locking")
    /\ lock = "free"
    /\ lock' = p
    /\ Goto(p, "locked")
    /\ UNCHANGED <<file, reader, now>>

(* Nothing is locked yet when open or flock fails.                           *)
OpenFails(p) ==
    /\ "io" \in Faults
    /\ writer[p].at \in {"idle", "locking"}
    /\ writer' = [writer EXCEPT ![p].at = "returned", ![p].result = "err"]
    /\ UNCHANGED <<file, lock, reader, now>>

(* Read the records, capture the new one and keep the last window_n.         *)
ReadAndPrune(p) ==
    /\ At(p, "locked")
    /\ now' = now + 1
    /\ \E old \in MayRead(file),
          l \in {Record(now + 1)} \cup (IF "nonfinite" \in Faults THEN {Malformed} ELSE {}) :
           writer' = [writer EXCEPT ![p].at = "truncate",
                                    ![p].existing = old,
                                    ![p].kept = LastOf(Append(old, l))]
    /\ UNCHANGED <<file, lock, reader>>

(* The offset of a reader in the file need not be the start of a line in the  *)
(* file that replaces it.                                                    *)
OffsetsStale ==
    reader' = [r \in Reader |-> [reader[r] EXCEPT !.stale = (reader[r].at = "reading")]]

(* set_len(0) or the seek after it may fail.                                 *)
Truncate(p) ==
    /\ At(p, "truncate")
    /\ \/ Goto(p, "write") /\ file' = <<>> /\ OffsetsStale
       \/ "io" \in Faults /\ Fail(p) /\ UNCHANGED <<file, reader>>
       \/ "io" \in Faults /\ Fail(p) /\ file' = <<>> /\ OffsetsStale
    /\ UNCHANGED <<lock, now>>

(* The next line reaches the file: BufWriter writes out when it is full, so   *)
(* any number of lines may get there while the loop still runs.              *)
PutLine(p) == file' = Append(file, writer[p].kept[Len(file) + 1])

WriteLine(p) ==
    /\ At(p, "write")
    /\ Len(file) < Len(writer[p].kept)
    /\ PutLine(p)
    /\ UNCHANGED <<lock, writer, reader, now>>

(* writeln! fails: the error is returned, and what is written stays.         *)
WriteFails(p) ==
    /\ "io" \in Faults
    /\ At(p, "write")
    /\ Len(file) < Len(writer[p].kept)
    /\ file' \in {file, Append(file, Malformed)}
    /\ Fail(p)
    /\ UNCHANGED <<lock, reader, now>>

(* The loop is through, the result is Ok(()); the locals are dropped now, the *)
(* BufWriter first, which writes out the lines it still holds.               *)
LoopDone(p) ==
    /\ At(p, "write")
    /\ writer' = [writer EXCEPT ![p].at = "drop", ![p].result = "ok"]
    /\ UNCHANGED <<file, lock, reader, now>>

FlushLine(p) ==
    /\ At(p, "drop")
    /\ Len(file) < Len(writer[p].kept)
    /\ PutLine(p)
    /\ UNCHANGED <<lock, writer, reader, now>>

FlushDone(p) ==
    /\ At(p, "drop")
    /\ Len(file) = Len(writer[p].kept)
    /\ Goto(p, "unlock")
    /\ UNCHANGED <<file, lock, reader, now>>

(* Dropping a BufWriter ignores the error of its flush.                      *)
FlushFails(p) ==
    /\ "flush" \in Faults
    /\ At(p, "drop")
    /\ Len(file) < Len(writer[p].kept)
    /\ file' \in {file, Append(file, Malformed)}
    /\ Goto(p, "unlock")
    /\ UNCHANGED <<lock, reader, now>>

(* Then the guard is dropped, and the lock with it.                          *)
Unlock(p) ==
    /\ At(p, "unlock")
    /\ lock' = "free"
    /\ Leave(p, "returned")
    /\ UNCHANGED <<file, reader, now>>

(* The process dies: the system closes its file, which frees the lock; a line *)
(* that was being written may be torn.                                       *)
Crash(p) ==
    /\ "crash" \in Faults
    /\ writer[p].at \notin {"idle", "returned", "crashed"}
    /\ Leave(p, "crashed")
    /\ lock' = IF lock = p THEN "free" ELSE lock
    /\ IF writer[p].at \in {"write", "drop"} /\ Len(file) < Len(writer[p].kept)
       THEN file' \in {file, Append(file, Malformed)}
       ELSE UNCHANGED file
    /\ UNCHANGED <<reader, now>>

-------------------------------------------------------------------------------
(* load_rolling                                                              *)

(* File::open takes no lock.                                                 *)
LoadOpen(r) ==
    /\ reader[r].at = "idle"
    /\ reader' = [reader EXCEPT ![r].at = "reading"]
    /\ UNCHANGED <<file, lock, writer, now>>

(* The next line, from whatever the file holds by now at that offset. After a *)
(* rewrite the offset may be inside a line, whose rest does not parse.        *)
LoadLine(r) ==
    /\ reader[r].at = "reading"
    /\ reader[r].pos < Len(file)
    /\ \E whole \in IF reader[r].stale THEN BOOLEAN ELSE {TRUE} :
       LET l == file[reader[r].pos + 1]
       IN  reader' = [reader EXCEPT
               ![r].pos = @ + 1,
               ![r].at = IF IsBinary(l) THEN "failed" ELSE @,
               ![r].got = IF IsRecord(l) /\ whole THEN Append(@, l) ELSE @]
    /\ UNCHANGED <<file, lock, writer, now>>

LoadEnd(r) ==
    /\ reader[r].at = "reading"
    /\ reader[r].pos >= Len(file)
    /\ reader' = [reader EXCEPT ![r].at = "loaded"]
    /\ UNCHANGED <<file, lock, writer, now>>

(* Unlike append_rolling, load_rolling returns the error of an open or a read. *)
LoadFails(r) ==
    /\ "io" \in Faults
    /\ reader[r].at \in {"idle", "reading"}
    /\ reader' = [reader EXCEPT ![r].at = "failed"]
    /\ UNCHANGED <<file, lock, writer, now>>

-------------------------------------------------------------------------------

AppendRolling(p) ==
    \/ Open(p) \/ Acquire(p)
    \/ ReadAndPrune(p) \/ Truncate(p)
    \/ WriteLine(p) \/ WriteFails(p) \/ LoopDone(p)
    \/ FlushLine(p) \/ FlushDone(p) \/ FlushFails(p)
    \/ Unlock(p)

LoadRolling(r) == LoadOpen(r) \/ LoadLine(r) \/ LoadEnd(r)

Terminated ==
    /\ \A p \in Writer : writer[p].at \in {"returned", "crashed"}
    /\ \A r \in Reader : reader[r].at \in {"loaded", "failed"}
    /\ UNCHANGED vars

Next ==
    \/ \E p \in Writer : AppendRolling(p) \/ OpenFails(p) \/ Crash(p)
    \/ \E r \in Reader : LoadRolling(r) \/ LoadFails(r)
    \/ Terminated

Spec == Init /\ [][Next]_vars

(* The processes are scheduled; a crash is never due, nor an error that would *)
(* free a process from waiting for the lock.                                 *)
FairSpec ==
    /\ Spec
    /\ \A p \in Writer : WF_vars(AppendRolling(p))
    /\ \A r \in Reader : WF_vars(LoadRolling(r))

-------------------------------------------------------------------------------

WriterStates ==
    [at : {"idle", "locking", "locked", "truncate", "write", "drop", "unlock",
           "returned", "crashed"},
     existing : Seq(Lines), kept : Seq(Lines), result : {"none", "ok", "err"}]

ReaderStates ==
    [at : {"idle", "reading", "loaded", "failed"}, pos : Nat, stale : BOOLEAN,
     got : Seq(Lines)]

TypeOK ==
    /\ file \in Seq(Lines)
    /\ lock \in Writer \cup {"free"}
    /\ writer \in [Writer -> WriterStates]
    /\ \A p \in Writer : Len(writer[p].kept) <= Window
    /\ reader \in [Reader -> ReaderStates]
    /\ now \in Nat

(* "Return all rolling records in chronological order (oldest first)"         *)
(* (store.rs:241). The file is in that order and no record is in it twice,    *)
(* also after crashes and failed writes; and so is what a reader gets that    *)
(* read some of its lines before and some after a rewrite it did not see.     *)
Chronological ==
    /\ Ascending(file)
    /\ \A r \in Reader : Ascending(reader[r].got)

(* When append_rolling is about to return Ok, the record it was called for is *)
(* the last one in the file and can be read, whatever earlier appends left    *)
(* behind: "Append a new rolling record" (store.rs:185), "every successful    *)
(* run appends one record" (cli/mod.rs:1526).                                 *)
OkMeansAppended ==
    \A p \in Writer : At(p, "unlock") /\ writer[p].result = "ok" =>
        /\ file = writer[p].kept
        /\ IsRecord(file[Len(file)])

(* Every call comes back although another process crashed with the lock held  *)
(* or left on an error path (store.rs:275-291).                               *)
AppendEnds ==
    \A p \in Writer : At(p, "locking") ~> writer[p].at \in {"returned", "crashed"}

-------------------------------------------------------------------------------

(* The records a complete append has left: a holder of the lock that has      *)
(* truncated the file has not completed its own, and has what it has read.    *)
InFlux == lock # "free" /\ writer[lock].at \in {"write", "drop"}
Complete == IF InFlux THEN writer[lock].existing ELSE ReadRecords(file)

Log == INSTANCE RollingLog
    WITH log <- [i \in DOMAIN Complete |-> Complete[i].at],
         InitLogs <- {[i \in DOMAIN ReadRecords(f) |-> ReadRecords(f)[i].at] : f \in InitFiles},
         MayLose <- (Faults # {})

(* The rewrites are atomic appends to a window of the last records. One that  *)
(* goes wrong leaves a beginning of what it would have left, and one whose    *)
(* read broke off (store.rs:212) first cuts the log behind what it has read   *)
(* and then appends, so that what lacks is missing from the middle; the       *)
(* records that stay are never reordered or repeated (store.rs:185-239).      *)
ImplementsRollingLog == Log!Spec

(* The file is truncated although it holds records that were not read.        *)
CutsUnread(p) ==
    /\ At(p, "truncate") /\ writer'[p].at = "write"
    /\ writer[p].existing # ReadRecords(file)

(* The steps that may cost a record.                                          *)
Faulty(p) ==
    \/ CutsUnread(p)
    \/ At(p, "truncate") /\ writer'[p].result = "err"
    \/ WriteFails(p) \/ FlushFails(p) \/ Crash(p)
    \/ FlushDone(p) /\ ~IsRecord(writer[p].kept[Len(writer[p].kept)])

(* Only a fault of the append under way costs records, its own or others: a   *)
(* crash, a failing write or flush, a read that broke off, of which the last  *)
(* two are not told of (store.rs:212, 230). Two appends that meet never       *)
(* overwrite each other's record, whatever happened to a third before         *)
(* (store.rs:200-239).                                                        *)
OnlyFaultsLose ==
    [][(\E p \in Writer : Faulty(p)) \/ Log!AppendRecord]_(Log!vars)
===============================================================================
