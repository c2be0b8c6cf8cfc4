----------------------------- MODULE NamedBaseline -----------------------------
(***************************************************************************)
(* One named baseline and the commands of several users or scripts on it   *)
(* at once: usereport baseline record, with and without --force, show and  *)
(* delete, and a report with --baseline, which loads like show             *)
(* (cli/mod.rs, run_baseline; baseline/store.rs, record, load, delete).    *)
(* There is no lock: each call of the file system is a step. A record is   *)
(* some blocks of JSON, one process's blocks told from another's.          *)
(***************************************************************************)
EXTENDS Naturals, Sequences, SequencesExt

CONSTANTS
    Procs,      \* The processes, each of which runs one command.
    Earlier,    \* Who recorded the baseline before, if it is there.
    Size        \* The blocks of each process's record.

ASSUME SizeAssumption == Size \in [Procs \cup {Earlier} -> Nat \ {0}]

VARIABLES
    pc, op,     \* Where a process is, and the command it runs.
    entry,      \* The file behind the name, 0 where there is none.
    content,    \* The blocks of every file there ever was.
    fd, buf,    \* The file a process has open, and what it has read of it.
    result,     \* How its command ended.
    fresh,      \* History: who has written since a process looked.
    overlapped  \* History: a write failed, or two writers met.

process == <<pc, op, fd, buf, result>>
vars == <<process, entry, content, fresh, overlapped>>

Writers == Procs \cup {Earlier}
Full(w) == [i \in 1 .. Size[w] |-> <<w, i>>]
IsWhole(c) == \E w \in Writers : c = Full(w)

(* Mutant: a record that ends early is taken for what there is of it.        *)
ParseLenient(c) ==
    LET begun == {w \in Writers : c # <<>> /\ IsPrefix(c, Full(w))}
    IN  IF begun # {} THEN {CHOOSE w \in begun : TRUE} ELSE {"error"}

(* What from_slice may make of the bytes: a whole record; an error where they *)
(* end early or go on behind the record; and where the beginning of one       *)
(* record happens to meet the end of another, either an error or a mixture.   *)
Parse(c) ==
    IF IsWhole(c) THEN {CHOOSE w \in Writers : c = Full(w)}
    ELSE IF c = <<>> \/ Len(c) # Size[Last(c)[1]]
            \/ \E w \in Writers : IsStrictPrefix(Full(w), c)
         THEN {"error"} ELSE {"error", "mixed"}

Init ==
    /\ pc = [p \in Procs |-> "start"]
    /\ op = [p \in Procs |-> "none"]
    /\ \/ entry = 0 /\ content = <<>>
       \/ entry = 1 /\ content = <<Full(Earlier)>>
    /\ fd = [p \in Procs |-> 0]
    /\ buf = [p \in Procs |-> <<>>]
    /\ result = [p \in Procs |-> "none"]
    /\ fresh = [p \in Procs |-> {}]
    /\ overlapped = FALSE

Goto(p, label) == pc' = [pc EXCEPT ![p] = label]

End(p, how) ==
    /\ Goto(p, "done")
    /\ result' = [result EXCEPT ![p] = how]

Writing == {p \in Procs : pc[p] = "write"}

(* Mutant: the check is left out.                                            *)
StartUnchecked(p) ==
    /\ pc[p] = "start"
    /\ \E o \in {"record", "force", "show", "delete"} :
        /\ op' = [op EXCEPT ![p] = o]
        /\ Goto(p, CASE o \in {"record", "force"} -> "create" [] o = "show" -> "look" [] o = "delete" -> "delete")
    /\ UNCHANGED <<entry, content, fd, buf, result, fresh, overlapped>>

(* Only --force spares the look at what is there. (Neither does delete act    *)
(* without --force; that one ends at once.)                                  *)
Start(p) ==
    /\ pc[p] = "start"
    /\ \E o \in {"record", "force", "show", "delete"} :
        /\ op' = [op EXCEPT ![p] = o]
        /\ Goto(p, CASE o \in {"record", "show"} -> "look" [] o = "force" -> "create" [] o = "delete" -> "delete")
    /\ UNCHANGED <<entry, content, fd, buf, result, fresh, overlapped>>

(* load: the file is opened, or is not there.                                *)
Look(p) ==
    /\ pc[p] = "look"
    /\ fresh' = [fresh EXCEPT ![p] = {}]
    /\ IF entry = 0
       THEN /\ IF op[p] = "record" THEN Goto(p, "create") /\ UNCHANGED result
               ELSE End(p, "missing")
            /\ UNCHANGED fd
       ELSE /\ fd' = [fd EXCEPT ![p] = entry]
            /\ Goto(p, "read")
            /\ UNCHANGED result
    /\ UNCHANGED <<op, entry, content, buf, overlapped>>

(* What a read still finds behind what was read before.                      *)
Unread(p) == SubSeq(content[fd[p]], Len(buf[p]) + 1, Len(content[fd[p]]))

Read(p) ==
    /\ pc[p] = "read" /\ Unread(p) # <<>>
    /\ buf' = [buf EXCEPT ![p] = @ \o Unread(p)]
    /\ UNCHANGED <<pc, op, entry, content, fd, result, fresh, overlapped>>

(* The end of the file: an unforced record ends with an error whether the     *)
(* baseline is there or cannot be parsed.                                    *)
Loaded(p) ==
    /\ pc[p] = "read" /\ Unread(p) = <<>>
    /\ \E r \in Parse(buf[p]) :
        IF op[p] = "show" THEN End(p, r)
        ELSE End(p, IF r = "error" THEN "error" ELSE "exists")
    /\ UNCHANGED <<op, entry, content, fd, buf, fresh, overlapped>>

(* Mutant: the file is opened as it is.                                      *)
CreateKeeps(p) ==
    /\ pc[p] = "create"
    /\ IF entry = 0
       THEN entry' = Len(content) + 1 /\ content' = Append(content, <<>>)
       ELSE UNCHANGED <<entry, content>>
    /\ fd' = [fd EXCEPT ![p] = entry']
    /\ overlapped' = (overlapped \/ \E q \in Writing : fd[q] = entry')
    /\ Goto(p, "write")
    /\ UNCHANGED <<op, buf, result, fresh>>

(* The signals have been collected, and fs::write creates or empties the file.  *)
Create(p) ==
    /\ pc[p] = "create"
    /\ IF entry = 0
       THEN entry' = Len(content) + 1 /\ content' = Append(content, <<>>)
       ELSE UNCHANGED entry /\ content' = [content EXCEPT ![entry] = <<>>]
    /\ fd' = [fd EXCEPT ![p] = entry']
    /\ overlapped' = (overlapped \/ \E q \in Writing : fd[q] = entry')
    /\ Goto(p, "write")
    /\ UNCHANGED <<op, buf, result, fresh>>

(* The blocks of a file after those of s were put at its beginning.          *)
Over(s, c) == s \o SubSeq(c, Len(s) + 1, Len(c))

Write(p) ==
    /\ pc[p] = "write"
    /\ content' = [content EXCEPT ![fd[p]] = Over(Full(p), @)]
    /\ fresh' = [q \in Procs |-> fresh[q] \cup {p}]
    /\ End(p, "recorded")
    /\ UNCHANGED <<op, entry, fd, buf, overlapped>>

(* A full disk, or the end of the process: a part of it is written.          *)
WriteFails(p) ==
    /\ pc[p] = "write"
    /\ \E n \in 0 .. Size[p] - 1 :
        content' = [content EXCEPT ![fd[p]] = Over(SubSeq(Full(p), 1, n), @)]
    /\ fresh' = [q \in Procs |-> fresh[q] \cup {p}]
    /\ overlapped' = TRUE
    /\ End(p, "error")
    /\ UNCHANGED <<op, entry, fd, buf>>

(* The file goes, also one that is being written or read.                    *)
Delete(p) ==
    /\ pc[p] = "delete"
    /\ entry' = 0
    /\ End(p, IF entry = 0 THEN "missing" ELSE "deleted")
    /\ UNCHANGED <<op, content, fd, buf, fresh, overlapped>>

Command(p) ==
    Start(p) \/ Look(p) \/ Read(p) \/ Loaded(p) \/ Create(p) \/ Write(p) \/ WriteFails(p) \/ Delete(p)

AllDone == (\A p \in Procs : pc[p] = "done") /\ UNCHANGED vars

Next == (\E p \in Procs : Command(p)) \/ AllDone

Spec == Init /\ [][Next]_vars

-------------------------------------------------------------------------------
(* Properties                                                                *)

(* What load returns as a record, to show or to a report, is one that was     *)
(* recorded as a whole, also while the file is emptied, written, deleted and  *)
(* made anew; a mixture of two needs a write that failed.                    *)
LoadsAreWhole ==
    \A p \in Procs : op[p] = "show" /\ pc[p] = "done" =>
        \/ result[p] \in {"missing", "error"}
        \/ result[p] = Earlier
        \/ result[p] \in {q \in Procs : result[q] = "recorded"}
        \/ result[p] = "mixed" /\ \E q \in Procs : op[q] \in {"record", "force"} /\ result[q] = "error"

(* A baseline that cannot be parsed when nobody writes it is left by a write   *)
(* that failed or by two that overlapped, never by one after the other,       *)
(* longer or shorter.                                                        *)
TornOnlyByOverlap ==
    entry # 0 /\ Writing = {} /\ ~IsWhole(content[entry]) => overlapped

(* Without --force a record that is there is given up only for one that was   *)
(* made after the look at the name ("already exists; use --force to           *)
(* overwrite", cli/mod.rs).                                                  *)
UnforcedSparesWhatItSaw ==
    [][\A p \in Procs :
          pc[p] = "create" /\ pc'[p] = "write" /\ op[p] = "record" /\ entry # 0 /\ IsWhole(content[entry])
              => \E w \in fresh[p] : content[entry] = Full(w)]_vars
===============================================================================
