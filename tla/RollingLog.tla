------------------------------ MODULE RollingLog ------------------------------
(***************************************************************************)
(* What `append_rolling` promises (store.rs:185-186): a log of the last    *)
(* Window records, each append adding one record at the end, atomically;   *)
(* and what is left when an append goes wrong: the beginning of the log it *)
(* would have left, or, when it could not read all of the log, the         *)
(* beginning of that, to which it then appends.                            *)
(***************************************************************************)
EXTENDS Integers, Sequences

CONSTANTS Window,    \* window_n
          InitLogs,  \* what the log may hold at first
          MayLose    \* whether an append may go wrong

VARIABLE log   \* the records, oldest first, as the moments they were captured

vars == log

LastOf(s) == SubSeq(s, IF Len(s) > Window THEN Len(s) - Window + 1 ELSE 1, Len(s))

Init == log \in InitLogs

AppendRecord ==
    /\ log' # <<>>
    /\ LET r == log'[Len(log')]
       IN  /\ \A i \in DOMAIN log : log[i] < r
           /\ log' = LastOf(Append(log, r))

(* The newest records are lost, the one to append the first of them.        *)
LoseNewest ==
    /\ MayLose
    /\ LET whole == LastOf(Append(log, 0))
       IN  \E n \in 0 .. Len(whole) - 1 : log' = SubSeq(whole, 1, n)

(* What an append could not read is lost, before it appends its own record.   *)
LoseUnread ==
    /\ MayLose
    /\ \E n \in 0 .. Len(log) - 1 : log' = SubSeq(log, 1, n)

Spec == Init /\ [][AppendRecord \/ LoseNewest \/ LoseUnread]_log
===============================================================================
