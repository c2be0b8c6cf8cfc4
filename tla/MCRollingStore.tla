---------------------------- MODULE MCRollingStore ----------------------------
(* Instances of RollingStore for TLC: two writers and a reader, with every   *)
(* fault at once, or with failing flushes only.                              *)
EXTENDS RollingStore

MCWriter == {"w1", "w2"}
MCReader == {"r1"}
MCNobody == {}

(* No file yet, a file longer than the window that an earlier and wider one   *)
(* left, one with a line that does not parse and one with a line not UTF-8.   *)
MCInitFiles ==
    {<<>>,
     <<Record(1), Record(2), Record(3)>>,
     <<Record(1), Malformed, Record(3)>>,
     <<Record(1), Binary, Record(3)>>}

AllFaults == {"crash", "io", "flush", "nonfinite"}
Flush == {"flush"}
===============================================================================
