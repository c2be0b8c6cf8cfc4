---------------------------- MODULE MCCommandExec ----------------------------
(* Instances of CommandExec for TLC: two threads, so that each one's process *)
(* is seen to be its own.                                                    *)
EXTENDS CommandExec

MCThread == {"t1", "t2"}

(* Zero is accepted by the configuration; one is the shipped default.        *)
MCTimeouts == {Unset, 0, 1}

(* The process of t2 runs as another user, as that of `sudo` does.            *)
MCKillable == {"t1"}
===============================================================================
