---------------------------- MODULE MCCommandPool ----------------------------
(* An instance of CommandPool for TLC: three commands in chunks of two, each *)
(* with a timeout of one second.                                             *)
EXTENDS CommandPool

MCCommand == {"a", "b", "c"}
MCInputs == {<<"b", "a", "c">>}
MCKind == X!Kinds
MCTimeouts == {1}
MCKillable == Seqs
===============================================================================
