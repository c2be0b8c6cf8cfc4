---------------------------- MODULE MCThreadRunner ----------------------------
(* Instances of ThreadRunner for TLC: four distinct commands.               *)
EXTENDS ThreadRunner

MCCommand == {"a", "b", "c", "d"}
MCKind == {"Success", "Timeout"}

(* One chunk and two chunks, the last one not full; and no command at all.   *)
MCInputs == {<<>>, <<"a">>, <<"b", "a", "d", "c">>}
===============================================================================
