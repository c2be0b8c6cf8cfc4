---------------------------- MODULE MCCollectors ----------------------------
(* Instances of Collectors for TLC.                                          *)
EXTENDS Collectors

(* Half idle, busier in user time, and as busy in system time.               *)
MCLoads == {<<50, 0, 50>>, <<60, 0, 40>>, <<0, 50, 50>>}
MCAll == {"cpu", "cpu_macos", "disk", "network", "memory"}
MCLossy == {"cpu_macos", "network", "memory"}

(* One half is idle, and the other one system time, then user time, or first  *)
(* user and then system time.                                                 *)
MCSwap == {<<0, 50, 50>>, <<50, 0, 50>>}
MCMacos == {"cpu_macos"}
===============================================================================
