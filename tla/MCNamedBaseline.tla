---------------------------- MODULE MCNamedBaseline ----------------------------
(* Instances of NamedBaseline: records of different length, and an earlier one. *)
EXTENDS NamedBaseline, TLC

MCProcs == {"p1", "p2", "p3"}
MCEarlier == "earlier"
MCSize == "p1" :> 1 @@ "p2" :> 2 @@ "p3" :> 2 @@ "earlier" :> 2
===============================================================================
