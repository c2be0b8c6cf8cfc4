------------------------------ MODULE Positions ------------------------------
(***************************************************************************)
(* What a `filter` leaves of a vector: the elements at some of its         *)
(* positions, in their order (for one flat_map, config.rs:172-176).        *)
(***************************************************************************)
EXTENDS Naturals, Sequences, FiniteSets

(* A vector, of whatever elements.                                           *)
IsVector(q) == q \in Seq({q[i] : i \in DOMAIN q})

(* The k-th smallest number of S.                                            *)
Nth(S, k) == CHOOSE i \in S : Cardinality({j \in S : j <= i}) = k

(* The elements of q at the positions S.                                     *)
Pick(q, S) == [k \in 1 .. Cardinality(S) |-> q[Nth(S, k)]]

===============================================================================
