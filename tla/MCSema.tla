------------------------------- MODULE MCSema -------------------------------
(* Instances of SemaExchange for TLC. *)
EXTENDS SemaExchange, TLC

CONSTANTS c1, c2, e1, r1, r2

(* "" is no expression: what the scan finds behind it decides the result. *)
MCfind_answer == (e1 :> {r1}) @@ (Blank :> {r1, r2})
MCfind_one == Blank :> {r1}
Symmetry == Permutations(Clients)
=============================================================================
