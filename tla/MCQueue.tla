------------------------------ MODULE MCQueue ------------------------------
(* Instances of MessageQueue for TLC. *)
EXTENDS MessageQueue, TLC

CONSTANTS c1, c2, e1, e2, x1, x2

MCroots == (e1 :> x1) @@ (e2 :> x2)
MCroots_one == e1 :> x1
=============================================================================
