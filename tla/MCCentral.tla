----------------------------- MODULE MCCentral -----------------------------
(* Instances of CentralServer for TLC. *)
EXTENDS CentralServer, TLC

CONSTANTS c1, c2, k1, k2

MCno_flags == {[undo0 |-> FALSE, undo1 |-> FALSE, nowait0 |-> FALSE, nowait1 |-> FALSE]}
MCtwo_flags == MCno_flags \union
               {[undo0 |-> TRUE, undo1 |-> TRUE, nowait0 |-> FALSE, nowait1 |-> TRUE]}
(* SEM_UNDO of the first operation, or nothing, is found set. *)
MCharmless_flags == {f \in Sops : ~ f.undo1 /\ ~ f.nowait0 /\ ~ f.nowait1}
MCany_flags == Sops
Both == {"SORT_FILES", "GAME"}
Symmetry == Permutations(Clients) \union Permutations(Children)

(* Of the two exchanges a behaviour has crashes of one: all clients choose *)
(* the same, and the server of the other is not started.                   *)
OneTask == \/ semStarts = 0 /\ \A c \in Clients : up[c] # "SORT_FILES"
           \/ queStarts = 0 /\ \A c \in Clients : up[c] # "GAME"

(* The central server ends in the first lives of the task servers or never.*)
EndsEarly == listening \/ (semStarts <= 1 /\ queStarts <= 1)

NextOneTask == Next /\ OneTask' /\ EndsEarly'
SpecOneTask == Init /\ [][NextOneTask]_vars
=============================================================================
