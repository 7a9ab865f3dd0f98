------------------------------ MODULE MCFiles ------------------------------
(***************************************************************************)
(* The programs that share files, for TLC: ProcessEquations, whose         *)
(* processes read and write the same ones, and the programs of SecondLab,  *)
(* which share a directory.  A behaviour is one of ProcessEquations, one   *)
(* of the directory or the view of a mode; the first step decides of which.*)
(***************************************************************************)
EXTENDS ProcessEquations, Directory

vars == <<eqVars, dirVars, listed>>

(* Equal times, and different ones; the files are alike in all else. *)
MCTimes ==
  LET first == CHOOSE f \in Files : TRUE
  IN  {[o \in Objects |-> 0], [o \in Objects |-> IF o = first THEN 1 ELSE 0]}

MCModes == SUBSET (0 .. 11)

Init == EqInit /\ DirInit /\ StatInit

(* What the other programs are like while one runs.  One initial state of  *)
(* the directory and one of the file is enough for those not using them.   *)
DirRests == /\ changes = 0 /\ sorter.at = "off"
            /\ \A r \in Linkers : linker[r].at = "off"
            /\ Present = Objects /\ \A o \in Objects : time[o] = 0
EqRests  == file = <<>> /\ stack # <<>> /\ Top.at = "read"

Equations(A) == DirRests /\ StatInit /\ A /\ UNCHANGED <<dirVars, listed>>
Dir(A)       == EqRests /\ StatInit /\ A /\ UNCHANGED <<eqVars, listed>>
Stat(A)      == EqRests /\ DirRests /\ StatInit /\ A /\ UNCHANGED <<eqVars, dirVars>>

Next == Equations(EqNext) \/ Dir(DirNext) \/ Stat(get_full_stat)

(* The processes of ProcessEquations go on; no call has to fail. *)
Fairness == WF_vars(Equations(EqStep))

Spec == Init /\ [][Next]_vars /\ Fairness

(* Every variable of every program has its type. *)
TypeOK == EqTypeOK /\ DirTypeOK
=============================================================================
