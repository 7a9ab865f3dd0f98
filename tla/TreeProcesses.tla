--------------------------- MODULE TreeProcesses ---------------------------
(***************************************************************************)
(* FirstLab/TreeProcesses: a process decides at random to end, or to fork  *)
(* one, two or three children and to wait for them; each child does the    *)
(* same.  A process that ends at once appends its identifier and its depth *)
(* in the tree to HistogramFilaData.txt.  The first process, when it has   *)
(* waited for its children, reads the file twice: to count the lines and   *)
(* find the greatest depth, and to fill a table of that size.              *)
(*                                                                         *)
(* Processes are numbered in the order in which they are forked.           *)
(***************************************************************************)
EXTENDS Integers, Sequences, FiniteSetsExt

CONSTANT MaxProcs     \* bound: how many processes there may ever be

ASSUME MaxProcsAssumption == MaxProcs \in Nat \ {0}

VARIABLES
  pc,             \* process -> what it does next
  procs,          \* how many processes there were so far
  planned,        \* how many there will be, when all forks succeed
  generate_proc_value, \* process -> how many children it wants
  chPID,          \* process -> the children it forked
  j,              \* process -> how many of them it waited for
  length_of_proc_trace, \* process -> its depth
  histo,          \* the lines of the file
  value_of_pids, max_length  \* the size of the table, from the first reading

vars == <<pc, procs, planned, generate_proc_value, chPID, j,
          length_of_proc_trace, histo, value_of_pids, max_length>>

Procs    == 1 .. MaxProcs
main_pid == 1

PCs == {"unborn", "loop", "append", "fork", "wait", "count", "fill", "done",
        "failed"}

Goto(p, from, to) == pc[p] = from /\ pc' = [pc EXCEPT ![p] = to]

(* A process ended: it returned 0, or -1. *)
Ended(p) == pc[p] \in {"done", "failed"}

(* Where a process goes when its work in the tree is done. *)
AfterLoop(p) == IF p = main_pid THEN "count" ELSE "done"

(* "End". *)
DecideEnd(p) ==
  /\ Goto(p, "loop", "append")
  /\ UNCHANGED <<procs, planned, generate_proc_value, chPID, j,
                 length_of_proc_trace, histo, value_of_pids, max_length>>

(* "+1", "+2", "+3". *)
DecideFork(p) ==
  /\ Goto(p, "loop", "fork")
  /\ \E n \in 1 .. 3 :
       /\ planned + n <= MaxProcs
       /\ planned' = planned + n
       /\ generate_proc_value' = [generate_proc_value EXCEPT ![p] = n]
  /\ UNCHANGED <<procs, chPID, j, length_of_proc_trace, histo, value_of_pids,
                 max_length>>

(* The file is opened, written and closed; the first process has no line.  *)
AppendLine_w(p) ==    \* a slip: the file is opened with "w"
  /\ Goto(p, "append", AfterLoop(p))
  /\ histo' = IF length_of_proc_trace[p] = 0 THEN <<>>
              ELSE << <<p, length_of_proc_trace[p]>> >>
  /\ UNCHANGED <<procs, planned, generate_proc_value, chPID, j,
                 length_of_proc_trace, value_of_pids, max_length>>

AppendLine(p) ==
  /\ Goto(p, "append", AfterLoop(p))
  /\ histo' = IF length_of_proc_trace[p] = 0 THEN histo
              ELSE Append(histo, <<p, length_of_proc_trace[p]>>)
  /\ UNCHANGED <<procs, planned, generate_proc_value, chPID, j,
                 length_of_proc_trace, value_of_pids, max_length>>

(* fopen fails: the process returns, the first process as well. *)
AppendFails(p) ==
  /\ Goto(p, "append", "failed")
  /\ UNCHANGED <<procs, planned, generate_proc_value, chPID, j,
                 length_of_proc_trace, histo, value_of_pids, max_length>>

Fork_one_more(p) ==   \* a slip: the loop ends one child too late
  LET child == procs + 1
      last  == Len(chPID[p]) = generate_proc_value[p]
  IN  /\ pc[p] = "fork"
      /\ pc' = [pc EXCEPT ![p] = IF last THEN "wait" ELSE "fork",
                          ![child] = "loop"]
      /\ procs' = child
      /\ chPID' = [chPID EXCEPT ![p] = Append(@, child)]
      /\ length_of_proc_trace' =
           [length_of_proc_trace EXCEPT ![child] = length_of_proc_trace[p] + 1]
      /\ UNCHANGED <<planned, generate_proc_value, j, histo, value_of_pids,
                     max_length>>

Fork(p) ==
  LET child == procs + 1
      last  == Len(chPID[p]) + 1 = generate_proc_value[p]
  IN  /\ pc[p] = "fork" /\ procs < MaxProcs
      /\ pc' = [pc EXCEPT ![p] = IF last THEN "wait" ELSE "fork",
                          ![child] = "loop"]
      /\ procs' = child
      /\ chPID' = [chPID EXCEPT ![p] = Append(@, child)]
      /\ length_of_proc_trace' =
           [length_of_proc_trace EXCEPT ![child] = length_of_proc_trace[p] + 1]
      /\ UNCHANGED <<planned, generate_proc_value, j, histo, value_of_pids,
                     max_length>>

(* fork fails: the process returns, and waits for none of its children. *)
ForkFails(p) ==
  /\ Goto(p, "fork", "failed")
  /\ UNCHANGED <<procs, planned, generate_proc_value, chPID, j,
                 length_of_proc_trace, histo, value_of_pids, max_length>>

(* The children are waited for in the order in which they were forked, and *)
(* their exit status is not looked at.                                     *)
(* First two slips: to wait for one child only, and not to count the one   *)
(* that was waited for, so that waitpid goes on about it for ever.         *)
Wait_one(p) ==
  /\ pc[p] = "wait"
  /\ \E i \in DOMAIN chPID[p] : Ended(chPID[p][i])
  /\ pc' = [pc EXCEPT ![p] = AfterLoop(p)]
  /\ UNCHANGED <<procs, planned, generate_proc_value, chPID, j,
                 length_of_proc_trace, histo, value_of_pids, max_length>>

Wait_uncounted(p) ==
  /\ pc[p] = "wait"
  /\ Ended(chPID[p][j[p] + 1])
  /\ pc' = IF j[p] = generate_proc_value[p]
           THEN [pc EXCEPT ![p] = AfterLoop(p)] ELSE pc
  /\ UNCHANGED <<procs, planned, generate_proc_value, chPID, j,
                 length_of_proc_trace, histo, value_of_pids, max_length>>

Wait(p) ==
  /\ pc[p] = "wait"
  /\ Ended(chPID[p][j[p] + 1])
  /\ j' = [j EXCEPT ![p] = @ + 1]
  /\ pc' = IF j'[p] = generate_proc_value[p]
           THEN [pc EXCEPT ![p] = AfterLoop(p)] ELSE pc
  /\ UNCHANGED <<procs, planned, generate_proc_value, chPID,
                 length_of_proc_trace, histo, value_of_pids, max_length>>

Lengths == {histo[i][2] : i \in DOMAIN histo}

CountLines ==     \* the first reading
  /\ Goto(main_pid, "count", "fill")
  /\ value_of_pids' = Len(histo)
  /\ max_length' = Max(Lengths \union {0})
  /\ UNCHANGED <<procs, planned, generate_proc_value, chPID, j,
                 length_of_proc_trace, histo>>

FillTable ==      \* the second reading
  /\ Goto(main_pid, "fill", "done")
  /\ UNCHANGED <<procs, planned, generate_proc_value, chPID, j,
                 length_of_proc_trace, histo, value_of_pids, max_length>>

ReadFails ==      \* fopen fails before the first reading
  /\ Goto(main_pid, "count", "failed")
  /\ UNCHANGED <<procs, planned, generate_proc_value, chPID, j,
                 length_of_proc_trace, histo, value_of_pids, max_length>>

Step(p) ==
  \/ DecideEnd(p) \/ DecideFork(p) \/ AppendLine(p) \/ Fork(p) \/ Wait(p)
  \/ p = main_pid /\ (CountLines \/ FillTable)

Init ==
  /\ pc = [p \in Procs |-> IF p = main_pid THEN "loop" ELSE "unborn"]
  /\ procs = 1 /\ planned = 1
  /\ generate_proc_value = [p \in Procs |-> 0]
  /\ chPID = [p \in Procs |-> <<>>]
  /\ j = [p \in Procs |-> 0]
  /\ length_of_proc_trace = [p \in Procs |-> 0]
  /\ histo = <<>>
  /\ value_of_pids = 0 /\ max_length = 0

(* fork and fopen may fail, at any time. *)
Next ==
  \/ \E p \in Procs : Step(p) \/ AppendFails(p) \/ ForkFails(p)
  \/ ReadFails

(* Every process is scheduled. *)
Fairness == \A p \in Procs : WF_vars(Step(p))

Spec     == Init /\ [][Next]_vars
FairSpec == Spec /\ Fairness

-----------------------------------------------------------------------------
(* Properties. *)

(* Every variable has its type. *)
TypeOK ==
  /\ pc \in [Procs -> PCs]
  /\ procs \in Procs /\ planned \in Procs /\ procs <= planned
  /\ generate_proc_value \in [Procs -> 0 .. 3]
  /\ chPID \in [Procs -> Seq(Procs)]
  /\ j \in [Procs -> 0 .. 3]
  /\ length_of_proc_trace \in [Procs -> 0 .. MaxProcs]
  /\ histo \in Seq(Procs \X (1 .. MaxProcs))
  /\ value_of_pids \in 0 .. MaxProcs /\ max_length \in 0 .. MaxProcs

Born(p)  == pc[p] # "unborn"
Alive(p) == Born(p) /\ ~ Ended(p)
ChildOf(q, p) == \E i \in DOMAIN chPID[p] : chPID[p][i] = q

(* A process that ended early, because fork failed. *)
Broken(p) == pc[p] = "failed" /\ Len(chPID[p]) < generate_proc_value[p]

Reading == pc[main_pid] \in {"count", "fill"}

(* What the first process reads are lines of leaves of the tree, one each, *)
(* with their depths; all leaves, when no fork and no fopen failed.        *)
Leaves == {p \in Procs \ {main_pid} : Born(p) /\ chPID[p] = <<>>}

FileIsTheLeaves ==
  Reading =>
    LET lines == {histo[i] : i \in DOMAIN histo}
        due   == {<<p, length_of_proc_trace[p]>> : p \in Leaves}
    IN  /\ Len(histo) = Cardinality(lines) /\ lines \subseteq due
        /\ (\A p \in Procs : pc[p] # "failed") => lines = due

(* The processes below one that is Broken: the least set of them. *)
Downwards(S) ==
  \A q \in Procs : Broken(q) \/ q \in S =>
    \A p \in Procs : ChildOf(p, q) => p \in S

Orphaned == {p \in Procs : \A S \in SUBSET Procs : Downwards(S) => p \in S}

(* While the first process reads the file, another one can be left only    *)
(* when one of its ancestors ended early, because its fork failed: if none *)
(* did, nobody is left, and the file no longer changes.                    *)
OnlyOrphansLeft ==
  Reading => \A p \in Procs \ {main_pid} : Alive(p) => p \in Orphaned

(* Everything ends: no process waits for ever, whoever failed. *)
EverythingEnds == <>[](\A p \in Procs : ~ Alive(p))
=============================================================================
