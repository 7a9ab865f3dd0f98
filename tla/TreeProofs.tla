----------------------------- MODULE TreeProofs -----------------------------
(***************************************************************************)
(* For every bound on the number of processes: whoever is left when the    *)
(* first process reads the file is below one whose fork failed.            *)
(*                                                                         *)
(* The inductive invariant says what each process knows of its children    *)
(* only: a process does not end before they do, unless its fork failed.    *)
(* The rest is a fact about trees: of the processes still alive that are   *)
(* not below a broken one, the one with the least number can only be the   *)
(* first, for its parent is older, alive, and not below a broken one.      *)
(***************************************************************************)
EXTENDS TreeProcesses, TLAPS, FiniteSetTheorems, WellFoundedInduction

Types ==
  /\ pc \in [Procs -> PCs]
  /\ procs \in Procs /\ planned \in Procs
  /\ generate_proc_value \in [Procs -> 0 .. 3]
  /\ chPID \in [Procs -> Seq(Procs)]
  /\ j \in [Procs -> 0 .. 3]

(* The first procs numbers are taken; who is not the first has a parent. *)
Numbered ==
  /\ \A p \in Procs : pc[p] = "unborn" <=> p > procs
  /\ \A q \in 2 .. procs : \E p \in 1 .. q - 1 : ChildOf(q, p)
  /\ \A p \in Procs : pc[p] = "unborn" => chPID[p] = <<>>

(* How many children a process has, and how many of them have ended. *)
Final == {"done", "failed"}

Counted(p) ==
  /\ pc[p] \in {"unborn", "loop", "append"} => chPID[p] = <<>> /\ j[p] = 0
  /\ pc[p] = "fork" => Len(chPID[p]) < generate_proc_value[p] /\ j[p] = 0
  /\ pc[p] = "wait" => /\ Len(chPID[p]) = generate_proc_value[p]
                       /\ j[p] < generate_proc_value[p]
                       /\ \A i \in 1 .. j[p] : pc[chPID[p][i]] \in Final
  /\ pc[p] \in {"count", "fill", "done"} =>
       \A i \in DOMAIN chPID[p] : pc[chPID[p][i]] \in Final
  /\ pc[p] = "failed" =>
       Broken(p) \/ \A i \in DOMAIN chPID[p] : pc[chPID[p][i]] \in Final
  /\ pc[p] \in {"count", "fill"} => p = main_pid

Inv == Types /\ Numbered /\ \A p \in Procs : Counted(p)

USE MaxProcsAssumption

LEMMA InitInv == Init => Inv
  BY DEF Init, Inv, Types, Numbered, Counted, Procs, PCs, main_pid, ChildOf

(* The processes that are alive, outside a set that has all orphans, have  *)
(* a least one, and it is the first.                                       *)
LEMMA OnlyOrphansLeftByInv == Inv => OnlyOrphansLeft
<1> SUFFICES ASSUME Inv, Reading, NEW p \in Procs \ {main_pid}, Alive(p),
                    NEW S \in SUBSET Procs, Downwards(S), p \notin S
             PROVE  FALSE
  BY DEF OnlyOrphansLeft, Orphaned
<1> DEFINE T == {q \in Procs \ {main_pid} : Alive(q) /\ q \notin S}
<1>1. T \subseteq Nat /\ T # {}
  BY DEF Procs
<1>2. PICK q \in T : \A r \in T : ~ (<<r, q>> \in OpToRel(<, Nat))
  BY <1>1, WFMin, NatLessThanWellFounded
<1>3. \A r \in T : ~ (r < q)
  BY <1>1, <1>2 DEF OpToRel
<1>4. q \in 2 .. procs
  BY DEF Inv, Types, Numbered, Alive, Born, Procs, main_pid
<1>5. PICK r \in 1 .. q - 1 : ChildOf(q, r)
  BY <1>4 DEF Inv, Numbered
<1>6. r \in Procs /\ r < q
  BY <1>4 DEF Procs, Inv, Types
<1>7. ~ Broken(r) /\ r \notin S
  BY <1>5, <1>6 DEF Downwards
<1>8. pc[r] \in {"count", "fill", "done", "failed"}
  <2>1. CASE r = main_pid
    BY <2>1 DEF Reading
  <2>2. CASE r # main_pid
    <3>1. ~ Alive(r)
      BY <1>3, <1>6, <1>7, <2>2
    <3>2. pc[r] # "unborn"
      BY <1>5, <1>6, <1>4 DEF Inv, Numbered, Types, Procs
    <3> QED BY <3>1, <3>2 DEF Alive, Born, Ended
  <2> QED BY <2>1, <2>2
<1>9. pc[q] \in Final
  BY <1>5, <1>6, <1>7, <1>8 DEF Inv, Counted, ChildOf
<1> QED BY <1>9 DEF Alive, Ended, Final

(* The children of a process are processes, those it waited for its own.   *)
LEMMA ChildrenAreProcs ==
  ASSUME Inv, NEW q \in Procs
  PROVE  /\ chPID[q] \in Seq(Procs) /\ j[q] \in 0 .. 3
         /\ \A i \in DOMAIN chPID[q] : chPID[q][i] \in Procs
         /\ pc[q] = "wait" => 1 .. j[q] \subseteq DOMAIN chPID[q]
<1>1. chPID[q] \in Seq(Procs) /\ j[q] \in 0 .. 3
      /\ generate_proc_value[q] \in 0 .. 3
  BY DEF Inv, Types
<1>2. \A i \in DOMAIN chPID[q] : chPID[q][i] \in Procs
  BY <1>1
<1>3. pc[q] = "wait" => Len(chPID[q]) > j[q]
  BY <1>1 DEF Inv, Counted
<1>4. pc[q] = "wait" => 1 .. j[q] \subseteq DOMAIN chPID[q]
  BY <1>1, <1>3
<1> QED BY <1>1, <1>2, <1>4

(* What a process knows of its children stays true when the step is not    *)
(* its own, because what is done stays done.                               *)
LEMMA Kept ==
  ASSUME Inv, NEW q \in Procs,
         pc'[q] = pc[q], chPID'[q] = chPID[q], j'[q] = j[q],
         generate_proc_value'[q] = generate_proc_value[q],
         \A r \in Procs : pc[r] \in Final => pc'[r] \in Final
  PROVE  Counted(q)'
<1>1. Counted(q)
  BY DEF Inv
<1>2. \A i \in DOMAIN chPID[q] : pc[chPID[q][i]] \in Final => pc'[chPID[q][i]] \in Final
  BY ChildrenAreProcs
<1>3. pc[q] = "wait" => \A i \in 1 .. j[q] : pc[chPID[q][i]] \in Final
                                               => pc'[chPID[q][i]] \in Final
  BY <1>2, ChildrenAreProcs
<1>4. Broken(q) => Broken(q)'
  BY DEF Broken
<1> QED BY <1>1, <1>2, <1>3, <1>4 DEF Counted

(***************************************************************************)
(* One lemma for the steps that change neither the tree nor j: process p   *)
(* goes from one place to another.  It may end only when its children have *)
(* ended, and it takes its children's places as it found them.             *)
(***************************************************************************)
LEMMA Moved ==
  ASSUME Inv, NEW p \in Procs, NEW to \in PCs,
         pc[p] \notin {"unborn", "done", "failed"}, to # "unborn",
         pc' = [pc EXCEPT ![p] = to],
         UNCHANGED <<procs, planned, generate_proc_value, chPID, j>>,
         Counted(p)'
  PROVE  Inv'
<1>1. Types'
  BY DEF Inv, Types
<1>2. Numbered'
  BY DEF Inv, Types, Numbered, ChildOf
<1>3. ASSUME NEW q \in Procs, q # p
      PROVE  Counted(q)'
  <2>1. pc'[q] = pc[q]
    BY <1>3 DEF Inv, Types
  <2>2. \A r \in Procs : pc[r] \in Final => pc'[r] \in Final
    BY DEF Inv, Types, Final
  <2> QED BY <2>1, <2>2, Kept
<1> QED BY <1>1, <1>2, <1>3 DEF Inv

LEMMA DecideEndInv == ASSUME Inv, NEW p \in Procs, DecideEnd(p) PROVE Inv'
<1>1. Counted(p)'
  BY DEF Inv, Types, Counted, DecideEnd, Goto
<1> QED BY <1>1, Moved DEF DecideEnd, Goto, PCs

LEMMA AppendLineInv == ASSUME Inv, NEW p \in Procs, AppendLine(p) PROVE Inv'
<1>1. Counted(p)'
  BY DEF Inv, Types, Counted, AppendLine, Goto, AfterLoop
<1>2. AfterLoop(p) \in PCs \ {"unborn"}
  BY DEF AfterLoop, PCs
<1> QED BY <1>1, <1>2, Moved DEF AppendLine, Goto

LEMMA CountLinesInv == ASSUME Inv, CountLines PROVE Inv'
<1>1. main_pid \in Procs
  BY DEF main_pid, Procs
<1>2. Counted(main_pid)'
  <2>1. \A r \in Procs : pc[r] \in Final => pc'[r] \in Final
    BY <1>1 DEF CountLines, Goto, Inv, Types, Final
  <2>2. \A i \in DOMAIN chPID[main_pid] : chPID[main_pid][i] \in Procs
    BY <1>1, ChildrenAreProcs
  <2>3. \A i \in DOMAIN chPID[main_pid] : pc[chPID[main_pid][i]] \in Final
    BY <1>1 DEF Inv, Counted, CountLines, Goto
  <2>4. pc'[main_pid] \in {"fill", "done"} /\ chPID' = chPID
    BY <1>1 DEF Inv, Types, CountLines, Goto
  <2> QED BY <2>1, <2>2, <2>3, <2>4 DEF Counted
<1> QED BY <1>1, <1>2, Moved DEF CountLines, Goto, PCs

LEMMA FillTableInv == ASSUME Inv, FillTable PROVE Inv'
<1>1. main_pid \in Procs
  BY DEF main_pid, Procs
<1>2. Counted(main_pid)'
  <2>1. \A r \in Procs : pc[r] \in Final => pc'[r] \in Final
    BY <1>1 DEF FillTable, Goto, Inv, Types, Final
  <2>2. \A i \in DOMAIN chPID[main_pid] : chPID[main_pid][i] \in Procs
    BY <1>1, ChildrenAreProcs
  <2>3. \A i \in DOMAIN chPID[main_pid] : pc[chPID[main_pid][i]] \in Final
    BY <1>1 DEF Inv, Counted, FillTable, Goto
  <2>4. pc'[main_pid] \in {"fill", "done"} /\ chPID' = chPID
    BY <1>1 DEF Inv, Types, FillTable, Goto
  <2> QED BY <2>1, <2>2, <2>3, <2>4 DEF Counted
<1> QED BY <1>1, <1>2, Moved DEF FillTable, Goto, PCs

(* A process decides how many children it wants; it has none yet. *)
LEMMA DecideForkInv == ASSUME Inv, NEW p \in Procs, DecideFork(p) PROVE Inv'
<1> PICK n \in 1 .. 3 :
      /\ planned + n <= MaxProcs
      /\ planned' = planned + n
      /\ generate_proc_value' = [generate_proc_value EXCEPT ![p] = n]
  BY DEF DecideFork
<1>0. pc[p] = "loop" /\ pc' = [pc EXCEPT ![p] = "fork"]
      /\ UNCHANGED <<procs, chPID, j>>
  BY DEF DecideFork, Goto
<1>1. Types'
  BY <1>0 DEF Inv, Types, Procs, PCs
<1>2. Numbered'
  BY <1>0 DEF Inv, Types, Numbered, ChildOf
<1>3. ASSUME NEW q \in Procs
      PROVE  Counted(q)'
  <2>1. CASE q = p
    BY <1>0, <2>1 DEF Inv, Types, Counted
  <2>2. CASE q # p
    <3>1. pc'[q] = pc[q] /\ generate_proc_value'[q] = generate_proc_value[q]
          /\ chPID'[q] = chPID[q] /\ j'[q] = j[q]
      BY <1>0, <2>2 DEF Inv, Types
    <3>2. \A r \in Procs : pc[r] \in Final => pc'[r] \in Final
      BY <1>0 DEF Inv, Types, Final
    <3> QED BY <3>1, <3>2, Kept
  <2> QED BY <2>1, <2>2
<1> QED BY <1>1, <1>2, <1>3 DEF Inv

LEMMA WaitInv == ASSUME Inv, NEW p \in Procs, Wait(p) PROVE Inv'
<1>0. /\ pc[p] = "wait" /\ pc[chPID[p][j[p] + 1]] \in Final
      /\ j' = [j EXCEPT ![p] = @ + 1]
      /\ pc' = IF j'[p] = generate_proc_value[p]
               THEN [pc EXCEPT ![p] = AfterLoop(p)] ELSE pc
      /\ UNCHANGED <<procs, planned, generate_proc_value, chPID>>
  BY DEF Wait, Ended, Final
<1>1. /\ Len(chPID[p]) = generate_proc_value[p] /\ j[p] < generate_proc_value[p]
      /\ \A i \in 1 .. j[p] : pc[chPID[p][i]] \in Final
      /\ chPID[p] \in Seq(Procs) /\ j[p] \in 0 .. 3
      /\ generate_proc_value[p] \in 0 .. 3
  BY <1>0 DEF Inv, Types, Counted
<1>2. j'[p] = j[p] + 1 /\ \A i \in 1 .. j'[p] : pc[chPID[p][i]] \in Final
  BY <1>0, <1>1 DEF Inv, Types
<1>3. AfterLoop(p) \in PCs /\ AfterLoop(p) \in {"count", "done"}
      /\ (AfterLoop(p) = "count" => p = main_pid)
  BY DEF AfterLoop, PCs
<1>4. Types'
  BY <1>0, <1>1, <1>2, <1>3 DEF Inv, Types
<1>5. \A r \in Procs : pc[r] \in Final => pc'[r] \in Final
  BY <1>0 DEF Inv, Types, Final
<1>6. \A r \in Procs : pc'[r] = "unborn" <=> pc[r] = "unborn"
  BY <1>0, <1>3 DEF Inv, Types
<1>7. Numbered'
  BY <1>0, <1>6 DEF Inv, Numbered, ChildOf
<1>8. ASSUME NEW q \in Procs
      PROVE  Counted(q)'
  <2>1. CASE q = p
    <3>1. \A i \in DOMAIN chPID[p] : chPID[p][i] \in Procs
      BY <1>1
    <3>2. \A i \in 1 .. j'[p] : pc'[chPID[p][i]] \in Final
      BY <1>1, <1>2, <1>5, <3>1
    <3>3. CASE j'[p] = generate_proc_value[p]
      <4>1. pc'[p] = AfterLoop(p)
        BY <1>0, <3>3 DEF Inv, Types
      <4> QED BY <1>0, <1>1, <1>3, <3>2, <3>3, <4>1, <2>1 DEF Counted
    <3>4. CASE j'[p] # generate_proc_value[p]
      <4>1. pc'[p] = "wait" /\ j'[p] < generate_proc_value[p]
        BY <1>0, <1>1, <1>2, <3>4 DEF Inv, Types
      <4> QED BY <1>0, <1>1, <3>2, <4>1, <2>1 DEF Counted
    <3> QED BY <3>3, <3>4
  <2>2. CASE q # p
    <3>1. pc'[q] = pc[q] /\ generate_proc_value'[q] = generate_proc_value[q]
          /\ chPID'[q] = chPID[q] /\ j'[q] = j[q]
      BY <1>0, <2>2 DEF Inv, Types
    <3> QED BY <3>1, <1>5, Kept
  <2> QED BY <2>1, <2>2
<1> QED BY <1>4, <1>7, <1>8 DEF Inv

(* fork: the child gets the next number, and its parent one child more. *)
LEMMA ForkInv == ASSUME Inv, NEW p \in Procs, Fork(p) PROVE Inv'
<1> DEFINE child == procs + 1
           last  == Len(chPID[p]) + 1 = generate_proc_value[p]
<1>0. /\ pc[p] = "fork" /\ procs < MaxProcs
      /\ pc' = [pc EXCEPT ![p] = IF last THEN "wait" ELSE "fork",
                          ![child] = "loop"]
      /\ procs' = child
      /\ chPID' = [chPID EXCEPT ![p] = Append(@, child)]
      /\ UNCHANGED <<planned, generate_proc_value, j>>
  BY DEF Fork
<1>1. child \in Procs /\ procs \in Procs /\ p <= procs /\ child # p
  <2>1. procs \in Procs /\ child \in Procs
    BY <1>0 DEF Inv, Types, Procs
  <2>2. pc[p] # "unborn" => p <= procs
    BY <2>1 DEF Inv, Numbered, Procs
  <2> QED BY <1>0, <2>1, <2>2 DEF Procs
<1>2. pc[child] = "unborn" /\ chPID[child] = <<>> /\ j[child] = 0
  <2>1. pc[child] = "unborn"
    BY <1>1 DEF Inv, Numbered, Procs
  <2> QED BY <1>1, <2>1 DEF Inv, Counted
<1>3. /\ chPID[p] \in Seq(Procs) /\ chPID'[p] = Append(chPID[p], child)
      /\ \A q \in Procs \ {p} : chPID'[q] = chPID[q]
  BY <1>0, <1>1 DEF Inv, Types
<1>4. /\ pc'[child] = "loop" /\ pc'[p] = IF last THEN "wait" ELSE "fork"
      /\ \A q \in Procs \ {p, child} : pc'[q] = pc[q]
  BY <1>0, <1>1 DEF Inv, Types
<1>5. Types'
  <2>1. pc' \in [Procs -> PCs]
    BY <1>0, <1>1 DEF Inv, Types, PCs
  <2>2. chPID' \in [Procs -> Seq(Procs)]
    <3>1. Append(chPID[p], child) \in Seq(Procs)
      BY <1>1, <1>3
    <3> QED BY <1>0, <3>1 DEF Inv, Types
  <2> QED BY <1>0, <1>1, <2>1, <2>2 DEF Inv, Types
<1>6. Numbered'
  <2>1. ASSUME NEW q \in Procs
        PROVE  pc'[q] = "unborn" <=> q > procs'
    <3>1. q \in Int /\ procs \in Int /\ p <= procs /\ procs' = procs + 1
      BY <1>0, <1>1 DEF Procs
    <3>2. CASE q = p \/ q = child
      BY <1>4, <3>1, <3>2
    <3>3. CASE q \notin {p, child}
      <4>1. pc'[q] = pc[q]
        BY <1>4, <3>3
      <4>2. q # procs + 1
        BY <3>3
      <4>3. pc[q] = "unborn" <=> q > procs
        BY DEF Inv, Numbered
      <4> QED BY <3>1, <4>1, <4>2, <4>3
    <3> QED BY <3>2, <3>3
  <2>2. ASSUME NEW q \in 2 .. procs'
        PROVE  \E r \in 1 .. q - 1 : ChildOf(q, r)'
    <3>1. CASE q = child
      <4>1. Len(chPID[p]) + 1 \in DOMAIN chPID'[p]
            /\ chPID'[p][Len(chPID[p]) + 1] = child
        BY <1>1, <1>3
      <4>2. p \in 1 .. q - 1
        BY <1>1, <3>1 DEF Procs
      <4> QED BY <4>1, <4>2, <3>1 DEF ChildOf
    <3>2. CASE q # child
      <4>1. q \in 2 .. procs
        BY <1>0, <1>1, <3>2 DEF Procs
      <4>2. PICK r \in 1 .. q - 1 : ChildOf(q, r)
        BY <4>1 DEF Inv, Numbered
      <4>3. r \in Procs
        BY <4>1, <1>1 DEF Procs
      <4>4. PICK i \in DOMAIN chPID[r] : chPID[r][i] = q
        BY <4>2 DEF ChildOf
      <4>5. chPID[r] \in Seq(Procs)
        BY <4>3 DEF Inv, Types
      <4>6. i \in DOMAIN chPID'[r] /\ chPID'[r][i] = q
        <5>1. CASE r = p
          <6>1. /\ chPID[p] \in Seq(Procs) /\ i \in DOMAIN chPID[p]
                /\ chPID[p][i] = q /\ chPID'[p] = Append(chPID[p], child)
            BY <4>4, <1>3, <5>1
          <6>2. i \in DOMAIN chPID'[p] /\ chPID'[p][i] = q
            BY <6>1
          <6> QED BY <5>1, <6>2
        <5>2. CASE r # p
          BY <4>3, <4>4, <1>3, <5>2
        <5> QED BY <5>1, <5>2
      <4> QED BY <4>6, <4>2 DEF ChildOf
    <3> QED BY <3>1, <3>2
  <2>3. ASSUME NEW q \in Procs, pc'[q] = "unborn"
        PROVE  chPID'[q] = <<>>
    BY <2>3, <1>1, <1>3, <1>4 DEF Inv, Numbered
  <2> QED BY <2>1, <2>2, <2>3 DEF Numbered, ChildOf
<1>7. ASSUME NEW q \in Procs
      PROVE  Counted(q)'
  <2>1. CASE q = p
    <3>1. /\ j'[p] = 0 /\ Len(chPID'[p]) = Len(chPID[p]) + 1
          /\ generate_proc_value'[p] = generate_proc_value[p]
          /\ generate_proc_value[p] \in 0 .. 3
          /\ Len(chPID[p]) < generate_proc_value[p]
      BY <1>0, <1>1, <1>3 DEF Inv, Types, Counted
    <3>2. Len(chPID[p]) \in Nat
      BY <1>3
    <3> QED BY <3>1, <3>2, <1>4, <1>1, <2>1 DEF Counted
  <2>2. CASE q = child
    BY <1>0, <1>1, <1>2, <1>3, <1>4, <2>2 DEF Counted
  <2>3. CASE q \notin {p, child}
    <3>1. /\ pc'[q] = pc[q] /\ chPID'[q] = chPID[q] /\ j'[q] = j[q]
          /\ generate_proc_value'[q] = generate_proc_value[q]
      BY <1>0, <1>3, <1>4, <2>3
    <3>2. \A r \in Procs : pc[r] \in Final => pc'[r] \in Final
      BY <1>0, <1>2, <1>4 DEF Final
    <3> QED BY <3>1, <3>2, Kept
  <2> QED BY <2>1, <2>2, <2>3
<1> QED BY <1>5, <1>6, <1>7 DEF Inv

(* The ways to return early. *)
LEMMA AppendFailsInv == ASSUME Inv, NEW p \in Procs, AppendFails(p) PROVE Inv'
<1>1. Counted(p)'
  BY DEF Inv, Types, Counted, AppendFails, Goto
<1> QED BY <1>1, Moved DEF AppendFails, Goto, PCs

LEMMA ForkFailsInv == ASSUME Inv, NEW p \in Procs, ForkFails(p) PROVE Inv'
<1>1. Counted(p)'
  BY DEF Inv, Types, Counted, ForkFails, Goto, Broken
<1> QED BY <1>1, Moved DEF ForkFails, Goto, PCs

LEMMA ReadFailsInv == ASSUME Inv, ReadFails PROVE Inv'
<1>1. main_pid \in Procs
  BY DEF main_pid, Procs
<1>2. Counted(main_pid)'
  <2>1. \A r \in Procs : pc[r] \in Final => pc'[r] \in Final
    BY <1>1 DEF ReadFails, Goto, Inv, Types, Final
  <2>2. \A i \in DOMAIN chPID[main_pid] : chPID[main_pid][i] \in Procs
    BY <1>1, ChildrenAreProcs
  <2>3. \A i \in DOMAIN chPID[main_pid] : pc[chPID[main_pid][i]] \in Final
    BY <1>1 DEF Inv, Counted, ReadFails, Goto
  <2>4. pc'[main_pid] = "failed" /\ chPID' = chPID
    BY <1>1 DEF Inv, Types, ReadFails, Goto
  <2> QED BY <2>1, <2>2, <2>3, <2>4 DEF Counted
<1> QED BY <1>1, <1>2, Moved DEF ReadFails, Goto, PCs

LEMMA NextInv == Inv /\ [Next]_vars => Inv'
<1> SUFFICES ASSUME Inv, [Next]_vars PROVE Inv'
  OBVIOUS
<1>1. CASE UNCHANGED vars
  BY <1>1 DEF vars, Inv, Types, Numbered, Counted, ChildOf, Broken
<1>2. ASSUME NEW p \in Procs, Step(p) PROVE Inv'
  BY <1>2, DecideEndInv, DecideForkInv, AppendLineInv, ForkInv, WaitInv,
     CountLinesInv, FillTableInv DEF Step
<1> QED BY <1>1, <1>2, AppendFailsInv, ForkFailsInv, ReadFailsInv DEF Next

(* Whoever is left while the first process reads the file is below one     *)
(* whose fork failed: the waitpid calls of every other process wait for    *)
(* its whole part of the tree.                                             *)
THEOREM SpecOnlyOrphansLeft == Spec => []OnlyOrphansLeft
<1>1. Spec => []Inv
  BY InitInv, NextInv, PTL DEF Spec
<1> QED BY <1>1, OnlyOrphansLeftByInv, PTL

(* So nobody is left, and the file no longer changes, when no fork failed. *)
COROLLARY SpecNoneLeft ==
  Spec => [](Reading /\ (\A p \in Procs : ~ Broken(p))
               => \A p \in Procs \ {main_pid} : ~ Alive(p))
<1>1. OnlyOrphansLeft =>
        (Reading /\ (\A p \in Procs : ~ Broken(p))
           => \A p \in Procs \ {main_pid} : ~ Alive(p))
  <2> SUFFICES ASSUME OnlyOrphansLeft, Reading, \A r \in Procs : ~ Broken(r),
                      NEW p \in Procs \ {main_pid}, Alive(p)
               PROVE  FALSE
    OBVIOUS
  <2>1. Downwards({})
    BY DEF Downwards
  <2> QED BY <2>1 DEF OnlyOrphansLeft, Orphaned
<1> QED BY <1>1, SpecOnlyOrphansLeft, PTL

-----------------------------------------------------------------------------
(* What the first process reads from the file are lines of leaves of the   *)
(* tree, one each, and all of them if no fork and no fopen failed.         *)
(*                                                                         *)
(* The invariant relates the file to the processes that wrote it: those    *)
(* that ended without a child, but for the first one.  That these are all  *)
(* the leaves when the file is read is what OnlyOrphansLeft is about.      *)

Depths ==
  /\ length_of_proc_trace \in [Procs -> Nat]
  /\ \A p \in Procs : Born(p) => (length_of_proc_trace[p] = 0 <=> p = main_pid)

LineOf(p) == <<p, length_of_proc_trace[p]>>

Wrote(p) == p # main_pid /\ pc[p] = "done" /\ chPID[p] = <<>>

Lines ==
  /\ histo \in Seq(Procs \X Nat)
  /\ \A i \in DOMAIN histo : \E p \in Procs : Wrote(p) /\ histo[i] = LineOf(p)
  /\ \A i, k \in DOMAIN histo : histo[i] = histo[k] => i = k
  /\ \A p \in Procs : Wrote(p) => \E i \in DOMAIN histo : histo[i] = LineOf(p)

FInv == Inv /\ Depths /\ Lines

LEMMA InitFInv == Init => FInv
<1> SUFFICES ASSUME Init PROVE FInv
  OBVIOUS
<1>1. Depths
  BY DEF Init, Depths, Born, Procs, main_pid
<1>2. Lines
  BY DEF Init, Lines, Wrote, Procs, main_pid
<1> QED BY <1>1, <1>2, InitInv DEF FInv

(* A step that leaves the file alone, by which nobody is born, and nobody  *)
(* without children ends, but for the first process.                       *)
LEMMA FileKept ==
  ASSUME FInv, UNCHANGED <<histo, length_of_proc_trace>>,
         \A q \in Procs : Born(q)' => Born(q),
         \A q \in Procs : Wrote(q)' <=> Wrote(q)
  PROVE  Depths' /\ Lines'
<1>1. Depths'
  BY DEF FInv, Depths
<1>2. \A q \in Procs : LineOf(q)' = LineOf(q)
  BY DEF LineOf
<1>3. Lines'
  BY <1>2 DEF FInv, Lines
<1> QED BY <1>1, <1>3

LEMMA MovedFile ==
  ASSUME FInv, NEW p \in Procs, NEW to \in PCs \ {"unborn"},
         pc[p] # "unborn", pc' = [pc EXCEPT ![p] = to],
         UNCHANGED <<chPID, histo, length_of_proc_trace>>,
         Wrote(p)' <=> Wrote(p)
  PROVE  Depths' /\ Lines'
<1>1. \A q \in Procs : Born(q)' => Born(q)
  BY DEF FInv, Inv, Types, Born
<1>2. \A q \in Procs : Wrote(q)' <=> Wrote(q)
  BY DEF FInv, Inv, Types, Wrote
<1> QED BY <1>1, <1>2, FileKept

LEMMA ReturnsFile ==
  ASSUME FInv, NEW p \in Procs,
         DecideEnd(p) \/ DecideFork(p) \/ AppendFails(p) \/ ForkFails(p)
  PROVE  Depths' /\ Lines'
<1>1. PICK to \in {"append", "fork", "failed"} :
        /\ pc[p] \in {"loop", "append", "fork"}
        /\ pc' = [pc EXCEPT ![p] = to]
        /\ UNCHANGED <<chPID, histo, length_of_proc_trace>>
  BY DEF DecideEnd, DecideFork, AppendFails, ForkFails, Goto
<1>2. to \in PCs \ {"unborn"} /\ (Wrote(p)' <=> Wrote(p))
  BY <1>1 DEF FInv, Inv, Types, Wrote, PCs
<1> QED BY <1>1, <1>2, MovedFile

LEMMA ReadingFile ==
  ASSUME FInv, CountLines \/ FillTable \/ ReadFails
  PROVE  Depths' /\ Lines'
<1>1. PICK to \in {"fill", "done", "failed"} :
        /\ pc[main_pid] \in {"count", "fill"}
        /\ pc' = [pc EXCEPT ![main_pid] = to]
        /\ UNCHANGED <<chPID, histo, length_of_proc_trace>>
  BY DEF CountLines, FillTable, ReadFails, Goto
<1>2. /\ to \in PCs \ {"unborn"} /\ main_pid \in Procs
      /\ Wrote(main_pid)' <=> Wrote(main_pid)
  BY MaxProcsAssumption DEF Wrote, PCs, main_pid, Procs
<1> QED BY <1>1, <1>2, MovedFile

(* Who waits has children, and no line. *)
LEMMA WaitFile == ASSUME FInv, NEW p \in Procs, Wait(p) PROVE Depths' /\ Lines'
<1>1. /\ pc[p] = "wait"
      /\ pc' = [pc EXCEPT ![p] = AfterLoop(p)] \/ pc' = pc
      /\ UNCHANGED <<chPID, histo, length_of_proc_trace>>
  BY DEF Wait
<1>2. chPID[p] # <<>>
  <2>1. Len(chPID[p]) = generate_proc_value[p] /\ j[p] < generate_proc_value[p]
    BY <1>1 DEF FInv, Inv, Counted
  <2>2. j[p] \in 0 .. 3 /\ generate_proc_value[p] \in 0 .. 3
    BY DEF FInv, Inv, Types
  <2>3. Len(<<>>) = 0
    OBVIOUS
  <2> QED BY <2>1, <2>2, <2>3
<1>3. CASE pc' = pc
  BY <1>1, <1>3, FileKept DEF Born, Wrote
<1>4. CASE pc' = [pc EXCEPT ![p] = AfterLoop(p)]
  <2>1. AfterLoop(p) \in PCs \ {"unborn"}
    BY DEF AfterLoop, PCs
  <2>2. Wrote(p)' <=> Wrote(p)
    BY <1>1, <1>2 DEF Wrote
  <2> QED BY <1>1, <1>4, <2>1, <2>2, MovedFile
<1> QED BY <1>1, <1>3, <1>4

(* The child is one deeper than its parent. *)
LEMMA ForkFile == ASSUME FInv, NEW p \in Procs, Fork(p) PROVE Depths' /\ Lines'
<1> DEFINE child == procs + 1
<1>1. /\ pc[p] = "fork" /\ procs < MaxProcs /\ histo' = histo
      /\ \E to \in {"wait", "fork"} :
           pc' = [pc EXCEPT ![p] = to, ![child] = "loop"]
      /\ chPID' = [chPID EXCEPT ![p] = Append(@, child)]
      /\ length_of_proc_trace' =
           [length_of_proc_trace EXCEPT ![child] = length_of_proc_trace[p] + 1]
  BY DEF Fork
<1>2. procs \in Procs /\ child \in Procs /\ child # main_pid
  BY <1>1, MaxProcsAssumption DEF FInv, Inv, Types, Procs, main_pid
<1>3. pc[child] = "unborn"
  BY <1>2 DEF FInv, Inv, Numbered, Procs
<1>4. Depths'
  BY <1>1, <1>2, <1>3 DEF FInv, Inv, Types, Depths, Born
<1>5. ASSUME NEW q \in Procs
      PROVE  /\ Wrote(q)' <=> Wrote(q)
             /\ Wrote(q) => LineOf(q)' = LineOf(q)
  <2>1. CASE q \in {p, child}
    BY <1>1, <1>2, <1>3, <2>1 DEF FInv, Inv, Types, Wrote
  <2>2. CASE q \notin {p, child}
    BY <1>1, <1>2, <2>2 DEF FInv, Inv, Types, Depths, Wrote, LineOf
  <2> QED BY <2>1, <2>2
<1>6. Lines'
  BY <1>1, <1>5 DEF FInv, Lines
<1> QED BY <1>4, <1>6

(* The process that appends ends by it; the first one has no line. *)
LEMMA AppendFile == ASSUME FInv, NEW p \in Procs, AppendLine(p) PROVE Depths' /\ Lines'
<1>1. /\ pc[p] = "append" /\ pc' = [pc EXCEPT ![p] = AfterLoop(p)]
      /\ histo' = IF length_of_proc_trace[p] = 0 THEN histo ELSE Append(histo, LineOf(p))
      /\ UNCHANGED <<chPID, length_of_proc_trace>>
  BY DEF AppendLine, Goto, LineOf
<1>2. /\ chPID[p] = <<>> /\ ~ Wrote(p)
      /\ length_of_proc_trace[p] = 0 <=> p = main_pid
  BY <1>1 DEF FInv, Inv, Counted, Wrote, Depths, Born
<1>3. CASE p = main_pid
  <2>1. AfterLoop(p) \in PCs \ {"unborn"} /\ histo' = histo
    BY <1>1, <1>2, <1>3 DEF AfterLoop, PCs
  <2>2. Wrote(p)' <=> Wrote(p)
    BY <1>3 DEF Wrote
  <2> QED BY <1>1, <2>1, <2>2, MovedFile
<1>4. CASE p # main_pid
  <2>1. AfterLoop(p) = "done" /\ histo' = Append(histo, LineOf(p))
    BY <1>1, <1>2, <1>4 DEF AfterLoop
  <2>2. Depths'
    BY <1>1, <2>1 DEF FInv, Inv, Types, Depths, Born
  <2>3. \A q \in Procs : LineOf(q)' = LineOf(q)
    BY <1>1 DEF LineOf
  <2>4. \A q \in Procs : Wrote(q)' <=> Wrote(q) \/ q = p
    BY <1>1, <1>2, <1>4, <2>1 DEF FInv, Inv, Types, Wrote
  <2>5. histo \in Seq(Procs \X Nat) /\ LineOf(p) \in Procs \X Nat
    BY DEF FInv, Lines, Depths, LineOf
  <2>6. /\ histo' \in Seq(Procs \X Nat) /\ Len(histo') = Len(histo) + 1
        /\ \A i \in DOMAIN histo : i \in DOMAIN histo' /\ histo'[i] = histo[i]
        /\ DOMAIN histo' = DOMAIN histo \union {Len(histo) + 1}
        /\ histo'[Len(histo) + 1] = LineOf(p)
        /\ Len(histo) + 1 \notin DOMAIN histo
    BY <2>1, <2>5
  <2>7. \A i \in DOMAIN histo : histo[i] # LineOf(p)
    BY <1>2 DEF FInv, Lines, LineOf
  <2>8. \A i \in DOMAIN histo' : \E q \in Procs : Wrote(q)' /\ histo'[i] = LineOf(q)'
    <3>1. \A i \in DOMAIN histo : \E q \in Procs : Wrote(q) /\ histo[i] = LineOf(q)
      BY DEF FInv, Lines
    <3> QED BY <2>3, <2>4, <2>6, <3>1
  <2>9. \A i, k \in DOMAIN histo' : histo'[i] = histo'[k] => i = k
    <3>1. \A i, k \in DOMAIN histo : histo[i] = histo[k] => i = k
      BY DEF FInv, Lines
    <3> QED BY <2>6, <2>7, <3>1
  <2>10. \A q \in Procs : Wrote(q)' => \E i \in DOMAIN histo' : histo'[i] = LineOf(q)'
    <3>1. \A q \in Procs : Wrote(q) => \E i \in DOMAIN histo : histo[i] = LineOf(q)
      BY DEF FInv, Lines
    <3> QED BY <2>3, <2>4, <2>6, <3>1
  <2> QED BY <2>2, <2>6, <2>8, <2>9, <2>10 DEF Lines
<1> QED BY <1>3, <1>4

LEMMA NextFInv == FInv /\ [Next]_vars => FInv'
<1> SUFFICES ASSUME FInv, [Next]_vars PROVE FInv'
  OBVIOUS
<1>1. Inv'
  BY NextInv DEF FInv
<1>2. CASE UNCHANGED vars
  BY <1>2, <1>1, FileKept DEF vars, FInv, Born, Wrote
<1>3. ASSUME NEW p \in Procs, Step(p) \/ AppendFails(p) \/ ForkFails(p)
      PROVE  Depths' /\ Lines'
  BY <1>3, ReturnsFile, ReadingFile, WaitFile, ForkFile, AppendFile DEF Step
<1>4. CASE ReadFails
  BY <1>1, <1>4, ReadingFile DEF FInv
<1> QED BY <1>1, <1>2, <1>3, <1>4 DEF Next, FInv

(* A sequence that repeats nothing has as many elements as it is long. *)
LEMMA NoRepetition ==
  ASSUME NEW S, NEW s \in Seq(S), \A i, k \in DOMAIN s : s[i] = s[k] => i = k
  PROVE  Cardinality({s[i] : i \in DOMAIN s}) = Len(s)
<1> DEFINE R == {s[i] : i \in DOMAIN s}
           f == [i \in 1 .. Len(s) |-> s[i]]
<1>1. DOMAIN s = 1 .. Len(s) /\ Len(s) \in Nat
  OBVIOUS
<1>2. f \in Bijection(1 .. Len(s), R)
  BY <1>1 DEF Bijection, Injection, Surjection, IsInjective
<1>3. IsFiniteSet(1 .. Len(s)) /\ Cardinality(1 .. Len(s)) = Len(s)
  BY <1>1, FS_Interval
<1> QED BY <1>2, <1>3, FS_Bijection DEF ExistsBijection

(* In a tree where nothing failed every leaf has ended when the first      *)
(* process reads the file, and so has written its line.                    *)
LEMMA FileIsTheLeavesByInv == FInv => FileIsTheLeaves
<1> SUFFICES ASSUME FInv, Reading
             PROVE  LET lines == {histo[i] : i \in DOMAIN histo}
                        due   == {<<p, length_of_proc_trace[p]>> : p \in Leaves}
                    IN  /\ Len(histo) = Cardinality(lines) /\ lines \subseteq due
                        /\ (\A p \in Procs : pc[p] # "failed") => lines = due
  BY DEF FileIsTheLeaves
<1> DEFINE lines == {histo[i] : i \in DOMAIN histo}
           due   == {<<p, length_of_proc_trace[p]>> : p \in Leaves}
<1>1. Len(histo) = Cardinality(lines)
  BY NoRepetition DEF FInv, Lines
<1>2. \A p \in Procs : Wrote(p) => p \in Leaves
  BY DEF Wrote, Leaves, Born
<1>3. lines \subseteq due
  BY <1>2 DEF FInv, Lines, LineOf
<1>4. ASSUME \A p \in Procs : pc[p] # "failed"
      PROVE  due \subseteq lines
  <2>1. OnlyOrphansLeft /\ Downwards({})
    BY <1>4, OnlyOrphansLeftByInv DEF FInv, Downwards, Broken
  <2>2. \A p \in Leaves : Wrote(p)
    BY <1>4, <2>1 DEF OnlyOrphansLeft, Orphaned, Leaves, Wrote, Alive, Ended
  <2>3. \A p \in Leaves : p \in Procs
    BY DEF Leaves
  <2> QED BY <2>2, <2>3 DEF FInv, Lines, LineOf
<1> QED BY <1>1, <1>3, <1>4

(* What the first process reads are lines of leaves of the tree, one each, *)
(* with their depths; all leaves, when no fork and no fopen failed.        *)
THEOREM SpecFileIsTheLeaves == Spec => []FileIsTheLeaves
<1>1. Spec => []FInv
  BY InitFInv, NextFInv, PTL DEF Spec
<1> QED BY <1>1, FileIsTheLeavesByInv, PTL

-----------------------------------------------------------------------------
(* The types.  There are never more processes than planned, because every  *)
(* child still to be forked has its place in the plan; a process is not as *)
(* deep as its number; and the file has at most one line of each.          *)

Slots == {s \in Procs \X (1 .. 3) :
            /\ pc[s[1]] = "fork"
            /\ Len(chPID[s[1]]) < s[2] /\ s[2] <= generate_proc_value[s[1]]}

Room == procs + Cardinality(Slots) <= planned

Deep == /\ \A p \in Procs : length_of_proc_trace[p] < p
        /\ histo \in Seq(Procs \X (1 .. MaxProcs))

Table == value_of_pids \in 0 .. MaxProcs /\ max_length \in 0 .. MaxProcs

TInv == FInv /\ Room /\ Deep /\ Table

LEMMA ProcsFinite ==
  /\ IsFiniteSet(Procs) /\ Cardinality(Procs) = MaxProcs
  /\ IsFiniteSet(Procs \X (1 .. 3))
<1>1. IsFiniteSet(Procs) /\ Cardinality(Procs) = MaxProcs
  BY FS_Interval DEF Procs
<1>2. IsFiniteSet(1 .. 3)
  <2> DEFINE n == 3
  <2>1. n \in Int
    OBVIOUS
  <2> HIDE DEF n
  <2>2. IsFiniteSet(1 .. n)
    BY <2>1, FS_Interval
  <2> QED BY <2>2 DEF n
<1> QED BY <1>1, <1>2, FS_Product

LEMMA SlotsFinite == IsFiniteSet(Slots) /\ Cardinality(Slots) \in Nat
<1>1. Slots \subseteq Procs \X (1 .. 3)
  BY DEF Slots
<1>2. IsFiniteSet(Slots)
  BY <1>1, ProcsFinite, FS_Subset
<1> QED BY <1>2, FS_CardinalityType

LEMMA InitTInv == Init => TInv
<1> SUFFICES ASSUME Init PROVE TInv
  OBVIOUS
<1>1. Slots = {}
  BY DEF Init, Slots, Procs
<1>2. Room
  BY <1>1, FS_EmptySet DEF Init, Room
<1>3. Deep
  BY DEF Init, Deep, Procs
<1>4. Table
  BY DEF Init, Table
<1> QED BY <1>2, <1>3, <1>4, InitFInv DEF TInv

(* The step of a process that has nothing planned any more. *)
LEMMA RoomKept ==
  ASSUME TInv, UNCHANGED <<procs, planned>>, Slots' \subseteq Slots
  PROVE  Room'
<1>1. Cardinality(Slots') <= Cardinality(Slots) /\ Cardinality(Slots') \in Nat
  BY SlotsFinite, FS_Subset, FS_CardinalityType
<1>2. procs \in Nat /\ planned \in Nat
  BY DEF TInv, FInv, Inv, Types, Procs
<1> QED BY <1>1, <1>2, SlotsFinite DEF TInv, Room

LEMMA RoomMoved ==
  ASSUME TInv, NEW p \in Procs, NEW to \in PCs, to # "fork",
         pc' = [pc EXCEPT ![p] = to] \/ pc' = pc,
         UNCHANGED <<procs, planned, chPID, generate_proc_value>>
  PROVE  Room'
<1>1. \A q \in Procs : pc'[q] = "fork" => pc[q] = "fork"
  BY DEF TInv, FInv, Inv, Types
<1>2. Slots' \subseteq Slots
  BY <1>1 DEF Slots
<1> QED BY <1>2, RoomKept

LEMMA RoomDecided == ASSUME TInv, NEW p \in Procs, DecideFork(p) PROVE Room'
<1>1. PICK n \in 1 .. 3 : /\ planned' = planned + n
                          /\ generate_proc_value' = [generate_proc_value EXCEPT ![p] = n]
  BY DEF DecideFork
<1>2. pc[p] = "loop" /\ pc' = [pc EXCEPT ![p] = "fork"] /\ UNCHANGED <<procs, chPID>>
  BY DEF DecideFork, Goto
<1> DEFINE N == {p} \X (1 .. n)
<1>3. IsFiniteSet(N) /\ Cardinality(N) = n
  <2>1. IsFiniteSet(1 .. n) /\ Cardinality(1 .. n) = n
    <3>1. n \in Int /\ n >= 1
      OBVIOUS
    <3>2. IsFiniteSet(1 .. n) /\ Cardinality(1 .. n) = IF 1 > n THEN 0 ELSE n - 1 + 1
      BY <3>1, FS_Interval
    <3> QED BY <3>1, <3>2
  <2>2. IsFiniteSet({p}) /\ Cardinality({p}) = 1
    BY FS_Singleton
  <2>3. IsFiniteSet({p} \X (1 .. n)) /\ Cardinality({p} \X (1 .. n)) = 1 * n
    <3>1. /\ IsFiniteSet({p} \X (1 .. n))
          /\ Cardinality({p} \X (1 .. n)) = Cardinality({p}) * Cardinality(1 .. n)
      BY ONLY <2>1, <2>2, FS_Product, ZenonT(30)
    <3> QED BY <2>1, <2>2, <3>1
  <2> QED BY <2>3
<1>4. Slots' \subseteq Slots \union N
  <2> SUFFICES ASSUME NEW s \in Slots'
               PROVE  s \in Slots \union N
    OBVIOUS
  <2>0. s \in Procs \X (1 .. 3)
    BY DEF Slots
  <2> PICK q \in Procs, k \in 1 .. 3 : s = <<q, k>>
    BY <2>0
  <2>1. pc'[q] = "fork" /\ Len(chPID[q]) < k /\ k <= generate_proc_value'[q]
    BY <1>2 DEF Slots
  <2>2. CASE q = p
    <3>1. generate_proc_value'[q] = n
      BY <1>1, <2>2 DEF TInv, FInv, Inv, Types
    <3> QED BY <2>1, <2>2, <3>1
  <2>3. CASE q # p
    <3>1. generate_proc_value'[q] = generate_proc_value[q] /\ pc'[q] = pc[q]
      BY <1>1, <1>2, <2>3 DEF TInv, FInv, Inv, Types
    <3> QED BY <2>1, <3>1 DEF Slots
  <2> QED BY <2>2, <2>3
<1> HIDE DEF N
<1>5. Cardinality(Slots \union N) <= Cardinality(Slots) + n
  <2>1. /\ Cardinality(Slots \union N)
             = Cardinality(Slots) + Cardinality(N) - Cardinality(Slots \intersect N)
        /\ IsFiniteSet(Slots \union N)
    BY <1>3, SlotsFinite, FS_Union
  <2>2. Cardinality(Slots \intersect N) \in Nat
    BY <1>3, FS_Subset, FS_CardinalityType
  <2> QED BY <1>3, <2>1, <2>2, SlotsFinite
<1>6. Cardinality(Slots') <= Cardinality(Slots) + n /\ Cardinality(Slots') \in Nat
  <2>1. IsFiniteSet(Slots \union N)
    BY <1>3, SlotsFinite, FS_Union
  <2>2. Cardinality(Slots') <= Cardinality(Slots \union N) /\ IsFiniteSet(Slots')
    BY <1>4, <2>1, FS_Subset
  <2>3. Cardinality(Slots \union N) \in Nat /\ Cardinality(Slots') \in Nat
    BY <2>1, <2>2, FS_CardinalityType
  <2> QED BY <1>5, <2>2, <2>3, SlotsFinite
<1>7. procs \in Nat /\ planned \in Nat
  BY DEF TInv, FInv, Inv, Types, Procs
<1> QED BY <1>1, <1>2, <1>6, <1>7, SlotsFinite DEF TInv, Room

(* A child takes the place that was planned for it. *)
LEMMA RoomForked == ASSUME TInv, NEW p \in Procs, Fork(p) PROVE Room'
<1> DEFINE child == procs + 1
           len   == Len(chPID[p])
           slot  == <<p, len + 1>>
<1>1. /\ pc[p] = "fork" /\ procs < MaxProcs /\ procs' = child
      /\ \E to \in {"wait", "fork"} : pc' = [pc EXCEPT ![p] = to, ![child] = "loop"]
      /\ chPID' = [chPID EXCEPT ![p] = Append(@, child)]
      /\ UNCHANGED <<planned, generate_proc_value>>
  BY DEF Fork
<1>2. procs \in Nat /\ planned \in Nat /\ child \in Procs
  BY <1>1 DEF TInv, FInv, Inv, Types, Procs
<1>3. /\ chPID[p] \in Seq(Procs) /\ len \in Nat /\ generate_proc_value[p] \in 0 .. 3
      /\ len < generate_proc_value[p]
  BY <1>1 DEF TInv, FInv, Inv, Types, Counted
<1>4. slot \in Slots
  <2>1. len + 1 \in 1 .. 3 /\ len < len + 1 /\ len + 1 <= generate_proc_value[p]
    BY <1>3
  <2> QED BY <1>1, <2>1 DEF Slots
<1>5. Len(chPID'[p]) = len + 1 /\ \A q \in Procs \ {p} : chPID'[q] = chPID[q]
  <2>1. chPID'[p] = Append(chPID[p], child) /\ \A q \in Procs \ {p} : chPID'[q] = chPID[q]
    BY <1>1 DEF TInv, FInv, Inv, Types
  <2> QED BY <1>2, <1>3, <2>1
<1>6. \A q \in Procs : pc'[q] = "fork" => pc[q] = "fork"
  BY <1>1, <1>2 DEF TInv, FInv, Inv, Types
<1>7. Slots' \subseteq Slots \ {slot}
  <2>1. ASSUME NEW q \in Procs, NEW k \in 1 .. 3, <<q, k>> \in Slots'
        PROVE  <<q, k>> \in Slots /\ <<q, k>> # slot
    <3>1. pc[q] = "fork" /\ Len(chPID'[q]) < k /\ k <= generate_proc_value[q]
      BY <1>1, <1>6, <2>1 DEF Slots
    <3>2. CASE q = p
      <4>1. len < k /\ k # len + 1
        BY <1>3, <1>5, <3>1, <3>2
      <4> QED BY <3>1, <3>2, <4>1 DEF Slots
    <3>3. CASE q # p
      BY <1>5, <3>1, <3>3 DEF Slots
    <3> QED BY <3>2, <3>3
  <2> HIDE DEF slot
  <2>2. ASSUME NEW s \in Slots' PROVE s \in Slots \ {slot}
    <3>1. PICK q \in Procs, k \in 1 .. 3 : s = <<q, k>>
      BY DEF Slots
    <3> QED BY <2>1, <3>1
  <2> QED BY <2>2
<1>8. IsFiniteSet(Slots \ {slot}) /\ Cardinality(Slots \ {slot}) = Cardinality(Slots) - 1
  BY <1>4, SlotsFinite, FS_RemoveElement
<1>9. Cardinality(Slots') <= Cardinality(Slots) - 1 /\ Cardinality(Slots') \in Nat
  BY <1>7, <1>8, FS_Subset, FS_CardinalityType
<1> QED BY <1>1, <1>2, <1>9, SlotsFinite DEF TInv, Room

(* A child is one deeper than its parent, which has a smaller number. *)
LEMMA DeepForked == ASSUME TInv, NEW p \in Procs, Fork(p) PROVE Deep'
<1> DEFINE child == procs + 1
<1>1. /\ pc[p] = "fork" /\ procs < MaxProcs /\ histo' = histo
      /\ length_of_proc_trace' =
           [length_of_proc_trace EXCEPT ![child] = length_of_proc_trace[p] + 1]
  BY DEF Fork
<1>2. procs \in Procs /\ child \in Procs /\ p <= procs
  BY <1>1 DEF TInv, FInv, Inv, Types, Numbered, Procs
<1>3. length_of_proc_trace \in [Procs -> Nat] /\ length_of_proc_trace[p] < p
  BY DEF TInv, FInv, Depths, Deep
<1>4. length_of_proc_trace[p] + 1 < child
  BY <1>2, <1>3 DEF Procs
<1> QED BY <1>1, <1>2, <1>3, <1>4 DEF TInv, Deep

LEMMA DeepAppended == ASSUME TInv, NEW p \in Procs, AppendLine(p) PROVE Deep'
<1>1. /\ histo' = IF length_of_proc_trace[p] = 0 THEN histo ELSE Append(histo, LineOf(p))
      /\ length_of_proc_trace' = length_of_proc_trace
  BY DEF AppendLine, LineOf
<1>2. length_of_proc_trace[p] \in 0 .. MaxProcs
  BY DEF TInv, FInv, Depths, Deep, Procs
<1>3. length_of_proc_trace[p] # 0 => LineOf(p) \in Procs \X (1 .. MaxProcs)
  BY <1>2 DEF LineOf
<1>4. histo \in Seq(Procs \X (1 .. MaxProcs))
  BY DEF TInv, Deep
<1>5. histo' \in Seq(Procs \X (1 .. MaxProcs))
  BY <1>1, <1>3, <1>4
<1> QED BY <1>1, <1>5 DEF TInv, Deep

(* The greatest of finitely many numbers. *)
LEMMA GreatestOf ==
  ASSUME NEW n \in Nat, NEW S, S \subseteq 0 .. n, 0 \in S
  PROVE  Max(S) \in 0 .. n
<1> DEFINE T == {m \in Nat : \A x \in S : x <= m}
<1>1. n \in T
  OBVIOUS
<1>2. PICK m \in T : \A k \in T : ~ (<<k, m>> \in OpToRel(<, Nat))
  BY <1>1, WFMin, NatLessThanWellFounded
<1>3. m \in Nat /\ \A x \in S : x <= m
  OBVIOUS
<1>4. \A k \in T : ~ (k < m)
  BY <1>2 DEF OpToRel
<1>5. m \in S
  <2> SUFFICES ASSUME m \notin S PROVE FALSE
    OBVIOUS
  <2>1. m - 1 \in Nat /\ m - 1 < m
    BY <1>3
  <2>2. \A x \in S : x <= m - 1
    BY <1>3
  <2> QED BY <1>4, <2>1, <2>2
<1>6. m \in S /\ \A y \in S : m >= y
  BY <1>3, <1>5
<1>7. Max(S) \in S
  BY <1>6 DEF Max
<1> QED BY <1>7

LEMMA TableCounted == ASSUME TInv, CountLines PROVE Table'
<1>1. value_of_pids' = Len(histo) /\ max_length' = Max(Lengths \union {0})
  BY DEF CountLines
<1>2. Len(histo) \in 0 .. MaxProcs
  <2> DEFINE lines == {histo[i] : i \in DOMAIN histo}
             heads == {LineOf(p) : p \in Procs}
  <2>1. histo \in Seq(Procs \X Nat) /\ Cardinality(lines) = Len(histo)
    BY NoRepetition DEF TInv, FInv, Lines
  <2>2. lines \subseteq heads
    BY DEF TInv, FInv, Lines
  <2>3. IsFiniteSet(heads) /\ Cardinality(heads) <= MaxProcs /\ Cardinality(heads) \in Nat
    <3> DEFINE f == [p \in Procs |-> LineOf(p)]
    <3>1. f \in Surjection(Procs, heads)
      BY DEF Surjection
    <3> HIDE DEF f, heads
    <3> QED BY <3>1, ProcsFinite, FS_Surjection, FS_CardinalityType
  <2> HIDE DEF lines, heads
  <2>4. Cardinality(lines) <= Cardinality(heads)
    BY <2>2, <2>3, FS_Subset
  <2> QED BY <2>1, <2>3, <2>4
<1>3. Lengths \union {0} \subseteq 0 .. MaxProcs
  BY DEF TInv, Deep, Lengths
<1>4. Max(Lengths \union {0}) \in 0 .. MaxProcs
  BY <1>3, GreatestOf
<1> QED BY <1>1, <1>2, <1>4 DEF Table

LEMMA NextTInv == TInv /\ [Next]_vars => TInv'
<1> SUFFICES ASSUME TInv, [Next]_vars PROVE Room' /\ Deep' /\ Table'
  BY NextFInv DEF TInv
<1> USE DEF PCs
<1>1. ASSUME NEW p \in Procs,
             DecideEnd(p) \/ AppendFails(p) \/ ForkFails(p) \/ Wait(p)
      PROVE  Room' /\ Deep' /\ Table'
  <2>1. PICK to \in PCs \ {"fork"} :
          /\ pc' = [pc EXCEPT ![p] = to] \/ pc' = pc
          /\ UNCHANGED <<procs, planned, chPID, generate_proc_value, histo,
                         length_of_proc_trace, value_of_pids, max_length>>
    BY <1>1 DEF DecideEnd, AppendFails, ForkFails, Wait, Goto, AfterLoop
  <2> QED BY <2>1, RoomMoved DEF TInv, Deep, Table
<1>2. ASSUME NEW p \in Procs, DecideFork(p) PROVE Room' /\ Deep' /\ Table'
  BY <1>2, RoomDecided DEF DecideFork, TInv, Deep, Table
<1>3. ASSUME NEW p \in Procs, AppendLine(p) PROVE Room' /\ Deep' /\ Table'
  <2>1. AfterLoop(p) \in PCs \ {"fork"}
    BY DEF AfterLoop
  <2>2. Room'
    BY <1>3, <2>1, RoomMoved DEF AppendLine, Goto
  <2> QED BY <1>3, <2>2, DeepAppended DEF AppendLine, TInv, Table
<1>4. ASSUME NEW p \in Procs, Fork(p) PROVE Room' /\ Deep' /\ Table'
  BY <1>4, RoomForked, DeepForked DEF Fork, TInv, Table
<1>5. ASSUME CountLines \/ FillTable \/ ReadFails PROVE Room' /\ Deep' /\ Table'
  <2>1. PICK to \in PCs \ {"fork"} :
          /\ pc' = [pc EXCEPT ![main_pid] = to]
          /\ UNCHANGED <<procs, planned, chPID, generate_proc_value, histo,
                         length_of_proc_trace>>
          /\ CountLines \/ UNCHANGED <<value_of_pids, max_length>>
    BY <1>5 DEF CountLines, FillTable, ReadFails, Goto
  <2>2. main_pid \in Procs
    BY DEF main_pid, Procs
  <2>3. Room'
    BY <2>1, <2>2, RoomMoved
  <2>4. Deep'
    BY <2>1 DEF TInv, Deep
  <2> QED BY <2>1, <2>3, <2>4, TableCounted DEF TInv, Table
<1>6. CASE UNCHANGED vars
  BY <1>6, RoomKept DEF vars, Slots, TInv, Deep, Table
<1> QED BY <1>1, <1>2, <1>3, <1>4, <1>5, <1>6 DEF Next, Step

(* Every variable keeps its type: however the processes decide and fail,   *)
(* there are never more of them than planned, and every depth, of a        *)
(* process or in a line, and both sizes of the table are at most MaxProcs. *)
(* That every line has its place in the table is not said: an orphan may   *)
(* add one after the count.                                                *)
THEOREM SpecTypeOK == Spec => []TypeOK
<1>1. TInv => TypeOK
  <2> SUFFICES ASSUME TInv PROVE TypeOK
    OBVIOUS
  <2>1. procs \in Procs /\ planned \in Procs /\ procs \in Nat /\ planned \in Nat
    BY DEF TInv, FInv, Inv, Types, Procs
  <2>2. procs <= planned
    BY <2>1, SlotsFinite DEF TInv, Room
  <2>3. length_of_proc_trace \in [Procs -> 0 .. MaxProcs]
    <3>1. \A p \in Procs : length_of_proc_trace[p] \in 0 .. MaxProcs
      BY DEF TInv, FInv, Depths, Deep, Procs
    <3> QED BY <3>1 DEF TInv, FInv, Depths
  <2> QED BY <2>1, <2>2, <2>3 DEF TInv, FInv, Inv, Types, Deep, Table, TypeOK
<1> QED BY InitTInv, NextTInv, <1>1, PTL DEF Spec
=============================================================================
