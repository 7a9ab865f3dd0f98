------------------------------ MODULE SysVSem ------------------------------
(***************************************************************************)
(* The System V semaphore set the semaphore programs share: two            *)
(* semaphores, and for each process the adjustments ("semadj") the kernel  *)
(* applies when that process ends, for operations made with SEM_UNDO.      *)
(*                                                                         *)
(* The two tables sem_op0 and sem_op1 are the switch of getsem, which is   *)
(* the same in ThirdLab/Semafores (server and client) and in               *)
(* CourseProject/SemaphorServer.h.  semop itself is the kernel's: it is    *)
(* modelled from how getsem calls it, with an array of two operations that *)
(* take effect together or not at all.                                     *)
(***************************************************************************)
EXTENDS Integers

CONSTANT SEMAEM   \* the kernel's bound on a semaphore and on an adjustment

VARIABLES
  s0, s1,         \* values of semaphore 0 and of semaphore 1
  adj0, adj1      \* process -> adjustment of semaphore 0, of semaphore 1

semVars == <<s0, s1, adj0, adj1>>

(***************************************************************************)
(* What getsem puts in sops[0].sem_op and sops[1].sem_op for each STATUS.  *)
(* An operation of 0 is not "no operation": it waits until the semaphore   *)
(* is zero.                                                                *)
(***************************************************************************)
sem_op0 ==
  [CLIENT_GET_MEM |-> 0,  CLIENT_SND_REQ |-> 1, SERVER_RCV_REQ |-> -1,
   SERVER_SND_RPY |-> 1,  CLIENT_RCV_RPY |-> -1, RESET_MEM     |-> 0]

(* Two tables a slip in the switch would give: RESET_MEM frees the segment *)
(* for two clients; a client's own request lets it through CLIENT_RCV_RPY. *)
sem_op1_two_clients ==
  [CLIENT_GET_MEM |-> -1, CLIENT_SND_REQ |-> 0, SERVER_RCV_REQ |-> 0,
   SERVER_SND_RPY |-> 1,  CLIENT_RCV_RPY |-> -1, RESET_MEM     |-> 2]

sem_op1_own_request ==
  [CLIENT_GET_MEM |-> -1, CLIENT_SND_REQ |-> 0, SERVER_RCV_REQ |-> 0,
   SERVER_SND_RPY |-> 0,  CLIENT_RCV_RPY |-> 0, RESET_MEM     |-> 1]

sem_op1 ==
  [CLIENT_GET_MEM |-> -1, CLIENT_SND_REQ |-> 0, SERVER_RCV_REQ |-> 0,
   SERVER_SND_RPY |-> 1,  CLIENT_RCV_RPY |-> -1, RESET_MEM     |-> 1]

(***************************************************************************)
(* semop.  An operation passes when it does not have to wait, and fits     *)
(* when it leaves the value and the adjustment in range; flg0 and flg1 say *)
(* whether sops[0] and sops[1] carry SEM_UNDO.  The kernel looks at the    *)
(* operations in order: the first that does not pass makes the caller      *)
(* wait, the first that does not fit makes semop fail with ERANGE, and     *)
(* only when all pass and fit does anything change.                        *)
(***************************************************************************)
OpPasses(v, op) == IF op = 0 THEN v = 0 ELSE v + op >= 0

InRange(v, adj, op, undo) ==
  /\ v + op <= SEMAEM
  /\ undo => adj - op \in -SEMAEM - 1 .. SEMAEM

Passes0(status) == OpPasses(s0, sem_op0[status])
Passes1(status) == OpPasses(s1, sem_op1[status])

Fits0(p, status, flg) == InRange(s0, adj0[p], sem_op0[status], flg)
Fits1(p, status, flg) == InRange(s1, adj1[p], sem_op1[status], flg)

Adjusted(adj, p, op, undo) ==
  IF undo THEN [adj EXCEPT ![p] = @ - op] ELSE adj

semop(p, status, flg0, flg1) ==
  /\ Passes0(status) /\ Fits0(p, status, flg0)
  /\ Passes1(status) /\ Fits1(p, status, flg1)
  /\ s0' = s0 + sem_op0[status]
  /\ s1' = s1 + sem_op1[status]
  /\ adj0' = Adjusted(adj0, p, sem_op0[status], flg0)
  /\ adj1' = Adjusted(adj1, p, sem_op1[status], flg1)

semop_ERANGE(p, status, flg0, flg1) ==
  /\ Passes0(status)
  /\ Fits0(p, status, flg0) => Passes1(status) /\ ~ Fits1(p, status, flg1)
  /\ UNCHANGED semVars

(***************************************************************************)
(* The end of a process: the kernel adds its adjustments to the            *)
(* semaphores, cutting the sums off at 0 and at the maximum.               *)
(***************************************************************************)
Clamp_none(v) == v            \* a slip: the sum is taken as it is

Clamp(v) == IF v < 0 THEN 0 ELSE IF v > SEMAEM THEN SEMAEM ELSE v

exit_sem(p) ==
  /\ s0' = Clamp(s0 + adj0[p])
  /\ s1' = Clamp(s1 + adj1[p])
  /\ adj0' = [adj0 EXCEPT ![p] = 0]
  /\ adj1' = [adj1 EXCEPT ![p] = 0]
=============================================================================
