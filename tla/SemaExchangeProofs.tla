------------------------- MODULE SemaExchangeProofs -------------------------
(***************************************************************************)
(* Proofs about SemaExchange, for any number of clients, any SEMAEM and    *)
(* any number of server starts: first for every behaviour of Spec, then    *)
(* for those of Serving, in which the server is stopped between exchanges  *)
(* only and clients end before their request is taken.                     *)
(***************************************************************************)
EXTENDS SemaExchange, TLAPS

(***************************************************************************)
(* What makes TypeOK inductive for every behaviour of Spec: the numbers of *)
(* sets and segments stay within the number of starts, and a process that  *)
(* uses the segment has opened one.                                        *)
(***************************************************************************)
Opened ==
  /\ sets <= starts /\ segs <= starts
  /\ pc[Server] = "semcreate" => sets < starts
  /\ pc[Server] \in {"semcreate", "shmget", "shmcreate"} => segs < starts
  /\ pc[Server] \in {"reset", "rcv", "read", "solve", "reply"}
       => shmid[Server] # 0
  /\ \A c \in Clients : pc[c] \notin {"off", "shmget"} => shmid[c] # 0

(* The server's adjustment of semaphore 0 counts the requests it took and  *)
(* did not answer.                                                         *)
Booked ==
  /\ pc[Server] \in {"off", "semcreate", "shmget", "shmcreate", "reset"}
       => adj0[Server] = 0
  /\ HasSet(Server) =>
       /\ pc[Server] = "rcv" => adj0[Server] >= 0
       /\ pc[Server] \in {"read", "solve", "reply"} => adj0[Server] >= 1

SpecInv == TypeOK /\ Opened /\ Booked

-----------------------------------------------------------------------------
(* getsem keeps the semaphores and the adjustments in their ranges.        *)

LEMMA OpsAreSmall ==
  \A status \in DOMAIN sem_op0 :
    sem_op0[status] \in -1 .. 1 /\ sem_op1[status] \in -1 .. 1
BY DEF sem_op0, sem_op1

LEMMA GetsemType ==
  ASSUME NEW p \in Procs, NEW status \in DOMAIN sem_op0,
         SemTypeOK, getsem(p, status)
  PROVE  SemTypeOK'
<1>. sem_op0[status] \in -1 .. 1 /\ sem_op1[status] \in -1 .. 1
  BY OpsAreSmall
<1>. SEMAEM \in Nat
  BY SemaAssumption
<1>1. CASE semop(p, status, TRUE, TRUE)
  <2>. DEFINE a0 == adj0[p] - sem_op0[status]
              a1 == adj1[p] - sem_op1[status]
  <2>1. s0' \in 0 .. SEMAEM /\ s1' \in 0 .. SEMAEM
    BY <1>1 DEF semop, Passes0, Passes1, OpPasses, Fits0, Fits1, InRange,
                SemTypeOK
  <2>2. a0 \in -SEMAEM - 1 .. SEMAEM /\ a1 \in -SEMAEM - 1 .. SEMAEM
    BY <1>1 DEF semop, Fits0, Fits1, InRange
  <2>3. adj0' = [adj0 EXCEPT ![p] = a0] /\ adj1' = [adj1 EXCEPT ![p] = a1]
    BY <1>1 DEF semop, Adjusted
  <2>. QED
    BY <2>1, <2>2, <2>3 DEF SemTypeOK
<1>2. CASE UNCHANGED semVars
  BY <1>2 DEF SemTypeOK, semVars
<1>. QED
  BY <1>1, <1>2 DEF getsem, semop_ERANGE

LEMMA ExitType ==
  ASSUME NEW p \in Procs, SemTypeOK, exit_sem(p)
  PROVE  SemTypeOK'
<1>. SEMAEM \in Nat
  BY SemaAssumption
<1>1. ASSUME NEW v \in Int PROVE Clamp(v) \in 0 .. SEMAEM
  BY DEF Clamp
<1>2. s0 + adj0[p] \in Int /\ s1 + adj1[p] \in Int
  BY DEF SemTypeOK
<1>. QED
  BY <1>1, <1>2 DEF exit_sem, SemTypeOK

LEMMA RemoveType ==
  ASSUME RemoveSet PROVE SemTypeOK'
BY SemaAssumption DEF RemoveSet, SemTypeOK

-----------------------------------------------------------------------------
(* Every step of Spec preserves SpecInv. *)

LEMMA InitSpecInv == Init => SpecInv
<1>. SUFFICES ASSUME Init PROVE SpecInv
  OBVIOUS
<1>. USE SemaAssumption DEF Init
<1>1. SemTypeOK
  BY DEF SemTypeOK
<1>2. PcTypeOK
  BY DEF PcTypeOK, ClientPC, ServerPC, Procs
<1>3. IpcTypeOK
  BY DEF IpcTypeOK
<1>4. DataTypeOK
  BY DEF DataTypeOK, Lines
<1>5. Opened /\ Booked
  BY DEF Opened, Booked, Procs
<1>. QED  BY <1>1, <1>2, <1>3, <1>4, <1>5 DEF SpecInv, TypeOK

LEMMA Places ==
  Server \in Procs /\ Clients \subseteq Procs /\ Server \notin Clients
BY SemaAssumption DEF Procs

LEMMA GotoServer ==
  ASSUME PcTypeOK, NEW from, NEW to \in ServerPC, Goto(Server, from, to)
  PROVE  /\ PcTypeOK'
         /\ pc[Server] = from /\ pc'[Server] = to
         /\ \A c \in Clients : pc'[c] = pc[c]
BY SemaAssumption DEF PcTypeOK, Goto, Procs, ClientPC, ServerPC

LEMMA GotoClient ==
  ASSUME PcTypeOK, NEW c \in Clients, NEW from, NEW to \in ClientPC,
         Goto(c, from, to)
  PROVE  /\ PcTypeOK'
         /\ pc[c] = from /\ pc'[c] = to
         /\ pc'[Server] = pc[Server]
         /\ \A d \in Clients \ {c} : pc'[d] = pc[d]
BY SemaAssumption DEF PcTypeOK, Goto, Procs, ClientPC, ServerPC

LEMMA ServerSetupKeepsSpecInv ==
  ASSUME SpecInv,
         \/ ServerSemGet \/ ServerSemCreate \/ ServerShmGet
         \/ ServerShmCreate \/ ServerShmFails
  PROVE  SpecInv'
<1>. USE SemaAssumption DEF SpecInv, TypeOK, Procs
<1>1. CASE ServerSemGet
  <2>. USE <1>1 DEF ServerSemGet, shmVars, userVars
  <2>0. PcTypeOK' /\ pc[Server] = "off" /\ pc'[Server] = "semcreate"
        /\ \A c \in Clients : pc'[c] = pc[c]
    BY GotoServer DEF ServerPC
  <2>1. SemTypeOK'
    BY RemoveType DEF semVars, SemTypeOK
  <2>2. IpcTypeOK'
    BY DEF IpcTypeOK, RemoveSet, semVars
  <2>3. DataTypeOK'
    BY DEF DataTypeOK
  <2>4. Opened'
    BY <2>0 DEF Opened, IpcTypeOK
  <2>5. Booked'
    BY <2>0 DEF Booked, RemoveSet, semVars
  <2>. QED  BY <2>0, <2>1, <2>2, <2>3, <2>4, <2>5
<1>2. CASE ServerSemCreate
  <2>. USE <1>2 DEF ServerSemCreate, shmVars, userVars
  <2>0. PcTypeOK' /\ pc[Server] = "semcreate" /\ pc'[Server] = "shmget"
        /\ \A c \in Clients : pc'[c] = pc[c]
    BY GotoServer DEF ServerPC
  <2>1. SemTypeOK'
    BY DEF semVars, SemTypeOK
  <2>2. IpcTypeOK' /\ DataTypeOK'
    BY <2>0 DEF IpcTypeOK, DataTypeOK, Opened
  <2>3. Opened'
    BY <2>0 DEF Opened, IpcTypeOK
  <2>4. Booked'
    BY <2>0 DEF Booked, semVars
  <2>. QED  BY <2>0, <2>1, <2>2, <2>3, <2>4
<1>3. CASE ServerShmGet
  <2>. USE <1>3 DEF ServerShmGet, shmVars, userVars
  <2>0. PcTypeOK' /\ pc[Server] = "shmget" /\ pc'[Server] = "shmcreate"
        /\ \A c \in Clients : pc'[c] = pc[c]
    BY GotoServer DEF ServerPC
  <2>1. SemTypeOK'
    BY DEF semVars, SemTypeOK
  <2>2. IpcTypeOK' /\ DataTypeOK'
    BY DEF IpcTypeOK, DataTypeOK
  <2>3. Opened'
    BY <2>0 DEF Opened, IpcTypeOK
  <2>4. Booked'
    BY <2>0 DEF Booked, semVars
  <2>. QED  BY <2>0, <2>1, <2>2, <2>3, <2>4
<1>4. CASE ServerShmCreate
  <2>. USE <1>4 DEF ServerShmCreate, OpenSegment, shmVars, userVars
  <2>0. PcTypeOK' /\ pc[Server] = "shmcreate" /\ pc'[Server] = "reset"
        /\ \A c \in Clients : pc'[c] = pc[c]
    BY GotoServer DEF ServerPC
  <2>1. SemTypeOK'
    BY DEF semVars, SemTypeOK
  <2>2. IpcTypeOK' /\ DataTypeOK'
    BY <2>0 DEF IpcTypeOK, DataTypeOK, Opened
  <2>3. Opened'
    BY <2>0 DEF Opened, IpcTypeOK
  <2>4. Booked'
    BY <2>0 DEF Booked, HasSet, semVars
  <2>. QED  BY <2>0, <2>1, <2>2, <2>3, <2>4
<1>5. CASE ServerShmFails
  <2>. USE <1>5 DEF ServerShmFails, shmVars, userVars
  <2>0. PcTypeOK' /\ pc[Server] = "shmcreate" /\ pc'[Server] = "off"
        /\ \A c \in Clients : pc'[c] = pc[c]
    BY GotoServer DEF ServerPC
  <2>1. SemTypeOK'
    BY RemoveType
  <2>2. segs' \in 0 .. starts /\ theSeg' \in 0 .. segs'
    BY <2>0 DEF IpcTypeOK, Opened, OpenSegment
  <2>3. IpcTypeOK'
    BY <2>2 DEF IpcTypeOK, RemoveSet
  <2>4. DataTypeOK'
    BY DEF DataTypeOK
  <2>5. Opened'
    BY <2>0, <2>2 DEF Opened, IpcTypeOK
  <2>6. Booked'
    BY <2>0 DEF Booked, RemoveSet, HasSet
  <2>. QED  BY <2>0, <2>1, <2>3, <2>4, <2>5, <2>6
<1>. QED
  BY <1>1, <1>2, <1>3, <1>4, <1>5

(* What getsem does to the server's adjustment of semaphore 0. *)
LEMMA GetsemServerAdj ==
  ASSUME SemTypeOK, HasSet(Server), NEW status \in DOMAIN sem_op0,
         getsem(Server, status)
  PROVE  \/ adj0'[Server] = adj0[Server] - sem_op0[status]
         \/ /\ adj0'[Server] = adj0[Server]
            /\ status = "SERVER_RCV_REQ" => adj0[Server] = SEMAEM
<1>. USE SemaAssumption DEF SemTypeOK, Procs
<1>1. CASE semop(Server, status, TRUE, TRUE)
  BY <1>1 DEF semop, Adjusted
<1>2. CASE semop_ERANGE(Server, status, TRUE, TRUE)
  <2>1. adj0'[Server] = adj0[Server]
    BY <1>2 DEF semop_ERANGE, semVars
  <2>2. ASSUME status = "SERVER_RCV_REQ" PROVE adj0[Server] = SEMAEM
    BY <1>2, <2>2
       DEF semop_ERANGE, Fits0, Fits1, Passes0, Passes1, InRange, OpPasses,
           sem_op0, sem_op1
  <2>. QED  BY <2>1, <2>2
<1>. QED
  BY <1>1, <1>2 DEF getsem

LEMMA GetsemOtherAdj ==
  ASSUME SemTypeOK, NEW c \in Clients, NEW status \in DOMAIN sem_op0,
         getsem(c, status)
  PROVE  adj0'[Server] = adj0[Server]
BY SemaAssumption
   DEF getsem, semop, semop_ERANGE, semVars, Adjusted, SemTypeOK, Procs

LEMMA ServerLoopKeepsSpecInv ==
  ASSUME SpecInv,
         \/ ServerReset \/ ServerRcvReq \/ ServerRead \/ ServerSolve
         \/ ServerSndRpy
  PROVE  SpecInv'
<1>. USE SemaAssumption DEF SpecInv, TypeOK
<1>1. CASE ServerReset
  <2>. USE <1>1 DEF ServerReset, ipcVars, shmVars, userVars
  <2>0. PcTypeOK' /\ pc[Server] = "reset" /\ pc'[Server] = "rcv"
        /\ \A c \in Clients : pc'[c] = pc[c]
    BY GotoServer DEF ServerPC
  <2>1. SemTypeOK'
    BY GetsemType, Places DEF sem_op0
  <2>2. IpcTypeOK' /\ DataTypeOK'
    BY DEF IpcTypeOK, DataTypeOK, Lines
  <2>3. Opened'
    BY <2>0 DEF Opened
  <2>4. Booked'
    BY <2>0, GetsemServerAdj DEF Booked, HasSet, sem_op0
  <2>. QED  BY <2>0, <2>1, <2>2, <2>3, <2>4
<1>2. CASE ServerRcvReq
  <2>. USE <1>2 DEF ServerRcvReq, ipcVars, shmVars, userVars
  <2>0. PcTypeOK' /\ pc[Server] = "rcv" /\ pc'[Server] = "read"
        /\ \A c \in Clients : pc'[c] = pc[c]
    BY GotoServer DEF ServerPC
  <2>1. SemTypeOK'
    BY GetsemType, Places DEF sem_op0
  <2>2. IpcTypeOK' /\ DataTypeOK'
    BY DEF IpcTypeOK, DataTypeOK
  <2>3. Opened'
    BY <2>0 DEF Opened
  <2>4. Booked'
    BY <2>0, GetsemServerAdj, Places
       DEF Booked, HasSet, sem_op0, SemTypeOK
  <2>. QED  BY <2>0, <2>1, <2>2, <2>3, <2>4
<1>3. CASE ServerRead
  <2>. USE <1>3 DEF ServerRead, ipcVars, shmVars, userVars
  <2>0. PcTypeOK' /\ pc[Server] = "read" /\ pc'[Server] = "solve"
        /\ \A c \in Clients : pc'[c] = pc[c]
    BY GotoServer DEF ServerPC
  <2>1. SemTypeOK'
    BY DEF SemTypeOK, semVars
  <2>2. IpcTypeOK'
    BY DEF IpcTypeOK
  <2>3. shmid[Server] \in Segments
    BY <2>0, Places DEF IpcTypeOK, Opened, Segments
  <2>4. DataTypeOK'
    BY <2>3 DEF DataTypeOK
  <2>5. Opened' /\ Booked'
    BY <2>0 DEF Opened, Booked, HasSet, semVars
  <2>. QED  BY <2>0, <2>1, <2>2, <2>4, <2>5
<1>4. CASE ServerSolve
  <2>. USE <1>4 DEF ServerSolve, ipcVars, shmVars, userVars
  <2>0. PcTypeOK' /\ pc[Server] = "solve" /\ pc'[Server] = "reply"
        /\ \A c \in Clients : pc'[c] = pc[c]
    BY GotoServer DEF ServerPC
  <2>1. SemTypeOK'
    BY DEF SemTypeOK, semVars
  <2>2. IpcTypeOK'
    BY DEF IpcTypeOK
  <2>3. result' \in [Segments -> Results \union {NoResult}]
    <3>1. CASE buffer_equation = Quit
      BY <3>1 DEF DataTypeOK
    <3>2. CASE buffer_equation # Quit
      <4>1. find_answer[buffer_equation] \subseteq Results
        BY <3>2 DEF DataTypeOK, Lines
      <4>. QED  BY <3>2, <4>1 DEF DataTypeOK
    <3>. QED  BY <3>1, <3>2
  <2>4. DataTypeOK'
    BY <2>3 DEF DataTypeOK, Lines
  <2>5. Opened' /\ Booked'
    BY <2>0 DEF Opened, Booked, HasSet, semVars
  <2>. QED  BY <2>0, <2>1, <2>2, <2>4, <2>5
<1>5. CASE ServerSndRpy
  <2>. USE <1>5 DEF ServerSndRpy, ipcVars, shmVars, userVars
  <2>0. PcTypeOK' /\ pc[Server] = "reply" /\ pc'[Server] = "rcv"
        /\ \A c \in Clients : pc'[c] = pc[c]
    BY GotoServer DEF ServerPC
  <2>1. SemTypeOK'
    BY GetsemType, Places DEF sem_op0
  <2>2. IpcTypeOK' /\ DataTypeOK'
    BY DEF IpcTypeOK, DataTypeOK
  <2>3. Opened'
    BY <2>0 DEF Opened
  <2>4. Booked'
    BY <2>0, GetsemServerAdj, Places
       DEF Booked, HasSet, sem_op0, SemTypeOK
  <2>. QED  BY <2>0, <2>1, <2>2, <2>3, <2>4
<1>. QED
  BY <1>1, <1>2, <1>3, <1>4, <1>5

LEMMA ClientGetsemKeepsSpecInv ==
  ASSUME SpecInv, NEW c \in Clients,
         ClientGetMem(c) \/ ClientSndReq(c) \/ ClientRcvRpy(c) \/ ClientReset(c)
  PROVE  SpecInv'
<1>. USE DEF SpecInv, TypeOK
<1>1. CASE ClientGetMem(c)
  <2>. USE <1>1 DEF ClientGetMem, ipcVars, shmVars, userVars
  <2>0. PcTypeOK' /\ pc[c] = "getmem" /\ pc'[c] = "write"
        /\ pc'[Server] = pc[Server]
        /\ \A d \in Clients \ {c} : pc'[d] = pc[d]
    BY GotoClient DEF ClientPC
  <2>1. SemTypeOK' /\ adj0'[Server] = adj0[Server]
    BY GetsemType, GetsemOtherAdj, Places DEF sem_op0
  <2>2. IpcTypeOK' /\ DataTypeOK'
    BY DEF IpcTypeOK, DataTypeOK
  <2>3. Opened' /\ Booked'
    BY <2>0, <2>1 DEF Opened, Booked, HasSet
  <2>. QED  BY <2>0, <2>1, <2>2, <2>3
<1>2. CASE ClientSndReq(c)
  <2>. USE <1>2 DEF ClientSndReq, ipcVars, shmVars, userVars
  <2>0. PcTypeOK' /\ pc[c] = "snd" /\ pc'[c] = "rcv"
        /\ pc'[Server] = pc[Server]
        /\ \A d \in Clients \ {c} : pc'[d] = pc[d]
    BY GotoClient DEF ClientPC
  <2>1. SemTypeOK' /\ adj0'[Server] = adj0[Server]
    BY GetsemType, GetsemOtherAdj, Places DEF sem_op0
  <2>2. IpcTypeOK' /\ DataTypeOK'
    BY DEF IpcTypeOK, DataTypeOK
  <2>3. Opened' /\ Booked'
    BY <2>0, <2>1 DEF Opened, Booked, HasSet
  <2>. QED  BY <2>0, <2>1, <2>2, <2>3
<1>3. CASE ClientRcvRpy(c)
  <2>. USE <1>3 DEF ClientRcvRpy, ipcVars, shmVars, userVars
  <2>0. PcTypeOK' /\ pc[c] = "rcv" /\ pc'[c] = "print"
        /\ pc'[Server] = pc[Server]
        /\ \A d \in Clients \ {c} : pc'[d] = pc[d]
    BY GotoClient DEF ClientPC
  <2>1. SemTypeOK' /\ adj0'[Server] = adj0[Server]
    BY GetsemType, GetsemOtherAdj, Places DEF sem_op0
  <2>2. IpcTypeOK' /\ DataTypeOK'
    BY DEF IpcTypeOK, DataTypeOK
  <2>3. Opened' /\ Booked'
    BY <2>0, <2>1 DEF Opened, Booked, HasSet
  <2>. QED  BY <2>0, <2>1, <2>2, <2>3
<1>4. CASE ClientReset(c)
  <2>. USE <1>4 DEF ClientReset, ipcVars, shmVars, userVars
  <2>0. PcTypeOK' /\ pc[c] = "reset" /\ pc'[c] = "loop"
        /\ pc'[Server] = pc[Server]
        /\ \A d \in Clients \ {c} : pc'[d] = pc[d]
    BY GotoClient DEF ClientPC
  <2>1. SemTypeOK' /\ adj0'[Server] = adj0[Server]
    BY GetsemType, GetsemOtherAdj, Places DEF sem_op0
  <2>2. IpcTypeOK' /\ DataTypeOK'
    BY DEF IpcTypeOK, DataTypeOK
  <2>3. Opened' /\ Booked'
    BY <2>0, <2>1 DEF Opened, Booked, HasSet
  <2>. QED  BY <2>0, <2>1, <2>2, <2>3
<1>. QED
  BY <1>1, <1>2, <1>3, <1>4

LEMMA ClientShmGetKeepsSpecInv ==
  ASSUME SpecInv, NEW c \in Clients, ClientShmGet(c)
  PROVE  SpecInv'
<1>0. /\ PcTypeOK' /\ pc[c] = "shmget" /\ pc'[Server] = pc[Server]
      /\ \A d \in Clients \ {c} : pc'[d] = pc[d]
      /\ theSeg = 0 => pc'[c] = "off"
  BY GotoClient DEF ClientShmGet, ClientPC, SpecInv, TypeOK
<1>1. SemTypeOK'
  BY DEF ClientShmGet, SpecInv, TypeOK, SemTypeOK, semVars
<1>2. IpcTypeOK'
  <2>1. shmid' = [shmid EXCEPT ![c] = theSeg] \/ shmid' = shmid
    BY DEF ClientShmGet
  <2>2. theSeg \in 0 .. MaxStarts
    BY SemaAssumption DEF SpecInv, TypeOK, IpcTypeOK
  <2>3. shmid' \in [Procs -> 0 .. MaxStarts]
    BY <2>1, <2>2 DEF SpecInv, TypeOK, IpcTypeOK
  <2>. QED  BY <2>3 DEF ClientShmGet, SpecInv, TypeOK, IpcTypeOK
<1>3. DataTypeOK'
  BY SemaAssumption
     DEF ClientShmGet, SpecInv, TypeOK, DataTypeOK, Lines, shmVars
<1>4. /\ \A p \in Procs \ {c} : shmid'[p] = shmid[p]
      /\ theSeg # 0 => shmid'[c] # 0
  BY Places DEF ClientShmGet, SpecInv, TypeOK, IpcTypeOK
<1>5. UNCHANGED <<semVars, sets, theSet, segs, theSeg, semid, starts>>
  BY DEF ClientShmGet
<1>6. Opened'
  <2>1. ASSUME NEW d \in Clients, pc'[d] \notin {"off", "shmget"}
        PROVE  shmid'[d] # 0
    <3>1. CASE d = c
      BY <1>0, <1>4, <2>1, <3>1
    <3>2. CASE d # c
      BY <1>0, <1>4, <2>1, <3>2, Places DEF SpecInv, Opened
    <3>. QED  BY <3>1, <3>2
  <2>2. shmid'[Server] = shmid[Server]
    BY <1>4, Places
  <2>. QED  BY <1>0, <1>5, <2>1, <2>2 DEF SpecInv, Opened
<1>7. Booked'
  BY <1>0, <1>5 DEF SpecInv, Booked, HasSet, semVars
<1>. QED
  BY <1>0, <1>1, <1>2, <1>3, <1>6, <1>7 DEF SpecInv, TypeOK

LEMMA ClientLocalKeepsSpecInv ==
  ASSUME SpecInv, NEW c \in Clients,
         \/ ClientSemGet(c) \/ ClientShmGet(c) \/ ClientShmatFails(c)
         \/ ClientInput(c) \/ ClientWrite(c) \/ ClientPrint(c)
  PROVE  SpecInv'
<1>. USE SemaAssumption DEF SpecInv, TypeOK, userVars
<1>1. CASE ClientSemGet(c)
  <2>. USE <1>1 DEF ClientSemGet, shmVars
  <2>0. PcTypeOK' /\ pc[c] = "off" /\ pc'[c] = "shmget"
        /\ pc'[Server] = pc[Server]
        /\ \A d \in Clients \ {c} : pc'[d] = pc[d]
    BY GotoClient DEF ClientPC
  <2>1. SemTypeOK'
    BY DEF SemTypeOK, semVars
  <2>2. IpcTypeOK' /\ DataTypeOK'
    <3>1. semid' \in [Procs -> 0 .. MaxStarts]
      BY Places DEF IpcTypeOK
    <3>. QED  BY <3>1 DEF IpcTypeOK, DataTypeOK
  <2>3. Opened'
    BY <2>0 DEF Opened
  <2>4. semid'[Server] = semid[Server]
    BY Places DEF IpcTypeOK
  <2>5. Booked'
    BY <2>0, <2>4 DEF Booked, HasSet, semVars
  <2>. QED  BY <2>0, <2>1, <2>2, <2>3, <2>5
<1>2. CASE ClientShmGet(c)
  BY <1>2, ClientShmGetKeepsSpecInv
<1>3. CASE ClientShmatFails(c)
  <2>. USE <1>3 DEF ClientShmatFails, shmVars
  <2>0. PcTypeOK' /\ pc[c] = "shmget" /\ pc'[c] = "off"
        /\ pc'[Server] = pc[Server]
        /\ \A d \in Clients \ {c} : pc'[d] = pc[d]
    BY GotoClient DEF ClientPC
  <2>1. SemTypeOK'
    BY RemoveType
  <2>2. IpcTypeOK' /\ DataTypeOK'
    BY DEF IpcTypeOK, DataTypeOK, RemoveSet
  <2>3. Opened'
    BY <2>0 DEF Opened
  <2>4. Booked'
    BY <2>0, Places DEF Booked, HasSet, RemoveSet, SemTypeOK
  <2>. QED  BY <2>0, <2>1, <2>2, <2>3, <2>4
<1>4. CASE ClientInput(c)
  <2>. USE <1>4 DEF ClientInput, ipcVars, shmVars
  <2>0. PcTypeOK' /\ pc[c] = "loop" /\ pc'[c] = "getmem"
        /\ pc'[Server] = pc[Server]
        /\ \A d \in Clients \ {c} : pc'[d] = pc[d]
    BY GotoClient DEF ClientPC
  <2>1. SemTypeOK'
    BY DEF SemTypeOK, semVars
  <2>2. IpcTypeOK' /\ DataTypeOK'
    BY DEF IpcTypeOK, DataTypeOK
  <2>3. Opened' /\ Booked'
    BY <2>0 DEF Opened, Booked, HasSet, semVars
  <2>. QED  BY <2>0, <2>1, <2>2, <2>3
<1>5. CASE ClientWrite(c)
  <2>. USE <1>5 DEF ClientWrite, ipcVars
  <2>0. PcTypeOK' /\ pc[c] = "write" /\ pc'[c] = "snd"
        /\ pc'[Server] = pc[Server]
        /\ \A d \in Clients \ {c} : pc'[d] = pc[d]
    BY GotoClient DEF ClientPC
  <2>1. SemTypeOK'
    BY DEF SemTypeOK, semVars
  <2>2. IpcTypeOK' /\ DataTypeOK'
    BY DEF IpcTypeOK, DataTypeOK
  <2>3. Opened' /\ Booked'
    BY <2>0 DEF Opened, Booked, HasSet, semVars
  <2>. QED  BY <2>0, <2>1, <2>2, <2>3
<1>6. CASE ClientPrint(c)
  <2>. USE <1>6 DEF ClientPrint, ipcVars, shmVars
  <2>0. PcTypeOK' /\ pc[c] = "print" /\ pc'[c] = "reset"
        /\ pc'[Server] = pc[Server]
        /\ \A d \in Clients \ {c} : pc'[d] = pc[d]
    BY GotoClient DEF ClientPC
  <2>1. SemTypeOK'
    BY DEF SemTypeOK, semVars
  <2>2. IpcTypeOK'
    BY DEF IpcTypeOK
  <2>3. shmid[c] \in Segments
    BY <2>0, Places DEF IpcTypeOK, Opened, Segments
  <2>4. DataTypeOK'
    BY <2>3 DEF DataTypeOK
  <2>5. Opened' /\ Booked'
    BY <2>0 DEF Opened, Booked, HasSet, semVars
  <2>. QED  BY <2>0, <2>1, <2>2, <2>4, <2>5
<1>. QED
  BY <1>1, <1>2, <1>3, <1>4, <1>5, <1>6

LEMMA EndKeepsSpecInv ==
  ASSUME SpecInv, NEW p \in Procs, exit_sem(p), pc' = [pc EXCEPT ![p] = "off"],
         UNCHANGED <<ipcVars, shmVars, buffer_equation, userVars, starts>>
  PROVE  SpecInv'
<1>. USE DEF SpecInv, TypeOK, ipcVars, shmVars, userVars
<1>1. SemTypeOK'
  BY ExitType
<1>2. PcTypeOK'
  BY Places DEF PcTypeOK, ClientPC, ServerPC
<1>3. IpcTypeOK' /\ DataTypeOK'
  BY DEF IpcTypeOK, DataTypeOK
<1>4. Opened'
  BY Places DEF Opened, PcTypeOK
<1>5. Booked'
  BY Places DEF Booked, HasSet, exit_sem, PcTypeOK, SemTypeOK
<1>. QED
  BY <1>1, <1>2, <1>3, <1>4, <1>5

LEMMA NextKeepsSpecInv == SpecInv /\ [Next]_vars => SpecInv'
<1>. SUFFICES ASSUME SpecInv, [Next]_vars PROVE SpecInv'
  OBVIOUS
<1>1. CASE ServerStep \/ ServerShmFails
  BY <1>1, ServerSetupKeepsSpecInv, ServerLoopKeepsSpecInv DEF ServerStep
<1>2. ASSUME NEW c \in Clients, ClientStep(c) \/ ClientShmatFails(c)
      PROVE  SpecInv'
  BY <1>2, ClientGetsemKeepsSpecInv, ClientLocalKeepsSpecInv DEF ClientStep
<1>3. ASSUME NEW c \in Clients, ClientExit(c) PROVE SpecInv'
  BY <1>3, EndKeepsSpecInv, Places DEF ClientExit, Goto
<1>4. ASSUME NEW p \in Procs, Kill(p) PROVE SpecInv'
  BY <1>4, EndKeepsSpecInv DEF Kill
<1>5. CASE UNCHANGED vars
  BY <1>5
     DEF vars, semVars, ipcVars, shmVars, userVars, SpecInv, TypeOK,
         SemTypeOK, PcTypeOK, IpcTypeOK, DataTypeOK, Opened, Booked, HasSet
<1>. QED
  BY <1>1, <1>2, <1>3, <1>4, <1>5 DEF Next, NextLifetime

(* Whatever clients, signals, restarts and failures do, every variable     *)
(* keeps its type, and the semaphores the kernel's ranges.                 *)
THEOREM SpecTypeOK == Spec => []TypeOK
<1>1. Spec => []SpecInv
  BY InitSpecInv, NextKeepsSpecInv, PTL DEF Spec
<1>. QED
  BY <1>1, PTL DEF SpecInv

(* However the server ends between SERVER_RCV_REQ and SERVER_SND_RPY, the  *)
(* request it took is posted again by the kernel.                          *)
THEOREM CrashKeepsRequest == Spec => TakenRequestSurvivesCrash
<1>. DEFINE Taken == pc[Server] \in {"read", "solve", "reply"}
            Survives == HasSet(Server) /\ Taken /\ pc'[Server] = "off"
                          => s0' >= 1
<1>1. ASSUME SpecInv, Next, Taken, pc'[Server] = "off" PROVE Kill(Server)
  <2>. USE <1>1, Places DEF SpecInv, TypeOK, PcTypeOK
  <2>1. ~ ServerStep /\ ~ ServerShmFails
    BY DEF ServerStep, ServerSemGet, ServerSemCreate, ServerShmGet,
           ServerShmCreate, ServerReset, ServerRcvReq, ServerRead,
           ServerSolve, ServerSndRpy, ServerShmFails, Goto
  <2>2. ASSUME NEW c \in Clients, NEW from, NEW to, Goto(c, from, to)
        PROVE  FALSE
    BY <2>2 DEF Goto
  <2>3. ASSUME NEW c \in Clients, ClientStep(c) PROVE FALSE
    BY <2>3, <2>2
       DEF ClientStep, ClientSemGet, ClientShmGet, ClientInput, ClientGetMem,
           ClientWrite, ClientSndReq, ClientRcvRpy, ClientPrint, ClientReset
  <2>4. ASSUME NEW c \in Clients, ClientExit(c) \/ ClientShmatFails(c)
        PROVE  FALSE
    BY <2>4, <2>2 DEF ClientExit, ClientShmatFails
  <2>5. ASSUME NEW c \in Clients, Kill(c) PROVE FALSE
    BY <2>5 DEF Kill
  <2>. QED
    BY <2>1, <2>3, <2>4, <2>5 DEF Next, NextLifetime, Procs
<1>2. ASSUME SpecInv, HasSet(Server), Taken, Kill(Server) PROVE s0' >= 1
  <2>1. adj0[Server] >= 1 /\ adj0[Server] \in Int /\ s0 \in Nat
    BY <1>2, SemaAssumption, Places
       DEF SpecInv, Booked, TypeOK, SemTypeOK
  <2>. QED
    BY <1>2, <2>1, SemaAssumption DEF Kill, exit_sem, Clamp
<1>3. SpecInv /\ [Next]_vars => [Survives]_vars
  BY <1>1, <1>2
<1>. QED
  BY <1>3, InitSpecInv, NextKeepsSpecInv, PTL
     DEF Spec, TakenRequestSurvivesCrash

-----------------------------------------------------------------------------
(***************************************************************************)
(* Serving.  IInv is inductive; with it, at most one client is in an       *)
(* exchange, and what a client prints is the answer to its own line.       *)
(***************************************************************************)


(* The conjuncts of IInv that TypeOK leaves to prove. *)
Fit == MutualExclusion /\ OneSet /\ Adjustments /\ Free /\ Exchange

Inv == SpecInv /\ Fit

(* Nothing but the adjustments of p changes, by a0 and a1. *)
Moves(p, a0, a1) ==
  /\ adj0' = [adj0 EXCEPT ![p] = adj0[p] + a0]
  /\ adj1' = [adj1 EXCEPT ![p] = adj1[p] + a1]

-----------------------------------------------------------------------------
(* What each operation does from the states in which it is made.           *)

LEMMA AdjTypes ==
  ASSUME SemTypeOK, NEW p \in Procs
  PROVE  /\ s0 \in Int /\ s1 \in Int /\ adj0[p] \in Int /\ adj1[p] \in Int
         /\ s0 >= 0 /\ s0 <= SEMAEM /\ s1 >= 0 /\ s1 <= SEMAEM
         /\ adj0[p] >= -SEMAEM - 1 /\ adj0[p] <= SEMAEM
         /\ adj1[p] >= -SEMAEM - 1 /\ adj1[p] <= SEMAEM
         /\ SEMAEM \in Nat /\ SEMAEM >= 2
BY SemaAssumption DEF SemTypeOK

LEMMA GetMemEffect ==
  ASSUME SemTypeOK, NEW p \in Procs, HasSet(p), getsem(p, "CLIENT_GET_MEM"),
         adj0[p] = 0, adj1[p] \in 0 .. SEMAEM - 1
  PROVE  s0 = 0 /\ s1 >= 1 /\ s0' = 0 /\ s1' = s1 - 1 /\ Moves(p, 0, 1)
BY AdjTypes
   DEF getsem, semop, semop_ERANGE, Passes0, Passes1, OpPasses, Fits0, Fits1,
       InRange, Adjusted, sem_op0, sem_op1, Moves

LEMMA SndReqEffect ==
  ASSUME SemTypeOK, NEW p \in Procs, HasSet(p), getsem(p, "CLIENT_SND_REQ"),
         adj0[p] = 0, s0 = 0
  PROVE  s1 = 0 /\ s0' = 1 /\ s1' = 0 /\ Moves(p, -1, 0)
BY AdjTypes
   DEF getsem, semop, semop_ERANGE, Passes0, Passes1, OpPasses, Fits0, Fits1,
       InRange, Adjusted, sem_op0, sem_op1, Moves

LEMMA RcvReqEffect ==
  ASSUME SemTypeOK, NEW p \in Procs, HasSet(p), getsem(p, "SERVER_RCV_REQ"),
         adj0[p] \in {0, 1}
  PROVE  s0 >= 1 /\ s1 = 0 /\ s0' = s0 - 1 /\ s1' = 0 /\ Moves(p, 1, 0)
BY AdjTypes
   DEF getsem, semop, semop_ERANGE, Passes0, Passes1, OpPasses, Fits0, Fits1,
       InRange, Adjusted, sem_op0, sem_op1, Moves

LEMMA SndRpyEffect ==
  ASSUME SemTypeOK, NEW p \in Procs, HasSet(p), getsem(p, "SERVER_SND_RPY"),
         adj0[p] = 1, s0 = 0, s1 = 0
  PROVE  \/ s0' = 1 /\ s1' = 1 /\ Moves(p, -1, -1)
         \/ UNCHANGED semVars
BY AdjTypes
   DEF getsem, semop, semop_ERANGE, Passes0, Passes1, OpPasses, Fits0, Fits1,
       InRange, Adjusted, sem_op0, sem_op1, Moves

LEMMA RcvRpyEffect ==
  ASSUME SemTypeOK, NEW p \in Procs, HasSet(p), getsem(p, "CLIENT_RCV_RPY"),
         adj0[p] = -1
  PROVE  /\ s0 >= 1 
         /\ \/ s1 >= 1 /\ s0' = s0 - 1 /\ s1' = s1 - 1 /\ Moves(p, 1, 1)
            \/ s1 >= 1 /\ UNCHANGED semVars
BY AdjTypes
   DEF getsem, semop, semop_ERANGE, Passes0, Passes1, OpPasses, Fits0, Fits1,
       InRange, Adjusted, sem_op0, sem_op1, Moves

LEMMA ResetEffect ==
  ASSUME SemTypeOK, NEW p \in Procs, HasSet(p), getsem(p, "RESET_MEM"),
         adj0[p] = 0, adj1[p] >= 0, s1 = 0
  PROVE  s0 = 0 /\ s0' = 0 /\ s1' = 1 /\ Moves(p, 0, -1)
BY AdjTypes
   DEF getsem, semop, semop_ERANGE, Passes0, Passes1, OpPasses, Fits0, Fits1,
       InRange, Adjusted, sem_op0, sem_op1, Moves

-----------------------------------------------------------------------------
(* Facts that the steps below use. *)

(* Who is in an exchange is alone, and finds the server in its loop. *)
LEMMA Alone ==
  ASSUME Fit, NEW c \in Clients, InExchange(c)
  PROVE  /\ \A d \in Clients \ {c} : ~ InExchange(d)
         /\ ServerUp
         /\ Sem(0, 0) \/ Sem(1, 0) \/ Sem(1, 1)
BY DEF Fit, MutualExclusion, Exchange, InExchange, Preparing, Waiting,
       Finishing, ServerUp

LEMMA Sets ==
  ASSUME Fit
  PROVE  /\ \A c \in Clients : pc[c] # "off" => HasSet(c)
         /\ pc[Server] \notin {"off", "semcreate"} => HasSet(Server)
BY DEF Fit, OneSet, HasSet

(***************************************************************************)
(* The server's setup.  There is no set yet, or one without identifier 0,  *)
(* and nobody is in an exchange.                                           *)
(***************************************************************************)
LEMMA ServerSetupKeepsFit ==
  ASSUME Inv,
         \/ ServerSemGet \/ ServerSemCreate \/ ServerShmGet \/ ServerShmCreate
  PROVE  Fit'
<1>. USE DEF Inv, SpecInv, TypeOK
<1>0. /\ \A c \in Clients : pc'[c] = pc[c]
      /\ ~ ServerUp /\ ~ ServerUp'
      /\ UNCHANGED semVars
      /\ \A c \in Clients : UNCHANGED <<semid[c], shmid[c]>>
  <2>1. CASE ServerSemGet
    <3>1. ~ SemIdIsZero
      BY <2>1 DEF ServerSemGet, Goto, SemIdIsZero, Fit, OneSet
    <3>. QED
      BY <2>1, <3>1, GotoServer
         DEF ServerSemGet, ServerPC, ServerUp, semVars
  <2>2. CASE ServerSemCreate
    BY <2>2, GotoServer, Places
       DEF ServerSemCreate, ServerPC, ServerUp, IpcTypeOK
  <2>3. CASE ServerShmGet
    BY <2>3, GotoServer DEF ServerShmGet, ServerPC, ServerUp
  <2>4. CASE ServerShmCreate
    BY <2>4, GotoServer, Places
       DEF ServerShmCreate, ServerPC, ServerUp, IpcTypeOK
  <2>. QED  BY <2>1, <2>2, <2>3, <2>4
<1>1. \A c \in Clients : ~ InExchange(c) /\ ~ InExchange(c)'
  BY <1>0, Alone DEF InExchange
<1>2. MutualExclusion' /\ Exchange'
  BY <1>1 DEF MutualExclusion, Exchange, InExchange
<1>3. Adjustments'
  BY <1>0, <1>1 DEF Fit, Adjustments, semVars
<1>4. Free'
  BY <1>0, <1>1 DEF Fit, Free, Sem, semVars
<1>5. OneSet'
  <2>1. CASE ServerSemGet
    <3>1. /\ pc[Server] = "off" /\ pc'[Server] = "semcreate"
          /\ \A c \in Clients : pc'[c] = pc[c]
      BY <2>1, GotoServer DEF ServerSemGet, ServerPC
    <3>2. UNCHANGED <<sets, theSet, segs, theSeg, semid, shmid>>
      BY <2>1, <3>1 DEF ServerSemGet, Fit, OneSet, SemIdIsZero
    <3>. QED  BY <3>1, <3>2 DEF Fit, OneSet
  <2>2. CASE ServerSemCreate
    <3>1. /\ pc[Server] = "semcreate" /\ pc'[Server] = "shmget"
          /\ \A c \in Clients : pc'[c] = pc[c]
      BY <2>2, GotoServer DEF ServerSemCreate, ServerPC
    <3>2. sets' = 1 /\ theSet' = 1 /\ semid'[Server] = 1
      BY <2>2, Places DEF ServerSemCreate, Fit, OneSet, IpcTypeOK
    <3>3. UNCHANGED <<segs, theSeg, shmid>>
      BY <2>2 DEF ServerSemCreate
    <3>. QED  BY <1>0, <3>1, <3>2, <3>3 DEF Fit, OneSet
  <2>3. CASE ServerShmGet
    <3>1. /\ pc[Server] = "shmget" /\ pc'[Server] = "shmcreate"
          /\ \A c \in Clients : pc'[c] = pc[c]
      BY <2>3, GotoServer DEF ServerShmGet, ServerPC
    <3>2. UNCHANGED <<sets, theSet, segs, theSeg, semid, shmid>>
      BY <2>3, <3>1 DEF ServerShmGet, Fit, OneSet, ShmIdIsZero
    <3>. QED  BY <3>1, <3>2 DEF Fit, OneSet
  <2>4. CASE ServerShmCreate
    <3>1. /\ pc[Server] = "shmcreate" /\ pc'[Server] = "reset"
          /\ \A c \in Clients : pc'[c] = pc[c]
      BY <2>4, GotoServer DEF ServerShmCreate, ServerPC
    <3>2. segs' = 1 /\ theSeg' = 1 /\ shmid'[Server] = 1
      BY <2>4, Places DEF ServerShmCreate, OpenSegment, Fit, OneSet, IpcTypeOK
    <3>3. UNCHANGED <<sets, theSet, semid>>
      BY <2>4 DEF ServerShmCreate
    <3>. QED  BY <1>0, <3>1, <3>2, <3>3 DEF Fit, OneSet
  <2>. QED  BY <2>1, <2>2, <2>3, <2>4
<1>. QED
  BY <1>2, <1>3, <1>4, <1>5 DEF Fit

(***************************************************************************)
(* A step that leaves the objects alone and in which one process p moves   *)
(* between two places past the opening of its objects.                     *)
(***************************************************************************)
LEMMA OneSetStays ==
  ASSUME Inv, UNCHANGED ipcVars,
         \/ /\ pc[Server] \in {"reset", "rcv", "read", "solve", "reply"}
            /\ pc'[Server] \in {"reset", "rcv", "read", "solve", "reply"}
            /\ \A c \in Clients : pc'[c] = pc[c]
         \/ /\ pc'[Server] = pc[Server]
            /\ \E c \in Clients :
                 /\ pc[c] \notin {"off", "shmget"}
                 /\ \A d \in Clients \ {c} : pc'[d] = pc[d]
  PROVE  OneSet'
<1>1. UNCHANGED <<sets, theSet, segs, theSeg, semid, shmid>>
  BY DEF ipcVars
<1>2. \A c \in Clients :
        pc'[c] # pc[c] => pc[c] \notin {"off", "shmget"}
  OBVIOUS
<1>3. \A c \in Clients :
        /\ pc'[c] # "off" => theSet = 1 /\ semid[c] = 1
        /\ pc'[c] \notin {"off", "shmget"} => theSeg = 1 /\ shmid[c] = 1
  BY <1>2 DEF Inv, Fit, OneSet
<1>. QED
  BY <1>1, <1>3 DEF Inv, Fit, OneSet

LEMMA ServerResetKeepsFit ==
  ASSUME Inv, ServerReset
  PROVE  Fit' /\ s0' = 0 /\ s1' = 1
<1>. USE DEF Inv, SpecInv, TypeOK
<1>0. /\ pc[Server] = "reset" /\ pc'[Server] = "rcv"
      /\ \A c \in Clients : pc'[c] = pc[c]
      /\ ~ ServerUp /\ ServerUp'
  BY GotoServer DEF ServerReset, ServerPC, ServerUp
<1>1. \A c \in Clients : ~ InExchange(c) /\ ~ InExchange(c)'
  BY <1>0, Alone DEF InExchange
<1>2. Sem(0, 0) /\ adj0[Server] = 0 /\ adj1[Server] = 0
  BY <1>0, <1>1 DEF Fit, Free, Adjustments
<1>3. Sem(0, 1)' /\ Moves(Server, 0, -1)
  BY <1>0, <1>2, Sets, Places, ResetEffect DEF ServerReset, Sem
<1>4. adj0'[Server] = 0 /\ adj1'[Server] = -1
      /\ \A c \in Clients : adj0'[c] = adj0[c] /\ adj1'[c] = adj1[c]
  BY <1>2, <1>3, Places DEF Moves, SemTypeOK
<1>5. MutualExclusion' /\ Exchange'
  BY <1>1 DEF MutualExclusion, Exchange, InExchange
<1>6. Adjustments'
  BY <1>0, <1>1, <1>4 DEF Fit, Adjustments
<1>7. Free'
  BY <1>0, <1>3, <1>4 DEF Free
<1>8. OneSet'
  BY <1>0, OneSetStays DEF ServerReset
<1>. QED
  BY <1>3, <1>5, <1>6, <1>7, <1>8 DEF Fit, Sem

LEMMA RcvReqTakes ==
  ASSUME Inv, ServerRcvReq
  PROVE  s0 >= 1 /\ s1 = 0 /\ s0' = s0 - 1 /\ s1' = 0 /\ Moves(Server, 1, 0)
<1>. USE DEF Inv, SpecInv, TypeOK
<1>0. pc[Server] = "rcv" /\ ServerUp
  BY GotoServer DEF ServerRcvReq, ServerPC, ServerUp
<1>1. adj0[Server] \in {0, 1}
  <2>1. CASE \E c \in Clients : InExchange(c)
    BY <2>1, <1>0
       DEF Fit, Exchange, InExchange, Preparing, Waiting, Finishing
  <2>2. CASE \A c \in Clients : ~ InExchange(c)
    BY <2>2, <1>0 DEF Fit, Free
  <2>. QED  BY <2>1, <2>2
<1>. QED
  BY <1>0, <1>1, Sets, Places, RcvReqEffect DEF ServerRcvReq

LEMMA ServerRcvReqKeepsFit ==
  ASSUME Inv, ServerRcvReq
  PROVE  Fit'
<1>. USE DEF Inv, SpecInv, TypeOK
<1>0. /\ pc[Server] = "rcv" /\ pc'[Server] = "read"
      /\ \A c \in Clients : pc'[c] = pc[c]
      /\ ServerUp /\ ServerUp'
  BY GotoServer DEF ServerRcvReq, ServerPC, ServerUp
<1>2. s0 >= 1 /\ s1 = 0 /\ s0' = s0 - 1 /\ s1' = 0 /\ Moves(Server, 1, 0)
  BY RcvReqTakes
<1>3. PICK c \in Clients : InExchange(c)
  BY <1>0, <1>2 DEF Fit, Free, Sem
<1>4. /\ \A d \in Clients \ {c} : ~ InExchange(d)
      /\ Sem(1, 0)
  BY <1>2, <1>3, Alone DEF Sem
<1>5. /\ pc[c] = "rcv" /\ equation_str[1] = exit_str[c]
      /\ adj0[c] = -1 /\ adj0[Server] = 0
  BY <1>3, <1>4
     DEF Fit, Exchange, InExchange, Preparing, Waiting, Finishing, Sem
<1>6. /\ adj0'[Server] = 1 /\ adj1'[Server] = adj1[Server]
      /\ \A d \in Clients : adj0'[d] = adj0[d] /\ adj1'[d] = adj1[d]
  BY <1>2, <1>5, Places DEF Moves, SemTypeOK
<1>7. \A d \in Clients : InExchange(d)' <=> InExchange(d)
  BY <1>0 DEF InExchange
<1>8. MutualExclusion'
  BY <1>7 DEF MutualExclusion, Fit
<1>9. Adjustments'
  BY <1>0, <1>6, <1>7 DEF Fit, Adjustments
<1>10. Free'
  BY <1>3, <1>7 DEF Free
<1>11. Waiting(c)'
  BY <1>0, <1>2, <1>4, <1>5, <1>6 DEF Waiting, Sem, ServerRcvReq, shmVars, userVars
<1>12. Exchange'
  BY <1>0, <1>4, <1>5, <1>7, <1>11 DEF Exchange, InExchange
<1>13. OneSet'
  BY <1>0, OneSetStays DEF ServerRcvReq
<1>. QED
  BY <1>8, <1>9, <1>10, <1>12, <1>13 DEF Fit

(* The server's own steps: it is at "read", "solve" or "reply" for the one *)
(* client that waits.                                                      *)
LEMMA Serving1 ==
  ASSUME Fit, pc[Server] \in {"read", "solve", "reply"}
  PROVE  \E c \in Clients :
           /\ pc[c] = "rcv" /\ Waiting(c)
           /\ \A d \in Clients \ {c} : ~ InExchange(d)
<1>1. PICK c \in Clients : InExchange(c)
  BY DEF Fit, Free, ServerUp
<1>2. pc[c] = "rcv" /\ Waiting(c)
  BY <1>1 DEF Fit, Exchange, InExchange, Preparing, Finishing
<1>. QED
  BY <1>1, <1>2, Alone

LEMMA ServerReadKeepsFit ==
  ASSUME Inv, ServerRead
  PROVE  Fit'
<1>. USE DEF Inv, SpecInv, TypeOK
<1>0. /\ pc[Server] = "read" /\ pc'[Server] = "solve"
      /\ \A c \in Clients : pc'[c] = pc[c]
      /\ ServerUp /\ ServerUp'
  BY GotoServer DEF ServerRead, ServerPC, ServerUp
<1>1. PICK c \in Clients :
        /\ pc[c] = "rcv" /\ Waiting(c)
        /\ \A d \in Clients \ {c} : ~ InExchange(d)
  BY <1>0, Serving1
<1>2. \A d \in Clients : InExchange(d)' <=> InExchange(d)
  BY <1>0 DEF InExchange
<1>3. buffer_equation' = equation_str[1]
  BY <1>0 DEF ServerRead, Fit, OneSet
<1>4. UNCHANGED semVars /\ UNCHANGED shmVars /\ UNCHANGED userVars
  BY DEF ServerRead
<1>5. Waiting(c)'
  BY <1>0, <1>1, <1>3, <1>4
     DEF Waiting, Sem, semVars, shmVars, userVars
<1>6. Exchange'
  BY <1>0, <1>1, <1>2, <1>5 DEF Exchange, InExchange
<1>7. MutualExclusion' /\ Adjustments' /\ Free'
  BY <1>0, <1>1, <1>2, <1>4
     DEF Fit, MutualExclusion, Adjustments, Free, InExchange, semVars
<1>8. OneSet'
  BY <1>0, OneSetStays DEF ServerRead
<1>. QED
  BY <1>6, <1>7, <1>8 DEF Fit

LEMMA ServerSolveKeepsFit ==
  ASSUME Inv, ServerSolve
  PROVE  Fit'
<1>. USE DEF Inv, SpecInv, TypeOK
<1>0. /\ pc[Server] = "solve" /\ pc'[Server] = "reply"
      /\ \A c \in Clients : pc'[c] = pc[c]
      /\ ServerUp /\ ServerUp'
  BY GotoServer DEF ServerSolve, ServerPC, ServerUp
<1>1. PICK c \in Clients :
        /\ pc[c] = "rcv" /\ Waiting(c)
        /\ \A d \in Clients \ {c} : ~ InExchange(d)
  BY <1>0, Serving1
<1>2. \A d \in Clients : InExchange(d)' <=> InExchange(d)
  BY <1>0 DEF InExchange
<1>3. buffer_equation = exit_str[c]
  BY <1>0, <1>1 DEF Waiting
<1>4. UNCHANGED semVars /\ UNCHANGED userVars
  BY DEF ServerSolve
<1>5. AnswerIsOwn(c, result'[1])
  <2>1. shmid[Server] = 1 /\ 1 \in Segments
    BY <1>0, SemaAssumption DEF Fit, OneSet, Segments
  <2>. QED
    BY <1>3, <2>1 DEF ServerSolve, AnswerIsOwn, DataTypeOK
<1>6. Waiting(c)'
  BY <1>0, <1>1, <1>4, <1>5
     DEF Waiting, Sem, AnswerIsOwn, semVars, userVars
<1>7. Exchange'
  BY <1>0, <1>1, <1>2, <1>6 DEF Exchange, InExchange
<1>8. MutualExclusion' /\ Adjustments' /\ Free'
  BY <1>0, <1>1, <1>2, <1>4
     DEF Fit, MutualExclusion, Adjustments, Free, InExchange, semVars
<1>9. OneSet'
  BY <1>0, OneSetStays DEF ServerSolve
<1>. QED
  BY <1>7, <1>8, <1>9 DEF Fit

LEMMA SndRpyPosts ==
  ASSUME Inv, ServerSndRpy
  PROVE  \/ Sem(1, 1)' /\ Moves(Server, -1, -1)
         \/ Sem(0, 0)' /\ UNCHANGED semVars
<1>. USE DEF Inv, SpecInv, TypeOK
<1>1. pc[Server] = "reply"
  BY GotoServer DEF ServerSndRpy, ServerPC
<1>2. Sem(0, 0) /\ adj0[Server] = 1
  BY <1>1, Serving1 DEF Waiting
<1>. QED
  BY <1>1, <1>2, Sets, Places, SndRpyEffect DEF ServerSndRpy, Sem, semVars

LEMMA ServerSndRpyKeepsFit ==
  ASSUME Inv, ServerSndRpy
  PROVE  Fit'
<1>. USE DEF Inv, SpecInv, TypeOK
<1>0. /\ pc[Server] = "reply" /\ pc'[Server] = "rcv"
      /\ \A c \in Clients : pc'[c] = pc[c]
      /\ ServerUp /\ ServerUp'
  BY GotoServer DEF ServerSndRpy, ServerPC, ServerUp
<1>1. PICK c \in Clients :
        /\ pc[c] = "rcv" /\ Waiting(c)
        /\ \A d \in Clients \ {c} : ~ InExchange(d)
  BY <1>0, Serving1
<1>2. \A d \in Clients : InExchange(d)' <=> InExchange(d)
  BY <1>0 DEF InExchange
<1>3. /\ Sem(0, 0) /\ adj0[Server] = 1 /\ adj0[c] = -1
      /\ AnswerIsOwn(c, result[1])
  BY <1>0, <1>1 DEF Waiting
<1>4. \/ Sem(1, 1)' /\ Moves(Server, -1, -1)
      \/ UNCHANGED semVars
  BY SndRpyPosts
<1>5. /\ \A d \in Clients : adj0'[d] = adj0[d] /\ adj1'[d] = adj1[d]
      /\ adj1'[Server] <= -1
      /\ \/ Sem(1, 1)' /\ adj0'[Server] = 0
         \/ Sem(0, 0)' /\ adj0'[Server] = 1
  BY <1>0, <1>3, <1>4, Places
     DEF Moves, SemTypeOK, Sem, semVars, Fit, Adjustments
<1>6. Waiting(c)'
  BY <1>0, <1>3, <1>5
     DEF Waiting, Sem, AnswerIsOwn, ServerSndRpy, shmVars, userVars
<1>7. Exchange'
  BY <1>0, <1>1, <1>2, <1>6 DEF Exchange, InExchange
<1>8. MutualExclusion' /\ Adjustments' /\ Free'
  BY <1>0, <1>1, <1>2, <1>5
     DEF Fit, MutualExclusion, Adjustments, Free, InExchange
<1>9. OneSet'
  BY <1>0, OneSetStays DEF ServerSndRpy
<1>. QED
  BY <1>7, <1>8, <1>9 DEF Fit

(***************************************************************************)
(* Clients outside an exchange: nothing another process relies on changes. *)
(***************************************************************************)
LEMMA OutsideKeepsFit ==
  ASSUME Inv, NEW c \in Clients, ~ InExchange(c), ~ InExchange(c)',
         \A d \in Clients \ {c} : pc'[d] = pc[d] /\ exit_str'[d] = exit_str[d],
         pc'[Server] = pc[Server],
         UNCHANGED <<semVars, shmVars, buffer_equation, shown>>,
         pc'[c] \in {"off", "shmget"} => adj1[c] = 0,
         OneSet'
  PROVE  Fit'
<1>. USE DEF Inv
<1>1. /\ \A d \in Clients : InExchange(d)' <=> InExchange(d)
      /\ ServerUp' <=> ServerUp
  BY DEF InExchange, ServerUp
<1>2. MutualExclusion'
  BY <1>1 DEF MutualExclusion, Fit
<1>3. Adjustments'
  BY <1>1 DEF Fit, Adjustments, semVars
<1>4. Free'
  BY <1>1 DEF Fit, Free, Sem, semVars
<1>5. ASSUME NEW d \in Clients, InExchange(d)
      PROVE  /\ d # c /\ pc'[d] = pc[d] /\ exit_str'[d] = exit_str[d]
  BY <1>5
<1>6. Exchange'
  <2>1. ASSUME NEW d \in Clients, pc'[d] \in {"write", "snd"}
        PROVE  Preparing(d)'
    <3>1. InExchange(d) /\ pc'[d] = pc[d] /\ exit_str'[d] = exit_str[d]
      BY <1>1, <1>5, <2>1 DEF InExchange
    <3>. QED  BY <2>1, <3>1 DEF Fit, Exchange, Preparing, Sem, semVars, shmVars
  <2>2. ASSUME NEW d \in Clients, pc'[d] = "rcv"
        PROVE  Waiting(d)'
    <3>1. InExchange(d) /\ pc'[d] = pc[d] /\ exit_str'[d] = exit_str[d]
      BY <1>1, <1>5, <2>2 DEF InExchange
    <3>2. Waiting(d)
      BY <2>2, <3>1 DEF Fit, Exchange
    <3>. QED  BY <3>1, <3>2 DEF Waiting, Sem, AnswerIsOwn, semVars, shmVars
  <2>3. ASSUME NEW d \in Clients, pc'[d] \in {"print", "reset"}
        PROVE  Finishing(d)'
    <3>1. InExchange(d) /\ pc'[d] = pc[d] /\ exit_str'[d] = exit_str[d]
      BY <1>1, <1>5, <2>3 DEF InExchange
    <3>2. Finishing(d)
      BY <2>3, <3>1 DEF Fit, Exchange
    <3>. QED  BY <3>1, <3>2 DEF Finishing, Sem, AnswerIsOwn, semVars, shmVars
  <2>. QED  BY <2>1, <2>2, <2>3 DEF Exchange
<1>. QED
  BY <1>2, <1>3, <1>4, <1>6 DEF Fit

LEMMA ClientOutsideKeepsFit ==
  ASSUME Inv, NEW c \in Clients,
         ClientSemGet(c) \/ ClientShmGet(c) \/ ClientInput(c)
  PROVE  Fit'
<1>. USE DEF Inv, SpecInv, TypeOK
<1>1. CASE ClientSemGet(c)
  <2>0. /\ pc[c] = "off" /\ pc'[c] = "shmget" /\ pc'[Server] = pc[Server]
        /\ \A d \in Clients \ {c} : pc'[d] = pc[d]
    BY <1>1, GotoClient DEF ClientSemGet, ClientPC
  <2>1. ~ InExchange(c) /\ ~ InExchange(c)' /\ adj1[c] = 0
    BY <2>0 DEF InExchange, Fit, Adjustments
  <2>2. semid'[c] = 1 /\ theSet = 1
        /\ \A p \in Procs \ {c} : semid'[p] = semid[p]
    BY <1>1, Places DEF ClientSemGet, IpcTypeOK, Fit, OneSet
  <2>3. UNCHANGED <<sets, theSet, segs, theSeg, shmid>>
    BY <1>1 DEF ClientSemGet
  <2>4. OneSet'
    BY <2>0, <2>2, <2>3, Places DEF Fit, OneSet
  <2>. QED
    BY <1>1, <2>0, <2>1, <2>4, OutsideKeepsFit DEF ClientSemGet, userVars
<1>2. CASE ClientShmGet(c)
  <2>0. /\ pc[c] = "shmget" /\ pc'[Server] = pc[Server]
        /\ pc'[c] \in {"off", "loop"} /\ (theSeg = 0 => pc'[c] = "off")
        /\ \A d \in Clients \ {c} : pc'[d] = pc[d]
    BY <1>2, GotoClient DEF ClientShmGet, ClientPC
  <2>1. ~ InExchange(c) /\ ~ InExchange(c)' /\ adj1[c] = 0
    BY <2>0 DEF InExchange, Fit, Adjustments
  <2>2. /\ theSeg = 1 => shmid'[c] = 1
        /\ \A p \in Procs \ {c} : shmid'[p] = shmid[p]
        /\ \A d \in Clients \ {c} : exit_str'[d] = exit_str[d]
    BY <1>2, Places DEF ClientShmGet, IpcTypeOK, DataTypeOK
  <2>3. UNCHANGED <<sets, theSet, segs, theSeg, semid>>
    BY <1>2 DEF ClientShmGet
  <2>4. OneSet'
    BY <2>0, <2>2, <2>3, Places DEF Fit, OneSet
  <2>. QED
    BY <1>2, <2>0, <2>1, <2>2, <2>4, OutsideKeepsFit DEF ClientShmGet
<1>3. CASE ClientInput(c)
  <2>0. /\ pc[c] = "loop" /\ pc'[c] = "getmem" /\ pc'[Server] = pc[Server]
        /\ \A d \in Clients \ {c} : pc'[d] = pc[d]
    BY <1>3, GotoClient DEF ClientInput, ClientPC
  <2>1. ~ InExchange(c) /\ ~ InExchange(c)'
    BY <2>0 DEF InExchange
  <2>2. \A d \in Clients \ {c} : exit_str'[d] = exit_str[d]
    BY <1>3 DEF ClientInput, DataTypeOK
  <2>3. OneSet'
    BY <1>3, <2>0, OneSetStays DEF ClientInput
  <2>. QED
    BY <1>3, <2>0, <2>1, <2>2, <2>3, OutsideKeepsFit DEF ClientInput
<1>. QED
  BY <1>1, <1>2, <1>3

(***************************************************************************)
(* The client in the exchange.  What another client relies on is that none *)
(* other is in one.                                                        *)
(***************************************************************************)
LEMMA InsideKeepsFit ==
  ASSUME Inv, NEW c \in Clients, InExchange(c)',
         \A d \in Clients \ {c} : ~ InExchange(d) /\ pc'[d] = pc[d],
         pc'[Server] = pc[Server], UNCHANGED ipcVars,
         pc[c] \notin {"off", "shmget"},
         ServerUp, adj1'[Server] <= -1, adj1'[c] >= 1,
         \A d \in Clients \ {c} : adj0'[d] = adj0[d] /\ adj1'[d] = adj1[d],
         pc'[c] \in {"write", "snd"} => Preparing(c)',
         pc'[c] = "rcv" => Waiting(c)',
         pc'[c] \in {"print", "reset"} => Finishing(c)'
  PROVE  Fit'
<1>1. /\ \A d \in Clients \ {c} : ~ InExchange(d)'
      /\ ServerUp'
  BY DEF InExchange, ServerUp
<1>2. MutualExclusion' /\ Free'
  BY <1>1 DEF MutualExclusion, Free
<1>3. Exchange'
  BY <1>1 DEF Exchange, InExchange
<1>4. Adjustments'
  BY <1>1 DEF Inv, Fit, Adjustments, InExchange
<1>5. OneSet'
  BY OneSetStays
<1>. QED
  BY <1>2, <1>3, <1>4, <1>5 DEF Fit

LEMMA ClientGetMemKeepsFit ==
  ASSUME Inv, NEW c \in Clients, ClientGetMem(c)
  PROVE  Fit'
<1>. USE DEF Inv, SpecInv, TypeOK
<1>0. /\ pc[c] = "getmem" /\ pc'[c] = "write" /\ pc'[Server] = pc[Server]
      /\ \A d \in Clients \ {c} : pc'[d] = pc[d]
  BY GotoClient DEF ClientGetMem, ClientPC
<1>1. ~ InExchange(c) /\ InExchange(c)'
  BY <1>0 DEF InExchange
<1>2. adj0[c] = 0 /\ adj1[c] \in 0 .. SEMAEM - 1
  BY <1>1 DEF Fit, Adjustments
<1>3. s0 = 0 /\ s1 >= 1 /\ s0' = 0 /\ s1' = s1 - 1 /\ Moves(c, 0, 1)
  BY <1>0, <1>2, Sets, Places, GetMemEffect DEF ClientGetMem
<1>4. \A d \in Clients : ~ InExchange(d)
  BY <1>3, Alone DEF Sem
<1>5. /\ ServerUp /\ pc[Server] = "rcv" /\ Sem(0, 1) /\ adj0[Server] = 0
      /\ adj1[Server] <= -1
  BY <1>3, <1>4 DEF Fit, Free, Sem, Adjustments
<1>6. /\ adj0'[c] = 0 /\ adj1'[c] = adj1[c] + 1
      /\ \A p \in Procs \ {c} : adj0'[p] = adj0[p] /\ adj1'[p] = adj1[p]
  BY <1>2, <1>3, Places DEF Moves, SemTypeOK
<1>7. Preparing(c)'
  BY <1>0, <1>3, <1>5, <1>6, Places DEF Preparing, Sem
<1>. QED
  BY <1>0, <1>1, <1>2, <1>4, <1>5, <1>6, <1>7, InsideKeepsFit, Places,
     SemaAssumption DEF ClientGetMem

LEMMA ClientWriteKeepsFit ==
  ASSUME Inv, NEW c \in Clients, ClientWrite(c)
  PROVE  Fit'
<1>. USE DEF Inv, SpecInv, TypeOK
<1>0. /\ pc[c] = "write" /\ pc'[c] = "snd" /\ pc'[Server] = pc[Server]
      /\ \A d \in Clients \ {c} : pc'[d] = pc[d]
  BY GotoClient DEF ClientWrite, ClientPC
<1>1. InExchange(c) /\ InExchange(c)'
  BY <1>0 DEF InExchange
<1>2. /\ Preparing(c) /\ ServerUp
      /\ adj1[Server] <= -1 /\ adj1[c] >= 1
      /\ \A d \in Clients \ {c} : ~ InExchange(d)
  BY <1>0, <1>1, Alone DEF Fit, Exchange, Adjustments
<1>3. equation_str'[1] = exit_str[c]
  BY <1>0, SemaAssumption
     DEF ClientWrite, Fit, OneSet, DataTypeOK, Segments
<1>4. Preparing(c)'
  BY <1>0, <1>2, <1>3 DEF Preparing, Sem, ClientWrite, semVars, userVars
<1>. QED
  BY <1>0, <1>1, <1>2, <1>4, InsideKeepsFit DEF ClientWrite, semVars

LEMMA ClientSndReqKeepsFit ==
  ASSUME Inv, NEW c \in Clients, ClientSndReq(c)
  PROVE  Fit'
<1>. USE DEF Inv, SpecInv, TypeOK
<1>0. /\ pc[c] = "snd" /\ pc'[c] = "rcv" /\ pc'[Server] = pc[Server]
      /\ \A d \in Clients \ {c} : pc'[d] = pc[d]
  BY GotoClient DEF ClientSndReq, ClientPC
<1>1. InExchange(c) /\ InExchange(c)'
  BY <1>0 DEF InExchange
<1>2. /\ Preparing(c) /\ ServerUp
      /\ adj1[Server] <= -1 /\ adj1[c] >= 1
      /\ \A d \in Clients \ {c} : ~ InExchange(d)
  BY <1>0, <1>1, Alone DEF Fit, Exchange, Adjustments
<1>3. Sem(1, 0)' /\ Moves(c, -1, 0)
  BY <1>0, <1>2, Sets, Places, SndReqEffect DEF ClientSndReq, Preparing, Sem
<1>4. /\ adj0'[c] = -1 /\ adj1'[c] = adj1[c]
      /\ \A p \in Procs \ {c} : adj0'[p] = adj0[p] /\ adj1'[p] = adj1[p]
  BY <1>2, <1>3, Places DEF Moves, SemTypeOK, Preparing
<1>5. Waiting(c)'
  BY <1>0, <1>2, <1>3, <1>4, Places
     DEF Waiting, Preparing, Sem, ClientSndReq, shmVars, userVars
<1>. QED
  BY <1>0, <1>1, <1>2, <1>4, <1>5, InsideKeepsFit, Places DEF ClientSndReq

LEMMA ClientRcvRpyKeepsFit ==
  ASSUME Inv, NEW c \in Clients, ClientRcvRpy(c)
  PROVE  Fit'
<1>. USE DEF Inv, SpecInv, TypeOK
<1>0. /\ pc[c] = "rcv" /\ pc'[c] = "print" /\ pc'[Server] = pc[Server]
      /\ \A d \in Clients \ {c} : pc'[d] = pc[d]
  BY GotoClient DEF ClientRcvRpy, ClientPC
<1>1. InExchange(c) /\ InExchange(c)'
  BY <1>0 DEF InExchange
<1>2. /\ Waiting(c) /\ ServerUp
      /\ adj1[Server] <= -1 /\ adj1[c] >= 1
      /\ \A d \in Clients \ {c} : ~ InExchange(d)
  BY <1>0, <1>1, Alone DEF Fit, Exchange, Adjustments
<1>3. /\ s0 >= 1 /\ s1 >= 1
      /\ \/ s0' = s0 - 1 /\ s1' = s1 - 1 /\ Moves(c, 1, 1)
         \/ UNCHANGED semVars
  BY <1>0, <1>2, Sets, Places, RcvRpyEffect DEF ClientRcvRpy, Waiting
<1>4. /\ pc[Server] = "rcv" /\ Sem(1, 1) /\ adj0[Server] = 0
      /\ adj0[c] = -1 /\ AnswerIsOwn(c, result[1])
  BY <1>2, <1>3 DEF Waiting, Sem
<1>5. /\ adj1'[c] >= 1
      /\ \/ Sem(0, 0)' /\ adj0'[c] = 0
         \/ Sem(1, 1)'
      /\ \A p \in Procs \ {c} : adj0'[p] = adj0[p] /\ adj1'[p] = adj1[p]
  BY <1>2, <1>3, <1>4, Places DEF Moves, SemTypeOK, Sem, semVars
<1>6. Finishing(c)'
  BY <1>0, <1>4, <1>5, Places
     DEF Finishing, Sem, AnswerIsOwn, ClientRcvRpy, shmVars, userVars
<1>. QED
  BY <1>0, <1>1, <1>2, <1>5, <1>6, InsideKeepsFit, Places DEF ClientRcvRpy

LEMMA ClientPrintKeepsFit ==
  ASSUME Inv, NEW c \in Clients, ClientPrint(c)
  PROVE  Fit'
<1>. USE DEF Inv, SpecInv, TypeOK
<1>0. /\ pc[c] = "print" /\ pc'[c] = "reset" /\ pc'[Server] = pc[Server]
      /\ \A d \in Clients \ {c} : pc'[d] = pc[d]
  BY GotoClient DEF ClientPrint, ClientPC
<1>1. InExchange(c) /\ InExchange(c)'
  BY <1>0 DEF InExchange
<1>2. /\ Finishing(c) /\ ServerUp
      /\ adj1[Server] <= -1 /\ adj1[c] >= 1
      /\ \A d \in Clients \ {c} : ~ InExchange(d)
  BY <1>0, <1>1, Alone DEF Fit, Exchange, Adjustments
<1>3. AnswerIsOwn(c, shown'[c])
  BY <1>0, <1>2
     DEF Finishing, AnswerIsOwn, ClientPrint, Fit, OneSet, DataTypeOK
<1>4. Finishing(c)'
  BY <1>0, <1>2, <1>3
     DEF Finishing, Sem, AnswerIsOwn, ClientPrint, semVars
<1>. QED
  BY <1>0, <1>1, <1>2, <1>4, InsideKeepsFit DEF ClientPrint, semVars

(* With (1, 1) a client is stuck at "reset"; otherwise it frees the segment. *)
LEMMA ClientResetKeepsFit ==
  ASSUME Inv, NEW c \in Clients, ClientReset(c)
  PROVE  Fit'
<1>. USE DEF Inv, SpecInv, TypeOK
<1>0. /\ pc[c] = "reset" /\ pc'[c] = "loop" /\ pc'[Server] = pc[Server]
      /\ \A d \in Clients \ {c} : pc'[d] = pc[d]
  BY GotoClient DEF ClientReset, ClientPC
<1>1. InExchange(c) /\ ~ InExchange(c)'
  BY <1>0 DEF InExchange
<1>2. /\ Finishing(c) /\ ServerUp /\ ServerUp'
      /\ adj1[Server] <= -1 /\ adj1[c] >= 1
      /\ \A d \in Clients \ {c} : ~ InExchange(d)
  BY <1>0, <1>1, Alone DEF Fit, Exchange, Adjustments, ServerUp
<1>3. s0 = 0
  BY <1>0, Sets, AdjTypes, Places
     DEF ClientReset, getsem, semop, semop_ERANGE, Passes0, OpPasses, sem_op0
<1>4. Sem(0, 0) /\ adj0[c] = 0 /\ pc[Server] = "rcv" /\ adj0[Server] = 0
  BY <1>2, <1>3 DEF Finishing, Sem
<1>5. Sem(0, 1)' /\ Moves(c, 0, -1)
  BY <1>0, <1>2, <1>4, AdjTypes, Sets, Places, ResetEffect
     DEF ClientReset, Sem
<1>6. /\ adj0'[c] = 0 /\ adj1'[c] = adj1[c] - 1
      /\ \A p \in Procs \ {c} : adj0'[p] = adj0[p] /\ adj1'[p] = adj1[p]
  BY <1>4, <1>5, Places DEF Moves, SemTypeOK
<1>7. \A d \in Clients : ~ InExchange(d)'
  BY <1>0, <1>1, <1>2 DEF InExchange
<1>8. MutualExclusion' /\ Exchange'
  BY <1>7 DEF MutualExclusion, Exchange, InExchange
<1>9. Free'
  BY <1>0, <1>2, <1>4, <1>5, <1>6, Places DEF Free
<1>10. adj1'[c] \in 0 .. SEMAEM - 1
  BY <1>2, <1>6, AdjTypes, Places
<1>11. Adjustments'
  BY <1>0, <1>2, <1>6, <1>7, <1>10, Places DEF Fit, Adjustments
<1>12. OneSet'
  BY <1>0, OneSetStays DEF ClientReset
<1>. QED
  BY <1>8, <1>9, <1>11, <1>12 DEF Fit

(***************************************************************************)
(* The ends that Serving allows.                                           *)
(***************************************************************************)
LEMMA KillIdleServerKeepsFit ==
  ASSUME Inv, KillIdleServer
  PROVE  Fit'
<1>. USE DEF Inv, SpecInv, TypeOK
<1>0. /\ pc[Server] # "off" /\ pc'[Server] = "off"
      /\ \A c \in Clients : pc'[c] = pc[c]
      /\ ~ ServerUp'
  BY Places DEF KillIdleServer, Kill, PcTypeOK, ServerUp
<1>1. \A c \in Clients : ~ InExchange(c) /\ ~ InExchange(c)'
  BY <1>0 DEF KillIdleServer, InExchange
<1>2. /\ s0 = 0 /\ adj0[Server] = 0
      /\ \/ s1 = 1 /\ adj1[Server] <= -1
         \/ s1 = 0 /\ adj1[Server] = 0
  BY <1>1 DEF Fit, Free, Adjustments, Sem
<1>3. Sem(0, 0)'
  BY <1>2, AdjTypes, Places DEF KillIdleServer, Kill, exit_sem, Clamp, Sem
<1>4. /\ adj0'[Server] = 0 /\ adj1'[Server] = 0
      /\ \A c \in Clients : adj0'[c] = adj0[c] /\ adj1'[c] = adj1[c]
  BY Places DEF KillIdleServer, Kill, exit_sem, SemTypeOK
<1>5. MutualExclusion' /\ Exchange'
  BY <1>1 DEF MutualExclusion, Exchange, InExchange
<1>6. Adjustments' /\ Free'
  BY <1>0, <1>1, <1>3, <1>4 DEF Fit, Adjustments, Free
<1>7. UNCHANGED ipcVars /\ ~ SemIdZero /\ ~ ShmIdZero
  BY DEF KillIdleServer, Kill
<1>8. OneSet'
  BY <1>0, <1>7 DEF Fit, OneSet, ipcVars
<1>. QED
  BY <1>5, <1>6, <1>8 DEF Fit

LEMMA KillUntakenKeepsFit ==
  ASSUME Inv, NEW c \in Clients, KillUntaken(c)
  PROVE  Fit'
<1>. USE DEF Inv, SpecInv, TypeOK
<1>0. /\ pc[c] # "off" /\ pc'[c] = "off" /\ pc'[Server] = pc[Server]
      /\ \A d \in Clients \ {c} : pc'[d] = pc[d]
      /\ ~ InExchange(c)'
  BY Places DEF KillUntaken, Kill, PcTypeOK, InExchange
<1>1. /\ s0' = Clamp(s0 + adj0[c]) /\ s1' = Clamp(s1 + adj1[c])
      /\ adj0'[c] = 0 /\ adj1'[c] = 0
      /\ \A p \in Procs \ {c} : adj0'[p] = adj0[p] /\ adj1'[p] = adj1[p]
  BY Places DEF KillUntaken, Kill, exit_sem, SemTypeOK
<1>2. UNCHANGED <<ipcVars, shmVars, buffer_equation, userVars>>
  BY DEF KillUntaken, Kill
<1>3. OneSet'
  BY <1>0, <1>2 DEF Fit, OneSet, ipcVars
<1>4. CASE ~ InExchange(c)
  <2>1. adj0[c] = 0 /\ adj1[c] = 0
    BY <1>4 DEF KillUntaken, Untaken, InExchange, Fit, Adjustments
  <2>2. UNCHANGED semVars
    <3>1. s0' = s0 /\ s1' = s1
      BY <1>1, <2>1, AdjTypes, Places DEF Clamp
    <3>2. adj0' = adj0 /\ adj1' = adj1
      BY <2>1, Places DEF KillUntaken, Kill, exit_sem, SemTypeOK
    <3>. QED  BY <3>1, <3>2 DEF semVars
  <2>. QED
    BY <1>0, <1>2, <1>3, <1>4, <2>1, <2>2, OutsideKeepsFit DEF userVars
<1>5. CASE InExchange(c)
  <2>1. /\ \A d \in Clients : ~ InExchange(d)'
        /\ \A d \in Clients \ {c} : ~ InExchange(d)
        /\ ServerUp /\ ServerUp'
    BY <1>0, <1>5, Alone DEF InExchange, ServerUp
  <2>2. /\ pc[Server] = "rcv" /\ adj0[Server] = 0 /\ adj1[c] = 1
        /\ \/ Sem(0, 0) /\ adj0[c] = 0
           \/ Sem(1, 0) /\ adj0[c] = -1
    BY <1>5
       DEF KillUntaken, Untaken, InExchange, Fit, Exchange, Preparing,
           Waiting, Sem
  <2>3. Sem(0, 1)'
    BY <1>1, <2>2, SemaAssumption DEF Sem, Clamp
  <2>4. MutualExclusion' /\ Exchange'
    BY <2>1 DEF MutualExclusion, Exchange, InExchange
  <2>5. Free'
    BY <1>0, <1>1, <2>1, <2>2, <2>3, Places DEF Free
  <2>6. Adjustments'
    BY <1>0, <1>1, <2>1, Places, SemaAssumption DEF Fit, Adjustments
  <2>. QED
    BY <1>3, <2>4, <2>5, <2>6 DEF Fit
<1>. QED
  BY <1>4, <1>5

-----------------------------------------------------------------------------
(* The theorems. *)

LEMMA InitInv == Init => Inv
<1>. SUFFICES ASSUME Init PROVE Inv
  OBVIOUS
<1>1. SpecInv
  BY InitSpecInv
<1>2. (\A p \in Procs : pc[p] = "off" /\ adj0[p] = 0 /\ adj1[p] = 0)
  BY DEF Init
<1>3. Fit
  BY <1>2, Places, SemaAssumption
     DEF Init, Fit, MutualExclusion, InExchange, OneSet, Adjustments,
         ServerUp, Free, Exchange, Sem
<1>. QED
  BY <1>1, <1>3 DEF Inv

LEMMA NextServingKeepsInv == Inv /\ [NextServing]_vars => Inv'
<1>. SUFFICES ASSUME Inv, [NextServing]_vars PROVE Inv'
  OBVIOUS
<1>1. [Next]_vars
  BY Places
     DEF NextServing, Next, NextLifetime, KillIdleServer, KillUntaken
<1>2. SpecInv'
  BY <1>1, NextKeepsSpecInv DEF Inv
<1>3. CASE ServerStep
  BY <1>3, ServerSetupKeepsFit, ServerResetKeepsFit, ServerRcvReqKeepsFit,
     ServerReadKeepsFit, ServerSolveKeepsFit, ServerSndRpyKeepsFit, <1>2
     DEF ServerStep, Inv
<1>4. CASE KillIdleServer
  BY <1>2, <1>4, KillIdleServerKeepsFit DEF Inv
<1>5. ASSUME NEW c \in Clients, ClientStep(c) PROVE Inv'
  BY <1>2, <1>5, ClientOutsideKeepsFit, ClientGetMemKeepsFit,
     ClientWriteKeepsFit, ClientSndReqKeepsFit, ClientRcvRpyKeepsFit,
     ClientPrintKeepsFit, ClientResetKeepsFit DEF ClientStep, Inv
<1>6. ASSUME NEW c \in Clients, KillUntaken(c) PROVE Inv'
  BY <1>2, <1>6, KillUntakenKeepsFit DEF Inv
<1>7. CASE UNCHANGED vars
  <2>1. Fit'
    BY <1>7
       DEF vars, semVars, ipcVars, shmVars, userVars, Inv, Fit,
           MutualExclusion, InExchange, OneSet, Adjustments, ServerUp, Free,
           Exchange, Preparing, Waiting, Finishing, AnswerIsOwn, Sem
  <2>. QED  BY <1>2, <2>1 DEF Inv
<1>. QED
  BY <1>3, <1>4, <1>5, <1>6, <1>7 DEF NextServing

LEMMA ServingInv == Serving => []Inv
BY InitInv, NextServingKeepsInv, PTL DEF Serving

(* The places, the semaphores and the segment always fit together while    *)
(* the server is stopped between exchanges only and clients stay.          *)
THEOREM ServingIInv == Serving => []IInv
<1>1. Inv => IInv
  BY DEF Inv, SpecInv, Fit, IInv
<1>. QED
  BY <1>1, ServingInv, PTL

(* CLIENT_GET_MEM lets one client at a time into the segment. *)
THEOREM ServingMutualExclusion == Serving => []MutualExclusion
<1>1. Inv => MutualExclusion
  BY DEF Inv, Fit
<1>. QED
  BY <1>1, ServingInv, PTL

(* A client prints the answer to its own line, never another's. *)
THEOREM ServingResultIsOwn == Serving => []ResultIsOwn
<1>1. Inv => ResultIsOwn
  BY DEF Inv, Fit, Exchange, Finishing, AnswerIsOwn, ResultIsOwn
<1>. QED
  BY <1>1, ServingInv, PTL

(* A server that is started again leaves the set it found free. *)
THEOREM ServingResetDone == Serving => ResetDone
<1>. DEFINE Done == pc[Server] = "reset" /\ pc'[Server] = "rcv"
                      => s0' = 0 /\ s1' = 1
<1>1. ASSUME Inv, NextServing, pc[Server] = "reset", pc'[Server] = "rcv"
      PROVE  ServerReset
  <2>. USE <1>1, Places DEF Inv, SpecInv, TypeOK, PcTypeOK
  <2>1. ServerStep => ServerReset
    BY DEF ServerStep, ServerSemGet, ServerSemCreate, ServerShmGet,
           ServerShmCreate, ServerRcvReq, ServerRead, ServerSolve,
           ServerSndRpy, Goto
  <2>2. ~ KillIdleServer
    BY DEF KillIdleServer, Kill
  <2>3. ASSUME NEW c \in Clients, NEW from, NEW to, Goto(c, from, to)
        PROVE  FALSE
    BY <2>3 DEF Goto
  <2>4. ASSUME NEW c \in Clients, ClientStep(c) PROVE FALSE
    BY <2>4, <2>3
       DEF ClientStep, ClientSemGet, ClientShmGet, ClientInput, ClientGetMem,
           ClientWrite, ClientSndReq, ClientRcvRpy, ClientPrint, ClientReset
  <2>5. ASSUME NEW c \in Clients, KillUntaken(c) PROVE FALSE
    BY <2>5 DEF KillUntaken, Kill
  <2>. QED
    BY <2>1, <2>2, <2>4, <2>5 DEF NextServing
<1>2. Inv /\ [NextServing]_vars => [Done]_vars
  BY <1>1, ServerResetKeepsFit
<1>. QED
  BY <1>2, ServingInv, PTL DEF Serving, ResetDone

-----------------------------------------------------------------------------
(***************************************************************************)
(* Serving implements RequestReply.  A client is seen by its pc, its line  *)
(* and its reply; Ask is ClientInput, Serve is ServerSolve, Take is        *)
(* ClientPrint, Abandon a signal that ends a client that asked.  Every     *)
(* other step leaves what is seen alone.                                   *)
(***************************************************************************)
Asking(c) == pc[c] \in {"getmem", "write", "snd", "rcv", "print"}

LEMMA ViewStays ==
  ASSUME NEW d \in Clients,
         Asking(d)' <=> Asking(d), Served(d)' <=> Served(d),
         Asking(d) => exit_str'[d] = exit_str[d],
         Asking(d) /\ Served(d) => result'[shmid'[d]] = result[shmid[d]]
  PROVE  phase'[d] = phase[d] /\ line'[d] = line[d] /\ reply'[d] = reply[d]
<1>1. phase'[d] = phase[d]
  BY DEF phase, Asking
<1>2. phase[d] = "idle" <=> ~ Asking(d)
  BY DEF phase, Asking
<1>3. phase[d] = "served" <=> Asking(d) /\ Served(d)
  BY DEF phase, Asking
<1>4. line'[d] = line[d]
  BY <1>1, <1>2 DEF line
<1>5. reply'[d] = reply[d]
  BY <1>1, <1>3 DEF reply
<1>. QED  BY <1>1, <1>4, <1>5

LEMMA ViewStutters ==
  ASSUME \A d \in Clients :
           phase'[d] = phase[d] /\ line'[d] = line[d] /\ reply'[d] = reply[d],
         UNCHANGED shown
  PROVE  UNCHANGED RR!vars
<1>1. phase' = phase
  BY DEF phase
<1>2. line' = line
  BY DEF line
<1>3. reply' = reply
  BY DEF reply
<1>. QED  BY <1>1, <1>2, <1>3 DEF RR!vars

LEMMA OneChanged ==
  ASSUME NEW S, NEW c \in S, NEW f, NEW g,
         f = [x \in S |-> f[x]], g = [x \in S |-> g[x]],
         \A d \in S \ {c} : g[d] = f[d]
  PROVE  g = [f EXCEPT ![c] = g[c]]
OBVIOUS

LEMMA ViewIsFunction ==
  /\ phase = [d \in Clients |-> phase[d]]
  /\ line = [d \in Clients |-> line[d]]
  /\ reply = [d \in Clients |-> reply[d]]
<1>1. phase = [d \in Clients |-> phase[d]]
  BY DEF phase
<1>2. line = [d \in Clients |-> line[d]]
  BY DEF line
<1>3. reply = [d \in Clients |-> reply[d]]
  BY DEF reply
<1>. QED  BY <1>1, <1>2, <1>3

(* One client's view changes. *)
LEMMA ViewOf ==
  ASSUME NEW c \in Clients,
         \A d \in Clients \ {c} :
           phase'[d] = phase[d] /\ line'[d] = line[d] /\ reply'[d] = reply[d]
  PROVE  /\ phase' = [phase EXCEPT ![c] = phase'[c]]
         /\ line' = [line EXCEPT ![c] = line'[c]]
         /\ reply' = [reply EXCEPT ![c] = reply'[c]]
<1>1. phase = [d \in Clients |-> phase[d]] /\ phase' = [d \in Clients |-> phase'[d]]
  BY DEF phase
<1>2. line = [d \in Clients |-> line[d]] /\ line' = [d \in Clients |-> line'[d]]
  BY DEF line
<1>3. reply = [d \in Clients |-> reply[d]] /\ reply' = [d \in Clients |-> reply'[d]]
  BY DEF reply
<1>4. phase' = [phase EXCEPT ![c] = phase'[c]]
  BY <1>1, OneChanged
<1>5. line' = [line EXCEPT ![c] = line'[c]]
  BY <1>2, OneChanged
<1>6. reply' = [reply EXCEPT ![c] = reply'[c]]
  BY <1>3, OneChanged
<1>. QED  BY <1>4, <1>5, <1>6

(* While nobody is in an exchange, what the server does is not seen. *)
LEMMA ServerOutsideStutters ==
  ASSUME Inv, \A c \in Clients : ~ InExchange(c) /\ pc'[c] = pc[c],
         UNCHANGED userVars
  PROVE  UNCHANGED RR!vars
<1>1. ASSUME NEW d \in Clients
      PROVE  /\ Asking(d)' <=> Asking(d)
             /\ ~ Served(d) /\ ~ Served(d)'
             /\ exit_str'[d] = exit_str[d]
  BY DEF Asking, Served, InExchange, userVars
<1>2. \A d \in Clients :
        phase'[d] = phase[d] /\ line'[d] = line[d] /\ reply'[d] = reply[d]
  BY <1>1, ViewStays
<1>. QED
  BY <1>2, ViewStutters DEF userVars

LEMMA ServerStepRefines ==
  ASSUME Inv, Inv', ServerStep \/ KillIdleServer
  PROVE  RR!Next \/ UNCHANGED RR!vars
<1>. USE DEF Inv, SpecInv, TypeOK
<1>1. CASE \/ ServerSemGet \/ ServerSemCreate \/ ServerShmGet
           \/ ServerShmCreate \/ ServerReset \/ KillIdleServer
  <2>1. /\ \A c \in Clients : pc'[c] = pc[c]
        /\ ~ ServerUp \/ KillIdleServer
        /\ UNCHANGED userVars
    BY <1>1, GotoServer, Places
       DEF ServerSemGet, ServerSemCreate, ServerShmGet, ServerShmCreate,
           ServerReset, KillIdleServer, Kill, ServerPC, ServerUp, PcTypeOK
  <2>2. \A c \in Clients : ~ InExchange(c)
    BY <2>1, Alone DEF KillIdleServer
  <2>. QED
    BY <2>1, <2>2, ServerOutsideStutters
<1>2. CASE ServerRcvReq \/ ServerRead \/ ServerSndRpy
  <2>1. /\ \A c \in Clients : pc'[c] = pc[c]
        /\ UNCHANGED <<exit_str, shown, result, shmid>>
    BY <1>2, GotoServer
       DEF ServerRcvReq, ServerRead, ServerSndRpy, ServerPC, userVars,
           shmVars, ipcVars
  <2>2. ASSUME NEW d \in Clients, pc[d] = "rcv"
        PROVE  Served(d)' <=> Served(d)
    <3>1. CASE ServerRcvReq
      <4>1. pc[Server] = "rcv" /\ pc'[Server] = "read" /\ Sem(1, 0)
        BY <2>2, <3>1, GotoServer, RcvReqTakes, Alone
           DEF ServerRcvReq, ServerPC, Sem, InExchange
      <4>. QED  BY <2>1, <2>2, <4>1 DEF Served, Sem
    <3>2. CASE ServerRead
      <4>1. pc[Server] = "read" /\ pc'[Server] = "solve"
        BY <3>2, GotoServer DEF ServerRead, ServerPC
      <4>. QED  BY <2>1, <2>2, <4>1 DEF Served
    <3>3. CASE ServerSndRpy
      <4>1. /\ pc[Server] = "reply" /\ pc'[Server] = "rcv"
            /\ Sem(1, 1)' \/ Sem(0, 0)'
        BY <3>3, GotoServer, SndRpyPosts DEF ServerSndRpy, ServerPC
      <4>. QED  BY <2>1, <2>2, <4>1 DEF Served, Sem
    <3>. QED  BY <1>2, <3>1, <3>2, <3>3
  <2>3. ASSUME NEW d \in Clients
        PROVE  (Asking(d)' <=> Asking(d)) /\ (Served(d)' <=> Served(d))
    BY <2>1, <2>2 DEF Asking, Served
  <2>. QED
    BY <2>1, <2>3, ViewStays, ViewStutters
<1>3. CASE ServerSolve
  <2>0. /\ pc[Server] = "solve" /\ pc'[Server] = "reply"
        /\ \A c \in Clients : pc'[c] = pc[c]
    BY <1>3, GotoServer DEF ServerSolve, ServerPC
  <2>1. PICK c \in Clients :
          /\ pc[c] = "rcv" /\ Waiting(c)
          /\ \A d \in Clients \ {c} : ~ InExchange(d)
    BY <2>0, Serving1
  <2>2. UNCHANGED <<exit_str, shown, shmid>>
    BY <1>3 DEF ServerSolve, userVars, ipcVars
  <2>3. ASSUME NEW d \in Clients \ {c}
        PROVE  phase'[d] = phase[d] /\ line'[d] = line[d] /\ reply'[d] = reply[d]
    <3>1. /\ Asking(d)' <=> Asking(d)
          /\ ~ Served(d) /\ ~ Served(d)'
      BY <2>0, <2>1 DEF Asking, Served, InExchange
    <3>. QED  BY <2>2, <3>1, ViewStays
  <2>4. /\ phase[c] = "asked" /\ phase'[c] = "served"
        /\ line[c] = exit_str[c] /\ line'[c] = exit_str[c]
        /\ reply[c] = NoResult
        /\ reply'[c] = IF exit_str[c] # Quit THEN result'[shmid[c]]
                                             ELSE NoResult
    BY <2>0, <2>1, <2>2 DEF phase, line, reply, Served
  <2>5. exit_str[c] # Quit => result'[shmid[c]] \in find_answer[exit_str[c]]
    <3>1. shmid[Server] = 1 /\ shmid[c] = 1 /\ 1 \in Segments
      BY <2>0, <2>1, SemaAssumption DEF Fit, OneSet, Segments
    <3>2. buffer_equation = exit_str[c]
      BY <2>0, <2>1 DEF Waiting
    <3>. QED  BY <1>3, <3>1, <3>2 DEF ServerSolve, DataTypeOK
  <2>6. /\ phase' = [phase EXCEPT ![c] = "served"]
        /\ line' = line
        /\ reply' = [reply EXCEPT ![c] = reply'[c]]
    BY <2>3, <2>4, ViewOf, ViewIsFunction
  <2>7. exit_str[c] \in DOMAIN find_answer <=> exit_str[c] # Quit
    BY SemaAssumption DEF DataTypeOK, Lines
  <2>8. reply' = reply \/ exit_str[c] # Quit
    BY <2>4, <2>6, ViewIsFunction
  <2>9. RR!Serve(c)
    BY <2>2, <2>4, <2>5, <2>6, <2>7, <2>8 DEF RR!Serve
  <2>. QED  BY <2>9 DEF RR!Next
<1>. QED
  BY <1>1, <1>2, <1>3 DEF ServerStep

(* A client's step that leaves its phase alone. *)
LEMMA ClientStutters ==
  ASSUME Inv, NEW c \in Clients,
         pc'[Server] = pc[Server], \A d \in Clients \ {c} : pc'[d] = pc[d],
         \A d \in Clients \ {c} :
           exit_str'[d] = exit_str[d] /\ shmid'[d] = shmid[d],
         Asking(c)' <=> Asking(c), Served(c)' <=> Served(c),
         Asking(c) => exit_str'[c] = exit_str[c] /\ shmid'[c] = shmid[c],
         \/ UNCHANGED semVars
         \/ \A d \in Clients \ {c} : ~ InExchange(d),
         UNCHANGED <<result, shown>>
  PROVE  UNCHANGED RR!vars
<1>1. \A d \in Clients \ {c} :
        (Asking(d)' <=> Asking(d)) /\ (Served(d)' <=> Served(d))
  BY DEF Asking, Served, InExchange, semVars
<1>2. \A d \in Clients :
        phase'[d] = phase[d] /\ line'[d] = line[d] /\ reply'[d] = reply[d]
  BY <1>1, ViewStays
<1>. QED  BY <1>2, ViewStutters

LEMMA ClientStepRefines ==
  ASSUME Inv, Inv', NEW c \in Clients, ClientStep(c)
  PROVE  RR!Next \/ UNCHANGED RR!vars
<1>. USE DEF Inv, SpecInv, TypeOK
<1>1. CASE ClientSemGet(c)
  <2>1. /\ pc[c] = "off" /\ pc'[c] = "shmget" /\ pc'[Server] = pc[Server]
        /\ \A d \in Clients \ {c} : pc'[d] = pc[d]
    BY <1>1, GotoClient DEF ClientSemGet, ClientPC
  <2>. QED
    BY <1>1, <2>1, ClientStutters
       DEF ClientSemGet, Asking, Served, userVars, shmVars
<1>2. CASE ClientShmGet(c)
  <2>1. /\ pc[c] = "shmget" /\ pc'[c] \in {"off", "loop"}
        /\ pc'[Server] = pc[Server]
        /\ \A d \in Clients \ {c} : pc'[d] = pc[d]
    BY <1>2, GotoClient DEF ClientShmGet, ClientPC
  <2>2. \A d \in Clients \ {c} :
          exit_str'[d] = exit_str[d] /\ shmid'[d] = shmid[d]
    BY <1>2, Places DEF ClientShmGet, DataTypeOK, IpcTypeOK
  <2>3. ~ Asking(c) /\ ~ Asking(c)' /\ ~ Served(c) /\ ~ Served(c)'
    BY <2>1 DEF Asking, Served
  <2>. QED
    BY <1>2, <2>1, <2>2, <2>3, ClientStutters DEF ClientShmGet, shmVars
<1>3. CASE ClientInput(c)
  <2>1. /\ pc[c] = "loop" /\ pc'[c] = "getmem" /\ pc'[Server] = pc[Server]
        /\ \A d \in Clients \ {c} : pc'[d] = pc[d]
    BY <1>3, GotoClient DEF ClientInput, ClientPC
  <2>2. /\ \A d \in Clients \ {c} : exit_str'[d] = exit_str[d]
        /\ exit_str'[c] \in Lines
        /\ UNCHANGED <<semVars, shmid, result, shown>>
    BY <1>3 DEF ClientInput, DataTypeOK, ipcVars, shmVars
  <2>3. ASSUME NEW d \in Clients \ {c}
        PROVE  /\ phase'[d] = phase[d] /\ line'[d] = line[d]
               /\ reply'[d] = reply[d]
    BY <2>1, <2>2, ViewStays DEF Asking, Served, semVars
  <2>4. /\ phase[c] = "idle" /\ phase'[c] = "asked"
        /\ line'[c] = exit_str'[c]
        /\ reply[c] = NoResult /\ reply'[c] = NoResult
    BY <2>1 DEF phase, line, reply, Served
  <2>5. /\ phase' = [phase EXCEPT ![c] = "asked"]
        /\ line' = [line EXCEPT ![c] = exit_str'[c]]
        /\ reply' = reply
    BY <2>3, <2>4, ViewOf, ViewIsFunction
  <2>6. RR!Ask(c)
    BY <2>2, <2>4, <2>5 DEF RR!Ask
  <2>. QED  BY <2>6 DEF RR!Next
<1>4. CASE ClientGetMem(c)
  <2>1. /\ pc[c] = "getmem" /\ pc'[c] = "write" /\ pc'[Server] = pc[Server]
        /\ \A d \in Clients \ {c} : pc'[d] = pc[d]
    BY <1>4, GotoClient DEF ClientGetMem, ClientPC
  <2>2. InExchange(c)' /\ (\A d \in Clients \ {c} : ~ InExchange(d))
    BY <2>1 DEF InExchange, Fit, MutualExclusion
  <2>. QED
    BY <1>4, <2>1, <2>2, ClientStutters
       DEF ClientGetMem, Asking, Served, userVars, shmVars, ipcVars
<1>5. CASE ClientWrite(c)
  <2>1. /\ pc[c] = "write" /\ pc'[c] = "snd" /\ pc'[Server] = pc[Server]
        /\ \A d \in Clients \ {c} : pc'[d] = pc[d]
    BY <1>5, GotoClient DEF ClientWrite, ClientPC
  <2>. QED
    BY <1>5, <2>1, ClientStutters
       DEF ClientWrite, Asking, Served, userVars, ipcVars
<1>6. CASE ClientSndReq(c)
  <2>1. /\ pc[c] = "snd" /\ pc'[c] = "rcv" /\ pc'[Server] = pc[Server]
        /\ \A d \in Clients \ {c} : pc'[d] = pc[d]
    BY <1>6, GotoClient DEF ClientSndReq, ClientPC
  <2>2. InExchange(c) /\ (\A d \in Clients \ {c} : ~ InExchange(d))
    BY <2>1, Alone DEF InExchange
  <2>3. Preparing(c) /\ Sem(1, 0)'
    BY <1>6, <2>1, Sets, Places, SndReqEffect
       DEF Fit, Exchange, ClientSndReq, Preparing, Sem
  <2>4. ~ Served(c) /\ ~ Served(c)'
    BY <2>1, <2>3 DEF Served, Preparing, Sem
  <2>. QED
    BY <1>6, <2>1, <2>2, <2>4, ClientStutters
       DEF ClientSndReq, Asking, userVars, shmVars, ipcVars
<1>7. CASE ClientRcvRpy(c)
  <2>1. /\ pc[c] = "rcv" /\ pc'[c] = "print" /\ pc'[Server] = pc[Server]
        /\ \A d \in Clients \ {c} : pc'[d] = pc[d]
    BY <1>7, GotoClient DEF ClientRcvRpy, ClientPC
  <2>2. InExchange(c) /\ (\A d \in Clients \ {c} : ~ InExchange(d))
    BY <2>1, Alone DEF InExchange
  <2>3. Waiting(c) /\ s0 >= 1 /\ s1 >= 1
    BY <1>7, <2>1, Sets, Places, RcvRpyEffect
       DEF Fit, Exchange, ClientRcvRpy, Waiting
  <2>4. Served(c) /\ Served(c)'
    BY <2>1, <2>3 DEF Served, Waiting, Sem
  <2>. QED
    BY <1>7, <2>1, <2>2, <2>4, ClientStutters
       DEF ClientRcvRpy, Asking, userVars, shmVars, ipcVars
<1>8. CASE ClientPrint(c)
  <2>1. /\ pc[c] = "print" /\ pc'[c] = "reset" /\ pc'[Server] = pc[Server]
        /\ \A d \in Clients \ {c} : pc'[d] = pc[d]
    BY <1>8, GotoClient DEF ClientPrint, ClientPC
  <2>2. UNCHANGED <<semVars, exit_str, shmid, result>>
    BY <1>8 DEF ClientPrint, shmVars, ipcVars
  <2>3. ASSUME NEW d \in Clients \ {c}
        PROVE  /\ phase'[d] = phase[d] /\ line'[d] = line[d]
               /\ reply'[d] = reply[d]
    BY <2>1, <2>2, ViewStays DEF Asking, Served, semVars
  <2>4. /\ phase[c] = "served" /\ phase'[c] = "idle"
        /\ line[c] = exit_str[c] /\ line'[c] = Blank
        /\ exit_str[c] # Quit => reply[c] = result[shmid[c]]
        /\ reply'[c] = NoResult
    BY <2>1 DEF phase, line, reply, Served
  <2>5. /\ phase' = [phase EXCEPT ![c] = "idle"]
        /\ line' = [line EXCEPT ![c] = Blank]
        /\ reply' = [reply EXCEPT ![c] = NoResult]
    BY <2>3, <2>4, ViewOf
  <2>6. exit_str[c] \in DOMAIN find_answer <=> exit_str[c] # Quit
    BY SemaAssumption DEF DataTypeOK, Lines
  <2>7. RR!Take(c)
    BY <1>8, <2>4, <2>5, <2>6 DEF RR!Take, RR!Finish, ClientPrint
  <2>. QED  BY <2>7 DEF RR!Next
<1>9. CASE ClientReset(c)
  <2>1. /\ pc[c] = "reset" /\ pc'[c] = "loop" /\ pc'[Server] = pc[Server]
        /\ \A d \in Clients \ {c} : pc'[d] = pc[d]
    BY <1>9, GotoClient DEF ClientReset, ClientPC
  <2>2. InExchange(c) /\ (\A d \in Clients \ {c} : ~ InExchange(d))
    BY <2>1, Alone DEF InExchange
  <2>. QED
    BY <1>9, <2>1, <2>2, ClientStutters
       DEF ClientReset, Asking, Served, userVars, shmVars, ipcVars
<1>. QED
  BY <1>1, <1>2, <1>3, <1>4, <1>5, <1>6, <1>7, <1>8, <1>9 DEF ClientStep

LEMMA KillRefines ==
  ASSUME Inv, Inv', NEW c \in Clients, KillUntaken(c)
  PROVE  RR!Next \/ UNCHANGED RR!vars
<1>. USE DEF Inv, SpecInv, TypeOK
<1>0. /\ pc'[c] = "off" /\ pc'[Server] = pc[Server]
      /\ \A d \in Clients \ {c} : pc'[d] = pc[d]
      /\ UNCHANGED <<exit_str, shown, result, shmid>>
  BY Places
     DEF KillUntaken, Kill, PcTypeOK, ipcVars, shmVars, userVars
<1>1. /\ ~ Served(c) /\ ~ Served(c)' /\ ~ Asking(c)'
      /\ pc[c] \in {"shmget", "loop", "getmem", "write", "snd", "rcv"}
  BY <1>0 DEF KillUntaken, Untaken, Served, Asking, Fit, Exchange, Waiting, Sem
<1>2. ASSUME NEW d \in Clients \ {c}
      PROVE  (Asking(d)' <=> Asking(d)) /\ (Served(d)' <=> Served(d))
  <2>1. CASE InExchange(c)
    BY <1>0, <2>1, Alone DEF Asking, Served, InExchange
  <2>2. CASE ~ InExchange(c)
    <3>1. adj0[c] = 0 /\ adj1[c] = 0
      BY <2>2 DEF KillUntaken, Untaken, InExchange, Fit, Adjustments
    <3>2. s0' = s0 /\ s1' = s1
      BY <3>1, AdjTypes, Places DEF KillUntaken, Kill, exit_sem, Clamp
    <3>. QED  BY <1>0, <3>2 DEF Asking, Served
  <2>. QED  BY <2>1, <2>2
<1>3. ASSUME NEW d \in Clients \ {c}
      PROVE  phase'[d] = phase[d] /\ line'[d] = line[d] /\ reply'[d] = reply[d]
  BY <1>0, <1>2, ViewStays
<1>4. CASE Asking(c)
  <2>1. /\ phase[c] = "asked" /\ phase'[c] = "idle" /\ line'[c] = Blank
        /\ reply'[c] = NoResult
    BY <1>1, <1>4 DEF phase, line, reply, Asking
  <2>2. /\ phase' = [phase EXCEPT ![c] = "idle"]
        /\ line' = [line EXCEPT ![c] = Blank]
        /\ reply' = [reply EXCEPT ![c] = NoResult]
    BY <1>3, <2>1, ViewOf
  <2>3. RR!Abandon(c)
    BY <1>0, <2>1, <2>2 DEF RR!Abandon, RR!Finish
  <2>. QED  BY <2>3 DEF RR!Next
<1>5. CASE ~ Asking(c)
  <2>1. phase'[c] = phase[c] /\ line'[c] = line[c] /\ reply'[c] = reply[c]
    BY <1>0, <1>1, <1>5, ViewStays
  <2>. QED  BY <1>0, <1>3, <2>1, ViewStutters
<1>. QED
  BY <1>4, <1>5

(* While the server is stopped between exchanges only and clients stay,    *)
(* every request is computed once, for one client, and shown to it.        *)
THEOREM ServingRefinesRequestReply == Serving => ImplementsRequestReply
<1>1. Init => RR!Init
  BY SemaAssumption DEF Init, RR!Init, phase, line, reply, Served, Procs
<1>2. Inv /\ Inv' /\ [NextServing]_vars => [RR!Next]_(RR!vars)
  <2>1. CASE UNCHANGED vars
    BY <2>1
       DEF vars, semVars, ipcVars, shmVars, userVars, RR!vars, phase, line,
           reply, Served
  <2>. QED
    BY <2>1, ServerStepRefines, ClientStepRefines, KillRefines
       DEF NextServing
<1>. QED
  BY <1>1, <1>2, ServingInv, PTL
     DEF Serving, ImplementsRequestReply, RR!Spec
=============================================================================
