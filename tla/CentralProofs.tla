--------------------------- MODULE CentralProofs ---------------------------
(***************************************************************************)
(* For any number of clients and children, any flags children find, and    *)
(* whatever is killed and started again: the types, that the messages of a *)
(* child are at most one, and that a request SemaphorServer took is never  *)
(* lost with it.                                                           *)
(*                                                                         *)
(* Inv is the invariant of Spec, in two parts that have no variable but pc *)
(* and mes in common: SemInv of the semaphores, QueInv of the queue.       *)
(***************************************************************************)
EXTENDS CentralServer, TLAPS

QP == INSTANCE SysVMsgProofs WITH Clients <- Children, Server <- QueServer

USE CourseAssumption, SemaphorAssumption, QueueAssumption, NoMsgAssumption,
    CentralAssumption

AllPC == ClientPC \union ChildPC \union SemServerPC \union QueServerPC

(* What the counters of sets and segments allow the next steps. *)
SemCounts ==
  /\ sets + (IF pc[SemServer] = "sem_create" THEN 1 ELSE 0) <= semStarts
  /\ segs + (IF pc[SemServer] \in {"sem_create", "shm_get", "shm_create"}
             THEN 1 ELSE 0) <= semStarts

(* A child has a segment before it writes to it or reads it. *)
Attached ==
  \A k \in Children :
    pc[k] \in {"sem_getmem", "sem_write", "sem_snd", "sem_rcv", "sem_read",
               "sem_reset"} => shmid[k] # 0

(* The server's adjustment holds the request it took, as long as the set   *)
(* exists that it came from.                                               *)
Recorded ==
  /\ sops[SemServer] = UndoSops
  /\ adj0[SemServer] >= 0
  /\ HasSet(SemServer) /\ pc[SemServer] \in {"write", "answer"}
       => adj0[SemServer] >= 1

SemInv == SemTypeOK /\ SemCounts /\ Attached /\ Recorded

(* What the next call of a process tells of the messages. *)
QueByPc ==
  /\ \A p \in asleep : buf[p] = NoMsg
  /\ \A k \in Children : k \in asleep \/ buf[k] # NoMsg => pc[k] = "que_rcv"
  /\ QueServer \in asleep \/ buf[QueServer] # NoMsg => pc[QueServer] = "rcv"
  /\ ans # NoMsg <=> pc[QueServer] = "snd"
  /\ buf[QueServer] # NoMsg => buf[QueServer].kind = "request"

InQueue(k)  == {i \in DOMAIN queue : queue[i].type = k}
AtServer(k) ==
  \/ buf[QueServer] # NoMsg /\ buf[QueServer].type = k
  \/ ans # NoMsg /\ ans.type = k

(* The messages of k are none before it sends one, and one at most then.   *)
Own(k) ==
  /\ pc[k] \in {"unused", "recv", "que_open", "que_snd"}
       => InQueue(k) = {} /\ ~ AtServer(k)
  /\ \A i, l \in InQueue(k) : i = l
  /\ InQueue(k) # {} => ~ AtServer(k) /\ buf[k] = NoMsg
  /\ AtServer(k) => buf[k] = NoMsg

QueInv ==
  /\ QueTypeOK /\ queues <= queStarts /\ QueByPc
  /\ \A k \in Children : Own(k)

TcpTypeOK ==
  /\ listening \in BOOLEAN /\ backlog \in Seq(Clients)
  /\ conn \in [Children -> Clients \union {NoText}]
  /\ link \in [Clients -> Links]
  /\ up \in [Clients -> Choices \union {NoChoice}]
  /\ down \in [Clients -> Texts \union {NoText}]
  /\ shown \in [Clients -> Texts \union {NoText}]

PcTypeOK ==
  /\ pc \in [Procs -> AllPC]
  /\ \A c \in Clients : pc[c] \in ClientPC
  /\ \A k \in Children : pc[k] \in ChildPC
  /\ pc[SemServer] \in SemServerPC /\ pc[QueServer] \in QueServerPC

MesTypeOK == mes \in [Children -> Texts]

Inv == PcTypeOK /\ MesTypeOK /\ SemInv /\ QueInv /\ TcpTypeOK

-----------------------------------------------------------------------------
(* The processes. *)

LEMMA Places ==
  /\ SemServer \in Procs /\ QueServer \in Procs /\ SemServer # QueServer
  /\ Children \subseteq Procs /\ Clients \subseteq Procs
  /\ \A k \in Children : k # SemServer /\ k # QueServer /\ k \notin Clients
  /\ \A c \in Clients : c # SemServer /\ c # QueServer
  BY DEF Procs

LEMMA SomeTexts ==
  /\ Question \in Texts /\ SemAnswer \in Texts /\ QueAnswer \in Texts
  /\ Shifted \in Texts /\ Empty \in Texts
  BY DEF Texts

LEMMA SetPc ==
  ASSUME PcTypeOK, NEW p \in Procs, NEW to, pc' = [pc EXCEPT ![p] = to],
         p \in Children => to \in ChildPC,
         p \in Clients => to \in ClientPC,
         p = SemServer => to \in SemServerPC,
         p = QueServer => to \in QueServerPC
  PROVE  /\ PcTypeOK' /\ pc'[p] = to
         /\ \A q \in Procs \ {p} : pc'[q] = pc[q]
<1>1. to \in AllPC
  BY DEF Procs, AllPC
<1> QED BY <1>1, Places DEF PcTypeOK

LEMMA GotoSemServer ==
  ASSUME PcTypeOK, NEW from, NEW to \in SemServerPC, Goto(SemServer, from, to)
  PROVE  /\ PcTypeOK' /\ pc[SemServer] = from /\ pc'[SemServer] = to
         /\ \A q \in Procs \ {SemServer} : pc'[q] = pc[q]
  BY SetPc, Places DEF Goto

LEMMA GotoQueServer ==
  ASSUME PcTypeOK, NEW from, NEW to \in QueServerPC, Goto(QueServer, from, to)
  PROVE  /\ PcTypeOK' /\ pc[QueServer] = from /\ pc'[QueServer] = to
         /\ \A q \in Procs \ {QueServer} : pc'[q] = pc[q]
  BY SetPc, Places DEF Goto

LEMMA GotoChild ==
  ASSUME PcTypeOK, NEW k \in Children, NEW from, NEW to \in ChildPC, Goto(k, from, to)
  PROVE  /\ PcTypeOK' /\ pc[k] = from /\ pc'[k] = to
         /\ \A q \in Procs \ {k} : pc'[q] = pc[q]
  BY SetPc, Places DEF Goto

LEMMA GotoClient ==
  ASSUME PcTypeOK, NEW c \in Clients, NEW from, NEW to \in ClientPC, Goto(c, from, to)
  PROVE  /\ PcTypeOK' /\ pc[c] = from /\ pc'[c] = to
         /\ \A q \in Procs \ {c} : pc'[q] = pc[q]
  BY SetPc, Places DEF Goto

-----------------------------------------------------------------------------
(* The semaphores: what one process does to the values and to its own      *)
(* adjustments.                                                            *)

Values ==
  /\ s0 \in 0 .. SEMAEM /\ s1 \in 0 .. SEMAEM
  /\ adj0 \in [SemProcs -> -SEMAEM - 1 .. SEMAEM]
  /\ adj1 \in [SemProcs -> -SEMAEM - 1 .. SEMAEM]

IpcTypes ==
  /\ semStarts \in 0 .. SemStarts
  /\ sets \in 0 .. SemStarts /\ theSet \in 0 .. sets
  /\ segs \in 0 .. SemStarts /\ theSeg \in 0 .. segs
  /\ semid \in [SemProcs -> 0 .. SemStarts]
  /\ shmid \in [SemProcs -> 0 .. SemStarts]
  /\ sops \in [SemProcs -> FlagsFound \union {UndoSops}]

LEMMA SemTypes ==
  /\ SemTypeOK <=> Values /\ IpcTypes /\ shmes \in [1 .. SemStarts -> Texts]
  /\ SemTypeOK' <=> Values' /\ IpcTypes' /\ shmes' \in [1 .. SemStarts -> Texts]
  BY DEF SemTypeOK, Values, IpcTypes

LEMMA OpsAreSmall ==
  \A status \in DOMAIN sem_op0 :
    sem_op0[status] \in -1 .. 1 /\ sem_op1[status] \in -1 .. 1
  BY DEF sem_op0, sem_op1

LEMMA SemopValues ==
  ASSUME Values, NEW p \in SemProcs, NEW status \in DOMAIN sem_op0,
         NEW u0 \in BOOLEAN, NEW u1 \in BOOLEAN, semop(p, status, u0, u1)
  PROVE  /\ Values'
         /\ adj0'[p] = IF u0 THEN adj0[p] - sem_op0[status] ELSE adj0[p]
         /\ \A q \in SemProcs \ {p} : adj0'[q] = adj0[q] /\ adj1'[q] = adj1[q]
<1> DEFINE a0 == IF u0 THEN adj0[p] - sem_op0[status] ELSE adj0[p]
           a1 == IF u1 THEN adj1[p] - sem_op1[status] ELSE adj1[p]
<1>1. sem_op0[status] \in -1 .. 1 /\ sem_op1[status] \in -1 .. 1
  BY OpsAreSmall
<1>2. s0' \in 0 .. SEMAEM /\ s1' \in 0 .. SEMAEM
  BY <1>1 DEF semop, Passes0, Passes1, OpPasses, Fits0, Fits1, InRange, Values
<1>3. a0 \in -SEMAEM - 1 .. SEMAEM /\ a1 \in -SEMAEM - 1 .. SEMAEM
  BY <1>1 DEF semop, Fits0, Fits1, InRange, Values
<1>4. adj0' = [adj0 EXCEPT ![p] = a0] /\ adj1' = [adj1 EXCEPT ![p] = a1]
  BY DEF semop, Adjusted, Values
<1> HIDE DEF a0, a1
<1>5. /\ Values' /\ adj0'[p] = a0
      /\ \A q \in SemProcs \ {p} : adj0'[q] = adj0[q] /\ adj1'[q] = adj1[q]
  BY <1>2, <1>3, <1>4 DEF Values
<1> QED BY <1>5 DEF a0

LEMMA GetsemValues ==
  ASSUME Values, IpcTypes, NEW p \in SemProcs, NEW status \in DOMAIN sem_op0,
         getsem(p, status)
  PROVE  /\ Values'
         /\ \A q \in SemProcs \ {p} : adj0'[q] = adj0[q] /\ adj1'[q] = adj1[q]
<1>1. sops[p].undo0 \in BOOLEAN /\ sops[p].undo1 \in BOOLEAN
  <2>1. UndoSops \in Sops /\ FlagsFound \subseteq Sops
    BY DEF Sops, UndoSops
  <2>2. sops[p] \in Sops
    BY <2>1 DEF IpcTypes
  <2> QED BY <2>2 DEF Sops
<1>2. CASE semop(p, status, sops[p].undo0, sops[p].undo1)
  BY <1>1, <1>2, SemopValues
<1>3. CASE UNCHANGED semVars
  BY <1>3 DEF semVars, Values
<1> QED BY <1>2, <1>3 DEF getsem, semop_ERANGE, semop_EAGAIN

LEMMA ExitValues ==
  ASSUME Values, NEW p \in SemProcs, exit_sem(p)
  PROVE  /\ Values' /\ adj0'[p] = 0 /\ adj1'[p] = 0
         /\ \A q \in SemProcs \ {p} : adj0'[q] = adj0[q] /\ adj1'[q] = adj1[q]
         /\ adj0[p] >= 1 => s0' >= 1
<1>1. ASSUME NEW v \in Int
      PROVE  Clamp(v) \in 0 .. SEMAEM /\ (v >= 1 => Clamp(v) >= 1)
  BY DEF Clamp
<1>2. s0 + adj0[p] \in Int /\ s1 + adj1[p] \in Int /\ (adj0[p] >= 1 => s0 + adj0[p] >= 1)
  BY DEF Values
<1> QED BY <1>1, <1>2 DEF exit_sem, Values

LEMMA RemovedValues ==
  ASSUME RemoveSet
  PROVE  /\ Values' /\ theSet' = 0
         /\ \A q \in SemProcs : adj0'[q] = 0 /\ adj1'[q] = 0
  BY DEF RemoveSet, Values

(* The server records what it takes: with SEM_UNDO, and if its adjustment  *)
(* is at the limit, it is above 0 all the same.                            *)
LEMMA ServerRecords ==
  ASSUME Values, sops[SemServer] = UndoSops, HasSet(SemServer),
         NEW status \in {"SERVER_RCV_REQ", "SERVER_SND_RPY", "RESET_MEM"},
         getsem(SemServer, status), adj0[SemServer] >= 0,
         status = "SERVER_SND_RPY" => adj0[SemServer] >= 1
  PROVE  /\ adj0'[SemServer] >= 0
         /\ status = "SERVER_RCV_REQ" => adj0'[SemServer] >= 1
<1>1. /\ SemServer \in SemProcs /\ status \in DOMAIN sem_op0
      /\ sops[SemServer].undo0 = TRUE /\ sops[SemServer].undo1 = TRUE
      /\ sops[SemServer].nowait0 = FALSE /\ sops[SemServer].nowait1 = FALSE
      /\ adj0[SemServer] \in Int
  BY DEF SemProcs, sem_op0, UndoSops, Values
<1>2. CASE semop(SemServer, status, TRUE, TRUE)
  <2>1. adj0'[SemServer] = adj0[SemServer] - sem_op0[status]
    BY <1>1, <1>2, SemopValues
  <2> QED BY <1>1, <2>1 DEF sem_op0
<1>3. CASE semop_ERANGE(SemServer, status, TRUE, TRUE)
  <2>1. adj0' = adj0
    BY <1>3 DEF semop_ERANGE, semVars
  <2>2. ASSUME status = "SERVER_RCV_REQ" PROVE adj0[SemServer] = SEMAEM
    BY <1>1, <1>3, <2>2
       DEF semop_ERANGE, Fits0, Fits1, Passes0, Passes1, InRange, OpPasses,
           sem_op0, sem_op1, Values
  <2> QED BY <2>1, <2>2
<1>4. ~ semop_EAGAIN(SemServer, status)
  BY <1>1 DEF semop_EAGAIN
<1> QED BY <1>1, <1>2, <1>3, <1>4 DEF getsem

-----------------------------------------------------------------------------
(* Steps that are no concern of one of the parts. *)

Attacheds == {"sem_getmem", "sem_write", "sem_snd", "sem_rcv", "sem_read", "sem_reset"}
NotSent   == {"unused", "recv", "que_open", "que_snd"}

LEMMA SemStays ==
  ASSUME SemInv, UNCHANGED semPart, pc'[SemServer] = pc[SemServer],
         \A k \in Children : pc'[k] \in Attacheds => pc[k] \in Attacheds
  PROVE  SemInv'
<1>1. UNCHANGED <<s0, s1, adj0, adj1, sets, theSet, segs, theSeg, semid, shmid, sops,
                  shmes, semStarts>>
  BY DEF semPart, semVars, semIpc
<1>2. SemTypeOK'
  BY <1>1 DEF SemInv, SemTypeOK
<1>3. SemCounts' /\ Attached'
  BY <1>1 DEF SemInv, SemCounts, Attached, Attacheds
<1>4. Recorded'
  BY <1>1 DEF SemInv, Recorded, HasSet
<1> QED BY <1>2, <1>3, <1>4 DEF SemInv

LEMMA QueStays ==
  ASSUME QueInv, UNCHANGED quePart, pc'[QueServer] = pc[QueServer],
         \A k \in Children : /\ pc'[k] \in NotSent => pc[k] \in NotSent
                             /\ pc[k] = "que_rcv" => pc'[k] = "que_rcv"
  PROVE  QueInv'
<1>1. UNCHANGED <<queue, asleep, buf, queues, theQueue, msid, ans, queStarts>>
  BY DEF quePart, msgVars, queIpc
<1>2. QueTypeOK' /\ queues' <= queStarts'
  BY <1>1 DEF QueInv, QueTypeOK, Msg!BytesQueued, Msg!Queued
<1>3. QueByPc'
  <2>1. /\ asleep' = asleep /\ buf' = buf /\ ans' = ans /\ pc'[QueServer] = pc[QueServer]
        /\ \A k \in Children : pc[k] = "que_rcv" => pc'[k] = "que_rcv"
    BY <1>1
  <2>2. QueByPc
    BY DEF QueInv
  <2> QED BY <2>1, <2>2 DEF QueByPc
<1>4. ASSUME NEW k \in Children PROVE Own(k)'
  <2>1. pc'[k] \in NotSent => pc[k] \in NotSent
    OBVIOUS
  <2>2. Own(k) /\ queue' = queue /\ buf' = buf /\ ans' = ans
    BY <1>1 DEF QueInv
  <2>3. InQueue(k)' = InQueue(k) /\ (AtServer(k)' <=> AtServer(k))
    BY <2>2 DEF InQueue, AtServer
  <2> QED BY <2>1, <2>2, <2>3 DEF Own, NotSent
<1> QED BY <1>2, <1>3, <1>4 DEF QueInv

LEMMA TcpStays == ASSUME TcpTypeOK, UNCHANGED tcpPart PROVE TcpTypeOK'
  BY DEF TcpTypeOK, tcpPart

-----------------------------------------------------------------------------
(* The steps of the semaphore exchange. *)

LEMMA SemServerSets ==
  ASSUME PcTypeOK, SemInv,
         \/ SemServerSemGet \/ SemServerSemCreate \/ SemServerShmGet
         \/ SemServerShmCreate \/ SemServerShmFails
  PROVE  SemInv'
<1> USE DEF SemInv
<1>1. \A k \in Children : pc'[k] = pc[k] /\ shmid'[k] = shmid[k]
  <2>1. PICK from \in SemServerPC, to \in SemServerPC : Goto(SemServer, from, to)
    BY DEF SemServerSemGet, SemServerSemCreate, SemServerShmGet, SemServerShmCreate,
           SemServerShmFails, SemServerPC
  <2>2. \A k \in Children : pc'[k] = pc[k]
    BY <2>1, GotoSemServer, Places
  <2>3. shmid \in [SemProcs -> 0 .. SemStarts]
    BY DEF SemTypeOK
  <2>4. shmid' = shmid \/ shmid' = [shmid EXCEPT ![SemServer] = theSeg']
    BY DEF SemServerSemGet, SemServerSemCreate, SemServerShmGet, SemServerShmCreate,
           SemServerShmFails
  <2> QED BY <2>2, <2>3, <2>4, Places DEF SemProcs
<1>2. Attached'
  BY <1>1 DEF Attached
<1>3. SemServer \in SemProcs
  BY DEF SemProcs
<1>4. CASE SemServerSemGet
  <2>1. pc[SemServer] = "off" /\ pc'[SemServer] = "sem_create"
    BY <1>4, GotoSemServer DEF SemServerSemGet, SemServerPC
  <2>2. Values' /\ adj0'[SemServer] >= 0
    <3>1. CASE RemoveSet
      <4>1. Values' /\ adj0'[SemServer] = 0
        BY <1>3, <3>1, RemovedValues
      <4> QED BY <4>1
    <3>2. CASE UNCHANGED semVars
      BY <3>2, SemTypes DEF Values, semVars, Recorded
    <3> QED BY <1>4, <3>1, <3>2 DEF SemServerSemGet
  <2>3. SemTypeOK'
    BY <1>4, <2>2, SemTypes DEF SemServerSemGet, RemoveSet, IpcTypes
  <2>4. SemCounts'
    BY <1>4, <2>1 DEF SemServerSemGet, SemCounts, SemTypeOK
  <2>5. Recorded'
    BY <1>4, <2>1, <2>2 DEF SemServerSemGet, Recorded
  <2> QED BY <1>2, <2>3, <2>4, <2>5
<1>5. CASE SemServerSemCreate
  <2>1. pc[SemServer] = "sem_create" /\ pc'[SemServer] = "shm_get"
    BY <1>5, GotoSemServer DEF SemServerSemCreate, SemServerPC
  <2>2. Values' /\ adj0' = adj0
    BY <1>5, SemTypes DEF SemServerSemCreate, semVars, Values
  <2>3. sets' \in 0 .. SemStarts /\ theSet' \in 0 .. sets'
    BY <1>5, <2>1 DEF SemServerSemCreate, SemTypeOK, SemCounts
  <2>7. semid' \in [SemProcs -> 0 .. SemStarts]
    <3>1. theSet' \in 0 .. SemStarts
      BY <2>3
    <3> QED BY <1>5, <3>1 DEF SemServerSemCreate, SemTypeOK
  <2>8. IpcTypes'
    BY <1>5, <2>3, <2>7 DEF SemServerSemCreate, IpcTypes, SemTypeOK
  <2>4. SemTypeOK'
    BY <1>5, <2>2, <2>8, SemTypes DEF SemServerSemCreate
  <2>5. SemCounts'
    BY <1>5, <2>1 DEF SemServerSemCreate, SemCounts, SemTypeOK
  <2>6. Recorded'
    BY <1>5, <2>1, <2>2 DEF SemServerSemCreate, Recorded
  <2> QED BY <1>2, <2>4, <2>5, <2>6
<1>6. CASE SemServerShmGet
  <2>1. pc[SemServer] = "shm_get" /\ pc'[SemServer] = "shm_create"
    BY <1>6, GotoSemServer DEF SemServerShmGet, SemServerPC
  <2>2. SemTypeOK' /\ adj0' = adj0
    BY <1>6 DEF SemServerShmGet, semVars, SemTypeOK
  <2>3. SemCounts' /\ Recorded'
    BY <1>6, <2>1, <2>2 DEF SemServerShmGet, SemCounts, Recorded
  <2> QED BY <1>2, <2>2, <2>3
<1>7. CASE SemServerShmCreate
  <2>1. pc[SemServer] = "shm_create" /\ pc'[SemServer] = "reset"
    BY <1>7, GotoSemServer DEF SemServerShmCreate, SemServerPC
  <2>2. Values' /\ adj0' = adj0
    BY <1>7, SemTypes DEF SemServerShmCreate, semVars, Values
  <2>3. segs' \in 0 .. SemStarts /\ theSeg' \in 0 .. segs'
    BY <1>7, <2>1 DEF SemServerShmCreate, OpenSegment, SemTypeOK, SemCounts
  <2>7. shmid' \in [SemProcs -> 0 .. SemStarts]
    <3>1. theSeg' \in 0 .. SemStarts
      BY <2>3
    <3> QED BY <1>7, <3>1 DEF SemServerShmCreate, SemTypeOK
  <2>8. IpcTypes'
    BY <1>7, <2>3, <2>7 DEF SemServerShmCreate, IpcTypes, SemTypeOK
  <2>4. SemTypeOK'
    BY <1>7, <2>2, <2>8, SemTypes DEF SemServerShmCreate
  <2>5. SemCounts'
    BY <1>7, <2>1 DEF SemServerShmCreate, OpenSegment, SemCounts, SemTypeOK
  <2>6. Recorded'
    BY <1>3, <1>7, <2>1, <2>2 DEF SemServerShmCreate, Recorded, SemTypeOK
  <2> QED BY <1>2, <2>4, <2>5, <2>6
<1>8. CASE SemServerShmFails
  <2>1. pc[SemServer] = "shm_create" /\ pc'[SemServer] = "off"
    BY <1>8, GotoSemServer DEF SemServerShmFails, SemServerPC
  <2>2. Values' /\ theSet' = 0 /\ adj0'[SemServer] = 0
    BY <1>3, <1>8, RemovedValues DEF SemServerShmFails
  <2>3. segs' \in 0 .. SemStarts /\ theSeg' \in 0 .. segs'
    BY <1>8, <2>1 DEF SemServerShmFails, OpenSegment, SemTypeOK, SemCounts
  <2>7. IpcTypes'
    BY <1>8, <2>2, <2>3 DEF SemServerShmFails, IpcTypes, SemTypeOK
  <2>4. SemTypeOK'
    BY <1>8, <2>2, <2>7, SemTypes DEF SemServerShmFails
  <2>5. SemCounts'
    BY <1>8, <2>1 DEF SemServerShmFails, OpenSegment, SemCounts, SemTypeOK
  <2>6. Recorded'
    BY <1>8, <2>1, <2>2 DEF SemServerShmFails, Recorded
  <2> QED BY <1>2, <2>4, <2>5, <2>6
<1> QED BY <1>4, <1>5, <1>6, <1>7, <1>8

LEMMA SemServerCalls ==
  ASSUME PcTypeOK, SemInv,
         SemServerReset \/ SemServerRcvReq \/ SemServerSndRpy \/ SemServerWrite
  PROVE  SemInv'
<1> USE DEF SemInv
<1>1. SemServer \in SemProcs
  BY DEF SemProcs
<1>2. CASE SemServerReset \/ SemServerRcvReq \/ SemServerSndRpy
  <2>1. PICK from \in {"reset", "rcv", "answer"}, to \in {"rcv", "write"},
             status \in {"SERVER_RCV_REQ", "SERVER_SND_RPY", "RESET_MEM"} :
          /\ Goto(SemServer, from, to) /\ getsem(SemServer, status)
          /\ UNCHANGED <<semIpc, sops, shmes, semStarts>>
          /\ from = "answer" <=> status = "SERVER_SND_RPY"
          /\ to = "write" <=> status = "SERVER_RCV_REQ"
    BY <1>2 DEF SemServerReset, SemServerRcvReq, SemServerSndRpy, Call
  <2>2. /\ pc[SemServer] = from /\ pc'[SemServer] = to
        /\ \A k \in Children : pc'[k] = pc[k]
    BY <2>1, GotoSemServer, Places DEF SemServerPC
  <2>3. UNCHANGED <<sets, theSet, segs, theSeg, semid, shmid, sops, shmes, semStarts>>
    BY <2>1 DEF semIpc
  <2>4. Values'
    BY <1>1, <2>1, SemTypes, GetsemValues DEF sem_op0
  <2>5. SemTypeOK'
    BY <2>3, <2>4, SemTypes DEF IpcTypes
  <2>6. SemCounts' /\ Attached'
    BY <2>2, <2>3 DEF SemCounts, Attached
  <2>7. Recorded'
    <3>1. CASE HasSet(SemServer)
      <4>1. /\ adj0'[SemServer] >= 0
            /\ status = "SERVER_RCV_REQ" => adj0'[SemServer] >= 1
        BY <2>1, <2>2, <3>1, SemTypes, ServerRecords DEF Recorded
      <4> QED BY <2>1, <2>2, <2>3, <4>1 DEF Recorded
    <3>2. CASE ~ HasSet(SemServer)
      <4>1. ~ HasSet(SemServer)' /\ adj0' = adj0
        BY <2>1, <2>3, <3>2 DEF HasSet, getsem, semVars
      <4> QED BY <2>3, <4>1 DEF Recorded
    <3> QED BY <3>1, <3>2
  <2> QED BY <2>5, <2>6, <2>7
<1>3. CASE SemServerWrite
  <2>1. /\ pc[SemServer] = "write" /\ pc'[SemServer] = "answer"
        /\ \A k \in Children : pc'[k] = pc[k]
    BY <1>3, GotoSemServer, Places DEF SemServerWrite, SemServerPC
  <2>2. UNCHANGED <<s0, s1, adj0, adj1, sets, theSet, segs, theSeg, semid, shmid, sops, semStarts>>
    BY <1>3 DEF SemServerWrite, semIpc, semVars
  <2>3. SemTypeOK'
    BY <1>3, <2>2, SomeTexts DEF SemServerWrite, SemTypeOK
  <2>4. SemCounts' /\ Attached' /\ Recorded'
    BY <2>1, <2>2 DEF SemCounts, Attached, Recorded, HasSet
  <2> QED BY <2>3, <2>4
<1> QED BY <1>2, <1>3

LEMMA SemChildMoves ==
  ASSUME PcTypeOK, NEW k \in Children, SemChildStep(k) \/ ShmatFails(k)
  PROVE  /\ PcTypeOK'
         /\ pc[k] \in SemChildPC /\ pc'[k] \in SemChildPC \union {"exit", "reply"}
         /\ pc'[k] \in Attacheds => pc[k] \in Attacheds \/ (ShmOpen(k) /\ theSeg # 0)
         /\ \A q \in Procs \ {k} : pc'[q] = pc[q]
<1>1. PICK from \in SemChildPC, to \in SemChildPC \union {"exit", "reply"} :
        /\ Goto(k, from, to)
        /\ to \in Attacheds => from \in Attacheds \/ (ShmOpen(k) /\ theSeg # 0)
  BY DEF SemChildStep, SemOpen, ShmOpen, SemGetMem, SemWrite, SemSndReq, SemRcvRpy,
         SemRead, SemReset, ShmatFails, Call, SemChildPC, Attacheds
<1>2. to \in ChildPC
  BY <1>1 DEF ChildPC
<1>3. /\ PcTypeOK' /\ pc[k] = from /\ pc'[k] = to
      /\ \A q \in Procs \ {k} : pc'[q] = pc[q]
  BY <1>1, <1>2, GotoChild
<1> QED BY <1>1, <1>3

LEMMA SemChildSteps ==
  ASSUME PcTypeOK, MesTypeOK, SemInv, NEW k \in Children, SemChildStep(k) \/ ShmatFails(k)
  PROVE  SemInv' /\ MesTypeOK'
<1> USE DEF SemInv
<1>1. k \in SemProcs /\ SemServer \in SemProcs /\ k # SemServer
  BY Places DEF SemProcs
<1>2. /\ pc'[SemServer] = pc[SemServer]
      /\ \A l \in Children \ {k} : pc'[l] = pc[l]
      /\ pc'[k] \in Attacheds => pc[k] \in Attacheds \/ (ShmOpen(k) /\ theSeg # 0)
  BY SemChildMoves, Places
<1>3. /\ UNCHANGED <<sets, segs, theSeg, semStarts>>
      /\ theSet' = theSet \/ theSet' = 0
      /\ semid' = semid \/ semid' = [semid EXCEPT ![k] = theSet]
      /\ shmid' = shmid \/ (ShmOpen(k) /\ shmid' = [shmid EXCEPT ![k] = theSeg])
      /\ sops' = sops \/ \E f \in FlagsFound : sops' = [sops EXCEPT ![k] = f]
  BY DEF SemChildStep, SemOpen, ShmOpen, SemGetMem, SemWrite, SemSndReq, SemRcvRpy,
         SemRead, SemReset, ShmatFails, Call, semPart, semIpc, RemoveSet
<1>4. SemCounts'
  BY <1>2, <1>3 DEF SemCounts
<1>5. Values' /\ (adj0'[SemServer] = adj0[SemServer] \/ (theSet' = 0 /\ adj0'[SemServer] = 0))
  <2>1. CASE SemGetMem(k) \/ SemSndReq(k) \/ SemRcvRpy(k) \/ SemReset(k)
    <3>1. PICK status \in DOMAIN sem_op0 : getsem(k, status)
      BY <2>1 DEF SemGetMem, SemSndReq, SemRcvRpy, SemReset, Call, sem_op0
    <3> QED BY <1>1, <3>1, SemTypes, GetsemValues
  <2>2. CASE ShmatFails(k)
    BY <1>1, <2>2, RemovedValues DEF ShmatFails
  <2>3. CASE UNCHANGED semVars
    BY <2>3, SemTypes DEF Values, semVars
  <2> QED BY <2>1, <2>2, <2>3
       DEF SemChildStep, SemOpen, ShmOpen, SemWrite, SemRead, semPart
<1>6. IpcTypes'
  <2>1. semid' \in [SemProcs -> 0 .. SemStarts]
    <3>1. theSet \in 0 .. SemStarts /\ semid \in [SemProcs -> 0 .. SemStarts]
      BY DEF SemTypeOK
    <3>2. semid' = semid \/ semid' = [semid EXCEPT ![k] = theSet]
      BY <1>3
    <3> QED BY ONLY <3>1, <3>2
  <2>2. shmid' \in [SemProcs -> 0 .. SemStarts]
    <3>1. theSeg \in 0 .. SemStarts /\ shmid \in [SemProcs -> 0 .. SemStarts]
      BY DEF SemTypeOK
    <3>2. shmid' = shmid \/ shmid' = [shmid EXCEPT ![k] = theSeg]
      BY <1>3
    <3> QED BY ONLY <3>1, <3>2
  <2>3. sops' \in [SemProcs -> FlagsFound \union {UndoSops}]
    <3>1. sops \in [SemProcs -> FlagsFound \union {UndoSops}]
      BY DEF SemTypeOK
    <3>2. sops' = sops \/ \E f \in FlagsFound : sops' = [sops EXCEPT ![k] = f]
      BY <1>3
    <3> QED BY ONLY <3>1, <3>2
  <2> QED BY <1>3, <2>1, <2>2, <2>3 DEF IpcTypes, SemTypeOK
<1>7. shmes' \in [1 .. SemStarts -> Texts]
  <2>1. shmes' = shmes \/ shmes' = [shmes EXCEPT ![shmid[k]] = mes[k]]
    BY DEF SemChildStep, SemOpen, ShmOpen, SemGetMem, SemWrite, SemSndReq, SemRcvRpy,
           SemRead, SemReset, ShmatFails, Call, semPart, semIpc
  <2> QED BY <2>1 DEF SemTypeOK, MesTypeOK
<1>8. SemTypeOK'
  BY <1>5, <1>6, <1>7, SemTypes
<1>9. Attached'
  <2>1. ASSUME NEW l \in Children, pc'[l] \in Attacheds
        PROVE  shmid'[l] # 0
    <3>1. CASE ShmOpen(k) /\ l = k
      <4>1. theSeg # 0
        BY <1>2, <2>1, <3>1, Places DEF ShmOpen, Goto, Attacheds, PcTypeOK
      <4>2. shmid' = [shmid EXCEPT ![k] = theSeg] /\ shmid \in [SemProcs -> 0 .. SemStarts]
        BY <3>1 DEF ShmOpen, SemTypeOK
      <4> QED BY <1>1, <3>1, <4>1, <4>2
    <3>2. CASE ~ (ShmOpen(k) /\ l = k)
      <4>1. pc[l] \in Attacheds
        BY <1>2, <2>1, <3>2
      <4>2. shmid'[l] = shmid[l]
        BY <1>1, <1>3, <3>2 DEF SemTypeOK, SemProcs
      <4> QED BY <4>1, <4>2 DEF Attached, Attacheds
    <3> QED BY <3>1, <3>2
  <2> QED BY <2>1 DEF Attached, Attacheds
<1>10. Recorded'
  <2>1. semid'[SemServer] = semid[SemServer] /\ sops'[SemServer] = sops[SemServer]
    BY <1>1, <1>3 DEF SemTypeOK
  <2> QED BY <1>2, <1>3, <1>5, <2>1 DEF Recorded, HasSet
<1>11. MesTypeOK'
  <2>1. CASE SemRead(k)
    <3>1. pc[k] = "sem_read"
      BY <2>1 DEF SemRead, Goto
    <3>2. shmid[k] \in 1 .. SemStarts
      BY <1>1, <3>1 DEF Attached, SemTypeOK
    <3>3. shmes[shmid[k]] \in Texts
      BY <3>2 DEF SemTypeOK
    <3> QED BY <2>1, <3>3 DEF SemRead, MesTypeOK
  <2>2. CASE mes' = mes
    BY <2>2 DEF MesTypeOK
  <2> QED BY <2>1, <2>2
       DEF SemChildStep, SemOpen, ShmOpen, SemGetMem, SemWrite, SemSndReq, SemRcvRpy,
           SemReset, ShmatFails, Call
<1> QED BY <1>4, <1>8, <1>9, <1>10, <1>11

-----------------------------------------------------------------------------
(* The queue: what SysVMsgProofs says of the queue of the children.        *)

QueProcs == Children \union {QueServer}

MsgTypes ==
  /\ queue \in Seq(QueMessages) /\ Msg!BytesQueued <= QBytes
  /\ asleep \subseteq QueProcs
  /\ buf \in [QueProcs -> QueMessages \union {NoMsg}]
  /\ buf[QueServer] # NoMsg => buf[QueServer].kind = "request"

OtherQueTypes ==
  /\ queStarts \in 0 .. QueStarts
  /\ queues \in 0 .. QueStarts /\ theQueue \in 0 .. queues
  /\ msid \in [QueProcs -> 0 .. QueStarts]
  /\ ans \in QueMessages \union {NoMsg}

LEMMA QueTypesSplit ==
  /\ QueInv => MsgTypes /\ OtherQueTypes
  /\ MsgTypes' /\ OtherQueTypes' => QueTypeOK'
  BY DEF QueInv, QueTypeOK, QueByPc, MsgTypes, OtherQueTypes, QueProcs

LEMMA QueFields ==
  \A m \in QueMessages :
    /\ m # NoMsg /\ m.type \in Children /\ m.kind \in {"request", "reply"}
    /\ m.body \in Texts
  BY SomeTexts DEF QueMessages, Msg!Request, Msg!Reply

LEMMA InstanceAssumption == QP!SysVMsgAssumption
  BY DEF QP!SysVMsgAssumption

LEMMA QueSendable == QP!Sendable(QueMessages)
  BY QueFields DEF QP!Sendable

LEMMA MsgTypesAre ==
  /\ MsgTypes <=> QP!QueueTypes(QueMessages)
  /\ MsgTypes' <=> QP!QueueTypes(QueMessages)'
  BY DEF MsgTypes, QueProcs, QP!QueueTypes, QP!Procs, Msg!BytesQueued, QP!BytesQueued,
         Msg!Queued, QP!Queued, Msg!Cardinality, QP!Cardinality

LEMMA QueSent ==
  ASSUME MsgTypes, NEW m \in QueMessages, Msg!msgsnd(m)
  PROVE  /\ MsgTypes'
         /\ \/ \E p \in asleep : /\ p = QueServer \/ p = m.type
                                 /\ asleep' = asleep \ {p}
                                 /\ buf' = [buf EXCEPT ![p] = m]
                                 /\ queue' = queue
            \/ /\ queue' = Append(queue, m)
               /\ asleep' = asleep /\ buf' = buf
<1>1. QP!msgsnd(m)
  BY DEF Msg!msgsnd, QP!msgsnd, Msg!HasRoom, QP!HasRoom, Msg!BytesQueued, QP!BytesQueued,
         Msg!Queued, QP!Queued, Msg!Cardinality, QP!Cardinality, Msg!Size, QP!Size, Msg!Wants,
         QP!Wants, Msg!Fits, QP!Fits
<1> QED BY <1>1, InstanceAssumption, QueSendable, MsgTypesAre, QP!Sent

LEMMA QueReceived ==
  ASSUME MsgTypes, NEW p \in QueProcs, Msg!msgrcv(p)
  PROVE  /\ MsgTypes' /\ p \notin asleep
         /\ \/ /\ asleep' = asleep \union {p} /\ UNCHANGED <<queue, buf>>
               /\ \A i \in DOMAIN queue : ~ Msg!Wants(p, queue[i])
            \/ \E i \in DOMAIN queue :
                 /\ p = QueServer \/ p = queue[i].type
                 /\ p = QueServer => queue[i].kind = "request"
                 /\ buf' = [buf EXCEPT ![p] = queue[i]]
                 /\ queue' = QP!RemoveAt(queue, i)
                 /\ asleep' = asleep
<1>1. QP!msgrcv(p) /\ p \in QP!Procs /\ p \notin asleep
  BY DEF Msg!msgrcv, QP!msgrcv, Msg!Wanted, QP!Wanted, Msg!Wants, QP!Wants, Msg!Fits,
         QP!Fits, Msg!Size, QP!Size, Msg!First, QP!First, Msg!RemoveAt, QP!RemoveAt,
         QueProcs, QP!Procs
<1> QED BY <1>1, InstanceAssumption, QueSendable, MsgTypesAre, QP!Received DEF Msg!Wants, QP!Wants

LEMMA QueExited ==
  ASSUME MsgTypes, NEW p \in QueProcs, Msg!msgexit(p) PROVE MsgTypes'
<1>1. QP!msgexit(p) /\ p \in QP!Procs
  BY DEF Msg!msgexit, QP!msgexit, QueProcs, QP!Procs
<1> QED BY <1>1, InstanceAssumption, QueSendable, MsgTypesAre, QP!Exited

LEMMA QueSentOf ==
  ASSUME queue \in Seq(QueMessages), NEW m \in QueMessages, queue' = Append(queue, m),
         NEW k \in Children
  PROVE  InQueue(k)' = IF m.type = k THEN InQueue(k) \union {Len(queue) + 1} ELSE InQueue(k)
  BY InstanceAssumption, QP!SentFor DEF QP!QueuedFor, InQueue

LEMMA QueTakenOf ==
  ASSUME queue \in Seq(QueMessages), NEW i \in DOMAIN queue, queue' = QP!RemoveAt(queue, i),
         NEW k \in Children
  PROVE  /\ \A l \in InQueue(k)' : QP!Before(i, l) \in InQueue(k) \ {i}
         /\ (\A j, l \in InQueue(k) : j = l) => \A j, l \in InQueue(k)' : j = l
  BY InstanceAssumption, QP!TakenFor DEF QP!QueuedFor, InQueue

-----------------------------------------------------------------------------
(* The steps of the queue.                                                 *)

(* Who takes a message from the queue, takes the only one of its child.    *)
LEMMA QueTakeOwn ==
  ASSUME QueInv, NEW p \in QueProcs, NEW i \in DOMAIN queue,
         p = QueServer => pc[QueServer] = "rcv", buf[p] = NoMsg,
         p = QueServer \/ p = queue[i].type,
         buf' = [buf EXCEPT ![p] = queue[i]],
         queue' = QP!RemoveAt(queue, i), UNCHANGED <<pc, ans>>,
         NEW k \in Children
  PROVE  Own(k)'
<1>1. /\ queue \in Seq(QueMessages) /\ queue[i] \in QueMessages /\ queue[i] # NoMsg
      /\ buf \in [QueProcs -> QueMessages \union {NoMsg}]
      /\ k \in QueProcs /\ QueServer \in QueProcs /\ k # QueServer
  BY QueTypesSplit, QueFields, Places DEF MsgTypes, QueProcs
<1>2. Own(k) /\ (p = QueServer => ans = NoMsg)
  BY DEF QueInv, QueByPc
<1>3. /\ \A l \in InQueue(k)' : QP!Before(i, l) \in InQueue(k) \ {i}
      /\ \A j, l \in InQueue(k)' : j = l
  BY <1>1, <1>2, QueTakenOf DEF Own
<1>4. CASE queue[i].type = k
  <2>1. i \in InQueue(k)
    BY <1>4 DEF InQueue
  <2>2. InQueue(k)' = {}
    BY <1>2, <1>3, <2>1 DEF Own
  <2>3. ~ AtServer(k) /\ buf[k] = NoMsg /\ pc[k] \notin NotSent
    BY <1>2, <2>1 DEF Own, NotSent
  <2>4. AtServer(k)' => buf'[k] = NoMsg
    BY <1>1, <1>2, <2>3 DEF AtServer
  <2> QED BY <2>2, <2>3, <2>4 DEF Own, NotSent
<1>5. CASE queue[i].type # k
  <2>1. p # k /\ buf'[k] = buf[k]
    BY <1>1, <1>5
  <2>2. AtServer(k)' => AtServer(k)
    BY <1>1, <1>5 DEF AtServer
  <2>3. InQueue(k)' # {} => InQueue(k) # {}
    BY <1>3
  <2> QED BY <1>2, <1>3, <2>1, <2>2, <2>3 DEF Own
<1> QED BY <1>4, <1>5

LEMMA QueRcvInv ==
  ASSUME QueInv, NEW p \in QueProcs, buf[p] = NoMsg,
         p = QueServer => pc[QueServer] = "rcv",
         p \in Children => pc[p] = "que_rcv",
         Msg!msgrcv(p), UNCHANGED <<pc, queIpc, ans, queStarts>>
  PROVE  QueInv'
<1> USE DEF QueInv
<1>1. MsgTypes' /\ OtherQueTypes' /\ queues' <= queStarts'
  BY QueTypesSplit, QueReceived DEF OtherQueTypes, queIpc
<1>2. QueServer \in QueProcs /\ Children \subseteq QueProcs /\ QueServer \notin Children
  BY Places DEF QueProcs
<1>3. buf \in [QueProcs -> QueMessages \union {NoMsg}]
  BY QueTypesSplit DEF MsgTypes
<1>4. CASE asleep' = asleep \union {p} /\ UNCHANGED <<queue, buf>>
  <2>1. QueByPc'
    BY <1>2, <1>4 DEF QueByPc
  <2>2. \A k \in Children : Own(k)'
    BY <1>4 DEF Own, InQueue, AtServer
  <2> QED BY <1>1, <2>1, <2>2, QueTypesSplit
<1>5. CASE \E i \in DOMAIN queue :
             /\ p = QueServer \/ p = queue[i].type
             /\ p = QueServer => queue[i].kind = "request"
             /\ buf' = [buf EXCEPT ![p] = queue[i]]
             /\ queue' = QP!RemoveAt(queue, i)
             /\ asleep' = asleep
  <2>1. \A k \in Children : Own(k)'
    BY <1>5, QueTakeOwn
  <2>2. p \notin asleep
    BY QueTypesSplit, QueReceived
  <2>3. QueByPc'
    BY <1>2, <1>3, <1>5, <2>2 DEF QueByPc
  <2> QED BY <1>1, <2>1, <2>3, QueTypesSplit
<1> QED BY <1>4, <1>5, QueTypesSplit, QueReceived

(* A message that is sent is given to a process or put into the queue.  If *)
(* there is no other one of k, it is the only one.                         *)
LEMMA QueSendOwn ==
  ASSUME MsgTypes, NEW m \in QueMessages, Msg!msgsnd(m), NEW k \in Children, Own(k),
         ans' = NoMsg \/ ans' = ans,
         pc'[k] \in NotSent => pc[k] \in NotSent,
         m.type = k => /\ InQueue(k) = {} /\ buf[k] = NoMsg /\ pc'[k] \notin NotSent
                       /\ ~ (buf[QueServer] # NoMsg /\ buf[QueServer].type = k)
                       /\ ~ (ans' # NoMsg /\ ans'.type = k)
  PROVE  Own(k)'
<1> USE DEF NotSent
<1>1. /\ queue \in Seq(QueMessages) /\ m # NoMsg /\ m.type \in Children
      /\ buf \in [QueProcs -> QueMessages \union {NoMsg}] /\ asleep \subseteq QueProcs
      /\ k \in QueProcs /\ QueServer \in QueProcs /\ k # QueServer
  BY QueFields, Places DEF MsgTypes, QueProcs
<1>2. CASE \E p \in asleep : /\ p = QueServer \/ p = m.type
                             /\ buf' = [buf EXCEPT ![p] = m] /\ queue' = queue
  <2>1. PICK p \in asleep : /\ p = QueServer \/ p = m.type
                            /\ buf' = [buf EXCEPT ![p] = m] /\ queue' = queue
    BY <1>2
  <2>2. InQueue(k)' = InQueue(k)
    BY <2>1 DEF InQueue
  <2>3. CASE m.type = k
    <3>1. InQueue(k)' = {} /\ pc'[k] \notin NotSent
      BY <2>2, <2>3
    <3>2. AtServer(k)' => buf'[k] = NoMsg
      BY <1>1, <2>1, <2>3 DEF AtServer
    <3> QED BY <3>1, <3>2 DEF Own
  <2>4. CASE m.type # k
    <3>1. buf'[k] = buf[k]
      BY <1>1, <2>1, <2>4
    <3>2. AtServer(k)' => AtServer(k)
      BY <1>1, <2>1, <2>4 DEF AtServer
    <3> QED BY <2>2, <3>1, <3>2 DEF Own
  <2> QED BY <2>3, <2>4
<1>3. CASE queue' = Append(queue, m) /\ buf' = buf
  <2>1. InQueue(k)' = IF m.type = k THEN InQueue(k) \union {Len(queue) + 1} ELSE InQueue(k)
    BY <1>1, <1>3, QueSentOf
  <2>2. CASE m.type = k
    <3>1. \A i, j \in InQueue(k)' : i = j
      BY <2>1, <2>2
    <3>2. ~ AtServer(k)' /\ buf'[k] = NoMsg /\ pc'[k] \notin NotSent
      BY <1>3, <2>2 DEF AtServer
    <3> QED BY <3>1, <3>2 DEF Own
  <2>3. CASE m.type # k
    <3>1. InQueue(k)' = InQueue(k) /\ buf'[k] = buf[k]
      BY <1>3, <2>1, <2>3
    <3>2. AtServer(k)' => AtServer(k)
      BY <1>3 DEF AtServer
    <3> QED BY <3>1, <3>2 DEF Own
  <2> QED BY <2>2, <2>3
<1> QED BY <1>2, <1>3, QueSent

LEMMA EmptyFits ==
  /\ queue = <<>> => Msg!BytesQueued <= QBytes
  /\ queue' = <<>> => Msg!BytesQueued' <= QBytes
<1>1. Msg!Cardinality({}) = 0
  BY QP!FS_EmptySet DEF QP!Cardinality, Msg!Cardinality
<1>2. ReqSize * 0 + RpySize * 0 <= QBytes
  OBVIOUS
<1>3. queue = <<>> => Msg!Queued("request") = {} /\ Msg!Queued("reply") = {}
  BY DEF Msg!Queued
<1>4. queue' = <<>> => Msg!Queued("request")' = {} /\ Msg!Queued("reply")' = {}
  BY DEF Msg!Queued
<1> QED BY <1>1, <1>2, <1>3, <1>4 DEF Msg!BytesQueued

LEMMA QueServerStartInv == ASSUME PcTypeOK, QueInv, QueServerStart PROVE QueInv'
<1> USE DEF QueInv
<1>1. /\ queStarts < QueStarts /\ queStarts' = queStarts + 1 /\ UNCHANGED <<ans, buf>>
      /\ MsgTypes /\ OtherQueTypes
  BY QueTypesSplit DEF QueServerStart, msgVars
<1>2. CASE QueIdZero /\ theQueue = 1
  <2>1. /\ theQueue' = 0 /\ queue' = <<>> /\ asleep' = {}
        /\ UNCHANGED <<pc, queues, msid>> /\ pc[QueServer] = "off"
    BY <1>2 DEF QueServerStart
  <2>2. MsgTypes'
    BY <1>1, <2>1, EmptyFits DEF MsgTypes
  <2>3. OtherQueTypes' /\ queues' <= queStarts'
    BY <1>1, <2>1 DEF OtherQueTypes
  <2>4. QueByPc'
    BY <1>1, <2>1 DEF QueByPc
  <2>5. ASSUME NEW k \in Children PROVE Own(k)'
    <3>1. InQueue(k)' = {} /\ (AtServer(k)' <=> AtServer(k))
      BY <1>1, <2>1 DEF InQueue, AtServer
    <3> QED BY <1>1, <2>1, <3>1 DEF Own
  <2> QED BY <2>2, <2>3, <2>4, <2>5, QueTypesSplit
<1>3. CASE ~ (QueIdZero /\ theQueue = 1)
  <2>1. /\ Goto(QueServer, "off", "rcv") /\ UNCHANGED <<queue, asleep>>
        /\ queues' \in {queues, queues + 1}
        /\ theQueue' = theQueue \/ (theQueue' = queues' /\ queues' = queues + 1)
        /\ msid' = [msid EXCEPT ![QueServer] = theQueue']
    BY <1>3 DEF QueServerStart, msgVars
  <2>2. /\ pc[QueServer] = "off" /\ pc'[QueServer] = "rcv"
        /\ \A k \in Children : pc'[k] = pc[k]
    BY <2>1, GotoQueServer, Places DEF QueServerPC
  <2>3. MsgTypes'
    BY <1>1, <2>1 DEF MsgTypes, Msg!BytesQueued, Msg!Queued
  <2>4. queues' <= queStarts' /\ queues' \in 0 .. QueStarts /\ theQueue' \in 0 .. queues'
    BY <1>1, <2>1 DEF OtherQueTypes
  <2>5. theQueue' \in 0 .. QueStarts
    BY <2>4
  <2>6. OtherQueTypes'
    <3>1. queStarts' \in 0 .. QueStarts
      BY <1>1 DEF OtherQueTypes
    <3>2. msid' \in [QueProcs -> 0 .. QueStarts]
      BY <1>1, <2>1, <2>5 DEF OtherQueTypes
    <3> QED BY <1>1, <2>4, <3>1, <3>2 DEF OtherQueTypes
  <2>7. QueByPc'
    <3>1. /\ asleep' = asleep /\ buf' = buf /\ ans' = ans
          /\ pc[QueServer] = "off" /\ pc'[QueServer] = "rcv"
          /\ \A k \in Children : pc'[k] = pc[k]
      BY <1>1, <2>1, <2>2
    <3> QED BY <3>1 DEF QueByPc
  <2>8. ASSUME NEW k \in Children PROVE Own(k)'
    <3>1. InQueue(k)' = InQueue(k) /\ (AtServer(k)' <=> AtServer(k))
      BY <1>1, <2>1 DEF InQueue, AtServer
    <3> QED BY <1>1, <2>2, <3>1 DEF Own
  <2> QED BY <2>3, <2>4, <2>6, <2>7, <2>8, QueTypesSplit
<1> QED BY <1>2, <1>3

LEMMA QueServerAnswerInv == ASSUME PcTypeOK, QueInv, QueServerAnswer PROVE QueInv'
<1> USE DEF QueInv
<1> DEFINE m == Msg!Reply(buf[QueServer].type, QueAnswer)
<1>1. /\ buf[QueServer] # NoMsg /\ Goto(QueServer, "rcv", "snd")
      /\ ans' = m /\ buf' = [buf EXCEPT ![QueServer] = NoMsg]
      /\ UNCHANGED <<queue, asleep, queues, theQueue, msid, queStarts>>
      /\ MsgTypes /\ OtherQueTypes
  BY QueTypesSplit DEF QueServerAnswer, queIpc
<1>2. /\ pc[QueServer] = "rcv" /\ pc'[QueServer] = "snd"
      /\ \A k \in Children : pc'[k] = pc[k]
  BY <1>1, GotoQueServer, Places DEF QueServerPC
<1>3. QueServer \in QueProcs /\ buf[QueServer] \in QueMessages
  BY <1>1 DEF MsgTypes, QueProcs
<1>4. m \in QueMessages /\ m # NoMsg /\ m.type = buf[QueServer].type
  BY <1>3, QueFields DEF QueMessages, Msg!Reply
<1> HIDE DEF m
<1>5. MsgTypes' /\ buf'[QueServer] = NoMsg /\ \A k \in Children : buf'[k] = buf[k]
  BY <1>1, <1>3, Places DEF MsgTypes, Msg!BytesQueued, Msg!Queued
<1>6. OtherQueTypes' /\ queues' <= queStarts'
  BY <1>1, <1>4 DEF OtherQueTypes
<1>7. QueByPc'
  <2>1. \A p \in asleep' : buf'[p] = NoMsg
    BY <1>1, <1>5 DEF QueByPc, MsgTypes, QueProcs
  <2>2. QueServer \notin asleep
    BY <1>1 DEF QueByPc
  <2> QED BY <1>1, <1>2, <1>4, <1>5, <2>1, <2>2 DEF QueByPc
<1>8. ASSUME NEW k \in Children PROVE Own(k)'
  <2>1. InQueue(k)' = InQueue(k)
    BY <1>1 DEF InQueue
  <2>2. AtServer(k)' => AtServer(k)
    BY <1>1, <1>4, <1>5 DEF AtServer
  <2> QED BY <1>2, <1>5, <2>1, <2>2 DEF Own
<1> QED BY <1>5, <1>6, <1>7, <1>8, QueTypesSplit

LEMMA QueServerSndInv == ASSUME PcTypeOK, QueInv, QueServerSnd PROVE QueInv'
<1> USE DEF QueInv
<1>1. /\ Goto(QueServer, "snd", "rcv") /\ Msg!msgsnd(ans) /\ ans' = NoMsg
      /\ UNCHANGED <<queues, theQueue, msid, queStarts>>
      /\ MsgTypes /\ OtherQueTypes
  BY QueTypesSplit DEF QueServerSnd, queIpc
<1>2. /\ pc[QueServer] = "snd" /\ pc'[QueServer] = "rcv"
      /\ \A k \in Children : pc'[k] = pc[k]
  BY <1>1, GotoQueServer, Places DEF QueServerPC
<1>3. /\ QueServer \in QueProcs /\ Children \subseteq QueProcs
      /\ ans \in QueMessages /\ ans # NoMsg /\ ans.type \in Children
      /\ buf[QueServer] = NoMsg /\ QueServer \notin asleep
  BY <1>1, <1>2, QueFields DEF OtherQueTypes, QueByPc, QueProcs
<1>4. MsgTypes' /\ OtherQueTypes' /\ queues' <= queStarts'
  BY <1>1, <1>3, QueSent DEF OtherQueTypes
<1>5. QueByPc'
  <2>1. CASE \E p \in asleep : /\ p = QueServer \/ p = ans.type
                               /\ asleep' = asleep \ {p}
                               /\ buf' = [buf EXCEPT ![p] = ans]
    BY <1>1, <1>2, <1>3, <2>1, Places DEF MsgTypes, QueByPc
  <2>2. CASE asleep' = asleep /\ buf' = buf
    BY <1>1, <1>2, <1>3, <2>2 DEF QueByPc
  <2> QED BY <1>1, <1>3, <2>1, <2>2, QueSent
<1>6. ASSUME NEW k \in Children PROVE Own(k)'
  <2>1. pc'[k] = pc[k]
    BY <1>2
  <2>2. ans.type = k => InQueue(k) = {} /\ buf[k] = NoMsg /\ pc[k] \notin NotSent
    BY <1>3 DEF Own, AtServer, NotSent
  <2> QED BY <1>1, <1>3, <2>1, <2>2, QueSendOwn
<1> QED BY <1>4, <1>5, <1>6, QueTypesSplit

LEMMA QueServerStepInv == ASSUME PcTypeOK, QueInv, QueServerStep PROVE QueInv' /\ PcTypeOK'
<1>1. CASE QueServerRcv
  <2>1. QueServer \in QueProcs /\ QueServer \notin Children
    BY Places DEF QueProcs
  <2> QED BY <1>1, <2>1, QueRcvInv DEF QueServerRcv, PcTypeOK
<1>2. CASE QueServerStart
  BY <1>2, QueServerStartInv, GotoQueServer DEF QueServerStart, QueServerPC, PcTypeOK
<1>3. CASE QueServerAnswer \/ QueServerSnd
  BY <1>3, QueServerAnswerInv, QueServerSndInv, GotoQueServer
     DEF QueServerAnswer, QueServerSnd, QueServerPC
<1> QED BY <1>1, <1>2, <1>3 DEF QueServerStep

LEMMA QueOpenInv ==
  ASSUME PcTypeOK, QueInv, NEW k \in Children, QueOpen(k) PROVE QueInv'
<1> USE DEF QueInv
<1>1. /\ Goto(k, "que_open", IF theQueue = 0 THEN "reply" ELSE "que_snd")
      /\ msid' = [msid EXCEPT ![k] = theQueue]
      /\ UNCHANGED <<queue, asleep, buf, queues, theQueue, ans, queStarts>>
      /\ MsgTypes /\ OtherQueTypes
  BY QueTypesSplit DEF QueOpen, msgVars
<1>2. /\ pc[k] = "que_open" /\ pc'[QueServer] = pc[QueServer]
      /\ \A l \in Children \ {k} : pc'[l] = pc[l]
  BY <1>1, GotoChild, Places DEF ChildPC, QueChildPC
<1>3. MsgTypes'
  BY <1>1 DEF MsgTypes, Msg!BytesQueued, Msg!Queued
<1>4. OtherQueTypes' /\ queues' <= queStarts'
  <2>1. theQueue \in 0 .. QueStarts
    BY <1>1 DEF OtherQueTypes
  <2> QED BY <1>1, <2>1 DEF OtherQueTypes
<1>5. QueByPc'
  <2>1. /\ asleep' = asleep /\ buf' = buf /\ ans' = ans /\ pc'[QueServer] = pc[QueServer]
        /\ \A l \in Children : pc[l] = "que_rcv" => pc'[l] = pc[l]
    BY <1>1, <1>2
  <2> QED BY <2>1 DEF QueByPc
<1>6. ASSUME NEW l \in Children PROVE Own(l)'
  <2>1. InQueue(l)' = InQueue(l) /\ (AtServer(l)' <=> AtServer(l)) /\ buf' = buf
    BY <1>1 DEF InQueue, AtServer
  <2>2. pc'[l] = pc[l] \/ pc[l] = "que_open"
    BY <1>2
  <2>3. Own(l)
    OBVIOUS
  <2> QED BY <2>1, <2>2, <2>3 DEF Own
<1> QED BY <1>3, <1>4, <1>5, <1>6, QueTypesSplit

LEMMA QueSndInv ==
  ASSUME PcTypeOK, MesTypeOK, QueInv, NEW k \in Children, QueSnd(k) PROVE QueInv'
<1> USE DEF QueInv
<1> DEFINE m == Msg!Request(k, mes[k])
<1>1. PICK to \in {"que_rcv", "reply"} :
        /\ Goto(k, "que_snd", to)
        /\ \/ Msg!msgsnd(m) /\ to = "que_rcv"
           \/ UNCHANGED <<queue, asleep, buf>>
        /\ UNCHANGED <<queues, theQueue, msid, ans, queStarts>>
  BY DEF QueSnd, queIpc, msgVars
<1>2. /\ pc[k] = "que_snd" /\ pc'[k] = to /\ pc'[QueServer] = pc[QueServer]
      /\ \A l \in Children \ {k} : pc'[l] = pc[l]
  BY <1>1, GotoChild, Places DEF ChildPC, QueChildPC
<1>3. /\ MsgTypes /\ OtherQueTypes /\ k \in QueProcs /\ QueServer \in QueProcs
      /\ Children \subseteq QueProcs /\ k # QueServer
  BY QueTypesSplit, Places DEF QueProcs
<1>4. m \in QueMessages /\ m.type = k /\ m.kind = "request"
  BY DEF QueMessages, Msg!Request, MesTypeOK
<1> HIDE DEF m
<1>5. buf[k] = NoMsg /\ k \notin asleep
  BY <1>2 DEF QueByPc
<1>6. MsgTypes'
  BY <1>1, <1>3, <1>4, QueSent DEF MsgTypes, Msg!BytesQueued, Msg!Queued
<1>7. OtherQueTypes' /\ queues' <= queStarts'
  BY <1>1, <1>3 DEF OtherQueTypes
<1>8. QueByPc'
  <2>1. CASE \E p \in asleep : /\ p = QueServer \/ p = m.type
                               /\ asleep' = asleep \ {p}
                               /\ buf' = [buf EXCEPT ![p] = m]
    <3>1. asleep' = asleep \ {QueServer} /\ buf' = [buf EXCEPT ![QueServer] = m]
      BY <1>4, <1>5, <2>1
    <3>2. QueServer \in asleep /\ pc'[QueServer] = "rcv"
      BY <1>2, <1>4, <1>5, <2>1 DEF QueByPc
    <3>3. buf'[QueServer] = m /\ \A p \in QueProcs \ {QueServer} : buf'[p] = buf[p]
      BY <1>3, <3>1 DEF MsgTypes
    <3>4. \A p \in asleep' : buf'[p] = NoMsg
      BY <1>3, <3>1, <3>3 DEF MsgTypes, QueByPc
    <3>5. ASSUME NEW l \in Children, l \in asleep' \/ buf'[l] # NoMsg
          PROVE  pc'[l] = "que_rcv"
      <4>1. l \in asleep \/ buf[l] # NoMsg
        BY <1>3, <3>1, <3>3, <3>5, Places
      <4> QED BY <1>2, <1>5, <4>1 DEF QueByPc
    <3> QED BY <1>1, <1>2, <1>4, <3>2, <3>3, <3>4, <3>5 DEF QueByPc
  <2>2. CASE asleep' = asleep /\ buf' = buf
    <3>1. /\ asleep' = asleep /\ buf' = buf /\ ans' = ans /\ pc'[QueServer] = pc[QueServer]
          /\ \A l \in Children : pc[l] = "que_rcv" => pc'[l] = pc[l]
      BY <1>1, <1>2, <2>2
    <3> QED BY <3>1 DEF QueByPc
  <2> QED BY <1>1, <1>3, <1>4, <2>1, <2>2, QueSent
<1>9. ASSUME NEW l \in Children PROVE Own(l)'
  <2>1. pc'[l] \in NotSent => pc[l] \in NotSent
    BY <1>2 DEF NotSent
  <2>2. CASE Msg!msgsnd(m) /\ to = "que_rcv"
    <3>1. Own(k) /\ pc[k] \in NotSent /\ pc'[k] \notin NotSent
      BY <1>2, <2>2 DEF NotSent
    <3>2. InQueue(k) = {} /\ ~ AtServer(k)
      BY <3>1 DEF Own, NotSent
    <3> QED BY <1>1, <1>3, <1>4, <1>5, <2>1, <2>2, <3>1, <3>2, QueSendOwn DEF AtServer
  <2>3. CASE UNCHANGED <<queue, asleep, buf>>
    <3>1. InQueue(l)' = InQueue(l) /\ (AtServer(l)' <=> AtServer(l)) /\ buf' = buf
      BY <1>1, <2>3 DEF InQueue, AtServer
    <3>2. Own(l)
      OBVIOUS
    <3> QED BY <2>1, <3>1, <3>2 DEF Own, NotSent
  <2> QED BY <1>1, <2>2, <2>3
<1> QED BY <1>6, <1>7, <1>8, <1>9, QueTypesSplit

LEMMA QueReadInv ==
  ASSUME PcTypeOK, MesTypeOK, QueInv, NEW k \in Children, QueRead(k)
  PROVE  QueInv' /\ MesTypeOK'
<1> USE DEF QueInv
<1>1. /\ buf[k] # NoMsg /\ Goto(k, "que_rcv", "reply") /\ buf' = [buf EXCEPT ![k] = NoMsg]
      /\ UNCHANGED <<queue, asleep, queues, theQueue, msid, ans, queStarts>>
      /\ MsgTypes /\ OtherQueTypes
  BY QueTypesSplit DEF QueRead, queIpc
<1>2. /\ pc[k] = "que_rcv" /\ pc'[k] = "reply" /\ pc'[QueServer] = pc[QueServer]
      /\ \A l \in Children \ {k} : pc'[l] = pc[l]
  BY <1>1, GotoChild, Places DEF ChildPC, QueChildPC
<1>3. k \in QueProcs /\ QueServer \in QueProcs /\ Children \subseteq QueProcs /\ k # QueServer
  BY Places DEF QueProcs
<1>4. buf'[k] = NoMsg /\ k \notin asleep /\ \A p \in QueProcs \ {k} : buf'[p] = buf[p]
  BY <1>1, <1>3 DEF MsgTypes, QueByPc
<1>5. MsgTypes'
  BY <1>1, <1>3, <1>4 DEF MsgTypes, Msg!BytesQueued, Msg!Queued
<1>6. OtherQueTypes' /\ queues' <= queStarts'
  BY <1>1 DEF OtherQueTypes
<1>7. QueByPc'
  <2>1. \A p \in asleep' : buf'[p] = NoMsg
    BY <1>1, <1>3, <1>4 DEF QueByPc, MsgTypes
  <2>2. ASSUME NEW l \in Children, l \in asleep' \/ buf'[l] # NoMsg PROVE pc'[l] = "que_rcv"
    <3>1. l # k /\ (l \in asleep \/ buf[l] # NoMsg)
      BY <1>1, <1>3, <1>4, <2>2
    <3> QED BY <1>2, <3>1 DEF QueByPc
  <2>3. buf'[QueServer] = buf[QueServer] /\ asleep' = asleep /\ ans' = ans
    BY <1>1, <1>3, <1>4
  <2> QED BY <1>2, <2>1, <2>2, <2>3 DEF QueByPc
<1>8. ASSUME NEW l \in Children PROVE Own(l)'
  <2>1. InQueue(l)' = InQueue(l) /\ (AtServer(l)' <=> AtServer(l))
    BY <1>1, <1>3, <1>4 DEF InQueue, AtServer
  <2>2. buf[l] = NoMsg => buf'[l] = NoMsg
    BY <1>3, <1>4
  <2>3. pc'[l] \in NotSent => pc[l] \in NotSent
    BY <1>2 DEF NotSent
  <2>4. Own(l)
    OBVIOUS
  <2> QED BY <2>1, <2>2, <2>3, <2>4 DEF Own, NotSent
<1>9. MesTypeOK'
  <2>1. buf[k] \in QueMessages
    BY <1>1, <1>3 DEF MsgTypes
  <2>2. (IF buf[k].kind = "reply" THEN buf[k].body ELSE Shifted) \in Texts
    BY <2>1, QueFields, SomeTexts
  <2> QED BY <2>2 DEF QueRead, MesTypeOK
<1> QED BY <1>5, <1>6, <1>7, <1>8, <1>9, QueTypesSplit

LEMMA QueChildStepInv ==
  ASSUME PcTypeOK, MesTypeOK, QueInv, NEW k \in Children, QueChildStep(k)
  PROVE  /\ QueInv' /\ MesTypeOK' /\ PcTypeOK'
         /\ pc'[SemServer] = pc[SemServer]
         /\ \A l \in Children : pc'[l] \in Attacheds => pc[l] \in Attacheds
<1>1. CASE QueRcv(k)
  <2>1. k \in QueProcs /\ k # QueServer
    BY Places DEF QueProcs
  <2> QED BY <1>1, <2>1, QueRcvInv DEF QueRcv, PcTypeOK, MesTypeOK
<1>2. CASE QueOpen(k) \/ QueSnd(k) \/ QueRead(k)
  <2>1. PICK from \in QueChildPC, to \in QueChildPC \union {"reply"} : Goto(k, from, to)
    BY <1>2 DEF QueOpen, QueSnd, QueRead, QueChildPC
  <2>2. /\ PcTypeOK' /\ pc'[k] = to
        /\ \A q \in Procs \ {k} : pc'[q] = pc[q]
    <3>1. to \in ChildPC
      BY <2>1 DEF ChildPC
    <3> QED BY <2>1, <3>1, GotoChild
  <2>3. to \notin Attacheds
    BY <2>1 DEF QueChildPC, Attacheds
  <2>4. QueInv' /\ MesTypeOK'
    BY <1>2, QueOpenInv, QueSndInv, QueReadInv DEF QueOpen, QueSnd, MesTypeOK
  <2> QED BY <2>2, <2>3, <2>4, Places
<1> QED BY <1>1, <1>2 DEF QueChildStep

-----------------------------------------------------------------------------
(* The steps of the clients, of the central server, and of its children    *)
(* with their clients.                                                     *)

LEMMA TcpStep ==
  ASSUME Inv, UNCHANGED <<mes, semPart, quePart>>, PcTypeOK', TcpTypeOK',
         pc'[SemServer] = pc[SemServer], pc'[QueServer] = pc[QueServer],
         \A k \in Children :
           \/ pc'[k] = pc[k]
           \/ pc[k] \in {"unused", "recv"} /\ pc'[k] \notin Attacheds
           \/ pc[k] = "reply" /\ pc'[k] = "exit"
  PROVE  Inv'
<1>1. SemInv'
  <2>1. \A k \in Children : pc'[k] \in Attacheds => pc[k] \in Attacheds
    BY DEF Attacheds
  <2> QED BY <2>1, SemStays DEF Inv
<1>2. QueInv'
  <2>1. \A k \in Children : /\ pc'[k] \in NotSent => pc[k] \in NotSent
                            /\ pc[k] = "que_rcv" => pc'[k] = "que_rcv"
    BY DEF NotSent
  <2> QED BY <2>1, QueStays DEF Inv
<1> QED BY <1>1, <1>2 DEF Inv, MesTypeOK

LEMMA ClientStepInv ==
  ASSUME Inv, NEW c \in Clients, ClientStep(c) \/ KillClient(c) \/ ConnectFails(c)
  PROVE  Inv' /\ pc'[SemServer] = pc[SemServer]
<1>1. UNCHANGED <<mes, semPart, quePart, conn>>
  BY DEF ClientStep, Connect, ConnectFails, ClientSend, ClientRecv, KillClient, tcpPart
<1>2. PICK to \in ClientPC : pc' = [pc EXCEPT ![c] = to]
  BY DEF ClientStep, Connect, ConnectFails, ClientSend, ClientRecv, KillClient, Goto, ClientPC
<1>3. /\ PcTypeOK' /\ \A q \in Procs \ {c} : pc'[q] = pc[q]
  BY <1>2, SetPc, Places DEF Inv
<1>4. TcpTypeOK'
  <2> USE DEF Inv, TcpTypeOK
  <2>1. CASE Connect(c)
    BY <2>1 DEF Connect, Links
  <2>2. CASE ClientSend(c)
    BY <2>2 DEF ClientSend
  <2>3. CASE ClientRecv(c)
    <3>1. shown' = shown \/ \E t \in Texts : shown' = [shown EXCEPT ![c] = t]
      BY <2>3, SomeTexts DEF ClientRecv
    <3>2. UNCHANGED <<listening, backlog, conn, link, up, down>>
      BY <2>3 DEF ClientRecv
    <3> QED BY <3>1, <3>2
  <2>4. CASE KillClient(c)
    BY <2>4 DEF KillClient, Links
  <2>5. CASE ConnectFails(c)
    BY <2>5, TcpStays DEF ConnectFails
  <2> QED BY <2>1, <2>2, <2>3, <2>4, <2>5 DEF ClientStep
<1> QED BY <1>1, <1>3, <1>4, TcpStep, Places

LEMMA ClosedLink ==
  ASSUME TcpTypeOK, NEW c \in Clients PROVE Closed(c) \in Links
  BY DEF TcpTypeOK, Closed, Links

LEMMA CentralEndsInv ==
  ASSUME Inv, CentralEnds
  PROVE  Inv' /\ pc'[SemServer] = pc[SemServer]
<1>1. TcpTypeOK'
  <2>1. link' \in [Clients -> Links]
    <3>1. \A c \in Clients : link[c] \in Links
      BY DEF Inv, TcpTypeOK
    <3> QED BY <3>1 DEF CentralEnds, Links
  <2>2. /\ listening' = FALSE /\ backlog' = <<>>
        /\ UNCHANGED <<conn, up, down, shown>>
    BY DEF CentralEnds
  <2>3. backlog' \in Seq(Clients) /\ listening' \in BOOLEAN
    <3>1. <<>> \in Seq(Clients)
      OBVIOUS
    <3> QED BY <2>2, <3>1
  <2> USE DEF Inv, TcpTypeOK
  <2>4. /\ conn' \in [Children -> Clients \union {NoText}]
        /\ up' \in [Clients -> Choices \union {NoChoice}]
        /\ down' \in [Clients -> Texts \union {NoText}]
        /\ shown' \in [Clients -> Texts \union {NoText}]
    BY <2>2
  <2> QED BY <2>1, <2>3, <2>4
<1> QED BY <1>1, TcpStep DEF CentralEnds, Inv, PcTypeOK

LEMMA AcceptInv ==
  ASSUME Inv, Accept \/ AcceptForkFails
  PROVE  Inv' /\ pc'[SemServer] = pc[SemServer]
<1> USE DEF Inv
<1>1. Head(backlog) \in Clients /\ Tail(backlog) \in Seq(Clients)
  BY DEF Accept, AcceptForkFails, TcpTypeOK
<1>2. CASE Accept
  <2>1. PICK k \in Children : /\ Goto(k, "unused", "recv")
                              /\ conn' = [conn EXCEPT ![k] = Head(backlog)]
    BY <1>2 DEF Accept
  <2>2. /\ PcTypeOK' /\ pc[k] = "unused" /\ pc'[k] = "recv"
        /\ \A q \in Procs \ {k} : pc'[q] = pc[q]
    BY <2>1, GotoChild DEF ChildPC
  <2>3. TcpTypeOK'
    BY <1>1, <1>2, <2>1 DEF Accept, TcpTypeOK
  <2>4. \A l \in Children :
          pc'[l] = pc[l] \/ (pc[l] \in {"unused", "recv"} /\ pc'[l] \notin Attacheds)
    BY <2>2, Places DEF Attacheds
  <2> QED BY <1>2, <2>2, <2>3, <2>4, TcpStep, Places DEF Accept
<1>3. CASE AcceptForkFails
  <2>1. Closed(Head(backlog)) \in Links
    BY <1>1, ClosedLink
  <2>2. TcpTypeOK'
    BY <1>1, <1>3, <2>1 DEF AcceptForkFails, TcpTypeOK
  <2>3. PcTypeOK'
    BY <1>3 DEF AcceptForkFails, PcTypeOK
  <2> QED BY <1>3, <2>2, <2>3, TcpStep DEF AcceptForkFails
<1> QED BY <1>2, <1>3

LEMMA ChildTcpInv ==
  ASSUME Inv, NEW k \in Children, ChildRecv(k) \/ ChildRecvFails(k) \/ ChildReply(k)
  PROVE  Inv' /\ pc'[SemServer] = pc[SemServer]
<1>1. PICK from \in {"recv", "reply"}, to \in {"sem_open", "que_open", "exit"} :
        Goto(k, from, to) /\ (from = "reply" => to = "exit")
  BY DEF ChildRecv, ChildRecvFails, ChildReply
<1>2. /\ PcTypeOK' /\ pc[k] = from /\ pc'[k] = to
      /\ \A q \in Procs \ {k} : pc'[q] = pc[q]
  BY <1>1, GotoChild DEF Inv, ChildPC, SemChildPC, QueChildPC
<1>3. UNCHANGED <<semPart, quePart>> /\ TcpTypeOK' /\ MesTypeOK'
  <2>1. CASE ChildRecv(k) \/ ChildRecvFails(k)
    BY <2>1, SomeTexts, TcpStays DEF ChildRecv, ChildRecvFails, Inv, MesTypeOK
  <2>2. CASE ChildReply(k)
    <3>1. mes[k] \in Texts /\ mes' = mes
      BY <2>2 DEF ChildReply, Inv, MesTypeOK
    <3>2. down' \in [Clients -> Texts \union {NoText}]
      BY <2>2, <3>1 DEF ChildReply, Inv, TcpTypeOK
    <3> QED BY <2>2, <3>1, <3>2 DEF ChildReply, Inv, TcpTypeOK, MesTypeOK
  <2> QED BY <2>1, <2>2
<1>4. SemInv'
  <2>1. \A l \in Children : pc'[l] \in Attacheds => pc[l] \in Attacheds
    BY <1>2, Places DEF Attacheds
  <2> QED BY <1>2, <1>3, <2>1, SemStays, Places DEF Inv
<1>5. QueInv'
  <2>1. \A l \in Children : /\ pc'[l] \in NotSent => pc[l] \in NotSent
                            /\ pc[l] = "que_rcv" => pc'[l] = "que_rcv"
    BY <1>1, <1>2, Places DEF NotSent
  <2> QED BY <1>2, <1>3, <2>1, QueStays, Places DEF Inv
<1> QED BY <1>2, <1>3, <1>4, <1>5, Places DEF Inv

-----------------------------------------------------------------------------
(* The ends of processes.                                                  *)

LEMMA SemExit ==
  ASSUME PcTypeOK, SemInv, NEW p \in SemProcs, exit_sem(p), UNCHANGED <<semIpc, sops, shmes, semStarts>>,
         NEW to, to = IF p = SemServer THEN "off" ELSE "ended",
         pc' = [pc EXCEPT ![p] = to]
  PROVE  /\ SemInv'
         /\ p = SemServer /\ HasSet(p) /\ pc[p] \in {"write", "answer"} => s0' >= 1
<1> USE DEF SemInv
<1>1. UNCHANGED <<sets, theSet, segs, theSeg, semid, shmid, sops, shmes, semStarts>>
  BY DEF semIpc
<1>2. /\ Values' /\ adj0'[p] = 0
      /\ \A q \in SemProcs \ {p} : adj0'[q] = adj0[q]
      /\ adj0[p] >= 1 => s0' >= 1
  BY SemTypes, ExitValues
<1>3. SemTypeOK'
  BY <1>1, <1>2, SemTypes DEF IpcTypes
<1>4. /\ pc'[SemServer] = IF p = SemServer THEN "off" ELSE pc[SemServer]
      /\ \A k \in Children : pc'[k] = IF p = k THEN "ended" ELSE pc[k]
  BY Places DEF PcTypeOK
<1>5. SemCounts' /\ Attached'
  <2>1. SemCounts'
    BY <1>1, <1>4 DEF SemCounts, SemTypeOK
  <2>2. Attached'
    BY <1>1, <1>4 DEF Attached
  <2> QED BY <2>1, <2>2
<1>6. Recorded'
  <2>1. SemServer \in SemProcs
    BY DEF SemProcs
  <2> QED BY <1>1, <1>2, <1>4, <2>1 DEF Recorded, HasSet
<1>7. p = SemServer /\ HasSet(p) /\ pc[p] \in {"write", "answer"} => s0' >= 1
  BY <1>2 DEF Recorded
<1> QED BY <1>3, <1>5, <1>6, <1>7

LEMMA QueExit ==
  ASSUME PcTypeOK, QueInv, NEW p \in QueProcs, Msg!msgexit(p),
         UNCHANGED <<queIpc, queStarts>>,
         ans' = IF p = QueServer THEN NoMsg ELSE ans,
         NEW to, to = IF p = QueServer THEN "off" ELSE "ended",
         pc' = [pc EXCEPT ![p] = to]
  PROVE  QueInv'
<1> USE DEF QueInv
<1>1. /\ MsgTypes /\ OtherQueTypes /\ MsgTypes'
      /\ asleep' = asleep \ {p} /\ buf' = [buf EXCEPT ![p] = NoMsg] /\ queue' = queue
      /\ UNCHANGED <<queues, theQueue, msid, queStarts>>
  BY QueTypesSplit, QueExited DEF queIpc, Msg!msgexit
<1>2. OtherQueTypes' /\ queues' <= queStarts'
  BY <1>1 DEF OtherQueTypes
<1>3. /\ pc'[QueServer] = IF p = QueServer THEN "off" ELSE pc[QueServer]
      /\ \A k \in Children : pc'[k] = IF p = k THEN "ended" ELSE pc[k]
  BY Places DEF PcTypeOK
<1>4. /\ QueServer \in QueProcs /\ Children \subseteq QueProcs /\ QueServer \notin Children
      /\ \A q \in QueProcs : buf'[q] = IF q = p THEN NoMsg ELSE buf[q]
  BY <1>1, Places DEF MsgTypes, QueProcs
<1>5. QueByPc'
  <2>1. \A q \in asleep' : buf'[q] = NoMsg
    BY <1>1, <1>4 DEF MsgTypes, QueByPc
  <2>2. ASSUME NEW k \in Children, k \in asleep' \/ buf'[k] # NoMsg PROVE pc'[k] = "que_rcv"
    <3>1. k # p /\ (k \in asleep \/ buf[k] # NoMsg)
      BY <1>1, <1>4, <2>2
    <3> QED BY <1>3, <3>1 DEF QueByPc
  <2>3. CASE p = QueServer
    <3>1. QueServer \notin asleep' /\ buf'[QueServer] = NoMsg /\ ans' = NoMsg /\ pc'[QueServer] = "off"
      BY <1>1, <1>3, <1>4, <2>3
    <3> QED BY <2>1, <2>2, <3>1 DEF QueByPc
  <2>4. CASE p # QueServer
    <3>1. /\ QueServer \in asleep' => QueServer \in asleep
          /\ buf'[QueServer] = buf[QueServer] /\ ans' = ans /\ pc'[QueServer] = pc[QueServer]
      BY <1>1, <1>3, <1>4, <2>4
    <3> QED BY <2>1, <2>2, <3>1 DEF QueByPc
  <2> QED BY <2>3, <2>4
<1>6. ASSUME NEW k \in Children PROVE Own(k)'
  <2>1. InQueue(k)' = InQueue(k)
    BY <1>1 DEF InQueue
  <2>2. AtServer(k)' => AtServer(k)
    BY <1>4 DEF AtServer
  <2>3. buf[k] = NoMsg => buf'[k] = NoMsg
    BY <1>4
  <2>4. pc'[k] \in NotSent => pc[k] \in NotSent
    BY <1>3 DEF NotSent
  <2>5. Own(k)
    OBVIOUS
  <2> QED BY <2>1, <2>2, <2>3, <2>4, <2>5 DEF Own, NotSent
<1> QED BY <1>1, <1>2, <1>5, <1>6, QueTypesSplit

LEMMA EndsInv ==
  ASSUME Inv, NEW k \in Children, Ends(k)
  PROVE  Inv' /\ pc'[SemServer] = pc[SemServer]
<1> USE DEF Inv
<1>1. k \in SemProcs /\ k \in QueProcs /\ k # SemServer /\ k # QueServer /\ k \in Procs
  BY Places DEF SemProcs, QueProcs
<1>2. /\ pc' = [pc EXCEPT ![k] = "ended"] /\ exit_sem(k) /\ Msg!msgexit(k)
      /\ UNCHANGED <<mes, semIpc, sops, shmes, semStarts, queIpc, ans, queStarts>>
  BY DEF Ends
<1>3. PcTypeOK' /\ pc'[SemServer] = pc[SemServer]
  BY <1>1, <1>2, SetPc, Places DEF ChildPC
<1>4. SemInv'
  BY <1>1, <1>2, SemExit
<1>5. QueInv'
  BY <1>1, <1>2, QueExit
<1>6. TcpTypeOK'
  <2>1. PICK l \in Links \union {link[conn[k]]} : link' = [link EXCEPT ![conn[k]] = l]
    <3>1. CASE conn[k] \in Clients
      BY <3>1, ClosedLink DEF Ends, Links
    <3>2. CASE conn[k] \notin Clients
      <4>1. link \in [Clients -> Links]
        BY DEF TcpTypeOK
      <4>2. link' = link
        BY <3>2, <4>1 DEF Ends
      <4>3. [link EXCEPT ![conn[k]] = "eof"] = link
        BY <3>2, <4>1
      <4> QED BY <4>2, <4>3 DEF Links
    <3> QED BY <3>1, <3>2
  <2>2. link' \in [Clients -> Links]
    BY <2>1 DEF TcpTypeOK
  <2> QED BY <2>2 DEF Ends, TcpTypeOK
<1>7. MesTypeOK'
  BY <1>2 DEF MesTypeOK
<1> QED BY <1>3, <1>4, <1>5, <1>6, <1>7

LEMMA KillQueServerInv ==
  ASSUME Inv, KillQueServer PROVE Inv' /\ pc'[SemServer] = pc[SemServer]
<1> USE DEF Inv
<1>1. QueServer \in QueProcs
  BY DEF QueProcs
<1>2. /\ pc' = [pc EXCEPT ![QueServer] = "off"] /\ Msg!msgexit(QueServer) /\ ans' = NoMsg
      /\ UNCHANGED <<mes, queIpc, queStarts, semPart, tcpPart>>
  BY DEF KillQueServer
<1>3. /\ PcTypeOK' /\ \A q \in Procs \ {QueServer} : pc'[q] = pc[q]
  BY <1>2, SetPc, Places DEF QueServerPC
<1>4. SemInv'
  BY <1>2, <1>3, SemStays, Places
<1>5. QueInv'
  BY <1>1, <1>2, QueExit
<1>6. TcpTypeOK' /\ MesTypeOK'
  BY <1>2, TcpStays DEF MesTypeOK
<1> QED BY <1>3, <1>4, <1>5, <1>6, Places

LEMMA KillSemServerInv ==
  ASSUME Inv, KillSemServer
  PROVE  /\ Inv'
         /\ HasSet(SemServer) /\ pc[SemServer] \in {"write", "answer"} => s0' >= 1
<1> USE DEF Inv
<1>1. SemServer \in SemProcs
  BY DEF SemProcs
<1>2. /\ pc' = [pc EXCEPT ![SemServer] = "off"] /\ exit_sem(SemServer)
      /\ UNCHANGED <<mes, semIpc, sops, shmes, semStarts, quePart, tcpPart>>
  BY DEF KillSemServer
<1>3. /\ PcTypeOK' /\ \A q \in Procs \ {SemServer} : pc'[q] = pc[q]
  BY <1>2, SetPc, Places DEF SemServerPC
<1>4. /\ SemInv'
      /\ HasSet(SemServer) /\ pc[SemServer] \in {"write", "answer"} => s0' >= 1
  BY <1>1, <1>2, SemExit
<1>5. QueInv'
  BY <1>2, <1>3, QueStays, Places
<1>6. TcpTypeOK' /\ MesTypeOK'
  BY <1>2, TcpStays DEF MesTypeOK
<1> QED BY <1>3, <1>4, <1>5, <1>6

-----------------------------------------------------------------------------
(* Init and Next. *)

LEMMA InitInv == Init => Inv
<1> SUFFICES ASSUME Init PROVE Inv
  OBVIOUS
<1>1. /\ \A c \in Clients : pc[c] = "start"
      /\ \A k \in Children : pc[k] = "unused"
      /\ pc[SemServer] = "off" /\ pc[QueServer] = "off"
      /\ pc \in [Procs -> {"start", "unused", "off"}]
  BY Places DEF Init
<1>2. PcTypeOK
  BY <1>1 DEF PcTypeOK, AllPC, ClientPC, ChildPC, SemServerPC, QueServerPC
<1>3. MesTypeOK /\ TcpTypeOK
  BY SomeTexts DEF Init, MesTypeOK, TcpTypeOK, Links
<1>4. SemInv
  <2>1. SemTypeOK
    <3>1. \A n \in Nat : 0 \in 0 .. n /\ 0 \in -n - 1 .. n
      OBVIOUS
    <3>2. SemStarts \in Nat /\ SEMAEM \in Nat
      OBVIOUS
    <3> QED BY <3>1, <3>2, SomeTexts DEF Init, SemInit, SemTypeOK
  <2>2. SemCounts /\ Attached
    BY <1>1 DEF Init, SemInit, SemCounts, Attached
  <2>3. Recorded
    BY <1>1 DEF Init, SemInit, Recorded, SemProcs
  <2> QED BY <2>1, <2>2, <2>3 DEF SemInv
<1>5. QueInv
  <2>1. MsgTypes
    BY EmptyFits DEF Init, QueInit, MsgTypes, QueProcs
  <2>2. QueTypeOK /\ queues <= queStarts
    BY <2>1 DEF Init, QueInit, QueTypeOK, MsgTypes, QueProcs
  <2>3. QueByPc
    BY <1>1 DEF Init, QueInit, QueByPc
  <2>4. \A k \in Children : Own(k)
    BY DEF Init, QueInit, Own, InQueue, AtServer
  <2> QED BY <2>2, <2>3, <2>4 DEF QueInv
<1> QED BY <1>2, <1>3, <1>4, <1>5 DEF Inv

LEMMA SemServerStepInv ==
  ASSUME Inv, SemServerStep \/ SemServerShmFails, UNCHANGED <<quePart, tcpPart>>
  PROVE  /\ Inv'
         /\ pc[SemServer] \in {"write", "answer"} => pc'[SemServer] # "off"
<1>1. PICK from \in SemServerPC, to \in SemServerPC :
        /\ Goto(SemServer, from, to) /\ mes' = mes
        /\ from \in {"write", "answer"} => to # "off"
  BY DEF SemServerStep, SemServerSemGet, SemServerSemCreate, SemServerShmGet,
         SemServerShmCreate, SemServerShmFails, SemServerReset, SemServerRcvReq,
         SemServerWrite, SemServerSndRpy, Call, SemServerPC
<1>2. /\ PcTypeOK' /\ pc[SemServer] = from /\ pc'[SemServer] = to
      /\ \A q \in Procs \ {SemServer} : pc'[q] = pc[q]
  BY <1>1, GotoSemServer DEF Inv
<1>3. SemInv'
  BY SemServerSets, SemServerCalls DEF Inv, SemServerStep
<1>4. QueInv'
  BY <1>2, QueStays, Places DEF Inv
<1>5. MesTypeOK' /\ TcpTypeOK'
  BY <1>1, TcpStays DEF Inv, MesTypeOK
<1> QED BY <1>1, <1>2, <1>3, <1>4, <1>5 DEF Inv

LEMMA SemChildStepInv ==
  ASSUME Inv, NEW k \in Children, SemChildStep(k) \/ ShmatFails(k),
         UNCHANGED <<quePart, tcpPart>>
  PROVE  Inv' /\ pc'[SemServer] = pc[SemServer]
<1>1. PcTypeOK' /\ SemInv' /\ MesTypeOK' /\ TcpTypeOK'
  BY SemChildMoves, SemChildSteps, TcpStays DEF Inv
<1>2. QueInv'
  <2>1. \A l \in Children : /\ pc'[l] \in NotSent => pc[l] \in NotSent
                            /\ pc[l] = "que_rcv" => pc'[l] = "que_rcv"
    BY SemChildMoves, Places DEF Inv, NotSent, SemChildPC
  <2> QED BY <2>1, QueStays, SemChildMoves, Places DEF Inv
<1> QED BY <1>1, <1>2, SemChildMoves, Places DEF Inv

(* Every step keeps Inv; and only a signal ends SemaphorServer while it    *)
(* has a request.                                                          *)
LEMMA NextInv ==
  ASSUME Inv, [Next]_vars
  PROVE  /\ Inv'
         /\ pc[SemServer] \in {"write", "answer"} /\ pc'[SemServer] = "off"
              => KillSemServer
<1> USE Places
<1> DEFINE Ok == /\ Inv'
                 /\ pc[SemServer] \in {"write", "answer"} /\ pc'[SemServer] = "off"
                      => KillSemServer
<1>1. CASE \E c \in Clients : ClientStep(c) \/ KillClient(c) \/ ConnectFails(c)
  BY <1>1, ClientStepInv
<1>2. CASE Accept \/ AcceptForkFails
  BY <1>2, AcceptInv
<1>3. ASSUME NEW k \in Children, ChildStep(k) PROVE Ok
  <2>1. CASE ChildRecv(k) \/ ChildRecvFails(k) \/ ChildReply(k)
    BY <2>1, ChildTcpInv
  <2>2. CASE ChildEnds(k)
    BY <2>2, EndsInv DEF ChildEnds
  <2>3. CASE SemChildStep(k) /\ UNCHANGED <<quePart, tcpPart>>
    BY <2>3, SemChildStepInv
  <2>4. CASE QueChildStep(k) /\ UNCHANGED <<semPart, tcpPart>>
    BY <2>4, QueChildStepInv, SemStays, TcpStays DEF Inv
  <2> QED BY <1>3, <2>1, <2>2, <2>3, <2>4 DEF ChildStep
<1>4. CASE (SemServerStep \/ SemServerShmFails) /\ UNCHANGED <<quePart, tcpPart>>
  BY <1>4, SemServerStepInv
<1>5. CASE QueServerStep /\ UNCHANGED <<semPart, tcpPart>>
  <2>1. QueInv' /\ PcTypeOK'
    BY <1>5, QueServerStepInv DEF Inv
  <2>2. mes' = mes /\ \A q \in Procs \ {QueServer} : pc'[q] = pc[q]
    BY <1>5 DEF QueServerStep, QueServerStart, QueServerRcv, QueServerAnswer,
                QueServerSnd, Goto, Inv, PcTypeOK
  <2>3. SemInv' /\ TcpTypeOK' /\ MesTypeOK'
    BY <1>5, <2>2, SemStays, TcpStays DEF Inv, MesTypeOK
  <2> QED BY <2>1, <2>2, <2>3 DEF Inv
<1>6. ASSUME NEW k \in Children,
             KillChild(k) \/ (ShmatFails(k) /\ UNCHANGED <<quePart, tcpPart>>)
      PROVE  Ok
  BY <1>6, EndsInv, SemChildStepInv DEF KillChild
<1>7. CASE KillSemServer
  BY <1>7, KillSemServerInv
<1>8. CASE KillQueServer
  BY <1>8, KillQueServerInv
<1>9. CASE UNCHANGED vars
  <2>1. UNCHANGED <<pc, mes, semPart, quePart, tcpPart>>
    BY <1>9 DEF vars
  <2>2. PcTypeOK' /\ MesTypeOK'
    BY <2>1 DEF Inv, PcTypeOK, MesTypeOK
  <2>3. SemInv' /\ QueInv' /\ TcpTypeOK'
    BY <2>1, SemStays, QueStays, TcpStays DEF Inv
  <2> QED BY <2>1, <2>2, <2>3 DEF Inv
<1>10. CASE CentralEnds
  BY <1>10, CentralEndsInv
<1> QED BY <1>1, <1>2, <1>3, <1>4, <1>5, <1>6, <1>7, <1>8, <1>9, <1>10 DEF Next, NextServing

LEMMA SpecInv == Spec => []Inv
<1>1. Inv /\ [Next]_vars => Inv'
  BY NextInv
<1> QED BY InitInv, <1>1, PTL DEF Spec

-----------------------------------------------------------------------------
(* The theorems. *)

(* Every variable has its type, whatever is killed, started again or       *)
(* fails; the semaphores and their adjustments stay in the kernel's range, *)
(* and the queue in its bytes.                                             *)
THEOREM SpecTypeOK == Spec => []TypeOK
<1>1. Inv => TypeOK
  BY DEF Inv, PcTypeOK, MesTypeOK, SemInv, QueInv, TcpTypeOK, TypeOK
<1> QED BY SpecInv, <1>1, PTL

(* snd_msg_to_que_serv uses the child's pid as the type of its message, so *)
(* that no child ever has two messages about, or one in two places, however *)
(* often QueueServer ends with a request or is started again.              *)
THEOREM SpecAtMostOneEach == Spec => []AtMostOneEach
<1>1. Inv => AtMostOneEach
  <2> SUFFICES ASSUME Inv, NEW k \in Children
               PROVE  Copies(k) <= IF pc[k] \in NotSent THEN 0 ELSE 1
    BY DEF AtMostOneEach, NotSent
  <2>1. /\ Own(k) /\ QueByPc
        /\ Copies(k) = Cardinality(InQueue(k))
                          + Holds(buf[QueServer], k) + Holds(ans, k) + Holds(buf[k], k)
    BY DEF Inv, QueInv, InQueue, Copies
  <2>2. /\ InQueue(k) = {} => Cardinality(InQueue(k)) = 0
        /\ \A i \in InQueue(k) : InQueue(k) = {i} => Cardinality(InQueue(k)) = 1
    <3>1. Cardinality({}) = 0 /\ \A x : Cardinality({x}) = 1
      BY QP!FS_EmptySet, QP!FS_Singleton DEF QP!Cardinality, Cardinality
    <3> QED BY <3>1
  <2>3. /\ ~ AtServer(k) => Holds(buf[QueServer], k) = 0 /\ Holds(ans, k) = 0
        /\ Holds(buf[QueServer], k) \in {0, 1} /\ Holds(ans, k) \in {0, 1}
        /\ Holds(buf[QueServer], k) = 0 \/ Holds(ans, k) = 0
    BY <2>1 DEF AtServer, Holds, QueByPc
  <2>4. Holds(buf[k], k) \in {0, 1} /\ (buf[k] = NoMsg => Holds(buf[k], k) = 0)
    BY DEF Holds
  <2>5. CASE InQueue(k) # {}
    <3>1. \E i \in InQueue(k) : InQueue(k) = {i}
      BY <2>1, <2>5 DEF Own
    <3>2. Cardinality(InQueue(k)) = 1 /\ ~ AtServer(k) /\ buf[k] = NoMsg
      BY <2>1, <2>2, <2>5, <3>1 DEF Own
    <3>3. pc[k] \notin NotSent
      BY <2>1, <2>5 DEF Own, NotSent
    <3> QED BY <2>1, <2>3, <2>4, <3>2, <3>3
  <2>6. CASE InQueue(k) = {}
    <3>1. pc[k] \in NotSent => ~ AtServer(k) /\ buf[k] = NoMsg
      BY <2>1 DEF Own, QueByPc, NotSent
    <3>2. AtServer(k) => buf[k] = NoMsg
      BY <2>1 DEF Own
    <3>3. Copies(k) = Holds(buf[QueServer], k) + Holds(ans, k) + Holds(buf[k], k)
      BY <2>1, <2>2, <2>3, <2>4, <2>6
    <3>4. CASE AtServer(k)
      BY <2>3, <2>4, <3>1, <3>2, <3>3, <3>4
    <3>5. CASE ~ AtServer(k)
      BY <2>3, <2>4, <3>1, <3>3, <3>5
    <3> QED BY <3>4, <3>5
  <2> QED BY <2>5, <2>6
<1> QED BY SpecInv, <1>1, PTL

(* SEM_UNDO, which only the server of the pair sets, holds the request it  *)
(* took: if the server is killed before it replied, the kernel posts the   *)
(* request again, also when a semaphore is at its limit.                   *)
THEOREM SpecTakenRequestSurvivesCrash == Spec => TakenRequestSurvivesCrash
<1>1. ASSUME Inv, [Next]_vars
      PROVE  [HasSet(SemServer) /\ pc[SemServer] \in {"write", "answer"}
               /\ pc'[SemServer] = "off" => s0' >= 1]_vars
  BY <1>1, NextInv, KillSemServerInv
<1> QED BY SpecInv, <1>1, PTL DEF Spec, TakenRequestSurvivesCrash
=============================================================================
