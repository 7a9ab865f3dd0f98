--------------------------- MODULE SemaphorServer ---------------------------
(***************************************************************************)
(* CourseProject/SemaphorServer.c, and snd_msg_to_sem_serv (SemaphorServer *)
(* .h) with which a child of CentralServer asks it.  The exchange is that  *)
(* of ThirdLab/Semafores, with one difference that matters: the server     *)
(* sets SEM_UNDO, but a child leaves the flags of its two operations as    *)
(* they are, uninitialised, for all its calls.                             *)
(***************************************************************************)
EXTENDS CourseProject, SysVSem

CONSTANTS
  FlagsFound,     \* the flags a child may find in sops, see Sops
  SemStarts,      \* bound: how often the server is started
  SemIdZero, ShmIdZero  \* do the first set and segment get identifier 0?

(* The two bits of sops[0].sem_flg and sops[1].sem_flg semop looks at. *)
Sops == [undo0 : BOOLEAN, undo1 : BOOLEAN, nowait0 : BOOLEAN, nowait1 : BOOLEAN]

UndoSops_first_left ==         \* a slip: sops[0].sem_flg is not set
  [undo0 |-> FALSE, undo1 |-> TRUE, nowait0 |-> FALSE, nowait1 |-> FALSE]

UndoSops ==
  [undo0 |-> TRUE, undo1 |-> TRUE, nowait0 |-> FALSE, nowait1 |-> FALSE]

ASSUME SemaphorAssumption ==
  /\ SEMAEM \in Nat \ {0}
  /\ FlagsFound \subseteq Sops /\ FlagsFound # {}
  /\ SemStarts \in Nat
  /\ SemIdZero \in BOOLEAN /\ ShmIdZero \in BOOLEAN

VARIABLES
  sets, theSet, segs, theSeg,   \* as in SemaExchange
  semid, shmid,
  sops,           \* process -> the flags of its operations
  shmes,          \* segment -> the text in its field mes
  semStarts       \* how often the server was started

semIpc  == <<sets, theSet, segs, theSeg, semid, shmid>>
semPart == <<semVars, semIpc, sops, shmes, semStarts>>

SemProcs == Children \union {SemServer}

SemServerPC == {"off", "sem_create", "shm_get", "shm_create", "reset",
                "rcv", "write", "answer"}
SemChildPC  == {"sem_open", "shm_open", "sem_getmem", "sem_write", "sem_snd",
                "sem_rcv", "sem_read", "sem_reset"}

-----------------------------------------------------------------------------
RemoveSet ==
  /\ theSet' = 0
  /\ s0' = 0 /\ s1' = 0
  /\ adj0' = [p \in SemProcs |-> 0]
  /\ adj1' = [p \in SemProcs |-> 0]

HasSet(p) == theSet # 0 /\ semid[p] = theSet

(* The first operation that does not pass has IPC_NOWAIT: EAGAIN. *)
semop_EAGAIN(p, status) ==
  /\ \/ ~ Passes0(status) /\ sops[p].nowait0
     \/ /\ Passes0(status) /\ Fits0(p, status, sops[p].undo0)
        /\ ~ Passes1(status) /\ sops[p].nowait1
  /\ UNCHANGED semVars

(* Whatever error semop returns is printed and forgotten. *)
getsem(p, status) ==
  \/ HasSet(p) /\ semop(p, status, sops[p].undo0, sops[p].undo1)
  \/ HasSet(p) /\ semop_ERANGE(p, status, sops[p].undo0, sops[p].undo1)
  \/ HasSet(p) /\ semop_EAGAIN(p, status)
  \/ ~ HasSet(p) /\ UNCHANGED semVars

(* A step of p that is a call of getsem and nothing else. *)
Call(p, from, status, to) ==
  /\ Goto(p, from, to)
  /\ getsem(p, status)
  /\ UNCHANGED <<semIpc, sops, shmes, semStarts, mes>>

-----------------------------------------------------------------------------
(* The server. *)

SemServerSemGet ==    \* remove an existing set, if its identifier is 0
  /\ semStarts < SemStarts
  /\ Goto(SemServer, "off", "sem_create")
  /\ semStarts' = semStarts + 1
  /\ IF SemIdZero /\ theSet = 1 THEN RemoveSet ELSE UNCHANGED <<theSet, semVars>>
  /\ UNCHANGED <<sets, segs, theSeg, semid, shmid, sops, shmes, mes>>

SemServerSemCreate ==
  /\ Goto(SemServer, "sem_create", "shm_get")
  /\ IF theSet = 0 THEN sets' = sets + 1 /\ theSet' = sets + 1
                   ELSE UNCHANGED <<sets, theSet>>
  /\ semid' = [semid EXCEPT ![SemServer] = theSet']
  /\ UNCHANGED <<semVars, segs, theSeg, shmid, sops, shmes, semStarts, mes>>

SemServerShmGet ==    \* remove an existing segment, if its identifier is 0
  /\ Goto(SemServer, "shm_get", "shm_create")
  /\ theSeg' = IF ShmIdZero /\ theSeg = 1 THEN 0 ELSE theSeg
  /\ UNCHANGED <<semVars, sets, theSet, segs, semid, shmid, sops, shmes,
                 semStarts, mes>>

OpenSegment ==
  IF theSeg = 0 THEN segs' = segs + 1 /\ theSeg' = segs + 1
                ELSE UNCHANGED <<segs, theSeg>>

SemServerShmCreate ==
  /\ Goto(SemServer, "shm_create", "reset")
  /\ OpenSegment
  /\ shmid' = [shmid EXCEPT ![SemServer] = theSeg']
  /\ sops' = [sops EXCEPT ![SemServer] = UndoSops]
  /\ UNCHANGED <<semVars, sets, theSet, semid, shmes, semStarts, mes>>

(* shmget, or shmat after it, fails: the server removes the set and ends.  *)
SemServerShmFails ==
  /\ Goto(SemServer, "shm_create", "off")
  /\ RemoveSet
  /\ OpenSegment \/ UNCHANGED <<segs, theSeg>>
  /\ UNCHANGED <<sets, semid, shmid, sops, shmes, semStarts, mes>>

SemServerReset  == Call(SemServer, "reset", "RESET_MEM", "rcv")
SemServerRcvReq == Call(SemServer, "rcv", "SERVER_RCV_REQ", "write")

SemServerWrite ==
  /\ Goto(SemServer, "write", "answer")
  /\ shmes' = [shmes EXCEPT ![shmid[SemServer]] = SemAnswer]
  /\ UNCHANGED <<semVars, semIpc, sops, semStarts, mes>>

SemServerSndRpy == Call(SemServer, "answer", "SERVER_SND_RPY", "rcv")

SemServerStep ==
  \/ SemServerSemGet \/ SemServerSemCreate \/ SemServerShmGet
  \/ SemServerShmCreate \/ SemServerReset \/ SemServerRcvReq
  \/ SemServerWrite \/ SemServerSndRpy

-----------------------------------------------------------------------------
(* A child, in snd_msg_to_sem_serv; it returns to "reply".  Without a set  *)
(* or a segment, it exits.                                                 *)

SemOpen(k) ==
  /\ Goto(k, "sem_open", IF theSet = 0 THEN "exit" ELSE "shm_open")
  /\ semid' = [semid EXCEPT ![k] = theSet]
  /\ UNCHANGED <<semVars, sets, theSet, segs, theSeg, shmid, sops, shmes,
                 semStarts, mes>>

ShmOpen(k) ==
  /\ Goto(k, "shm_open", IF theSeg = 0 THEN "exit" ELSE "sem_getmem")
  /\ shmid' = [shmid EXCEPT ![k] = theSeg]
  /\ \E f \in FlagsFound : sops' = [sops EXCEPT ![k] = f]
  /\ UNCHANGED <<semVars, sets, theSet, segs, theSeg, semid, shmes,
                 semStarts, mes>>

(* shmat fails: the child removes the set all processes use, and exits. *)
ShmatFails(k) ==
  /\ HasSet(k) /\ theSeg # 0
  /\ Goto(k, "shm_open", "exit")
  /\ RemoveSet
  /\ UNCHANGED <<sets, segs, theSeg, semid, shmid, sops, shmes, semStarts, mes>>

SemGetMem_no_wait(k) ==        \* a slip: the segment is used without asking
  /\ Goto(k, "sem_getmem", "sem_write")
  /\ UNCHANGED <<semPart, mes>>

SemGetMem(k) == Call(k, "sem_getmem", "CLIENT_GET_MEM", "sem_write")

SemWrite(k) ==
  /\ Goto(k, "sem_write", "sem_snd")
  /\ shmes' = [shmes EXCEPT ![shmid[k]] = mes[k]]
  /\ UNCHANGED <<semVars, semIpc, sops, semStarts, mes>>

SemSndReq(k) == Call(k, "sem_snd", "CLIENT_SND_REQ", "sem_rcv")
SemRcvRpy(k) == Call(k, "sem_rcv", "CLIENT_RCV_RPY", "sem_read")

SemRead(k) ==
  /\ Goto(k, "sem_read", "sem_reset")
  /\ mes' = [mes EXCEPT ![k] = shmes[shmid[k]]]
  /\ UNCHANGED semPart

SemReset_forgotten(k) ==       \* a slip: the segment is not given back
  /\ Goto(k, "sem_reset", "reply")
  /\ UNCHANGED <<semPart, mes>>

SemReset(k) == Call(k, "sem_reset", "RESET_MEM", "reply")

SemChildStep(k) ==
  \/ SemOpen(k) \/ ShmOpen(k) \/ SemGetMem(k) \/ SemWrite(k) \/ SemSndReq(k)
  \/ SemRcvRpy(k) \/ SemRead(k) \/ SemReset(k)

SemInit ==
  /\ s0 = 0 /\ s1 = 0
  /\ adj0 = [p \in SemProcs |-> 0]
  /\ adj1 = [p \in SemProcs |-> 0]
  /\ sets = 0 /\ theSet = 0
  /\ segs = 0 /\ theSeg = 0
  /\ semid = [p \in SemProcs |-> 0]
  /\ shmid = [p \in SemProcs |-> 0]
  /\ sops = [p \in SemProcs |-> UndoSops]
  /\ shmes = [g \in 1 .. SemStarts |-> Empty]
  /\ semStarts = 0

SemTypeOK ==
  /\ s0 \in 0 .. SEMAEM /\ s1 \in 0 .. SEMAEM
  /\ adj0 \in [SemProcs -> -SEMAEM - 1 .. SEMAEM]
  /\ adj1 \in [SemProcs -> -SEMAEM - 1 .. SEMAEM]
  /\ semStarts \in 0 .. SemStarts
  /\ sets \in 0 .. SemStarts /\ theSet \in 0 .. sets
  /\ segs \in 0 .. SemStarts /\ theSeg \in 0 .. segs
  /\ semid \in [SemProcs -> 0 .. SemStarts]
  /\ shmid \in [SemProcs -> 0 .. SemStarts]
  /\ sops \in [SemProcs -> FlagsFound \union {UndoSops}]
  /\ shmes \in [1 .. SemStarts -> Texts]
=============================================================================
