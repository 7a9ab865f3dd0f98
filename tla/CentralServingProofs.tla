------------------------ MODULE CentralServingProofs ------------------------
(***************************************************************************)
(* For any number of clients and children: while the servers run, and      *)
(* clients come and are killed as their users like, the shared segment has *)
(* one user, and what a client is shown answers its choice.                *)
(*                                                                         *)
(* That needs more than the code ensures, so each theorem says it: of the  *)
(* flags that a child finds uninitialised in its two operations, only      *)
(* SEM_UNDO of the first may be set (HarmlessFlags).  SEM_UNDO of the      *)
(* second does harm, and so does IPC_NOWAIT in either: with any flags, the *)
(* run central_flags shows GotMeansAnswered violated.                      *)
(*                                                                         *)
(* The invariant lists what the exchange of the one child that has the     *)
(* segment may have come to.  One case is an end: the server's adjustment  *)
(* of semaphore 1 grows with each reply, and when it is out of range       *)
(* SERVER_SND_RPY fails with ERANGE, and that child waits for ever.        *)
(***************************************************************************)
EXTENDS CentralProofs

USE CourseAssumption, SemaphorAssumption, QueueAssumption, NoMsgAssumption,
    CentralAssumption

Harmless == {f \in Sops : ~ f.undo1 /\ ~ f.nowait0 /\ ~ f.nowait1}

HarmlessFlags == FlagsFound \subseteq Harmless

ServerUp == pc[SemServer] \in {"rcv", "write", "answer"}

(* One set and one segment, which who uses them has found. *)
Attaching == Attacheds \union {"shm_open"}

OneSet ==
  /\ theSet = IF pc[SemServer] \in {"off", "sem_create"} THEN 0 ELSE 1
  /\ theSeg = IF pc[SemServer] \in {"off", "sem_create", "shm_get", "shm_create"}
              THEN 0 ELSE 1
  /\ sets = theSet /\ segs = theSeg
  /\ theSet = 1 => semid[SemServer] = 1
  /\ theSeg = 1 => shmid[SemServer] = 1

Found(k) ==
  /\ pc[k] \in Attaching => theSet = 1 /\ semid[k] = 1
  /\ pc[k] \in Attacheds => theSeg = 1 /\ shmid[k] = 1 /\ sops[k] \in FlagsFound

(* A child has adjustments only while it waits for the server. *)
Adjusts(k) ==
  /\ adj1[k] = 0
  /\ adj0[k] = IF pc[k] = "sem_rcv" /\ sops[k].undo0 THEN -1 ELSE 0

Sem(v0, v1) == s0 = v0 /\ s1 = v1

Ready      == pc[SemServer] = "rcv" /\ adj0[SemServer] = 0
Took(call) == pc[SemServer] = call /\ adj0[SemServer] = 1
Answered   == shmes[1] = SemAnswer

(* What the exchange of child k may have come to. *)
Exchange(k) ==
  \/ pc[k] \in {"sem_write", "sem_snd"} /\ Sem(0, 0) /\ Ready
  \/ /\ pc[k] = "sem_rcv"
     /\ \/ Sem(1, 0) /\ Ready
        \/ Sem(0, 0) /\ Took("write")
        \/ Sem(0, 0) /\ Took("answer") /\ Answered
        \/ Sem(1, 1) /\ Ready /\ Answered
        \/ Sem(0, 0) /\ Took("rcv")
  \/ pc[k] \in {"sem_read", "sem_reset"} /\ Sem(0, 0) /\ Ready /\ Answered

Idle ==
  /\ Sem(0, IF ServerUp THEN 1 ELSE 0)
  /\ pc[SemServer] \notin {"write", "answer"}
  /\ adj0[SemServer] = 0

Fit ==
  /\ ~ ServerUp => adj1[SemServer] = 0
  /\ (\A k \in Children : ~ InExchange(k)) => Idle
  /\ \A k \in Children : InExchange(k) =>
       /\ Exchange(k)
       /\ \A l \in Children : InExchange(l) => k = l

SemFit == OneSet /\ Fit /\ \A k \in Children : Found(k) /\ Adjusts(k)

(* A child leaves no message behind. *)
NoneBehind(k) == pc[k] # "que_rcv" => InQueue(k) = {} /\ ~ AtServer(k)

(* The texts that fit a choice, and who has which.                         *)
Suits(c, t) ==
  t \in IF up[c] = "SORT_FILES" THEN {SemAnswer} ELSE {QueAnswer, Shifted, Question}

Asked(c) ==
  /\ pc[c] \in {"start", "choose"} =>
       up[c] = NoChoice /\ down[c] = NoText /\ shown[c] = NoText
  /\ down[c] # NoText => Suits(c, down[c])
  /\ shown[c] # NoText => shown[c] = IF down[c] = NoText THEN Question ELSE down[c]

Told(k) ==
  /\ pc[k] # "unused" => conn[k] \in Clients
  /\ pc[k] \in SemChildPC \union QueChildPC \union {"reply"} => up[conn[k]] # NoChoice
  /\ pc[k] \in SemChildPC =>
       /\ up[conn[k]] = "SORT_FILES"
       /\ mes[k] = IF pc[k] = "sem_reset" THEN SemAnswer ELSE Question
  /\ pc[k] \in QueChildPC => up[conn[k]] # "SORT_FILES" /\ mes[k] = Question
  /\ pc[k] = "reply" => Suits(conn[k], mes[k])

(* A client has one connection, which is in the backlog or with one child, *)
(* and is sent one text; what it is shown without, it is at the end.       *)
InBacklog(c) == \E i \in DOMAIN backlog : backlog[i] = c

Used(k) == pc[k] # "unused"

Serves(k) ==
  /\ conn[k] \in Clients /\ pc[conn[k]] # "start" /\ ~ InBacklog(conn[k])
  /\ \A l \in Children : Used(l) /\ conn[l] = conn[k] => l = k
  /\ pc[k] \notin {"exit", "ended"} => down[conn[k]] = NoText

Wired ==
  /\ \A i, j \in DOMAIN backlog : backlog[i] = backlog[j] => i = j
  /\ \A i \in DOMAIN backlog : pc[backlog[i]] # "start" /\ down[backlog[i]] = NoText
  /\ \A k \in Children : Used(k) => Serves(k)
  /\ \A c \in Clients : shown[c] # NoText /\ down[c] = NoText => link[c] # "open"

Talk ==
  /\ \A c \in Clients : Asked(c)
  /\ \A k \in Children : Told(k) /\ NoneBehind(k)

IInv == Inv /\ SemFit /\ Talk /\ Wired

-----------------------------------------------------------------------------
(* The calls of semop.  With harmless flags a child's call has an effect   *)
(* whenever it ends; the server's may fail with ERANGE only to reply.      *)

LEMMA FlagsOf ==
  ASSUME HarmlessFlags, NEW f \in FlagsFound
  PROVE  /\ f.undo0 \in BOOLEAN /\ f.undo1 = FALSE
         /\ f.nowait0 = FALSE /\ f.nowait1 = FALSE
<1>1. f \in Sops /\ ~ f.undo1 /\ ~ f.nowait0 /\ ~ f.nowait1
  BY DEF HarmlessFlags, Harmless
<1>2. /\ f.undo0 \in BOOLEAN /\ f.undo1 \in BOOLEAN
      /\ f.nowait0 \in BOOLEAN /\ f.nowait1 \in BOOLEAN
  BY <1>1 DEF Sops
<1> QED BY <1>1, <1>2

LEMMA ChildSemop ==
  ASSUME HarmlessFlags, Values, NEW k \in Children, HasSet(k), sops[k] \in FlagsFound,
         s0 \in 0 .. 1, s1 \in 0 .. 1, adj0[k] \in -1 .. 0, adj1[k] = 0,
         NEW status \in {"CLIENT_GET_MEM", "CLIENT_SND_REQ", "CLIENT_RCV_RPY", "RESET_MEM"},
         getsem(k, status), status = "CLIENT_RCV_RPY" \/ adj0[k] = 0,
         status \in {"CLIENT_SND_REQ", "RESET_MEM"} => s0 = 0 /\ s1 = 0
  PROVE  /\ Passes0(status) /\ Passes1(status)
         /\ s0' = s0 + sem_op0[status] /\ s1' = s1 + sem_op1[status]
         /\ adj0'[k] = IF sops[k].undo0 THEN adj0[k] - sem_op0[status] ELSE adj0[k]
         /\ adj1'[k] = 0
         /\ \A q \in SemProcs \ {k} : adj0'[q] = adj0[q] /\ adj1'[q] = adj1[q]
<1>1. /\ k \in SemProcs /\ status \in DOMAIN sem_op0
      /\ sops[k].undo0 \in BOOLEAN /\ sops[k].undo1 = FALSE
      /\ sops[k].nowait0 = FALSE /\ sops[k].nowait1 = FALSE
  BY FlagsOf DEF SemProcs, sem_op0
<1>2. Fits0(k, status, sops[k].undo0) /\ Fits1(k, status, FALSE)
  BY <1>1 DEF Fits0, Fits1, InRange, sem_op0, sem_op1
<1>3. ~ semop_ERANGE(k, status, sops[k].undo0, FALSE) /\ ~ semop_EAGAIN(k, status)
  BY <1>1, <1>2 DEF semop_ERANGE, semop_EAGAIN
<1>4. semop(k, status, sops[k].undo0, FALSE)
  BY <1>1, <1>3 DEF getsem
<1>5. /\ adj0'[k] = IF sops[k].undo0 THEN adj0[k] - sem_op0[status] ELSE adj0[k]
      /\ \A q \in SemProcs \ {k} : adj0'[q] = adj0[q] /\ adj1'[q] = adj1[q]
  <2>1. CASE sops[k].undo0 = TRUE
    <3>1. semop(k, status, TRUE, FALSE)
      BY <1>4, <2>1
    <3>2. /\ adj0'[k] = adj0[k] - sem_op0[status]
          /\ \A q \in SemProcs \ {k} : adj0'[q] = adj0[q] /\ adj1'[q] = adj1[q]
      BY <1>1, <3>1, SemopValues
    <3> QED BY <2>1, <3>2
  <2>2. CASE sops[k].undo0 = FALSE
    <3>1. semop(k, status, FALSE, FALSE)
      BY <1>4, <2>2
    <3>2. /\ adj0'[k] = adj0[k]
          /\ \A q \in SemProcs \ {k} : adj0'[q] = adj0[q] /\ adj1'[q] = adj1[q]
      BY <1>1, <3>1, SemopValues
    <3> QED BY <2>2, <3>2
  <2> QED BY <1>1, <2>1, <2>2
<1>6. adj1' = adj1
  BY <1>4 DEF semop, Adjusted
<1> QED BY <1>4, <1>5, <1>6 DEF semop

LEMMA ServerSemop ==
  ASSUME Values, sops[SemServer] = UndoSops, HasSet(SemServer),
         s0 \in 0 .. 1, s1 \in 0 .. 1, adj0[SemServer] \in 0 .. 1,
         NEW status \in {"SERVER_RCV_REQ", "SERVER_SND_RPY", "RESET_MEM"},
         getsem(SemServer, status),
         s0 = 0 \/ adj0[SemServer] = 0,
         status = "RESET_MEM" => adj1[SemServer] = 0 /\ s1 = 0
  PROVE  /\ \A q \in Children : adj0'[q] = adj0[q] /\ adj1'[q] = adj1[q]
         /\ \/ /\ Passes0(status) /\ Passes1(status)
               /\ s0' = s0 + sem_op0[status] /\ s1' = s1 + sem_op1[status]
               /\ adj0'[SemServer] = adj0[SemServer] - sem_op0[status]
            \/ /\ status = "SERVER_SND_RPY" /\ UNCHANGED semVars
<1>1. /\ SemServer \in SemProcs /\ status \in DOMAIN sem_op0
      /\ sops[SemServer].undo0 = TRUE /\ sops[SemServer].undo1 = TRUE
      /\ sops[SemServer].nowait0 = FALSE /\ sops[SemServer].nowait1 = FALSE
      /\ Children \subseteq SemProcs \ {SemServer}
      /\ adj1[SemServer] \in -SEMAEM - 1 .. SEMAEM
  BY Places DEF SemProcs, sem_op0, UndoSops, Values
<1>2. CASE semop(SemServer, status, TRUE, TRUE)
  <2>1. /\ adj0'[SemServer] = adj0[SemServer] - sem_op0[status]
        /\ \A q \in SemProcs \ {SemServer} : adj0'[q] = adj0[q] /\ adj1'[q] = adj1[q]
    <3>1. TRUE \in BOOLEAN
      OBVIOUS
    <3> QED BY <1>1, <1>2, <3>1, SemopValues, ZenonT(30)
  <2>2. /\ Passes0(status) /\ Passes1(status)
        /\ s0' = s0 + sem_op0[status] /\ s1' = s1 + sem_op1[status]
    BY <1>2 DEF semop
  <2> QED BY <1>1, <2>1, <2>2
<1>3. CASE semop_ERANGE(SemServer, status, TRUE, TRUE)
  <2>1. Passes0(status) /\ status # "SERVER_SND_RPY" =>
          /\ Fits0(SemServer, status, TRUE) /\ Fits1(SemServer, status, TRUE)
    <3>1. CASE status = "SERVER_RCV_REQ"
      <4>1. sem_op0[status] = -1 /\ sem_op1[status] = 0
        BY <3>1 DEF sem_op0, sem_op1
      <4>2. CASE Passes0(status)
        <5>1. adj0[SemServer] = 0
          BY <4>1, <4>2 DEF Passes0, OpPasses
        <5> QED BY <1>1, <4>1, <5>1 DEF Fits0, Fits1, InRange
      <4> QED BY <4>2
    <3>2. CASE status = "RESET_MEM"
      BY <1>1, <3>2 DEF Fits0, Fits1, InRange, sem_op0, sem_op1
    <3> QED BY <3>1, <3>2
  <2>2. status = "SERVER_SND_RPY" /\ UNCHANGED semVars
    BY <1>3, <2>1 DEF semop_ERANGE
  <2> QED BY <2>2 DEF semVars
<1>4. ~ semop_EAGAIN(SemServer, status)
  BY <1>1 DEF semop_EAGAIN
<1> QED BY <1>1, <1>2, <1>3, <1>4 DEF getsem

LEMMA FitRanges ==
  ASSUME SemFit
  PROVE  /\ s0 \in 0 .. 1 /\ s1 \in 0 .. 1 /\ adj0[SemServer] \in 0 .. 1
         /\ \A k \in Children : adj0[k] \in -1 .. 0 /\ adj1[k] = 0
         /\ \A k \in Children : pc[k] # "sem_rcv" => adj0[k] = 0
         /\ \A k \in Children : pc[k] \in {"sem_snd", "sem_reset"} => s0 = 0 /\ s1 = 0
         /\ ~ ServerUp => s1 = 0
         /\ s0 = 0 \/ adj0[SemServer] = 0
         /\ \A k \in Children : InExchange(k) => ServerUp
<1>3. \A k \in Children : pc[k] \in {"sem_snd", "sem_reset"} => s0 = 0 /\ s1 = 0
  BY DEF SemFit, Fit, InExchange, Exchange, Sem
<1>1. CASE \A k \in Children : ~ InExchange(k)
  BY <1>1, <1>3 DEF SemFit, Fit, Idle, Sem, Adjusts
<1>2. CASE \E k \in Children : InExchange(k)
  <2>1. PICK k \in Children : Exchange(k)
    BY <1>2 DEF SemFit, Fit
  <2>2. /\ s0 \in 0 .. 1 /\ s1 \in 0 .. 1 /\ adj0[SemServer] \in 0 .. 1
        /\ s0 = 0 \/ adj0[SemServer] = 0
        /\ pc[SemServer] \in {"rcv", "write", "answer"}
    BY <2>1 DEF Exchange, Sem, Ready, Took
  <2> QED BY <1>3, <2>2 DEF SemFit, Adjusts, ServerUp
<1> QED BY <1>1, <1>2

(* Steps that do not touch the exchange. *)
LEMMA FitStays ==
  ASSUME SemFit, UNCHANGED semPart, pc'[SemServer] = pc[SemServer],
         \A k \in Children :
           pc'[k] = pc[k] \/ (pc[k] \notin Attaching /\ pc'[k] \notin Attaching)
  PROVE  SemFit'
<1>1. UNCHANGED <<s0, s1, adj0, adj1, sets, theSet, segs, theSeg, semid, shmid, sops, shmes>>
  BY DEF semPart, semVars, semIpc
<1>2. OneSet'
  BY <1>1 DEF SemFit, OneSet
<1>3. ASSUME NEW k \in Children
      PROVE  /\ Found(k)' /\ Adjusts(k)'
             /\ InExchange(k)' <=> InExchange(k)
             /\ InExchange(k) => pc'[k] = pc[k]
  <2>1. CASE pc'[k] = pc[k]
    BY <1>1, <2>1 DEF SemFit, Found, Adjusts, InExchange
  <2>2. CASE pc[k] \notin Attaching /\ pc'[k] \notin Attaching
    BY <1>1, <2>2 DEF SemFit, Found, Adjusts, InExchange, Attaching, Attacheds
  <2> QED BY <2>1, <2>2
<1>4. (Idle' <=> Idle) /\ (ServerUp' <=> ServerUp)
  BY <1>1 DEF Idle, Sem, ServerUp
<1>5. \A k \in Children : InExchange(k) /\ Exchange(k) => Exchange(k)'
  BY <1>1, <1>3 DEF Exchange, Sem, Ready, Took, Answered
<1>6. Fit'
  BY <1>1, <1>3, <1>4, <1>5 DEF SemFit, Fit
<1> QED BY <1>2, <1>3, <1>6 DEF SemFit

(* Steps of the one child that is in an exchange, or none is. *)
LEMMA FitOfOne ==
  ASSUME NEW k \in Children,
         \A l \in Children \ {k} : ~ InExchange(l) /\ pc'[l] = pc[l],
         ~ ServerUp' => adj1'[SemServer] = 0,
         IF InExchange(k)' THEN Exchange(k)' ELSE Idle'
  PROVE  Fit'
<1>1. \A l \in Children \ {k} : ~ InExchange(l)'
  BY DEF InExchange
<1> QED BY <1>1 DEF Fit

(* A call of child k, which has found set and segment. *)
LEMMA ChildCall ==
  ASSUME HarmlessFlags, Inv, SemFit, NEW k \in Children,
         NEW from \in Attacheds, NEW to \in Attacheds \union {"reply"},
         NEW status \in {"CLIENT_GET_MEM", "CLIENT_SND_REQ", "CLIENT_RCV_RPY", "RESET_MEM"},
         from = "sem_rcv" => status = "CLIENT_RCV_RPY",
         status \in {"CLIENT_SND_REQ", "RESET_MEM"} => from \in {"sem_snd", "sem_reset"},
         Call(k, from, status, to)
  PROVE  /\ pc[k] = from /\ pc'[k] = to
         /\ \A q \in Procs \ {k} : pc'[q] = pc[q]
         /\ UNCHANGED <<semIpc, sops, shmes>>
         /\ Passes0(status) /\ Passes1(status)
         /\ s0' = s0 + sem_op0[status] /\ s1' = s1 + sem_op1[status]
         /\ adj0'[k] = IF sops[k].undo0 THEN adj0[k] - sem_op0[status] ELSE adj0[k]
         /\ adj0'[SemServer] = adj0[SemServer] /\ adj1'[SemServer] = adj1[SemServer]
         /\ OneSet' /\ \A l \in Children : Found(l)' /\ (l # k => Adjusts(l)')
         /\ adj1'[k] = 0
<1>1. to \in ChildPC
  BY DEF ChildPC, SemChildPC, Attacheds
<1>2. Goto(k, from, to) /\ getsem(k, status) /\ UNCHANGED <<semIpc, sops, shmes>>
  BY DEF Call
<1>3. /\ pc[k] = from /\ pc'[k] = to /\ \A q \in Procs \ {k} : pc'[q] = pc[q]
  BY <1>1, <1>2, GotoChild DEF Inv
<1>4. HasSet(k) /\ sops[k] \in FlagsFound /\ theSet = 1 /\ semid[k] = 1 /\ theSeg = 1 /\ shmid[k] = 1
  BY <1>3 DEF SemFit, Found, HasSet, Attaching
<1>5. /\ s0 \in 0 .. 1 /\ s1 \in 0 .. 1 /\ adj0[k] \in -1 .. 0 /\ adj1[k] = 0
      /\ status = "CLIENT_RCV_RPY" \/ adj0[k] = 0
      /\ status \in {"CLIENT_SND_REQ", "RESET_MEM"} => s0 = 0 /\ s1 = 0
  BY <1>3, FitRanges
<1>6. /\ Passes0(status) /\ Passes1(status)
      /\ s0' = s0 + sem_op0[status] /\ s1' = s1 + sem_op1[status]
      /\ adj0'[k] = IF sops[k].undo0 THEN adj0[k] - sem_op0[status] ELSE adj0[k]
      /\ adj1'[k] = 0
      /\ \A q \in SemProcs \ {k} : adj0'[q] = adj0[q] /\ adj1'[q] = adj1[q]
  <2>1. Values
    BY SemTypes DEF Inv, SemInv
  <2> QED BY <1>2, <1>4, <1>5, <2>1, ChildSemop
<1>7. /\ SemServer \in SemProcs \ {k} /\ SemServer \in Procs \ {k}
      /\ Children \ {k} \subseteq SemProcs \ {k}
  BY Places DEF SemProcs
<1>8. UNCHANGED <<sets, theSet, segs, theSeg, semid, shmid, sops, shmes>>
  BY <1>2 DEF semIpc
<1>9. OneSet'
  BY <1>3, <1>7, <1>8 DEF SemFit, OneSet
<1>10. ASSUME NEW l \in Children PROVE Found(l)' /\ (l # k => Adjusts(l)')
  <2>1. CASE l = k
    BY <1>4, <1>8, <2>1 DEF Found
  <2>2. CASE l # k
    <3>1. pc'[l] = pc[l]
      BY <1>3, <2>2, Places
    <3> QED BY <1>6, <1>7, <1>8, <2>2, <3>1 DEF SemFit, Found, Adjusts
  <2> QED BY <2>1, <2>2
<1> QED BY <1>2, <1>3, <1>6, <1>7, <1>9, <1>10

(* With the segment given out nobody else is in an exchange; and with it   *)
(* not given out nobody is.                                                *)
LEMMA Alone ==
  ASSUME SemFit, NEW k \in Children, InExchange(k)
  PROVE  Exchange(k) /\ \A l \in Children \ {k} : ~ InExchange(l)
  BY DEF SemFit, Fit

LEMMA NobodyIn ==
  ASSUME SemFit, s0 = 0, s1 = 1
  PROVE  (\A l \in Children : ~ InExchange(l)) /\ Idle /\ ServerUp
<1>1. ASSUME NEW l \in Children, InExchange(l) PROVE FALSE
  BY <1>1, Alone DEF Exchange, Sem
<1>2. Idle
  BY <1>1 DEF SemFit, Fit
<1> QED BY <1>1, <1>2 DEF Idle, Sem

LEMMA SemGetMemFit ==
  ASSUME HarmlessFlags, Inv, SemFit, NEW k \in Children, SemGetMem(k) PROVE SemFit'
<1>1. Call(k, "sem_getmem", "CLIENT_GET_MEM", "sem_write")
  BY DEF SemGetMem
<1>2. /\ pc[k] = "sem_getmem" /\ pc'[k] = "sem_write"
      /\ \A q \in Procs \ {k} : pc'[q] = pc[q]
      /\ UNCHANGED <<semIpc, sops, shmes>>
      /\ Passes0("CLIENT_GET_MEM") /\ Passes1("CLIENT_GET_MEM")
      /\ s0' = s0 + sem_op0["CLIENT_GET_MEM"] /\ s1' = s1 + sem_op1["CLIENT_GET_MEM"]
      /\ adj0'[k] = IF sops[k].undo0 THEN adj0[k] - sem_op0["CLIENT_GET_MEM"] ELSE adj0[k]
      /\ adj0'[SemServer] = adj0[SemServer] /\ adj1'[SemServer] = adj1[SemServer]
      /\ OneSet' /\ \A l \in Children : Found(l)' /\ (l # k => Adjusts(l)')
      /\ adj1'[k] = 0
  <2>1. "sem_getmem" \in Attacheds /\ "sem_write" \in Attacheds \union {"reply"}
    BY DEF Attacheds
  <2> QED BY <1>1, <2>1, ChildCall
<1>3. s0 = 0 /\ s1 = 1 /\ s0' = 0 /\ s1' = 0 /\ adj0'[k] = 0
  BY <1>2, FitRanges DEF Passes0, Passes1, OpPasses, sem_op0, sem_op1
<1>4. (\A l \in Children : ~ InExchange(l)) /\ Idle /\ ServerUp
  BY <1>3, NobodyIn
<1>5. pc'[SemServer] = "rcv" /\ adj0'[SemServer] = 0 /\ ServerUp'
  BY <1>2, <1>4, Places DEF Idle, ServerUp
<1>6. InExchange(k)' /\ Exchange(k)'
  BY <1>2, <1>3, <1>5 DEF InExchange, Exchange, Sem, Ready
<1>7. Fit'
  BY <1>2, <1>4, <1>5, <1>6, FitOfOne, Places
<1>8. Adjusts(k)'
  BY <1>2, <1>3 DEF Adjusts
<1> QED BY <1>2, <1>7, <1>8 DEF SemFit

LEMMA SemSndReqFit ==
  ASSUME HarmlessFlags, Inv, SemFit, NEW k \in Children, SemSndReq(k) PROVE SemFit'
<1>1. Call(k, "sem_snd", "CLIENT_SND_REQ", "sem_rcv")
  BY DEF SemSndReq
<1>2. /\ pc[k] = "sem_snd" /\ pc'[k] = "sem_rcv"
      /\ \A q \in Procs \ {k} : pc'[q] = pc[q]
      /\ UNCHANGED <<semIpc, sops, shmes>>
      /\ s0' = s0 + sem_op0["CLIENT_SND_REQ"] /\ s1' = s1 + sem_op1["CLIENT_SND_REQ"]
      /\ adj0'[k] = IF sops[k].undo0 THEN adj0[k] - sem_op0["CLIENT_SND_REQ"] ELSE adj0[k]
      /\ adj0'[SemServer] = adj0[SemServer] /\ adj1'[SemServer] = adj1[SemServer]
      /\ OneSet' /\ \A l \in Children : Found(l)' /\ (l # k => Adjusts(l)')
      /\ adj1'[k] = 0
  <2>1. "sem_snd" \in Attacheds /\ "sem_rcv" \in Attacheds \union {"reply"}
    BY DEF Attacheds
  <2> QED BY <1>1, <2>1, ChildCall
<1>3. Exchange(k) /\ \A l \in Children \ {k} : ~ InExchange(l)
  BY <1>2, Alone DEF InExchange
<1>4. Sem(0, 0) /\ Ready
  BY <1>2, <1>3 DEF Exchange
<1>5. s0' = 1 /\ s1' = 0 /\ adj0'[k] = IF sops[k].undo0 THEN -1 ELSE 0
  BY <1>2, <1>4, FitRanges DEF Sem, sem_op0, sem_op1
<1>6. Ready' /\ ServerUp'
  BY <1>2, <1>4, Places DEF Ready, ServerUp
<1>7. InExchange(k)' /\ Exchange(k)'
  BY <1>2, <1>5, <1>6 DEF InExchange, Exchange, Sem
<1>8. Fit'
  BY <1>2, <1>3, <1>6, <1>7, FitOfOne, Places
<1>9. Adjusts(k)'
  BY <1>2, <1>5 DEF Adjusts
<1> QED BY <1>2, <1>8, <1>9 DEF SemFit

(* The child comes back from CLIENT_RCV_RPY only if it is answered. *)
LEMMA SemRcvRpyFit ==
  ASSUME HarmlessFlags, Inv, SemFit, NEW k \in Children, SemRcvRpy(k)
  PROVE  SemFit' /\ Answered /\ shmid[k] = 1
<1>1. Call(k, "sem_rcv", "CLIENT_RCV_RPY", "sem_read")
  BY DEF SemRcvRpy
<1>2. /\ pc[k] = "sem_rcv" /\ pc'[k] = "sem_read"
      /\ \A q \in Procs \ {k} : pc'[q] = pc[q]
      /\ UNCHANGED <<semIpc, sops, shmes>>
      /\ Passes0("CLIENT_RCV_RPY") /\ Passes1("CLIENT_RCV_RPY")
      /\ s0' = s0 + sem_op0["CLIENT_RCV_RPY"] /\ s1' = s1 + sem_op1["CLIENT_RCV_RPY"]
      /\ adj0'[k] = IF sops[k].undo0 THEN adj0[k] - sem_op0["CLIENT_RCV_RPY"] ELSE adj0[k]
      /\ adj0'[SemServer] = adj0[SemServer] /\ adj1'[SemServer] = adj1[SemServer]
      /\ OneSet' /\ \A l \in Children : Found(l)' /\ (l # k => Adjusts(l)')
      /\ adj1'[k] = 0
  <2>1. "sem_rcv" \in Attacheds /\ "sem_read" \in Attacheds \union {"reply"}
    BY DEF Attacheds
  <2> QED BY <1>1, <2>1, ChildCall
<1>3. Exchange(k) /\ \A l \in Children \ {k} : ~ InExchange(l)
  BY <1>2, Alone DEF InExchange
<1>4. s0 >= 1 /\ s1 >= 1
  BY <1>2, FitRanges DEF Passes0, Passes1, OpPasses, sem_op0, sem_op1
<1>5. Sem(1, 1) /\ Ready /\ Answered
  BY <1>2, <1>3, <1>4 DEF Exchange, Sem
<1>6. adj0[k] = IF sops[k].undo0 THEN -1 ELSE 0
  BY <1>2 DEF SemFit, Adjusts
<1>7. s0' = 0 /\ s1' = 0 /\ adj0'[k] = 0
  BY <1>2, <1>5, <1>6 DEF Sem, sem_op0, sem_op1
<1>8. Ready' /\ ServerUp' /\ Answered'
  BY <1>2, <1>5, Places DEF Ready, ServerUp, Answered
<1>9. InExchange(k)' /\ Exchange(k)'
  BY <1>2, <1>7, <1>8 DEF InExchange, Exchange, Sem
<1>10. Fit'
  BY <1>2, <1>3, <1>8, <1>9, FitOfOne, Places
<1>11. Adjusts(k)'
  BY <1>2, <1>7 DEF Adjusts
<1>12. shmid[k] = 1
  BY <1>2 DEF SemFit, Found, Attacheds
<1> QED BY <1>2, <1>5, <1>10, <1>11, <1>12 DEF SemFit

LEMMA SemResetFit ==
  ASSUME HarmlessFlags, Inv, SemFit, NEW k \in Children, SemReset(k) PROVE SemFit'
<1>1. Call(k, "sem_reset", "RESET_MEM", "reply")
  BY DEF SemReset
<1>2. /\ pc[k] = "sem_reset" /\ pc'[k] = "reply"
      /\ \A q \in Procs \ {k} : pc'[q] = pc[q]
      /\ UNCHANGED <<semIpc, sops, shmes>>
      /\ s0' = s0 + sem_op0["RESET_MEM"] /\ s1' = s1 + sem_op1["RESET_MEM"]
      /\ adj0'[k] = IF sops[k].undo0 THEN adj0[k] - sem_op0["RESET_MEM"] ELSE adj0[k]
      /\ adj0'[SemServer] = adj0[SemServer] /\ adj1'[SemServer] = adj1[SemServer]
      /\ OneSet' /\ \A l \in Children : Found(l)' /\ (l # k => Adjusts(l)')
      /\ adj1'[k] = 0
  <2>1. "sem_reset" \in Attacheds /\ "reply" \in Attacheds \union {"reply"}
    BY DEF Attacheds
  <2> QED BY <1>1, <2>1, ChildCall
<1>3. Exchange(k) /\ \A l \in Children \ {k} : ~ InExchange(l)
  BY <1>2, Alone DEF InExchange
<1>4. Sem(0, 0) /\ Ready
  BY <1>2, <1>3 DEF Exchange
<1>5. s0' = 0 /\ s1' = 1 /\ adj0'[k] = 0
  BY <1>2, <1>4, FitRanges DEF Sem, sem_op0, sem_op1
<1>6. Ready' /\ ServerUp'
  BY <1>2, <1>4, Places DEF Ready, ServerUp
<1>7. ~ InExchange(k)' /\ Idle'
  BY <1>2, <1>5, <1>6 DEF InExchange, Idle, Sem, Ready
<1>8. Fit'
  BY <1>2, <1>3, <1>6, <1>7, FitOfOne, Places
<1>9. Adjusts(k)'
  BY <1>2, <1>5 DEF Adjusts
<1> QED BY <1>2, <1>8, <1>9 DEF SemFit

(* A child's steps that call no semop. *)
LEMMA SemOpensFit ==
  ASSUME Inv, SemFit, NEW k \in Children, SemOpen(k) \/ ShmOpen(k) PROVE SemFit'
<1>1. /\ pc[k] \in {"sem_open", "shm_open"}
      /\ pc'[k] \in {"exit", "shm_open", "sem_getmem"}
      /\ \A l \in Children \ {k} : pc'[l] = pc[l]
      /\ pc'[SemServer] = pc[SemServer]
  <2>1. PICK from \in {"sem_open", "shm_open"}, to \in {"exit", "shm_open", "sem_getmem"} :
          Goto(k, from, to)
    BY DEF SemOpen, ShmOpen
  <2>2. to \in ChildPC
    BY DEF ChildPC, SemChildPC
  <2> QED BY <2>1, <2>2, GotoChild, Places DEF Inv
<1>2. UNCHANGED <<s0, s1, adj0, adj1, sets, theSet, segs, theSeg, shmes>>
  BY DEF SemOpen, ShmOpen, semVars
<1>3. k \in SemProcs /\ SemServer \in SemProcs /\ k # SemServer /\ Children \subseteq SemProcs
  BY Places DEF SemProcs
<1>4. /\ semid \in [SemProcs -> 0 .. SemStarts] /\ shmid \in [SemProcs -> 0 .. SemStarts]
      /\ sops \in [SemProcs -> FlagsFound \union {UndoSops}]
  BY DEF Inv, SemInv, SemTypeOK
<1>5. \A q \in SemProcs \ {k} :
        semid'[q] = semid[q] /\ shmid'[q] = shmid[q] /\ sops'[q] = sops[q]
  BY <1>4 DEF SemOpen, ShmOpen
<1>6. OneSet'
  BY <1>1, <1>2, <1>3, <1>5 DEF SemFit, OneSet
<1>7. ASSUME NEW l \in Children PROVE Found(l)' /\ Adjusts(l)'
  <2>1. CASE l # k
    <3>1. pc'[l] = pc[l]
      BY <1>1, <2>1
    <3> QED BY <1>2, <1>3, <1>5, <2>1, <3>1 DEF SemFit, Found, Adjusts
  <2>2. CASE l = k
    <3>1. adj0[k] = 0 /\ adj1[k] = 0
      BY <1>1, FitRanges
    <3>2. Adjusts(k)'
      BY <1>1, <1>2, <3>1 DEF Adjusts
    <3>3. CASE SemOpen(k)
      <4>1. /\ theSet \in {0, 1} /\ theSet' = theSet
            /\ pc'[k] = IF theSet = 0 THEN "exit" ELSE "shm_open"
            /\ semid'[k] = theSet
        BY <1>1, <1>3, <1>4, <3>3, Places
           DEF SemOpen, Goto, SemFit, OneSet, Inv, PcTypeOK
      <4> QED BY <2>2, <3>2, <4>1 DEF Found, Attaching, Attacheds
    <3>4. CASE ShmOpen(k)
      <4>1. /\ theSeg \in {0, 1} /\ theSeg' = theSeg /\ theSet' = theSet /\ semid' = semid
            /\ pc'[k] = IF theSeg = 0 THEN "exit" ELSE "sem_getmem"
            /\ shmid'[k] = theSeg /\ sops'[k] \in FlagsFound
        BY <1>1, <1>3, <1>4, <3>4, Places
           DEF ShmOpen, Goto, SemFit, OneSet, Inv, PcTypeOK
      <4>2. pc[k] = "shm_open"
        BY <3>4 DEF ShmOpen, Goto
      <4>3. theSet = 1 /\ semid[k] = 1
        BY <4>2 DEF SemFit, Found, Attaching
      <4> QED BY <2>2, <3>2, <4>1, <4>3 DEF Found, Attaching, Attacheds
    <3> QED BY <3>3, <3>4
  <2> QED BY <2>1, <2>2
<1>8. Fit'
  <2>1. \A l \in Children : /\ InExchange(l)' <=> InExchange(l)
                            /\ InExchange(l) => pc'[l] = pc[l]
    BY <1>1 DEF InExchange
  <2>2. (Idle' <=> Idle) /\ (ServerUp' <=> ServerUp)
    BY <1>1, <1>2 DEF Idle, Sem, ServerUp
  <2>3. \A l \in Children : InExchange(l) /\ Exchange(l) => Exchange(l)'
    BY <1>1, <1>2, <2>1 DEF Exchange, Sem, Ready, Took, Answered
  <2> QED BY <1>2, <2>1, <2>2, <2>3 DEF SemFit, Fit
<1> QED BY <1>6, <1>7, <1>8 DEF SemFit

LEMMA SemTextFit ==
  ASSUME Inv, SemFit, NEW k \in Children, SemWrite(k) \/ SemRead(k)
  PROVE  SemFit' /\ Exchange(k) /\ shmid[k] = 1
<1>1. PICK from \in {"sem_write", "sem_read"}, to \in {"sem_snd", "sem_reset"} :
        /\ Goto(k, from, to) /\ (from = "sem_write" <=> SemWrite(k))
        /\ (from = "sem_write" <=> to = "sem_snd")
  BY DEF SemWrite, SemRead, Goto
<1>2. to \in ChildPC
  BY DEF ChildPC, SemChildPC
<1>3. /\ pc[k] = from /\ pc'[k] = to
      /\ \A l \in Children \ {k} : pc'[l] = pc[l]
      /\ pc'[SemServer] = pc[SemServer]
  BY <1>1, <1>2, GotoChild, Places DEF Inv
<1>4. UNCHANGED <<s0, s1, adj0, adj1, sets, theSet, segs, theSeg, semid, shmid, sops>>
  BY DEF SemWrite, SemRead, semPart, semVars, semIpc
<1>5. from = "sem_read" => shmes' = shmes
  BY <1>1, <1>3 DEF SemWrite, SemRead, semPart, Goto
<1>6. Exchange(k) /\ \A l \in Children \ {k} : ~ InExchange(l)
  BY <1>3, Alone DEF InExchange
<1>7. OneSet'
  BY <1>3, <1>4 DEF SemFit, OneSet
<1>8. ASSUME NEW l \in Children PROVE Found(l)' /\ Adjusts(l)'
  <2>1. CASE l # k
    <3>1. pc'[l] = pc[l]
      BY <1>3, <2>1
    <3> QED BY <1>4, <3>1 DEF SemFit, Found, Adjusts
  <2>2. CASE l = k
    BY <1>3, <1>4, <2>2 DEF SemFit, Found, Adjusts, Attaching, Attacheds
  <2> QED BY <2>1, <2>2
<1>9. Sem(0, 0)' /\ Ready' /\ ServerUp'
  BY <1>3, <1>4, <1>6 DEF Exchange, Sem, Ready, ServerUp
<1>10. from = "sem_read" => Answered'
  BY <1>3, <1>5, <1>6 DEF Exchange, Answered
<1>11. InExchange(k)' /\ Exchange(k)'
  BY <1>1, <1>3, <1>9, <1>10 DEF InExchange, Exchange
<1>12. Fit'
  BY <1>3, <1>6, <1>9, <1>11, FitOfOne
<1>13. shmid[k] = 1
  BY <1>3 DEF SemFit, Found, Attacheds
<1> QED BY <1>6, <1>7, <1>8, <1>12, <1>13 DEF SemFit

(* A child that ends has no adjustments, and so changes nothing. *)
LEMMA ChildEndsFit ==
  ASSUME Inv, SemFit, NEW k \in Children, ChildEnds(k) PROVE SemFit'
<1>1. /\ pc[k] = "exit" /\ pc' = [pc EXCEPT ![k] = "ended"] /\ exit_sem(k)
      /\ UNCHANGED <<semIpc, sops, shmes, semStarts>>
  BY DEF ChildEnds, Ends
<1>2. adj0[k] = 0 /\ adj1[k] = 0 /\ s0 \in 0 .. 1 /\ s1 \in 0 .. 1
  BY <1>1, FitRanges
<1>3. Values
  BY SemTypes DEF Inv, SemInv
<1>4. s0' = s0 /\ s1' = s1
  <2>1. Clamp(s0) = s0 /\ Clamp(s1) = s1
    BY <1>2 DEF Clamp
  <2>2. s0 + adj0[k] = s0 /\ s1 + adj1[k] = s1
    BY <1>2
  <2> QED BY <1>1, <2>1, <2>2 DEF exit_sem
<1>5. adj0' = adj0 /\ adj1' = adj1
  BY <1>1, <1>2, <1>3 DEF exit_sem, Values
<1>6. UNCHANGED semPart
  BY <1>1, <1>4, <1>5 DEF semPart, semVars
<1>7. /\ pc'[SemServer] = pc[SemServer] /\ pc'[k] = "ended"
      /\ \A l \in Children \ {k} : pc'[l] = pc[l]
  BY <1>1, Places DEF Inv, PcTypeOK
<1>8. \A l \in Children :
        pc'[l] = pc[l] \/ (pc[l] \notin Attaching /\ pc'[l] \notin Attaching)
  BY <1>1, <1>7 DEF Attaching, Attacheds
<1> QED BY <1>6, <1>7, <1>8, FitStays

(* The server's steps. *)
LEMMA SomeoneIn ==
  ASSUME SemFit, pc[SemServer] \in {"write", "answer"} \/ s0 = 1
  PROVE  \E k \in Children : InExchange(k)
  BY DEF SemFit, Fit, Idle, Sem

LEMMA OthersFit ==
  ASSUME SemFit, UNCHANGED <<theSet, theSeg, semid, shmid, sops>>,
         \A k \in Children : /\ pc'[k] = pc[k] /\ adj0'[k] = adj0[k] /\ adj1'[k] = adj1[k]
  PROVE  \A k \in Children : Found(k)' /\ Adjusts(k)'
  BY DEF SemFit, Found, Adjusts

LEMMA SemServerStartsFit ==
  ASSUME Inv, SemFit,
         SemServerSemGet \/ SemServerSemCreate \/ SemServerShmGet \/ SemServerShmCreate
  PROVE  SemFit'
<1>1. PICK from \in {"off", "sem_create", "shm_get", "shm_create"},
           to \in {"sem_create", "shm_get", "shm_create", "reset"} :
        /\ Goto(SemServer, from, to)
        /\ from = "off" => SemServerSemGet /\ to = "sem_create"
        /\ from = "sem_create" => SemServerSemCreate /\ to = "shm_get"
        /\ from = "shm_get" => SemServerShmGet /\ to = "shm_create"
        /\ from = "shm_create" => SemServerShmCreate /\ to = "reset"
  BY DEF SemServerSemGet, SemServerSemCreate, SemServerShmGet, SemServerShmCreate
<1>2. /\ pc[SemServer] = from /\ pc'[SemServer] = to
      /\ \A k \in Children : pc'[k] = pc[k]
  BY <1>1, GotoSemServer, Places DEF Inv, SemServerPC
<1>3. ~ ServerUp /\ ~ ServerUp'
  BY <1>2 DEF ServerUp
<1>4. (\A k \in Children : ~ InExchange(k)) /\ Idle /\ adj1[SemServer] = 0
  <2>1. \A k \in Children : ~ InExchange(k)
    BY <1>3, FitRanges
  <2> QED BY <1>3, <2>1 DEF SemFit, Fit
<1>5. OneSet
  BY DEF SemFit
<1>6. UNCHANGED <<s0, s1, adj0, adj1>>
  <2>1. from = "off" => theSet = 0
    BY <1>2, <1>5 DEF OneSet
  <2> QED BY <1>1, <2>1 DEF SemServerSemGet, SemServerSemCreate, SemServerShmGet,
                           SemServerShmCreate, semVars
<1>7. /\ SemServer \in SemProcs /\ Children \subseteq SemProcs \ {SemServer}
      /\ semid \in [SemProcs -> 0 .. SemStarts] /\ shmid \in [SemProcs -> 0 .. SemStarts]
      /\ sops \in [SemProcs -> FlagsFound \union {UndoSops}]
  BY Places DEF SemProcs, Inv, SemInv, SemTypeOK
<1>8. OneSet' /\ (theSet = 1 => theSet' = 1) /\ (theSeg = 1 => theSeg' = 1)
  <2>1. CASE from = "off"
    BY <1>1, <1>2, <1>5, <2>1 DEF SemServerSemGet, OneSet
  <2>2. CASE from = "sem_create"
    BY <1>1, <1>2, <1>5, <1>7, <2>2 DEF SemServerSemCreate, OneSet
  <2>3. CASE from = "shm_get"
    BY <1>1, <1>2, <1>5, <2>3 DEF SemServerShmGet, OneSet
  <2>4. CASE from = "shm_create"
    BY <1>1, <1>2, <1>5, <1>7, <2>4 DEF SemServerShmCreate, OpenSegment, OneSet
  <2> QED BY <2>1, <2>2, <2>3, <2>4
<1>9. \A k \in Children :
        semid'[k] = semid[k] /\ shmid'[k] = shmid[k] /\ sops'[k] = sops[k]
  <2>1. /\ semid' = semid \/ semid' = [semid EXCEPT ![SemServer] = theSet']
        /\ shmid' = shmid \/ shmid' = [shmid EXCEPT ![SemServer] = theSeg']
        /\ sops' = sops \/ sops' = [sops EXCEPT ![SemServer] = UndoSops]
    BY DEF SemServerSemGet, SemServerSemCreate, SemServerShmGet, SemServerShmCreate
  <2> QED BY <1>7, <2>1
<1>10. \A k \in Children : Found(k)' /\ Adjusts(k)'
  BY <1>2, <1>6, <1>8, <1>9 DEF SemFit, Found, Adjusts
<1>11. Idle'
  BY <1>2, <1>3, <1>4, <1>6 DEF Idle, Sem
<1>12. \A k \in Children : ~ InExchange(k)'
  BY <1>2, <1>4 DEF InExchange
<1> QED BY <1>4, <1>6, <1>8, <1>10, <1>11, <1>12 DEF SemFit, Fit

LEMMA ServerCall ==
  ASSUME Inv, SemFit,
         NEW from \in {"reset", "rcv", "answer"}, NEW to \in {"rcv", "write"},
         NEW status \in {"SERVER_RCV_REQ", "SERVER_SND_RPY", "RESET_MEM"},
         status = "RESET_MEM" => from = "reset",
         Call(SemServer, from, status, to)
  PROVE  /\ pc[SemServer] = from /\ pc'[SemServer] = to /\ ServerUp'
         /\ \A k \in Children : pc'[k] = pc[k]
         /\ shmes' = shmes /\ OneSet'
         /\ \A k \in Children : Found(k)' /\ Adjusts(k)'
         /\ \/ /\ Passes0(status) /\ Passes1(status)
               /\ s0' = s0 + sem_op0[status] /\ s1' = s1 + sem_op1[status]
               /\ adj0'[SemServer] = adj0[SemServer] - sem_op0[status]
            \/ /\ status = "SERVER_SND_RPY" /\ UNCHANGED <<s0, s1, adj0>>
<1>1. Goto(SemServer, from, to) /\ getsem(SemServer, status) /\ UNCHANGED <<semIpc, sops, shmes>>
  BY DEF Call
<1>2. /\ pc[SemServer] = from /\ pc'[SemServer] = to
      /\ \A k \in Children : pc'[k] = pc[k]
  BY <1>1, GotoSemServer, Places DEF Inv, SemServerPC
<1>3. HasSet(SemServer) /\ sops[SemServer] = UndoSops /\ Values
  BY <1>2, SemTypes DEF SemFit, OneSet, HasSet, Inv, SemInv, Recorded
<1>4. status = "RESET_MEM" => adj1[SemServer] = 0 /\ s1 = 0
  BY <1>2, FitRanges DEF SemFit, Fit, ServerUp
<1>5. /\ \A q \in Children : adj0'[q] = adj0[q] /\ adj1'[q] = adj1[q]
      /\ \/ /\ Passes0(status) /\ Passes1(status)
            /\ s0' = s0 + sem_op0[status] /\ s1' = s1 + sem_op1[status]
            /\ adj0'[SemServer] = adj0[SemServer] - sem_op0[status]
         \/ /\ status = "SERVER_SND_RPY" /\ UNCHANGED semVars
  BY <1>1, <1>3, <1>4, FitRanges, ServerSemop
<1>6. UNCHANGED <<sets, theSet, segs, theSeg, semid, shmid, sops>>
  BY <1>1 DEF semIpc
<1>7. OneSet'
  BY <1>2, <1>6 DEF SemFit, OneSet
<1>8. \A k \in Children : Found(k)' /\ Adjusts(k)'
  BY <1>2, <1>5, <1>6, OthersFit
<1>9. ServerUp'
  BY <1>2 DEF ServerUp
<1> QED BY <1>1, <1>2, <1>5, <1>7, <1>8, <1>9 DEF semVars

LEMMA SemServerResetFit == ASSUME Inv, SemFit, SemServerReset PROVE SemFit'
<1>1. Call(SemServer, "reset", "RESET_MEM", "rcv")
  BY DEF SemServerReset
<1>2. /\ pc[SemServer] = "reset" /\ pc'[SemServer] = "rcv" /\ ServerUp'
      /\ \A k \in Children : pc'[k] = pc[k]
      /\ OneSet' /\ \A k \in Children : Found(k)' /\ Adjusts(k)'
      /\ s0' = s0 + sem_op0["RESET_MEM"] /\ s1' = s1 + sem_op1["RESET_MEM"]
      /\ adj0'[SemServer] = adj0[SemServer] - sem_op0["RESET_MEM"]
  BY <1>1, ServerCall
<1>3. (\A k \in Children : ~ InExchange(k)) /\ Idle /\ ~ ServerUp
  <2>1. ~ ServerUp
    BY <1>2 DEF ServerUp
  <2>2. \A k \in Children : ~ InExchange(k)
    BY <2>1, FitRanges
  <2> QED BY <2>1, <2>2 DEF SemFit, Fit
<1>4. Idle'
  BY <1>2, <1>3 DEF Idle, Sem, sem_op0, sem_op1
<1>5. \A k \in Children : ~ InExchange(k)'
  BY <1>2, <1>3 DEF InExchange
<1> QED BY <1>2, <1>4, <1>5 DEF SemFit, Fit

LEMMA SemServerRcvReqFit == ASSUME Inv, SemFit, SemServerRcvReq PROVE SemFit'
<1>1. Call(SemServer, "rcv", "SERVER_RCV_REQ", "write")
  BY DEF SemServerRcvReq
<1>2. /\ pc[SemServer] = "rcv" /\ pc'[SemServer] = "write" /\ ServerUp'
      /\ \A k \in Children : pc'[k] = pc[k]
      /\ OneSet' /\ \A k \in Children : Found(k)' /\ Adjusts(k)'
      /\ Passes0("SERVER_RCV_REQ") /\ Passes1("SERVER_RCV_REQ")
      /\ s0' = s0 + sem_op0["SERVER_RCV_REQ"] /\ s1' = s1 + sem_op1["SERVER_RCV_REQ"]
      /\ adj0'[SemServer] = adj0[SemServer] - sem_op0["SERVER_RCV_REQ"]
  BY <1>1, ServerCall
<1>3. s0 = 1 /\ s1 = 0
  BY <1>2, FitRanges DEF Passes0, Passes1, OpPasses, sem_op0, sem_op1
<1>4. PICK k \in Children : InExchange(k)
  BY <1>3, SomeoneIn
<1>5. Exchange(k) /\ \A l \in Children \ {k} : ~ InExchange(l)
  BY <1>4, Alone
<1>6. pc[k] = "sem_rcv" /\ Ready
  BY <1>3, <1>5 DEF Exchange, Sem
<1>7. s0' = 0 /\ s1' = 0 /\ adj0'[SemServer] = 1
  BY <1>2, <1>3, <1>6 DEF Ready, sem_op0, sem_op1
<1>8. InExchange(k)' /\ Exchange(k)'
  BY <1>2, <1>6, <1>7 DEF InExchange, Exchange, Sem, Took
<1>9. Fit'
  BY <1>2, <1>5, <1>8, FitOfOne
<1> QED BY <1>2, <1>9 DEF SemFit

LEMMA SemServerWriteFit == ASSUME Inv, SemFit, SemServerWrite PROVE SemFit'
<1>1. /\ pc[SemServer] = "write" /\ pc'[SemServer] = "answer"
      /\ \A k \in Children : pc'[k] = pc[k]
  BY GotoSemServer, Places DEF SemServerWrite, Inv, SemServerPC
<1>2. UNCHANGED <<s0, s1, adj0, adj1, sets, theSet, segs, theSeg, semid, shmid, sops>>
  BY DEF SemServerWrite, semVars, semIpc
<1>3. PICK k \in Children : InExchange(k)
  BY <1>1, SomeoneIn
<1>4. Exchange(k) /\ \A l \in Children \ {k} : ~ InExchange(l)
  BY <1>3, Alone
<1>5. pc[k] = "sem_rcv" /\ Sem(0, 0) /\ adj0[SemServer] = 1
  BY <1>1, <1>4 DEF Exchange, Ready, Took
<1>6. Answered'
  <2>1. shmid[SemServer] = 1 /\ segs = 1
    BY <1>1 DEF SemFit, OneSet
  <2>2. 1 \in 1 .. SemStarts
    BY <2>1 DEF Inv, SemInv, SemTypeOK
  <2> QED BY <2>1, <2>2 DEF SemServerWrite, Answered, Inv, SemInv, SemTypeOK
<1>7. InExchange(k)' /\ Exchange(k)' /\ ServerUp'
  BY <1>1, <1>2, <1>5, <1>6 DEF InExchange, Exchange, Sem, Took, ServerUp
<1>8. Fit'
  BY <1>1, <1>4, <1>7, FitOfOne
<1>9. OneSet' /\ \A l \in Children : Found(l)' /\ Adjusts(l)'
  <2>1. OneSet'
    BY <1>1, <1>2 DEF SemFit, OneSet
  <2> QED BY <1>1, <1>2, <2>1, OthersFit
<1> QED BY <1>8, <1>9 DEF SemFit

LEMMA SemServerSndRpyFit == ASSUME Inv, SemFit, SemServerSndRpy PROVE SemFit'
<1>1. Call(SemServer, "answer", "SERVER_SND_RPY", "rcv")
  BY DEF SemServerSndRpy
<1>2. /\ pc[SemServer] = "answer" /\ pc'[SemServer] = "rcv" /\ ServerUp' /\ shmes' = shmes
      /\ \A k \in Children : pc'[k] = pc[k]
      /\ OneSet' /\ \A k \in Children : Found(k)' /\ Adjusts(k)'
      /\ \/ /\ s0' = s0 + sem_op0["SERVER_SND_RPY"] /\ s1' = s1 + sem_op1["SERVER_SND_RPY"]
            /\ adj0'[SemServer] = adj0[SemServer] - sem_op0["SERVER_SND_RPY"]
         \/ UNCHANGED <<s0, s1, adj0>>
  BY <1>1, ServerCall
<1>3. PICK k \in Children : InExchange(k)
  BY <1>2, SomeoneIn
<1>4. Exchange(k) /\ \A l \in Children \ {k} : ~ InExchange(l)
  BY <1>3, Alone
<1>5. pc[k] = "sem_rcv" /\ Sem(0, 0) /\ adj0[SemServer] = 1 /\ Answered
  BY <1>2, <1>4 DEF Exchange, Ready, Took
<1>6. \/ Sem(1, 1)' /\ adj0'[SemServer] = 0
      \/ Sem(0, 0)' /\ adj0'[SemServer] = 1
  BY <1>2, <1>5 DEF Sem, sem_op0, sem_op1
<1>7. InExchange(k)' /\ Exchange(k)'
  BY <1>2, <1>5, <1>6 DEF InExchange, Exchange, Sem, Ready, Took, Answered
<1>8. Fit'
  BY <1>2, <1>4, <1>7, FitOfOne
<1> QED BY <1>2, <1>8 DEF SemFit

-----------------------------------------------------------------------------
(* What is said: the texts of clients and children.                        *)

Said == (\A c \in Clients : Asked(c)) /\ \A k \in Children : Told(k)

Behind == \A k \in Children : NoneBehind(k)

LEMMA TalkParts == (Talk <=> Said /\ Behind) /\ (Talk' <=> Said' /\ Behind')
  BY DEF Talk, Said, Behind

LEMMA SaidStays ==
  ASSUME Said, UNCHANGED <<mes, conn, up, down, shown>>,
         \A c \in Clients : pc'[c] = pc[c],
         \A k \in Children : pc'[k] = pc[k]
  PROVE  Said'
  BY DEF Said, Asked, Told, Suits

LEMMA SaidOfOne ==
  ASSUME Said, NEW k \in Children, UNCHANGED <<conn, up, down, shown>>,
         \A c \in Clients : pc'[c] = pc[c],
         \A l \in Children \ {k} : pc'[l] = pc[l] /\ mes'[l] = mes[l],
         Told(k)'
  PROVE  Said'
<1>1. \A c \in Clients : Asked(c)'
  BY DEF Said, Asked, Suits
<1>2. \A l \in Children \ {k} : Told(l)'
  BY DEF Said, Told, Suits
<1> QED BY <1>1, <1>2 DEF Said

LEMMA ClientSaid ==
  ASSUME Inv, Said, NEW c \in Clients, ClientStep(c) \/ KillClient(c) PROVE Said'
<1>1. /\ UNCHANGED <<mes, conn, down>>
      /\ up' = up \/ (pc[c] = "choose" /\ \E choice \in Choices : up' = [up EXCEPT ![c] = choice])
      /\ \/ shown' = shown
         \/ shown' = [shown EXCEPT ![c] = IF down[c] # NoText THEN down[c] ELSE Question]
  BY DEF ClientStep, Connect, ClientSend, ClientRecv, KillClient, Goto, tcpPart
<1>2. PICK to \in {"choose", "recv", "done"} : /\ pc' = [pc EXCEPT ![c] = to]
                                               /\ to = "choose" => Connect(c)
  BY DEF ClientStep, Connect, ClientSend, ClientRecv, KillClient, Goto
<1>3. /\ pc'[c] = to /\ \A q \in Procs \ {c} : pc'[q] = pc[q]
  BY <1>2, SetPc, Places DEF Inv, ClientPC
<1>4. /\ up \in [Clients -> Choices \union {NoChoice}]
      /\ shown \in [Clients -> Texts \union {NoText}]
  BY DEF Inv, TcpTypeOK
<1>5. pc[c] = "choose" => up[c] = NoChoice /\ down[c] = NoText /\ shown[c] = NoText
  BY DEF Said, Asked
<1>6. \A d \in Clients \ {c} : up'[d] = up[d] /\ shown'[d] = shown[d]
  BY <1>1, <1>4
<1>7. \A d \in Clients : up[d] # NoChoice => up'[d] = up[d]
  BY <1>1, <1>4, <1>5, <1>6
<1>8. ASSUME NEW d \in Clients PROVE Asked(d)'
  <2>1. CASE d # c
    BY <1>1, <1>3, <1>6, <2>1, Places DEF Said, Asked, Suits
  <2>2. CASE d = c /\ pc[c] = "choose"
    <3>1. to # "choose" /\ (shown'[c] = NoText \/ shown'[c] = Question)
      BY <1>1, <1>2, <1>4, <1>5, <2>2 DEF Connect, Goto
    <3>2. down'[c] = NoText
      BY <1>1, <1>5, <2>2
    <3> QED BY <1>2, <1>3, <2>2, <3>1, <3>2 DEF Asked, Suits
  <2>3. CASE d = c /\ pc[c] # "choose"
    <3>1. up' = up /\ down' = down
      BY <1>1, <2>3
    <3>2. shown'[c] = shown[c] \/ shown'[c] = (IF down[c] # NoText THEN down[c] ELSE Question)
      BY <1>1, <1>4
    <3>3. Asked(c)
      BY DEF Said
    <3>4. to = "choose" => pc[c] = "start" /\ shown' = shown
      BY <1>2 DEF Connect, Goto
    <3> QED BY <1>2, <1>3, <2>3, <3>1, <3>2, <3>3, <3>4 DEF Asked, Suits
  <2> QED BY <2>1, <2>2, <2>3
<1>9. ASSUME NEW k \in Children PROVE Told(k)'
  <2>1. pc'[k] = pc[k] /\ mes' = mes /\ conn' = conn /\ Told(k)
    BY <1>1, <1>3, Places DEF Said
  <2>2. conn[k] \in Clients /\ up[conn[k]] # NoChoice => up'[conn[k]] = up[conn[k]]
    BY <1>7
  <2>3. pc[k] \in SemChildPC \union QueChildPC \union {"reply"} => pc[k] # "unused"
    BY DEF SemChildPC, QueChildPC
  <2> QED BY <2>1, <2>2, <2>3 DEF Told, Suits
<1> QED BY <1>8, <1>9 DEF Said

LEMMA AcceptSaid == ASSUME Inv, Said, Accept \/ AcceptForkFails PROVE Said'
<1>1. CASE Accept
  <2>1. PICK k \in Children : /\ Goto(k, "unused", "recv")
                              /\ conn' = [conn EXCEPT ![k] = Head(backlog)]
    BY <1>1 DEF Accept
  <2>2. /\ pc'[k] = "recv" /\ \A q \in Procs \ {k} : pc'[q] = pc[q]
    BY <2>1, GotoChild DEF Inv, ChildPC
  <2>3. UNCHANGED <<mes, up, down, shown>> /\ Head(backlog) \in Clients
    BY <1>1 DEF Accept, Inv, TcpTypeOK
  <2>4. conn'[k] \in Clients /\ \A l \in Children \ {k} : conn'[l] = conn[l]
    BY <2>1, <2>3 DEF Inv, TcpTypeOK
  <2>5. \A c \in Clients : Asked(c)'
    BY <2>2, <2>3, Places DEF Said, Asked, Suits
  <2>6. Told(k)'
    BY <2>2, <2>4 DEF Told, SemChildPC, QueChildPC
  <2>7. ASSUME NEW l \in Children \ {k} PROVE Told(l)'
    <3>1. pc'[l] = pc[l] /\ conn'[l] = conn[l] /\ mes' = mes /\ up' = up /\ Told(l)
      BY <2>2, <2>3, <2>4, Places DEF Said
    <3> QED BY <3>1 DEF Told, Suits
  <2> QED BY <2>5, <2>6, <2>7 DEF Said
<1>2. CASE AcceptForkFails
  BY <1>2, SaidStays DEF AcceptForkFails
<1> QED BY <1>1, <1>2

LEMMA ChildTcpSaid ==
  ASSUME Inv, Said, Wired, NEW k \in Children,
         ChildRecv(k) \/ ChildRecvFails(k) \/ ChildReply(k) \/ ChildEnds(k)
  PROVE  Said'
<1>1. PICK to \in {"sem_open", "que_open", "exit", "ended"} :
        /\ pc' = [pc EXCEPT ![k] = to]
        /\ to \in {"sem_open", "que_open"} => ChildRecv(k)
  BY DEF ChildRecv, ChildRecvFails, ChildReply, ChildEnds, Ends, Goto
<1>2. /\ pc'[k] = to /\ \A q \in Procs \ {k} : pc'[q] = pc[q]
  BY <1>1, SetPc, Places DEF Inv, ChildPC, SemChildPC, QueChildPC
<1>3. /\ UNCHANGED <<conn, up, shown>> /\ \A l \in Children \ {k} : mes'[l] = mes[l]
  BY DEF ChildRecv, ChildRecvFails, ChildReply, ChildEnds, Ends, tcpPart, Inv, MesTypeOK
<1>4. pc[k] # "unused" /\ Told(k) /\ conn[k] \in Clients
  BY DEF ChildRecv, ChildRecvFails, ChildReply, ChildEnds, Goto, Said, Told
<1>5. Told(k)'
  <2>1. CASE to \in {"exit", "ended"}
    BY <1>2, <1>3, <1>4, <2>1 DEF Told, SemChildPC, QueChildPC
  <2>2. CASE to \in {"sem_open", "que_open"}
    <3>1. ChildRecv(k)
      BY <1>1, <2>2
    <3>2. /\ up[conn[k]] # NoChoice /\ mes'[k] = Question
          /\ pc'[k] = IF up[conn[k]] = "SORT_FILES" THEN "sem_open" ELSE "que_open"
      BY <3>1, Places DEF ChildRecv, Goto, Inv, PcTypeOK, MesTypeOK
    <3> QED BY <1>2, <1>3, <1>4, <3>2 DEF Told, SemChildPC, QueChildPC
  <2> QED BY <2>1, <2>2
<1>6. CASE down' = down
  BY <1>2, <1>3, <1>5, <1>6, SaidOfOne, Places
<1>7. CASE down' # down
  <2>1. pc[k] = "reply" /\ down' = [down EXCEPT ![conn[k]] = mes[k]]
    BY <1>7 DEF ChildRecv, ChildRecvFails, ChildReply, ChildEnds, Ends, Goto, tcpPart
  <2>2. up[conn[k]] # NoChoice /\ Suits(conn[k], mes[k]) /\ mes[k] # NoText
    BY <1>4, <2>1 DEF Told, Inv, MesTypeOK
  <2>5. shown[conn[k]] = NoText
    <3>1. link[conn[k]] = "open" /\ down[conn[k]] = NoText
      BY <1>4, <1>7, <2>1 DEF ChildRecv, ChildRecvFails, ChildReply, ChildEnds, Ends, Goto,
                              tcpPart, Wired, Serves, Used
    <3> QED BY <1>4, <3>1 DEF Wired
  <2>3. ASSUME NEW c \in Clients PROVE Asked(c)'
    <3>1. Asked(c) /\ pc'[c] = pc[c] /\ up' = up /\ shown' = shown
      BY <1>2, <1>3, Places DEF Said
    <3>2. down'[c] = IF c = conn[k] THEN mes[k] ELSE down[c]
      BY <1>4, <2>1 DEF Inv, TcpTypeOK
    <3> QED BY <2>2, <2>5, <3>1, <3>2 DEF Asked, Suits
  <2>4. \A l \in Children \ {k} : Told(l)'
    BY <1>2, <1>3, Places DEF Said, Told, Suits
  <2> QED BY <1>5, <2>3, <2>4 DEF Said
<1> QED BY <1>6, <1>7

-----------------------------------------------------------------------------
(* The connections. *)

LEMMA WiredStays ==
  ASSUME Wired, UNCHANGED <<backlog, conn, link, down, shown>>,
         \A c \in Clients : pc'[c] = pc[c],
         \A k \in Children : /\ Used(k)' <=> Used(k)
                             /\ pc[k] \in {"exit", "ended"} => pc'[k] \in {"exit", "ended"},
         backlog \in Seq(Clients)
  PROVE  Wired'
<1>1. \A i \in DOMAIN backlog : backlog[i] \in Clients
  OBVIOUS
<1> QED BY <1>1 DEF Wired, Serves, InBacklog

LEMMA ClientWired ==
  ASSUME Inv, Said, Wired, NEW c \in Clients, ClientStep(c) \/ KillClient(c) PROVE Wired'
<1>1. /\ \A i \in DOMAIN backlog : backlog[i] \in Clients
      /\ backlog \in Seq(Clients) /\ link \in [Clients -> Links]
      /\ shown \in [Clients -> Texts \union {NoText}]
  BY DEF Inv, TcpTypeOK
<1>2. PICK to \in {"choose", "recv", "done"} : pc' = [pc EXCEPT ![c] = to]
  BY DEF ClientStep, Connect, ClientSend, ClientRecv, KillClient, Goto
<1>3. /\ pc'[c] # "start" /\ \A q \in Procs \ {c} : pc'[q] = pc[q]
      /\ \A k \in Children : pc'[k] = pc[k]
  <2>1. pc'[c] # "start" /\ \A q \in Procs \ {c} : pc'[q] = pc[q]
    BY <1>2, SetPc, Places DEF Inv, ClientPC
  <2> QED BY <2>1, Places
<1>4. UNCHANGED <<conn, down>>
  BY DEF ClientStep, Connect, ClientSend, ClientRecv, KillClient, tcpPart
<1>5. \A d \in Clients : pc[d] # "start" => pc'[d] # "start"
  BY <1>3, Places
<1>6. CASE Connect(c)
  <2>1. pc[c] = "start" /\ down[c] = NoText /\ shown[c] = NoText
    BY <1>6 DEF Connect, Goto, Said, Asked
  <2>2. /\ backlog' = Append(backlog, c) /\ shown' = shown
        /\ \A d \in Clients \ {c} : link'[d] = link[d]
    BY <1>1, <1>6 DEF Connect
  <2>3. /\ DOMAIN backlog' = DOMAIN backlog \union {Len(backlog) + 1}
        /\ \A i \in DOMAIN backlog : backlog'[i] = backlog[i] /\ i # Len(backlog) + 1
        /\ backlog'[Len(backlog) + 1] = c
    BY <1>1, <2>2
  <2>4. \A i \in DOMAIN backlog : backlog[i] # c
    BY <2>1 DEF Wired
  <2>5. /\ \A i, j \in DOMAIN backlog' : backlog'[i] = backlog'[j] => i = j
        /\ \A i \in DOMAIN backlog' : pc'[backlog'[i]] # "start" /\ down'[backlog'[i]] = NoText
    BY <1>1, <1>3, <1>4, <1>5, <2>1, <2>3, <2>4 DEF Wired
  <2>6. ASSUME NEW k \in Children, Used(k)' PROVE Serves(k)'
    <3>1. Used(k) /\ Serves(k) /\ \A l \in Children : Used(l)' <=> Used(l)
      BY <1>3, <2>6 DEF Wired, Used
    <3>2. conn[k] # c
      BY <2>1, <3>1 DEF Serves
    <3>3. ~ InBacklog(conn[k])'
      BY <1>4, <2>3, <3>1, <3>2 DEF Serves, InBacklog
    <3> QED BY <1>3, <1>4, <1>5, <3>1, <3>3 DEF Serves
  <2>7. \A d \in Clients : shown'[d] # NoText /\ down'[d] = NoText => link'[d] # "open"
    BY <1>4, <2>1, <2>2 DEF Wired
  <2> QED BY <2>5, <2>6, <2>7 DEF Wired
<1>7. CASE ~ Connect(c)
  <2>1. /\ backlog' = backlog
        /\ \A d \in Clients : link'[d] = link[d] \/ link'[d] = "gone"
        /\ \A d \in Clients : shown'[d] # NoText /\ down[d] = NoText =>
             shown'[d] = shown[d] \/ link[d] = "eof"
    BY <1>1, <1>7 DEF ClientStep, ClientSend, ClientRecv, KillClient, tcpPart
  <2>2. ASSUME NEW k \in Children, Used(k)' PROVE Serves(k)'
    <3>1. Used(k) /\ Serves(k) /\ \A l \in Children : Used(l)' <=> Used(l)
      BY <1>3, <2>2 DEF Wired, Used
    <3>2. ~ InBacklog(conn[k])'
      BY <1>4, <2>1, <3>1 DEF Serves, InBacklog
    <3> QED BY <1>3, <1>4, <1>5, <3>1, <3>2 DEF Serves
  <2>3. \A d \in Clients : shown'[d] # NoText /\ down'[d] = NoText => link'[d] # "open"
    BY <1>4, <2>1 DEF Wired
  <2>4. \A i \in DOMAIN backlog' : pc'[backlog'[i]] # "start" /\ down'[backlog'[i]] = NoText
    BY <1>1, <1>4, <1>5, <2>1 DEF Wired
  <2>5. \A i, j \in DOMAIN backlog' : backlog'[i] = backlog'[j] => i = j
    BY <2>1 DEF Wired
  <2> QED BY <2>2, <2>3, <2>4, <2>5 DEF Wired
<1> QED BY <1>6, <1>7

LEMMA AcceptWired == ASSUME Inv, Wired, Accept \/ AcceptForkFails PROVE Wired'
<1>1. /\ backlog \in Seq(Clients) /\ backlog # <<>> /\ backlog' = Tail(backlog)
      /\ link \in [Clients -> Links] /\ conn \in [Children -> Clients \union {NoText}]
      /\ UNCHANGED <<down, shown>>
  BY DEF Accept, AcceptForkFails, Inv, TcpTypeOK
<1>2. /\ 1 \in DOMAIN backlog /\ Head(backlog) = backlog[1] /\ Head(backlog) \in Clients
      /\ \A i \in DOMAIN backlog' :
            i + 1 \in DOMAIN backlog /\ backlog'[i] = backlog[i + 1] /\ i + 1 # 1
      /\ \A i \in DOMAIN backlog' : i \in Int /\ \A j \in DOMAIN backlog' : i + 1 = j + 1 => i = j
  BY <1>1
<1>3. \A c : InBacklog(c)' => InBacklog(c) /\ c # Head(backlog)
  BY <1>2 DEF InBacklog, Wired
<1>4. /\ \A i, j \in DOMAIN backlog' : backlog'[i] = backlog'[j] => i = j
      /\ \A i \in DOMAIN backlog' : pc[backlog'[i]] # "start" /\ down[backlog'[i]] = NoText
  BY <1>2 DEF Wired
<1>5. \A i \in DOMAIN backlog' : backlog'[i] \in Clients
  BY <1>1, <1>2
<1>6. \A c \in Clients : shown'[c] # NoText /\ down'[c] = NoText => link'[c] # "open"
  <2>1. \A c \in Clients : link'[c] = link[c] \/ link'[c] # "open"
    <3>1. CASE Accept
      BY <3>1 DEF Accept
    <3>2. CASE AcceptForkFails
      BY <1>1, <1>2, <3>2 DEF AcceptForkFails, Closed
    <3> QED BY <3>1, <3>2
  <2> QED BY <1>1, <2>1 DEF Wired
<1>7. CASE Accept
  <2>1. PICK k \in Children : /\ Goto(k, "unused", "recv")
                              /\ conn' = [conn EXCEPT ![k] = Head(backlog)]
    BY <1>7 DEF Accept
  <2>2. pc[k] = "unused" /\ pc'[k] = "recv" /\ \A q \in Procs \ {k} : pc'[q] = pc[q]
    BY <2>1, GotoChild DEF Inv, ChildPC
  <2>3. conn'[k] = Head(backlog) /\ \A l \in Children \ {k} : conn'[l] = conn[l]
    BY <1>1, <2>1
  <2>4. \A c \in Clients : pc'[c] = pc[c]
    BY <2>2, Places
  <2>5. InBacklog(Head(backlog)) /\ pc[Head(backlog)] # "start" /\ down[Head(backlog)] = NoText
    BY <1>2 DEF InBacklog, Wired
  <2>6. \A l \in Children \ {k} : (Used(l)' <=> Used(l)) /\ pc'[l] = pc[l]
    BY <2>2, Places DEF Used
  <2>7. ASSUME NEW l \in Children \ {k}, Used(l)' PROVE Serves(l)' /\ conn'[l] # Head(backlog)
    <3>1. Serves(l) /\ conn'[l] = conn[l]
      BY <2>3, <2>6, <2>7 DEF Wired
    <3>2. conn[l] # Head(backlog)
      BY <2>5, <3>1 DEF Serves
    <3> QED BY <1>1, <1>3, <2>3, <2>4, <2>6, <3>1, <3>2 DEF Serves
  <2>8. Serves(k)'
    BY <1>1, <1>2, <1>3, <2>3, <2>4, <2>5, <2>7 DEF Serves
  <2>9. \A l \in Children : Used(l)' => Serves(l)'
    BY <2>7, <2>8
  <2>10. \A i \in DOMAIN backlog' : pc'[backlog'[i]] # "start" /\ down'[backlog'[i]] = NoText
    BY <1>1, <1>4, <1>5, <2>4
  <2> QED BY <1>4, <1>6, <2>9, <2>10 DEF Wired
<1>8. CASE AcceptForkFails
  <2>1. pc' = pc /\ conn' = conn
    BY <1>8 DEF AcceptForkFails
  <2>2. \A k \in Children : Used(k)' => Serves(k)'
    BY <1>1, <1>3, <2>1 DEF Wired, Serves, Used
  <2> QED BY <1>1, <1>4, <1>6, <2>1, <2>2 DEF Wired
<1> QED BY <1>7, <1>8

LEMMA ChildTcpWired ==
  ASSUME Inv, Wired, NEW k \in Children,
         ChildRecv(k) \/ ChildRecvFails(k) \/ ChildReply(k) \/ ChildEnds(k)
  PROVE  Wired'
<1>1. PICK to \in {"sem_open", "que_open", "exit", "ended"} :
        /\ pc' = [pc EXCEPT ![k] = to]
        /\ ChildReply(k) => to = "exit"
        /\ pc[k] = "exit" => to = "ended"
  BY DEF ChildRecv, ChildRecvFails, ChildReply, ChildEnds, Ends, Goto
<1>2. /\ pc'[k] = to /\ \A q \in Procs \ {k} : pc'[q] = pc[q]
  BY <1>1, SetPc, Places DEF Inv, ChildPC, SemChildPC, QueChildPC
<1>3. Used(k) /\ pc[k] # "ended" /\ UNCHANGED <<backlog, conn, shown>>
  BY DEF ChildRecv, ChildRecvFails, ChildReply, ChildEnds, Ends, Goto, Used, tcpPart
<1>4. /\ \A c \in Clients : pc'[c] = pc[c]
      /\ \A l \in Children : /\ Used(l)' <=> Used(l)
                             /\ pc[l] \in {"exit", "ended"} => pc'[l] \in {"exit", "ended"}
  BY <1>1, <1>2, <1>3, Places DEF Used
<1>5. /\ backlog \in Seq(Clients) /\ link \in [Clients -> Links]
      /\ down \in [Clients -> Texts \union {NoText}] /\ conn[k] \in Clients
      /\ \A i \in DOMAIN backlog : backlog[i] \in Clients
  BY <1>3 DEF Inv, TcpTypeOK, Wired, Serves
<1>6. CASE ChildRecv(k) \/ ChildRecvFails(k)
  <2>1. UNCHANGED tcpPart
    BY <1>6 DEF ChildRecv, ChildRecvFails
  <2> QED BY <1>4, <1>5, <2>1, WiredStays DEF tcpPart
<1>7. CASE ChildReply(k)
  <2>1. /\ pc[k] = "reply" /\ link' = link
        /\ \A c \in Clients \ {conn[k]} : down'[c] = down[c]
        /\ down'[conn[k]] = NoText => down[conn[k]] = NoText
    BY <1>5, <1>7 DEF ChildReply, Goto, Wired, Serves, Used
  <2>2. Serves(k)
    BY <1>3 DEF Wired
  <2>3. \A i \in DOMAIN backlog : backlog[i] # conn[k]
    BY <2>2 DEF Serves, InBacklog
  <2>4. ASSUME NEW l \in Children, Used(l)' PROVE Serves(l)'
    <3>1. Used(l) /\ Serves(l)
      BY <1>4, <2>4 DEF Wired
    <3>2. pc'[l] \notin {"exit", "ended"} => down'[conn[l]] = NoText
      <4>1. CASE l = k
        BY <1>1, <1>2, <1>7, <4>1
      <4>2. CASE l # k
        <5>1. conn[l] # conn[k] /\ pc'[l] = pc[l]
          BY <1>2, <1>3, <3>1, <4>2, Places DEF Serves
        <5> QED BY <2>1, <3>1, <5>1 DEF Serves
      <4> QED BY <4>1, <4>2
    <3> QED BY <1>3, <1>4, <3>1, <3>2 DEF Serves, InBacklog
  <2>5. \A i \in DOMAIN backlog' : pc'[backlog'[i]] # "start" /\ down'[backlog'[i]] = NoText
    BY <1>3, <1>4, <1>5, <2>1, <2>3 DEF Wired
  <2>6. \A c \in Clients : shown'[c] # NoText /\ down'[c] = NoText => link'[c] # "open"
    BY <1>3, <2>1 DEF Wired
  <2> QED BY <1>3, <2>4, <2>5, <2>6 DEF Wired
<1>8. CASE ChildEnds(k)
  <2>1. down' = down /\ \A c \in Clients : link'[c] = link[c] \/ link'[c] # "open"
    BY <1>5, <1>8 DEF ChildEnds, Ends, Closed
  <2>2. \A l \in Children : Used(l)' => Serves(l)'
    BY <1>3, <1>4, <2>1 DEF Wired, Serves, InBacklog
  <2>3. \A i \in DOMAIN backlog' : pc'[backlog'[i]] # "start" /\ down'[backlog'[i]] = NoText
    BY <1>3, <1>4, <1>5, <2>1 DEF Wired
  <2>4. \A c \in Clients : shown'[c] # NoText /\ down'[c] = NoText => link'[c] # "open"
    BY <1>3, <2>1 DEF Wired
  <2> QED BY <1>3, <2>2, <2>3, <2>4 DEF Wired
<1> QED BY <1>6, <1>7, <1>8

(* The steps of the exchanges change no connection. *)
LEMMA ExchangeWired ==
  ASSUME Inv, Wired, UNCHANGED tcpPart,
         \/ \E k \in Children : SemChildStep(k) \/ QueChildStep(k)
         \/ SemServerStep \/ QueServerStep
  PROVE  Wired'
<1>1. backlog \in Seq(Clients)
  BY DEF Inv, TcpTypeOK
<1> DEFINE Moves == /\ \A c \in Clients : pc'[c] = pc[c]
                    /\ \A k \in Children :
                         \/ pc'[k] = pc[k]
                         \/ /\ pc[k] \in SemChildPC \union QueChildPC
                            /\ pc'[k] \in SemChildPC \union QueChildPC \union {"exit", "reply"}
<1>2. Moves
  <2>1. ASSUME NEW k \in Children, SemChildStep(k) PROVE Moves
    BY <2>1, SemChildMoves, Places DEF Inv
  <2>2. ASSUME NEW k \in Children, QueChildStep(k) PROVE Moves
    <3>1. PICK to \in QueChildPC \union {"reply"} :
            pc[k] \in QueChildPC /\ pc' = [pc EXCEPT ![k] = to]
      <4>1. CASE QueRcv(k)
        BY <4>1 DEF QueRcv, QueChildPC, Inv, PcTypeOK
      <4>2. CASE QueOpen(k) \/ QueSnd(k) \/ QueRead(k)
        BY <4>2 DEF QueOpen, QueSnd, QueRead, Goto, QueChildPC
      <4> QED BY <2>2, <4>1, <4>2 DEF QueChildStep
    <3> QED BY <3>1, SetPc, Places DEF Inv, ChildPC
  <2>3. CASE SemServerStep
    <3>1. PICK to \in SemServerPC : pc' = [pc EXCEPT ![SemServer] = to]
      BY <2>3 DEF SemServerStep, SemServerSemGet, SemServerSemCreate, SemServerShmGet,
             SemServerShmCreate, SemServerReset, SemServerRcvReq, SemServerWrite,
             SemServerSndRpy, Call, Goto, SemServerPC
    <3> QED BY <3>1, SetPc, Places DEF Inv
  <2>4. CASE QueServerStep
    BY <2>4, Places DEF QueServerStep, QueServerStart, QueServerRcv, QueServerAnswer,
                        QueServerSnd, Goto, Inv, PcTypeOK
  <2> QED BY <2>1, <2>2, <2>3, <2>4
<1>3. {"unused", "exit", "ended"} \intersect (SemChildPC \union QueChildPC) = {}
  BY DEF SemChildPC, QueChildPC
<1>4. \A k \in Children : /\ Used(k)' <=> Used(k)
                          /\ pc[k] \in {"exit", "ended"} => pc'[k] \in {"exit", "ended"}
  BY <1>2, <1>3 DEF Used
<1> QED BY <1>1, <1>2, <1>4, WiredStays DEF tcpPart

LEMMA SemChildSaid ==
  ASSUME Inv, SemFit, Said, NEW k \in Children, SemChildStep(k),
         UNCHANGED <<conn, up, down, shown>>
  PROVE  Said'
<1>1. /\ pc[k] \in SemChildPC /\ pc'[k] \in SemChildPC \union {"exit", "reply"}
      /\ \A q \in Procs \ {k} : pc'[q] = pc[q]
  BY SemChildMoves DEF Inv
<1>2. /\ conn[k] \in Clients /\ up[conn[k]] # NoChoice /\ up[conn[k]] = "SORT_FILES"
      /\ mes[k] = IF pc[k] = "sem_reset" THEN SemAnswer ELSE Question
  BY <1>1 DEF Said, Told, SemChildPC
<1>3. \A l \in Children \ {k} : mes'[l] = mes[l]
  BY DEF SemChildStep, SemOpen, ShmOpen, SemGetMem, SemWrite, SemSndReq, SemRcvRpy,
         SemRead, SemReset, Call, Inv, MesTypeOK
<1>4. CASE SemRead(k)
  <2>1. pc[k] = "sem_read" /\ pc'[k] = "sem_reset"
    BY <1>4, Places DEF SemRead, Goto, Inv, PcTypeOK
  <2>2. shmes[shmid[k]] = SemAnswer
    BY <1>4, <2>1, SemTextFit DEF Exchange, Answered
  <2>3. mes'[k] = SemAnswer
    BY <1>4, <2>2 DEF SemRead, Inv, MesTypeOK
  <2>4. Told(k)'
    BY <1>2, <2>1, <2>3 DEF Told, SemChildPC, QueChildPC
  <2> QED BY <1>1, <1>3, <2>4, SaidOfOne, Places
<1>5. CASE ~ SemRead(k)
  <2>1. mes' = mes
    BY <1>5 DEF SemChildStep, SemOpen, ShmOpen, SemGetMem, SemWrite, SemSndReq, SemRcvRpy,
                SemReset, Call
  <2>2. PICK from \in SemChildPC, to \in (SemChildPC \ {"sem_reset"}) \union {"exit", "reply"} :
          Goto(k, from, to) /\ (from = "sem_reset" <=> to = "reply")
    BY <1>5 DEF SemChildStep, SemOpen, ShmOpen, SemGetMem, SemWrite, SemSndReq, SemRcvRpy,
                SemReset, Call, SemChildPC
  <2>3. pc[k] = from /\ pc'[k] = to
    BY <2>2, Places DEF Goto, Inv, PcTypeOK
  <2>4. to \notin QueChildPC /\ "exit" \notin SemChildPC /\ "reply" \notin SemChildPC
    BY DEF SemChildPC, QueChildPC
  <2>5. Told(k)'
    BY <1>2, <2>1, <2>2, <2>3, <2>4 DEF Told, Suits
  <2> QED BY <1>1, <1>3, <2>5, SaidOfOne, Places
<1> QED BY <1>4, <1>5

LEMMA QueChildSaid ==
  ASSUME Inv, Said, NEW k \in Children, QueChildStep(k),
         UNCHANGED <<conn, up, down, shown>>
  PROVE  Said'
<1>1. PICK to \in QueChildPC \union {"reply"} : pc[k] \in QueChildPC /\ pc' = [pc EXCEPT ![k] = to]
  <2>1. CASE QueRcv(k)
    BY <2>1 DEF QueRcv, QueChildPC, Inv, PcTypeOK
  <2>2. CASE QueOpen(k) \/ QueSnd(k) \/ QueRead(k)
    BY <2>2 DEF QueOpen, QueSnd, QueRead, Goto, QueChildPC
  <2> QED BY <2>1, <2>2 DEF QueChildStep
<1>2. /\ pc'[k] = to /\ \A q \in Procs \ {k} : pc'[q] = pc[q]
  BY <1>1, SetPc, Places DEF Inv, ChildPC
<1>3. /\ conn[k] \in Clients /\ up[conn[k]] # NoChoice /\ up[conn[k]] # "SORT_FILES"
      /\ mes[k] = Question
  BY <1>1 DEF Said, Told, QueChildPC
<1>4. \A l \in Children \ {k} : mes'[l] = mes[l]
  BY DEF QueChildStep, QueOpen, QueSnd, QueRcv, QueRead, Inv, MesTypeOK
<1>5. mes'[k] \in {Question, QueAnswer, Shifted} /\ (to # "reply" => mes'[k] = Question)
  <2>1. CASE QueRead(k)
    <3>1. buf[k] \in QueMessages
      BY <2>1, QueTypesSplit DEF QueRead, Inv, MsgTypes, QueProcs
    <3>2. buf[k].kind = "reply" => buf[k].body = QueAnswer
      BY <3>1 DEF QueMessages, Msg!Request, Msg!Reply
    <3>3. mes'[k] = IF buf[k].kind = "reply" THEN buf[k].body ELSE Shifted
      BY <2>1 DEF QueRead, Inv, MesTypeOK
    <3>4. pc'[k] = "reply"
      BY <2>1, Places DEF QueRead, Goto, Inv, PcTypeOK
    <3> QED BY <1>2, <3>2, <3>3, <3>4
  <2>2. CASE ~ QueRead(k)
    BY <1>3, <2>2 DEF QueChildStep, QueOpen, QueSnd, QueRcv
  <2> QED BY <2>1, <2>2
<1>6. Told(k)'
  <2>1. to \notin SemChildPC
    BY DEF SemChildPC, QueChildPC
  <2>2. to = "reply" => to \notin QueChildPC
    BY DEF QueChildPC
  <2> QED BY <1>2, <1>3, <1>5, <2>1, <2>2 DEF Told, Suits
<1> QED BY <1>2, <1>4, <1>6, SaidOfOne, Places

-----------------------------------------------------------------------------
(* No message without a child that waits for it. *)

LEMMA BehindStays ==
  ASSUME Behind, \A k \in Children : /\ InQueue(k)' = {} \/ InQueue(k)' = InQueue(k)
                                     /\ AtServer(k)' => AtServer(k)
                                     /\ pc[k] = "que_rcv" => pc'[k] = "que_rcv"
  PROVE  Behind'
  BY DEF Behind, NoneBehind

LEMMA BehindQuePart ==
  ASSUME Behind, UNCHANGED quePart,
         \A k \in Children : pc[k] = "que_rcv" => pc'[k] = "que_rcv"
  PROVE  Behind'
<1>1. queue' = queue /\ buf' = buf /\ ans' = ans
  BY DEF quePart, msgVars
<1>2. \A k \in Children : InQueue(k)' = InQueue(k) /\ (AtServer(k)' <=> AtServer(k))
  BY <1>1 DEF InQueue, AtServer
<1> QED BY <1>2, BehindStays

LEMMA BehindSent ==
  ASSUME Inv, Behind, NEW m \in QueMessages, Msg!msgsnd(m),
         ans' = NoMsg \/ ans' = ans,
         \A k \in Children : pc[k] = "que_rcv" => pc'[k] = "que_rcv",
         pc'[m.type] = "que_rcv"
  PROVE  Behind'
<1>1. /\ MsgTypes /\ queue \in Seq(QueMessages) /\ buf \in [QueProcs -> QueMessages \union {NoMsg}]
      /\ QueServer \in QueProcs /\ asleep \subseteq QueProcs
  BY QueTypesSplit DEF Inv, MsgTypes, QueProcs
<1>2. ASSUME NEW k \in Children, k # m.type
      PROVE  InQueue(k)' = InQueue(k) /\ (AtServer(k)' => AtServer(k))
  <2>1. CASE \E p \in asleep : buf' = [buf EXCEPT ![p] = m] /\ queue' = queue
    BY <1>1, <1>2, <2>1 DEF InQueue, AtServer
  <2>2. CASE queue' = Append(queue, m) /\ buf' = buf
    <3>1. InQueue(k)' = InQueue(k)
      BY <1>1, <1>2, <2>2, QueSentOf
    <3> QED BY <2>2, <3>1 DEF AtServer
  <2> QED BY <1>1, <2>1, <2>2, QueSent
<1> QED BY <1>2 DEF Behind, NoneBehind

LEMMA BehindReceived ==
  ASSUME Inv, Behind, NEW p \in QueProcs, Msg!msgrcv(p), UNCHANGED <<pc, ans>>
  PROVE  Behind'
<1>1. /\ MsgTypes /\ queue \in Seq(QueMessages) /\ buf \in [QueProcs -> QueMessages \union {NoMsg}]
      /\ QueServer \in QueProcs
  BY QueTypesSplit DEF Inv, MsgTypes, QueProcs
<1>2. CASE UNCHANGED <<queue, buf>>
  <2>1. \A k \in Children : InQueue(k)' = InQueue(k) /\ (AtServer(k)' <=> AtServer(k))
    BY <1>2 DEF InQueue, AtServer
  <2> QED BY <2>1, BehindStays
<1>3. CASE \E i \in DOMAIN queue : /\ buf' = [buf EXCEPT ![p] = queue[i]]
                                   /\ queue' = QP!RemoveAt(queue, i)
  <2>1. PICK i \in DOMAIN queue : /\ buf' = [buf EXCEPT ![p] = queue[i]]
                                  /\ queue' = QP!RemoveAt(queue, i)
    BY <1>3
  <2>2. ASSUME NEW k \in Children, InQueue(k) = {}, ~ AtServer(k)
        PROVE  InQueue(k)' = {} /\ ~ AtServer(k)'
    <3>1. queue[i].type # k
      BY <2>2 DEF InQueue
    <3>2. InQueue(k)' = {}
      BY <1>1, <2>1, <2>2, QueTakenOf
    <3>3. ~ AtServer(k)'
      BY <1>1, <2>1, <2>2, <3>1 DEF AtServer
    <3> QED BY <3>2, <3>3
  <2> QED BY <2>2 DEF Behind, NoneBehind
<1> QED BY <1>1, <1>2, <1>3, QueReceived

LEMMA QueServerBehind ==
  ASSUME Inv, Behind, QueServerStep PROVE Behind'
<1>1. \A k \in Children : pc'[k] = pc[k]
  BY Places DEF QueServerStep, QueServerStart, QueServerRcv, QueServerAnswer,
                QueServerSnd, Goto, Inv, PcTypeOK
<1>2. /\ MsgTypes /\ OtherQueTypes /\ QueServer \in QueProcs /\ QueByPc
  BY QueTypesSplit DEF Inv, QueInv, QueProcs
<1>3. CASE QueServerStart
  <2>1. (queue' = <<>> \/ queue' = queue) /\ buf' = buf /\ ans' = ans
    BY <1>3 DEF QueServerStart, msgVars
  <2>2. \A k \in Children : /\ InQueue(k)' = {} \/ InQueue(k)' = InQueue(k)
                            /\ AtServer(k)' => AtServer(k)
    BY <2>1 DEF InQueue, AtServer
  <2> QED BY <1>1, <2>2, BehindStays
<1>4. CASE QueServerRcv
  BY <1>2, <1>4, BehindReceived DEF QueServerRcv
<1>5. CASE QueServerAnswer
  <2>1. /\ buf[QueServer] # NoMsg /\ ans' = Msg!Reply(buf[QueServer].type, QueAnswer)
        /\ buf' = [buf EXCEPT ![QueServer] = NoMsg] /\ queue' = queue
    BY <1>5 DEF QueServerAnswer
  <2>2. ans'.type = buf[QueServer].type /\ buf'[QueServer] = NoMsg
    BY <1>2, <2>1 DEF Msg!Reply, MsgTypes
  <2>3. \A k \in Children : InQueue(k)' = InQueue(k) /\ (AtServer(k)' => AtServer(k))
    BY <2>1, <2>2 DEF InQueue, AtServer
  <2> QED BY <1>1, <2>3, BehindStays
<1>6. CASE QueServerSnd
  <2>1. pc[QueServer] = "snd" /\ Msg!msgsnd(ans) /\ ans' = NoMsg
    BY <1>6 DEF QueServerSnd, Goto
  <2>2. ans # NoMsg /\ ans \in QueMessages /\ ans.type \in Children
    BY <1>2, <2>1, QueFields DEF QueByPc, OtherQueTypes
  <2>3. pc[ans.type] = "que_rcv"
    BY <2>2 DEF Behind, NoneBehind, AtServer
  <2> QED BY <1>1, <2>1, <2>2, <2>3, BehindSent
<1> QED BY <1>3, <1>4, <1>5, <1>6 DEF QueServerStep

LEMMA QueChildBehind ==
  ASSUME Inv, Behind, NEW k \in Children, QueChildStep(k) PROVE Behind'
<1>1. k \in QueProcs /\ k # QueServer /\ QueServer \in QueProcs
  BY Places DEF QueProcs
<1>2. CASE QueOpen(k)
  <2>1. /\ pc[k] = "que_open" /\ \A l \in Children \ {k} : pc'[l] = pc[l]
        /\ queue' = queue /\ buf' = buf /\ ans' = ans
    BY <1>2, Places DEF QueOpen, Goto, msgVars, Inv, PcTypeOK
  <2>2. \A l \in Children : InQueue(l)' = InQueue(l) /\ (AtServer(l)' <=> AtServer(l))
    BY <2>1 DEF InQueue, AtServer
  <2> QED BY <2>1, <2>2, BehindStays
<1>3. CASE QueSnd(k)
  <2>1. pc[k] = "que_snd" /\ ans' = ans
    BY <1>3 DEF QueSnd, Goto
  <2>2. CASE Goto(k, "que_snd", "que_rcv") /\ Msg!msgsnd(Msg!Request(k, mes[k]))
    <3>1. pc'[k] = "que_rcv" /\ \A l \in Children \ {k} : pc'[l] = pc[l]
      BY <2>2, Places DEF Goto, Inv, PcTypeOK
    <3>2. Msg!Request(k, mes[k]) \in QueMessages /\ Msg!Request(k, mes[k]).type = k
      BY DEF QueMessages, Msg!Request, Inv, MesTypeOK
    <3> QED BY <2>1, <2>2, <3>1, <3>2, BehindSent
  <2>3. CASE Goto(k, "que_snd", "reply") /\ UNCHANGED msgVars
    <3>1. /\ \A l \in Children \ {k} : pc'[l] = pc[l]
          /\ queue' = queue /\ buf' = buf
      BY <2>3, Places DEF Goto, msgVars, Inv, PcTypeOK
    <3>2. \A l \in Children : InQueue(l)' = InQueue(l) /\ (AtServer(l)' <=> AtServer(l))
      BY <2>1, <3>1 DEF InQueue, AtServer
    <3> QED BY <2>1, <3>1, <3>2, BehindStays
  <2> QED BY <1>3, <2>2, <2>3 DEF QueSnd
<1>4. CASE QueRcv(k)
  BY <1>1, <1>4, BehindReceived DEF QueRcv
<1>5. CASE QueRead(k)
  <2>1. /\ buf[k] # NoMsg /\ \A l \in Children \ {k} : pc'[l] = pc[l]
        /\ queue' = queue /\ ans' = ans /\ buf' = [buf EXCEPT ![k] = NoMsg]
    BY <1>5, Places DEF QueRead, Goto, Inv, PcTypeOK
  <2>2. InQueue(k) = {} /\ ~ AtServer(k)
    BY <2>1 DEF Inv, QueInv, Own
  <2>3. buf'[QueServer] = buf[QueServer]
    BY <1>1, <2>1, QueTypesSplit DEF Inv, MsgTypes
  <2>4. \A l \in Children : InQueue(l)' = InQueue(l) /\ (AtServer(l)' <=> AtServer(l))
    BY <2>1, <2>3 DEF InQueue, AtServer
  <2> QED BY <2>1, <2>2, <2>4 DEF Behind, NoneBehind
<1> QED BY <1>2, <1>3, <1>4, <1>5 DEF QueChildStep

-----------------------------------------------------------------------------
(* Each step keeps the invariant. *)

LEMMA InitServing == Init => SemFit /\ Said /\ Behind
<1> SUFFICES ASSUME Init PROVE SemFit /\ Said /\ Behind
  OBVIOUS
<1>1. /\ \A c \in Clients : pc[c] = "start"
      /\ \A k \in Children : pc[k] = "unused"
      /\ pc[SemServer] = "off" /\ pc[QueServer] = "off"
  BY Places DEF Init
<1>2. /\ s0 = 0 /\ s1 = 0 /\ sets = 0 /\ theSet = 0 /\ segs = 0 /\ theSeg = 0
      /\ \A p \in SemProcs : adj0[p] = 0 /\ adj1[p] = 0
  BY DEF Init, SemInit
<1>3. SemServer \in SemProcs /\ Children \subseteq SemProcs
  BY DEF SemProcs
<1>4. SemFit
  BY <1>1, <1>2, <1>3 DEF SemFit, OneSet, Fit, InExchange, Idle, ServerUp, Sem, Found,
                          Adjusts, Attaching, Attacheds
<1>5. Said
  BY <1>1 DEF Init, Said, Asked, Told, SemChildPC, QueChildPC
<1>6. Behind
  BY <1>1 DEF Init, QueInit, Behind, NoneBehind, InQueue, AtServer
<1> QED BY <1>4, <1>5, <1>6

LEMMA ClientFits ==
  ASSUME Inv, SemFit, Said, Behind, NEW c \in Clients, ClientStep(c) \/ KillClient(c)
  PROVE  SemFit' /\ Said' /\ Behind'
<1>1. UNCHANGED <<semPart, quePart>>
  BY DEF ClientStep, Connect, ClientSend, ClientRecv, KillClient
<1>2. PICK to \in ClientPC : pc' = [pc EXCEPT ![c] = to]
  BY DEF ClientStep, Connect, ClientSend, ClientRecv, KillClient, Goto, ClientPC
<1>3. pc'[SemServer] = pc[SemServer] /\ \A k \in Children : pc'[k] = pc[k]
  BY <1>2, SetPc, Places DEF Inv
<1> QED BY <1>1, <1>3, FitStays, ClientSaid, BehindQuePart

LEMMA AcceptFits ==
  ASSUME Inv, SemFit, Said, Behind, Accept \/ AcceptForkFails
  PROVE  SemFit' /\ Said' /\ Behind'
<1>1. UNCHANGED <<semPart, quePart>>
  BY DEF Accept, AcceptForkFails
<1>2. /\ pc'[SemServer] = pc[SemServer]
      /\ \A k \in Children :
           pc'[k] = pc[k] \/ (pc[k] = "unused" /\ pc'[k] \notin Attaching)
  <2>1. CASE Accept
    <3>1. PICK k \in Children : Goto(k, "unused", "recv")
      BY <2>1 DEF Accept
    <3>2. /\ pc[k] = "unused" /\ pc'[k] = "recv" /\ \A q \in Procs \ {k} : pc'[q] = pc[q]
      BY <3>1, GotoChild DEF Inv, ChildPC
    <3> QED BY <3>2, Places DEF Attaching, Attacheds
  <2>2. CASE AcceptForkFails
    BY <2>2 DEF AcceptForkFails
  <2> QED BY <2>1, <2>2
<1>3. "unused" \notin Attaching
  BY DEF Attaching, Attacheds
<1> QED BY <1>1, <1>2, <1>3, FitStays, AcceptSaid, BehindQuePart

LEMMA ChildTcpFits ==
  ASSUME Inv, SemFit, Said, Behind, Wired, NEW k \in Children,
         ChildRecv(k) \/ ChildRecvFails(k) \/ ChildReply(k)
  PROVE  SemFit' /\ Said' /\ Behind'
<1>1. UNCHANGED <<semPart, quePart>>
  BY DEF ChildRecv, ChildRecvFails, ChildReply
<1>2. PICK from \in {"recv", "reply"}, to \in {"sem_open", "que_open", "exit"} :
        Goto(k, from, to)
  BY DEF ChildRecv, ChildRecvFails, ChildReply
<1>3. pc[k] = from /\ pc'[k] = to /\ \A q \in Procs \ {k} : pc'[q] = pc[q]
  BY <1>2, GotoChild DEF Inv, ChildPC, SemChildPC, QueChildPC
<1>4. /\ pc'[SemServer] = pc[SemServer]
      /\ \A l \in Children :
           \/ pc'[l] = pc[l]
           \/ pc[l] \notin Attaching /\ pc'[l] \notin Attaching /\ pc[l] # "que_rcv"
  BY <1>3, Places DEF Attaching, Attacheds
<1> QED BY <1>1, <1>4, FitStays, ChildTcpSaid, BehindQuePart

LEMMA ChildEndsFits ==
  ASSUME Inv, SemFit, Said, Behind, Wired, NEW k \in Children, ChildEnds(k)
  PROVE  SemFit' /\ Said' /\ Behind'
<1>1. pc[k] = "exit" /\ pc' = [pc EXCEPT ![k] = "ended"] /\ Msg!msgexit(k) /\ ans' = ans
  BY DEF ChildEnds, Ends
<1>2. \A l \in Children : pc[l] = "que_rcv" => pc'[l] = "que_rcv"
  BY <1>1, Places DEF Inv, PcTypeOK
<1>3. queue' = queue /\ buf'[QueServer] = buf[QueServer]
  BY <1>1, Places, QueTypesSplit DEF Msg!msgexit, Inv, MsgTypes, QueProcs
<1>4. \A l \in Children : InQueue(l)' = InQueue(l) /\ (AtServer(l)' <=> AtServer(l))
  BY <1>1, <1>3 DEF InQueue, AtServer
<1> QED BY <1>2, <1>4, BehindStays, ChildEndsFit, ChildTcpSaid

LEMMA SemChildFits ==
  ASSUME HarmlessFlags, Inv, SemFit, Said, Behind, NEW k \in Children,
         SemChildStep(k), UNCHANGED <<quePart, tcpPart>>
  PROVE  SemFit' /\ Said' /\ Behind'
<1>1. SemFit'
  BY SemOpensFit, SemGetMemFit, SemTextFit, SemSndReqFit, SemRcvRpyFit, SemResetFit
     DEF SemChildStep
<1>2. Said'
  BY SemChildSaid DEF tcpPart
<1>3. \A l \in Children : pc[l] = "que_rcv" => pc'[l] = "que_rcv"
  BY SemChildMoves, Places DEF Inv, SemChildPC
<1> QED BY <1>1, <1>2, <1>3, BehindQuePart

LEMMA QueChildFits ==
  ASSUME Inv, SemFit, Said, Behind, NEW k \in Children,
         QueChildStep(k), UNCHANGED <<semPart, tcpPart>>
  PROVE  SemFit' /\ Said' /\ Behind'
<1>1. Said' /\ Behind'
  BY QueChildSaid, QueChildBehind DEF tcpPart
<1>2. PICK to \in QueChildPC \union {"reply"} :
        pc[k] \in QueChildPC /\ pc' = [pc EXCEPT ![k] = to]
  <2>1. CASE QueRcv(k)
    BY <2>1 DEF QueRcv, QueChildPC, Inv, PcTypeOK
  <2>2. CASE QueOpen(k) \/ QueSnd(k) \/ QueRead(k)
    BY <2>2 DEF QueOpen, QueSnd, QueRead, Goto, QueChildPC
  <2> QED BY <2>1, <2>2 DEF QueChildStep
<1>3. pc'[k] = to /\ \A q \in Procs \ {k} : pc'[q] = pc[q]
  BY <1>2, SetPc, Places DEF Inv, ChildPC
<1>4. pc[k] \notin Attaching /\ to \notin Attaching
  BY <1>2 DEF QueChildPC, Attaching, Attacheds
<1>5. /\ pc'[SemServer] = pc[SemServer]
      /\ \A l \in Children :
           pc'[l] = pc[l] \/ (pc[l] \notin Attaching /\ pc'[l] \notin Attaching)
  BY <1>3, <1>4, Places
<1> QED BY <1>1, <1>5, FitStays

LEMMA SemServerFits ==
  ASSUME Inv, SemFit, Said, Behind, SemServerStep, UNCHANGED <<quePart, tcpPart>>
  PROVE  SemFit' /\ Said' /\ Behind'
<1>1. SemFit'
  BY SemServerStartsFit, SemServerResetFit, SemServerRcvReqFit, SemServerWriteFit,
     SemServerSndRpyFit DEF SemServerStep
<1>2. PICK to \in SemServerPC : pc' = [pc EXCEPT ![SemServer] = to]
  BY DEF SemServerStep, SemServerSemGet, SemServerSemCreate, SemServerShmGet,
         SemServerShmCreate, SemServerReset, SemServerRcvReq, SemServerWrite,
         SemServerSndRpy, Call, Goto, SemServerPC
<1>3. (\A c \in Clients : pc'[c] = pc[c]) /\ \A k \in Children : pc'[k] = pc[k]
  BY <1>2, SetPc, Places DEF Inv
<1>4. UNCHANGED <<mes, conn, up, down, shown>>
  BY DEF SemServerStep, SemServerSemGet, SemServerSemCreate, SemServerShmGet,
         SemServerShmCreate, SemServerReset, SemServerRcvReq, SemServerWrite,
         SemServerSndRpy, Call, tcpPart
<1> QED BY <1>1, <1>3, <1>4, SaidStays, BehindQuePart

LEMMA QueServerFits ==
  ASSUME Inv, SemFit, Said, Behind, QueServerStep, UNCHANGED <<semPart, tcpPart>>
  PROVE  SemFit' /\ Said' /\ Behind'
<1>1. /\ pc'[SemServer] = pc[SemServer]
      /\ (\A c \in Clients : pc'[c] = pc[c]) /\ \A k \in Children : pc'[k] = pc[k]
  BY Places DEF QueServerStep, QueServerStart, QueServerRcv, QueServerAnswer,
                QueServerSnd, Goto, Inv, PcTypeOK
<1>2. UNCHANGED <<mes, conn, up, down, shown>>
  BY DEF QueServerStep, QueServerStart, QueServerRcv, QueServerAnswer, QueServerSnd, tcpPart
<1> QED BY <1>1, <1>2, FitStays, SaidStays, QueServerBehind

LEMMA ServingNext ==
  ASSUME HarmlessFlags, IInv, [NextServing]_vars PROVE IInv'
<1>1. Inv /\ SemFit /\ Said /\ Behind
  BY TalkParts DEF IInv
<1>4. Wired /\ backlog \in Seq(Clients)
  BY DEF IInv, Inv, TcpTypeOK
<1>2. Inv'
  BY <1>1, NextInv DEF Next
<1>3. SemFit' /\ Said' /\ Behind'
  <2>1. CASE \E c \in Clients : ClientStep(c) \/ KillClient(c)
    BY <1>1, <2>1, ClientFits
  <2>2. CASE Accept \/ AcceptForkFails
    BY <1>1, <2>2, AcceptFits
  <2>3. ASSUME NEW k \in Children, ChildStep(k) PROVE SemFit' /\ Said' /\ Behind'
    BY <1>1, <1>4, <2>3, ChildTcpFits, ChildEndsFits, SemChildFits, QueChildFits DEF ChildStep
  <2>4. CASE SemServerStep /\ UNCHANGED <<quePart, tcpPart>>
    BY <1>1, <2>4, SemServerFits
  <2>5. CASE QueServerStep /\ UNCHANGED <<semPart, tcpPart>>
    BY <1>1, <2>5, QueServerFits
  <2>6. CASE UNCHANGED vars
    BY <1>1, <2>6, FitStays, SaidStays, BehindQuePart DEF vars, tcpPart
  <2> QED BY <2>1, <2>2, <2>3, <2>4, <2>5, <2>6 DEF NextServing
<1>5. Wired'
  <2>1. CASE \E c \in Clients : ClientStep(c) \/ KillClient(c)
    BY <1>1, <1>4, <2>1, ClientWired
  <2>2. CASE Accept \/ AcceptForkFails
    BY <1>1, <1>4, <2>2, AcceptWired
  <2>3. ASSUME NEW k \in Children, ChildStep(k) PROVE Wired'
    BY <1>1, <1>4, <2>3, ChildTcpWired, ExchangeWired DEF ChildStep
  <2>4. CASE (SemServerStep /\ UNCHANGED <<quePart, tcpPart>>)
               \/ (QueServerStep /\ UNCHANGED <<semPart, tcpPart>>)
    BY <1>1, <1>4, <2>4, ExchangeWired
  <2>5. CASE UNCHANGED vars
    BY <1>4, <2>5, WiredStays DEF vars, tcpPart, Used
  <2> QED BY <2>1, <2>2, <2>3, <2>4, <2>5 DEF NextServing
<1> QED BY <1>2, <1>3, <1>5, TalkParts DEF IInv

LEMMA ServingInv == ASSUME HarmlessFlags PROVE Serving => []IInv
<1>1. Init => IInv
  <2>1. ASSUME Init PROVE Wired
    BY <2>1, Places DEF Init, Wired, Used
  <2> QED BY <2>1, InitInv, InitServing, TalkParts DEF IInv
<1>2. IInv /\ [NextServing]_vars => IInv'
  BY ServingNext
<1> QED BY <1>1, <1>2, PTL DEF Serving

-----------------------------------------------------------------------------
(* The theorems. *)

(* CLIENT_GET_MEM gives the segment to one child, and nothing that         *)
(* clients, children or the server do gives it to a second one before      *)
(* RESET_MEM of the first: no two children are between the two calls.      *)
THEOREM ServingMutualExclusion ==
  ASSUME HarmlessFlags PROVE Serving => []MutualExclusion
<1>1. IInv => MutualExclusion
  BY DEF IInv, SemFit, Fit, MutualExclusion
<1> QED BY <1>1, ServingInv, PTL

(* A child that comes back from CLIENT_RCV_RPY, and so reads the segment,  *)
(* finds the text of SemaphorServer there: not its own question, nor what  *)
(* the child before it or a child that ended left.                         *)
THEOREM ServingGotMeansAnswered ==
  ASSUME HarmlessFlags PROVE Serving => GotMeansAnswered
<1>1. ASSUME IInv, [NextServing]_vars
      PROVE  [ \A k \in Children :
                 pc[k] = "sem_rcv" /\ pc'[k] = "sem_read"
                   => shmes[shmid[k]] = SemAnswer ]_vars
  <2> SUFFICES ASSUME NextServing, NEW k \in Children,
                      pc[k] = "sem_rcv", pc'[k] = "sem_read"
               PROVE  shmes[shmid[k]] = SemAnswer
    BY <1>1
  <2>1. PcTypeOK /\ Inv /\ SemFit
    BY <1>1 DEF IInv, Inv
  <2>2. SemRcvRpy(k)
    <3> SUFFICES ASSUME ~ SemRcvRpy(k) PROVE FALSE
      OBVIOUS
    <3>1. ASSUME NEW p \in Procs, NEW to, pc' = [pc EXCEPT ![p] = to]
          PROVE  p = k
      BY <2>1, <3>1, Places DEF PcTypeOK
    <3>2. pc' # pc
      OBVIOUS
    <3>3. CASE \E c \in Clients : ClientStep(c) \/ KillClient(c)
      BY <3>1, <3>3, Places DEF ClientStep, Connect, ClientSend, ClientRecv,
           KillClient, Goto
    <3>4. CASE Accept \/ AcceptForkFails
      BY <3>1, <3>2, <3>4, Places DEF Accept, AcceptForkFails, Goto
    <3>5. ASSUME NEW l \in Children, ChildStep(l) PROVE FALSE
      <4>1. CASE ChildRecv(l) \/ ChildRecvFails(l) \/ ChildReply(l) \/ ChildEnds(l)
        BY <3>1, <4>1, Places
           DEF ChildRecv, ChildRecvFails, ChildReply, ChildEnds, Ends, Goto
      <4>2. CASE SemChildStep(l)
        <5>1. l = k
          BY <2>1, <4>2, SemChildMoves, Places
        <5> QED BY <2>1, <4>2, <5>1, Places
               DEF SemChildStep, SemOpen, ShmOpen, SemGetMem, SemWrite, SemSndReq, SemRead,
                   SemReset, Call, Goto
      <4>3. CASE QueChildStep(l)
        BY <3>1, <3>2, <4>3, Places DEF QueChildStep, QueOpen, QueSnd, QueRcv, QueRead, Goto
      <4> QED BY <3>5, <4>1, <4>2, <4>3 DEF ChildStep
    <3>6. CASE SemServerStep
      BY <3>1, <3>6, Places
         DEF SemServerStep, SemServerSemGet, SemServerSemCreate, SemServerShmGet,
             SemServerShmCreate, SemServerReset, SemServerRcvReq, SemServerWrite,
             SemServerSndRpy, Call, Goto
    <3>7. CASE QueServerStep
      BY <3>1, <3>2, <3>7, Places
         DEF QueServerStep, QueServerStart, QueServerRcv, QueServerAnswer, QueServerSnd, Goto
    <3> QED BY <3>3, <3>4, <3>5, <3>6, <3>7 DEF NextServing
  <2> QED BY <2>1, <2>2, SemRcvRpyFit DEF Answered
<1> QED BY <1>1, ServingInv, PTL DEF Serving, GotMeansAnswered

(* The client prints what was sent to it, and its own message only when    *)
(* nothing was; what was sent to it for sorting is SemaphorServer's answer, *)
(* and for a game QueueServer's or its own message, whole or cut short:    *)
(* never the other server's answer.                                        *)
THEOREM ServingShownFitsChoice ==
  ASSUME HarmlessFlags PROVE Serving => []ShownFitsChoice
<1>1. IInv => ShownFitsChoice
  <2> SUFFICES ASSUME IInv, NEW c \in Clients, shown[c] # NoText
               PROVE  IF down[c] = NoText THEN shown[c] = Question
                      ELSE shown[c] = down[c] /\ Suits(c, shown[c])
    BY DEF ShownFitsChoice, Suits
  <2> QED BY DEF IInv, Talk, Asked
<1> QED BY <1>1, ServingInv, PTL

(* Clients may be killed at any time: when every child has ended, the      *)
(* segment is free, and no message of theirs is left in the queue or with  *)
(* QueueServer.                                                            *)
THEOREM ServingQuietAtRest ==
  ASSUME HarmlessFlags PROVE Serving => []QuietAtRest
<1>1. IInv => QuietAtRest
  <2> SUFFICES ASSUME IInv, AtRest
               PROVE  /\ s0 = 0 /\ s1 = 1
                      /\ queue = <<>> /\ ans = NoMsg /\ buf[QueServer] = NoMsg
    BY DEF QuietAtRest
  <2>1. s0 = 0 /\ s1 = 1
    BY DEF AtRest, IInv, SemFit, Fit, Idle, Sem, ServerUp, InExchange
  <2>2. \A k \in Children : InQueue(k) = {} /\ ~ AtServer(k)
    BY DEF AtRest, IInv, Talk, NoneBehind
  <2>3. /\ queue \in Seq(QueMessages) /\ ans \in QueMessages \union {NoMsg}
        /\ buf[QueServer] \in QueMessages \union {NoMsg}
    BY DEF IInv, Inv, QueInv, QueTypeOK
  <2>4. ans = NoMsg /\ buf[QueServer] = NoMsg
    BY <2>2, <2>3, QueFields DEF AtServer
  <2>5. DOMAIN queue = {}
    <3>1. ASSUME NEW i \in DOMAIN queue PROVE queue[i] \in QueMessages
      BY <2>3
    <3>2. ASSUME NEW i \in DOMAIN queue PROVE FALSE
      BY <2>2, <3>1, QueFields DEF InQueue
    <3> QED BY <3>2
  <2>6. queue = <<>>
    <3>1. Len(queue) \in Nat /\ DOMAIN queue = 1 .. Len(queue)
      BY <2>3
    <3>2. Len(queue) = 0
      BY <2>5, <3>1
    <3> QED BY <2>3, <3>2
  <2> QED BY <2>1, <2>4, <2>6
<1> QED BY <1>1, ServingInv, PTL
=============================================================================
