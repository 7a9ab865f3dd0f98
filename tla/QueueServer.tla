---------------------------- MODULE QueueServer ----------------------------
(***************************************************************************)
(* CourseProject/QueueServer.c, and snd_msg_to_que_serv (QueueServer.h)    *)
(* with which a child of CentralServer asks it: the protocol of            *)
(* ThirdLab/MessageQueue.  But this server removes a queue it finds, if    *)
(* its identifier is 0, and ends; and a child that cannot reach the queue  *)
(* returns as if nothing had happened, its text unchanged.                 *)
(***************************************************************************)
EXTENDS CourseProject, Sequences

CONSTANTS
  ReqSize, RpySize, QBytes, NoMsg,  \* as in SysVMsg
  QueStarts,      \* bound: how often the server is started
  QueIdZero       \* does the first queue get the identifier 0?

ASSUME QueueAssumption ==
  /\ ReqSize \in Nat \ {0} /\ RpySize \in Nat /\ RpySize > ReqSize
  /\ QBytes \in Nat /\ QBytes >= RpySize
  /\ QueStarts \in Nat
  /\ QueIdZero \in BOOLEAN

VARIABLES
  queue, asleep, buf,     \* as in SysVMsg
  queues, theQueue,       \* queues created so far; the one of the key, or 0
  msid,           \* process -> the queue it opened
  ans,            \* the reply the server sends next
  queStarts       \* how often the server was started

Msg == INSTANCE SysVMsg WITH Clients <- Children, Server <- QueServer

QueMessages ==
  {Msg!Request(k, t) : k \in Children, t \in Texts}
    \union {Msg!Reply(k, QueAnswer) : k \in Children}

ASSUME NoMsgAssumption == NoMsg \notin QueMessages

msgVars == <<queue, asleep, buf>>
queIpc  == <<queues, theQueue, msid>>
quePart == <<msgVars, queIpc, ans, queStarts>>

QueServerPC == {"off", "rcv", "snd"}
QueChildPC  == {"que_open", "que_snd", "que_rcv"}

HasQueue(p) == theQueue # 0 /\ msid[p] = theQueue

-----------------------------------------------------------------------------
(* The server. *)

(* A queue with identifier 0 is removed (sleeping receivers wake up with   *)
(* an error), and the server ends; else it opens or creates the queue.     *)
QueServerStart ==
  /\ queStarts < QueStarts
  /\ queStarts' = queStarts + 1
  /\ IF QueIdZero /\ theQueue = 1
     THEN /\ pc[QueServer] = "off"
          /\ theQueue' = 0
          /\ queue' = <<>> /\ asleep' = {}
          /\ UNCHANGED <<pc, buf, queues, msid>>
     ELSE /\ Goto(QueServer, "off", "rcv")
          /\ IF theQueue = 0
             THEN queues' = queues + 1 /\ theQueue' = queues + 1
             ELSE UNCHANGED <<queues, theQueue>>
          /\ msid' = [msid EXCEPT ![QueServer] = theQueue']
          /\ UNCHANGED msgVars
  /\ UNCHANGED <<ans, mes>>

QueServerRcv ==
  /\ pc[QueServer] = "rcv" /\ buf[QueServer] = NoMsg
  /\ Msg!msgrcv(QueServer)
  /\ UNCHANGED <<pc, queIpc, ans, queStarts, mes>>

QueServerAnswer ==
  /\ buf[QueServer] # NoMsg
  /\ Goto(QueServer, "rcv", "snd")
  /\ ans' = Msg!Reply(buf[QueServer].type, QueAnswer)
  /\ buf' = [buf EXCEPT ![QueServer] = NoMsg]
  /\ UNCHANGED <<queue, asleep, queIpc, queStarts, mes>>

QueServerSnd ==
  /\ Goto(QueServer, "snd", "rcv")
  /\ Msg!msgsnd(ans)
  /\ ans' = NoMsg
  /\ UNCHANGED <<queIpc, queStarts, mes>>

QueServerStep ==
  QueServerStart \/ QueServerRcv \/ QueServerAnswer \/ QueServerSnd

-----------------------------------------------------------------------------
(* A child, in snd_msg_to_que_serv; it returns to "reply". *)

QueOpen(k) ==
  /\ Goto(k, "que_open", IF theQueue = 0 THEN "reply" ELSE "que_snd")
  /\ msid' = [msid EXCEPT ![k] = theQueue]
  /\ UNCHANGED <<msgVars, queues, theQueue, ans, queStarts, mes>>

QueSnd(k) ==
  /\ \/ HasQueue(k) /\ Goto(k, "que_snd", "que_rcv")
                    /\ Msg!msgsnd(Msg!Request(k, mes[k]))
     \/ ~ HasQueue(k) /\ Goto(k, "que_snd", "reply") /\ UNCHANGED msgVars
  /\ UNCHANGED <<queIpc, ans, queStarts, mes>>

(* On a queue that was removed msgrcv fails, and the child tries again for *)
(* ever.                                                                   *)
QueRcv(k) ==
  /\ pc[k] = "que_rcv" /\ buf[k] = NoMsg
  /\ HasQueue(k)
  /\ Msg!msgrcv(k)
  /\ UNCHANGED <<pc, queIpc, ans, queStarts, mes>>

(* A reply has an int before its text; a request that is read as a reply   *)
(* lacks its first characters.                                             *)
QueRead(k) ==
  /\ buf[k] # NoMsg
  /\ Goto(k, "que_rcv", "reply")
  /\ mes' = [mes EXCEPT ![k] =
               IF buf[k].kind = "reply" THEN buf[k].body ELSE Shifted]
  /\ buf' = [buf EXCEPT ![k] = NoMsg]
  /\ UNCHANGED <<queue, asleep, queIpc, ans, queStarts>>

QueChildStep(k) == QueOpen(k) \/ QueSnd(k) \/ QueRcv(k) \/ QueRead(k)

QueInit ==
  /\ queue = <<>> /\ asleep = {}
  /\ buf = [p \in Children \union {QueServer} |-> NoMsg]
  /\ queues = 0 /\ theQueue = 0
  /\ msid = [p \in Children \union {QueServer} |-> 0]
  /\ ans = NoMsg
  /\ queStarts = 0

QueTypeOK ==
  /\ queue \in Seq(QueMessages) /\ Msg!BytesQueued <= QBytes
  /\ asleep \subseteq Children \union {QueServer}
  /\ buf \in [Children \union {QueServer} -> QueMessages \union {NoMsg}]
  /\ queStarts \in 0 .. QueStarts
  /\ queues \in 0 .. QueStarts /\ theQueue \in 0 .. queues
  /\ msid \in [Children \union {QueServer} -> 0 .. QueStarts]
  /\ ans \in QueMessages \union {NoMsg}
=============================================================================
