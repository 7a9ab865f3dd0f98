------------------------------ MODULE SysVMsg ------------------------------
(***************************************************************************)
(* The System V message queue through which clients send a server their    *)
(* requests and the server sends them its replies.  There is one queue for *)
(* both directions.  A message carries the process identifier of the       *)
(* client, in a request and in its reply alike; the server receives any    *)
(* message (type 0), a client those that carry its own identifier.         *)
(*                                                                         *)
(* This is the kernel's part, modelled from how MessageQueueServer.c,      *)
(* MessageQueueClient.c and CourseProject/QueueServer.{c,h} call it: all   *)
(* calls may block, and none asks for a truncated message.                 *)
(***************************************************************************)
EXTENDS Integers, SequencesExt

CONSTANTS
  Clients,        \* process identifiers of clients
  Server,
  ReqSize,        \* sizeof(CLIENT_MES): a request, and the server's buffer
  RpySize,        \* sizeof(SERVER_MES): a reply, and a client's buffer
  QBytes,         \* msg_qbytes, the bytes the queue may hold
  NoMsg

ASSUME SysVMsgAssumption ==
  /\ Server \notin Clients
  /\ ReqSize \in Nat \ {0} /\ RpySize \in Nat /\ RpySize > ReqSize
  /\ QBytes \in Nat /\ QBytes >= RpySize

VARIABLES
  queue,          \* the messages in the queue
  asleep,         \* the processes asleep in msgrcv
  buf             \* process -> the message msgrcv gave it, NoMsg for none

msgVars == <<queue, asleep, buf>>

Procs == Clients \union {Server}

Request(c, b) == [kind |-> "request", type |-> c, body |-> b]
Reply(c, b)   == [kind |-> "reply",   type |-> c, body |-> b]

Size(m) == IF m.kind = "request" THEN ReqSize ELSE RpySize

Queued(kind) == {i \in DOMAIN queue : queue[i].kind = kind}

BytesQueued == ReqSize * Cardinality(Queued("request"))
                 + RpySize * Cardinality(Queued("reply"))

HasRoom_before(m) == BytesQueued <= QBytes   \* a slip: m is not counted

HasRoom(m) == BytesQueued + Size(m) <= QBytes

Wants_any(p, m) == TRUE       \* a slip: a client asks for type 0 as well

Wants(p, m) == p = Server \/ m.type = p

Fits_request(p, m) ==         \* a slip: the client as well gives the size
  Size(m) <= ReqSize          \* of a request

Fits(p, m)  == Size(m) <= IF p = Server THEN ReqSize ELSE RpySize

(* A slip: IPC_NOWAIT, with the error not looked at. *)
msgsnd_nowait(m) ==
  LET takers == {p \in asleep : Wants(p, m) /\ Fits(p, m)}
  IN  IF HasRoom(m) /\ takers # {}
      THEN /\ UNCHANGED queue
           /\ asleep' = asleep \ takers
           /\ buf' = [p \in Procs |-> IF p \in takers THEN m ELSE buf[p]]
      ELSE /\ queue' = IF HasRoom(m) THEN Append(queue, m) ELSE queue
           /\ UNCHANGED <<asleep, buf>>

(***************************************************************************)
(* msgsnd waits until the queue has room.  The message then goes past the  *)
(* queue to a process that sleeps in msgrcv and wants it, if there is one. *)
(* (Only the server sends replies, so none finds it asleep, with a buffer  *)
(* too small for a reply.)                                                 *)
(***************************************************************************)
msgsnd(m) ==
  /\ HasRoom(m)
  /\ LET takers == {p \in asleep : Wants(p, m) /\ Fits(p, m)}
     IN  \/ \E p \in takers :
              /\ asleep' = asleep \ {p}
              /\ buf' = [buf EXCEPT ![p] = m]
              /\ UNCHANGED queue
         \/ /\ takers = {}
            /\ queue' = Append(queue, m)
            /\ UNCHANGED <<asleep, buf>>

(***************************************************************************)
(* msgrcv gives the first message the caller wants, or puts it to sleep.   *)
(* When that message is too big for the buffer the call fails with E2BIG   *)
(* and changes nothing; every caller then tries again at once, and so      *)
(* waits, busily, until another process takes the message.                 *)
(***************************************************************************)
Wanted(p) == {i \in DOMAIN queue : Wants(p, queue[i])}

First(I) == CHOOSE i \in I : \A j \in I : i <= j

msgrcv_copy(p) ==             \* a slip: the message stays in the queue
  /\ p \notin asleep
  /\ IF Wanted(p) = {}
     THEN asleep' = asleep \union {p} /\ UNCHANGED <<queue, buf>>
     ELSE /\ Fits(p, queue[First(Wanted(p))])
          /\ buf' = [buf EXCEPT ![p] = queue[First(Wanted(p))]]
          /\ UNCHANGED <<queue, asleep>>

msgrcv(p) ==
  /\ p \notin asleep
  /\ IF Wanted(p) = {}
     THEN asleep' = asleep \union {p} /\ UNCHANGED <<queue, buf>>
     ELSE LET i == First(Wanted(p))
          IN  /\ Fits(p, queue[i])
              /\ buf' = [buf EXCEPT ![p] = queue[i]]
              /\ queue' = RemoveAt(queue, i)
              /\ UNCHANGED asleep

(* The end of process p: it no longer sleeps; its messages stay queued. *)
msgexit(p) ==
  /\ asleep' = asleep \ {p}
  /\ buf' = [buf EXCEPT ![p] = NoMsg]
  /\ UNCHANGED queue
=============================================================================
