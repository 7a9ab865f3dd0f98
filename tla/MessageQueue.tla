---------------------------- MODULE MessageQueue ----------------------------
(***************************************************************************)
(* ThirdLab/MessageQueue: clients (MessageQueueClient.c) send a server     *)
(* (MessageQueueServer.c) the coefficients of a cubic equation through one *)
(* message queue, and get its roots through the same queue.                *)
(***************************************************************************)
EXTENDS SysVMsg, FiniteSetsExt

CONSTANTS
  Equations,      \* what users may type
  NoEquation,
  Roots,          \* what the server may answer
  third_degree_equation   \* equation -> its roots; three zeros for none

Messages ==
  {Request(c, e) : c \in Clients, e \in Equations}
    \union {Reply(c, r) : c \in Clients, r \in Roots}

ASSUME MessageQueueAssumption ==
  /\ third_degree_equation \in [Equations -> Roots]
  /\ NoEquation \notin Equations
  /\ NoMsg \notin Roots \union Equations \union Messages
  /\ Roots \intersect Equations = {}

VARIABLES
  exists,         \* is there a queue?
  pc,             \* process -> the call it makes next
  ans,            \* the reply the server sends next
  coeffs,         \* client -> the equation its user typed
  shown,          \* client -> what it printed last
  heirs           \* history: the clients that found messages of an earlier
                  \* process with their identifier when they started

vars == <<msgVars, exists, pc, ans, coeffs, shown, heirs>>

Goto(p, from, to) == pc[p] = from /\ pc' = [pc EXCEPT ![p] = to]

(* Where a message of client c can be, but for its own buffer. *)
InQueue(c)  == {i \in DOMAIN queue : queue[i].type = c}
AtServer(c) ==
  \/ buf[Server] # NoMsg /\ buf[Server].type = c
  \/ ans # NoMsg /\ ans.type = c

-----------------------------------------------------------------------------
(* The server. *)

ServerStart ==        \* msgget: open the queue, creating it if there is none
  /\ Goto(Server, "off", "rcv")
  /\ exists' = TRUE
  /\ UNCHANGED <<msgVars, ans, coeffs, shown, heirs>>

ServerRcv ==
  /\ pc[Server] = "rcv" /\ buf[Server] = NoMsg
  /\ msgrcv(Server)
  /\ UNCHANGED <<exists, pc, ans, coeffs, shown, heirs>>

ServerSolve ==
  /\ buf[Server] # NoMsg
  /\ Goto(Server, "rcv", "snd")
  /\ ans' = Reply(buf[Server].type, third_degree_equation[buf[Server].body])
  /\ buf' = [buf EXCEPT ![Server] = NoMsg]
  /\ UNCHANGED <<queue, asleep, exists, coeffs, shown, heirs>>

ServerSnd ==
  /\ Goto(Server, "snd", "rcv")
  /\ msgsnd(ans)
  /\ ans' = NoMsg
  /\ UNCHANGED <<exists, coeffs, shown, heirs>>

ServerStep == ServerRcv \/ ServerSolve \/ ServerSnd

-----------------------------------------------------------------------------
(* A client; it is named by its process identifier, which the kernel may   *)
(* give again to a later client.                                           *)

ClientStart(c) ==     \* msgget needs a queue; the user types an equation
  /\ exists
  /\ Goto(c, "off", "snd")
  /\ \E e \in Equations : coeffs' = [coeffs EXCEPT ![c] = e]
  /\ heirs' = IF InQueue(c) # {} \/ AtServer(c) THEN heirs \union {c} ELSE heirs
  /\ UNCHANGED <<msgVars, exists, ans, shown>>

ClientSnd(c) ==
  /\ Goto(c, "snd", "rcv")
  /\ msgsnd(Request(c, coeffs[c]))
  /\ UNCHANGED <<exists, ans, coeffs, shown, heirs>>

ClientRcv(c) ==
  /\ pc[c] = "rcv" /\ buf[c] = NoMsg
  /\ msgrcv(c)
  /\ UNCHANGED <<exists, pc, ans, coeffs, shown, heirs>>

(* The bytes of the message are printed as three roots, whichever message  *)
(* it was; the client ends.                                                *)
ClientPrint(c) ==
  /\ buf[c] # NoMsg
  /\ Goto(c, "rcv", "off")
  /\ shown' = [shown EXCEPT ![c] = buf[c].body]
  /\ coeffs' = [coeffs EXCEPT ![c] = NoEquation]
  /\ heirs' = heirs \ {c}
  /\ msgexit(c)
  /\ UNCHANGED <<exists, ans>>

ClientStep(c) == ClientSnd(c) \/ ClientRcv(c) \/ ClientPrint(c)

-----------------------------------------------------------------------------
(* A signal ends a client anywhere; what it sent, and what is sent to it,  *)
(* stays in the queue.                                                     *)
KillClient(c) ==
  /\ pc[c] # "off"
  /\ pc' = [pc EXCEPT ![c] = "off"]
  /\ coeffs' = [coeffs EXCEPT ![c] = NoEquation]
  /\ heirs' = heirs \ {c}
  /\ msgexit(c)
  /\ UNCHANGED <<exists, ans, shown>>

KillServer ==
  /\ pc[Server] # "off"
  /\ pc' = [pc EXCEPT ![Server] = "off"]
  /\ ans' = NoMsg
  /\ msgexit(Server)
  /\ UNCHANGED <<exists, coeffs, shown, heirs>>

(* The server is stopped before it took a request. *)
KillIdleServer == pc[Server] = "rcv" /\ buf[Server] = NoMsg /\ KillServer

Init ==
  /\ queue = <<>> /\ asleep = {}
  /\ buf = [p \in Procs |-> NoMsg]
  /\ exists = FALSE
  /\ pc = [p \in Procs |-> "off"]
  /\ ans = NoMsg
  /\ coeffs = [c \in Clients |-> NoEquation]
  /\ shown = [c \in Clients |-> NoMsg]
  /\ heirs = {}

(***************************************************************************)
(* Serving: clients live until they print, the server is stopped only      *)
(* between two requests.  Next: clients and server may be killed anywhere. *)
(***************************************************************************)
NextServing ==
  \/ ServerStart \/ ServerStep \/ KillIdleServer
  \/ \E c \in Clients : ClientStart(c) \/ ClientStep(c)

Next ==
  \/ NextServing
  \/ KillServer
  \/ \E c \in Clients : KillClient(c)

(* Every process is scheduled; a process that waits for room in the queue  *)
(* or, busily, for another's message to be taken is not passed over for    *)
(* ever; a server that was stopped is started again.                       *)
Fairness ==
  /\ WF_vars(ServerStart) /\ WF_vars(ServerSolve)
  /\ SF_vars(ServerRcv) /\ SF_vars(ServerSnd)
  /\ \A c \in Clients :
       /\ SF_vars(ClientSnd(c))
       /\ WF_vars(ClientRcv(c)) /\ WF_vars(ClientPrint(c))

Serving     == Init /\ [][NextServing]_vars
FairServing == Serving /\ Fairness
Spec        == Init /\ [][Next]_vars
FairSpec    == Spec /\ Fairness

-----------------------------------------------------------------------------
(* Properties. *)

(* Every variable has its type; the queue holds at most QBytes bytes, and  *)
(* the server's buffer never a reply.                                      *)
TypeOK ==
  /\ queue \in Seq(Messages) /\ BytesQueued <= QBytes
  /\ asleep \subseteq Procs
  /\ buf \in [Procs -> Messages \union {NoMsg}]
  /\ buf[Server] # NoMsg => buf[Server].kind = "request"
  /\ exists \in BOOLEAN
  /\ pc \in [Procs -> {"off", "snd", "rcv"}]
  /\ ans # NoMsg => ans \in Messages /\ ans.kind = "reply"
  /\ coeffs \in [Clients -> Equations \union {NoEquation}]
  /\ shown \in [Clients -> Roots \union Equations \union {NoMsg}]
  /\ heirs \subseteq Clients

Places(c) ==
  Cardinality(InQueue(c)) + (IF AtServer(c) THEN 1 ELSE 0)
                          + (IF buf[c] # NoMsg THEN 1 ELSE 0)

(* From the moment it is sent, a client's request, or the reply made from  *)
(* it, is in exactly one place; a client that ends leaves nothing behind   *)
(* for the next process with its identifier.                               *)
OneMessageEach ==
  \A c \in Clients : Places(c) = IF pc[c] = "rcv" THEN 1 ELSE 0

(* "X[0] = ...", says the client: what it prints is the roots of its       *)
(* user's equation.                                                        *)
PrintsRoots ==
  [][ \A c \in Clients :
        shown'[c] # shown[c] => shown'[c] = third_degree_equation[coeffs[c]] ]_vars

(* A client that sent its request ends with an answer, or takes the        *)
(* request back.                                                           *)
Answered == \A c \in Clients : pc[c] = "snd" ~> pc[c] = "off"

(***************************************************************************)
(* What may stop the server, and with it the clients that wait.  A message *)
(* is an orphan when the process it belongs to was killed, even if another *)
(* one already has its identifier.  The first message of the queue is an   *)
(* orphan reply, too big for the server's buffer and wanted by nobody      *)
(* else; or the server has a reply to send, and orphans take the room for  *)
(* it.  Either lasts until somebody with such an identifier takes orphans. *)
(***************************************************************************)
Orphan(m) == pc[m.type] # "rcv"

Wedged ==
  \/ queue # <<>> /\ Orphan(Head(queue)) /\ Head(queue).kind = "reply"
  \/ /\ pc[Server] = "snd" /\ ~ HasRoom(ans)
     /\ \E i \in DOMAIN queue : Orphan(queue[i])

(* The request of c is nowhere: the server was killed that had taken it.   *)
Lost(c) ==
  /\ pc[c] = "rcv" /\ buf[c] = NoMsg
  /\ InQueue(c) = {} /\ ~ AtServer(c)

(* Even if clients and servers are killed, messages of another process     *)
(* reach only a client that has its identifier and started while they were *)
(* about; for every other one there is its own message and no more, or,    *)
(* when a server was killed with it, none.                                 *)
StaleOnlyToHeirs ==
  \A c \in Clients : pc[c] # "off" /\ c \notin heirs =>
    Places(c) = IF pc[c] = "snd" \/ Lost(c) THEN 0 ELSE 1

(* Whoever is killed, a client that sends its request ends, or finds one   *)
(* of these cases on its way: its request was lost with a server, or the   *)
(* queue was stopped up by orphans.                                        *)
AnsweredUnlessStopped ==
  \A c \in Clients : pc[c] = "snd" ~> (pc[c] = "off" \/ Lost(c) \/ Wedged)

(***************************************************************************)
(* What the pair promises: RequestReply, where an answer is the roots or   *)
(* the client's own coefficients.                                          *)
(***************************************************************************)
Asked(c) ==
  \/ pc[c] = "snd"
  \/ /\ pc[c] = "rcv" /\ buf[c] = NoMsg
     /\ ~ (ans # NoMsg /\ ans.type = c)
     /\ \A i \in InQueue(c) : queue[i].kind = "request"

phase ==
  [c \in Clients |-> IF pc[c] = "off" THEN "idle"
                     ELSE IF Asked(c) THEN "asked" ELSE "served"]

reply ==
  [c \in Clients |->
     IF phase[c] # "served" THEN NoMsg
     ELSE IF buf[c] # NoMsg THEN buf[c].body
     ELSE third_degree_equation[coeffs[c]]]

RR == INSTANCE RequestReply
        WITH Lines <- Equations, NoLine <- NoEquation, line <- coeffs,
             Answer <- [e \in Equations |-> {e, third_degree_equation[e]}],
             NoAnswer <- NoMsg

(* Each request is answered once, with its own roots or with itself. *)
ImplementsRequestReply == RR!Spec
=============================================================================
