--------------------------- MODULE CentralServer ---------------------------
(***************************************************************************)
(* CourseProject as a whole: clients (Client.c) connect to CentralServer.c *)
(* over TCP and send their choice; the central server forks a child for    *)
(* each connection, and the child asks the server of the chosen task       *)
(* (SemaphorServer, QueueServer) and sends its answer back.                *)
(*                                                                         *)
(* The central server never waits for a child, so an ended child stays a   *)
(* zombie and its identifier is never used again: each member of Children  *)
(* is forked once.                                                         *)
(***************************************************************************)
EXTENDS SemaphorServer, QueueServer

CONSTANTS
  Clients,        \* the client processes; each asks once
  Choices,        \* the tasks users choose: SORT_FILES, GAME
  NoChoice,
  NoText

ASSUME CentralAssumption ==
  /\ Clients \intersect (Children \union {SemServer, QueServer}) = {}
  /\ Choices \subseteq {"SORT_FILES", "GAME"}
  /\ NoChoice \notin Choices /\ NoText \notin Texts

VARIABLES
  listening,      \* does the central server run?
  backlog,        \* the connections not yet accepted, by their clients
  conn,           \* child -> the client whose connection it has
  link,           \* client -> its connection, see Links
  up,             \* client -> the choice it sent, NoChoice before
  down,           \* client -> the text sent back to it, NoText before
  shown           \* client -> the "Recieved message" it printed

tcpPart == <<listening, backlog, conn, link, up, down, shown>>
vars == <<pc, mes, semPart, quePart, tcpPart>>

(* "eof": closed by the other side; "reset": closed there with the request *)
(* unread, so that the client's recv fails; "gone": closed by the client.  *)
Links == {"none", "open", "eof", "reset", "gone"}

ClientPC == {"start", "choose", "recv", "done"}
ChildPC  == {"unused", "recv", "reply", "exit", "ended"}
              \union SemChildPC \union QueChildPC

Procs == Clients \union Children \union {SemServer, QueServer}

-----------------------------------------------------------------------------
(* A client. *)

Connect(c) ==
  /\ listening /\ Goto(c, "start", "choose")
  /\ backlog' = Append(backlog, c)
  /\ link' = [link EXCEPT ![c] = "open"]
  /\ UNCHANGED <<mes, semPart, quePart, listening, conn, up, down, shown>>

ConnectFails(c) ==
  /\ ~ listening /\ Goto(c, "start", "done")
  /\ UNCHANGED <<mes, semPart, quePart, tcpPart>>

ClientSend(c) ==
  /\ Goto(c, "choose", "recv")
  /\ \E choice \in Choices : up' = [up EXCEPT ![c] = choice]
  /\ UNCHANGED <<mes, semPart, quePart, listening, backlog, conn, link, down, shown>>

(* recv waits for a text or for the end of the connection.  Only -1 counts *)
(* as an error: at the end of the connection recv returns 0, and what the  *)
(* client prints as received is the message it sent.                       *)
ClientRecv(c) ==
  /\ Goto(c, "recv", "done")
  /\ \/ /\ down[c] # NoText
        /\ shown' = [shown EXCEPT ![c] = down[c]]
     \/ /\ down[c] = NoText /\ link[c] = "eof"
        /\ shown' = [shown EXCEPT ![c] = Question]
     \/ /\ down[c] = NoText /\ link[c] = "reset"
        /\ UNCHANGED shown
  /\ UNCHANGED <<mes, semPart, quePart, listening, backlog, conn, link, up, down>>

(* The user ends the client; its connection, accepted or not, is closed. *)
KillClient(c) ==
  /\ pc[c] \in {"choose", "recv"}
  /\ pc' = [pc EXCEPT ![c] = "done"]
  /\ link' = [link EXCEPT ![c] = "gone"]
  /\ UNCHANGED <<mes, semPart, quePart, listening, backlog, conn, up, down, shown>>

-----------------------------------------------------------------------------
(* The central server: accept and fork.  Its copy of the accepted socket   *)
(* is closed at once; that ends the connection when fork failed, which the *)
(* code does not tell from being the parent.                               *)

Closed(c) ==          \* the connection of c, closed by the server's side
  IF link[c] # "open" THEN link[c]
  ELSE IF up[c] # NoChoice THEN "reset" ELSE "eof"

Accept ==
  /\ listening /\ backlog # <<>>
  /\ backlog' = Tail(backlog)
  /\ \E k \in Children :
       /\ Goto(k, "unused", "recv")
       /\ conn' = [conn EXCEPT ![k] = Head(backlog)]
  /\ UNCHANGED <<mes, semPart, quePart, listening, link, up, down, shown>>

AcceptForkFails ==
  /\ listening /\ backlog # <<>>
  /\ backlog' = Tail(backlog)
  /\ link' = [link EXCEPT ![Head(backlog)] = Closed(Head(backlog))]
  /\ UNCHANGED <<pc, mes, semPart, quePart, listening, conn, up, down, shown>>

(* accept fails, or a signal comes: the central server ends.  Connections  *)
(* that were not accepted are reset, the children go on.  It is not        *)
(* started again: bind fails while its port is in use.                     *)
CentralEnds ==
  /\ listening /\ listening' = FALSE
  /\ backlog' = <<>>
  /\ link' = [c \in Clients |->
                IF link[c] = "open" /\ \E i \in DOMAIN backlog : backlog[i] = c
                THEN "reset" ELSE link[c]]
  /\ UNCHANGED <<pc, mes, semPart, quePart, conn, up, down, shown>>

-----------------------------------------------------------------------------
(* A child of the central server. *)

ChildRecv_swapped(k) ==        \* a slip: the tasks are exchanged
  /\ Goto(k, "recv", IF up[conn[k]] = "GAME" THEN "sem_open" ELSE "que_open")
  /\ up[conn[k]] # NoChoice
  /\ mes' = [mes EXCEPT ![k] = Question]
  /\ UNCHANGED <<semPart, quePart, tcpPart>>

ChildRecv(k) ==
  /\ Goto(k, "recv", IF up[conn[k]] = "SORT_FILES" THEN "sem_open" ELSE "que_open")
  /\ up[conn[k]] # NoChoice
  /\ mes' = [mes EXCEPT ![k] = Question]
  /\ UNCHANGED <<semPart, quePart, tcpPart>>

ChildRecvFails(k) ==
  /\ Goto(k, "recv", "exit")
  /\ up[conn[k]] = NoChoice /\ link[conn[k]] = "gone"
  /\ UNCHANGED <<mes, semPart, quePart, tcpPart>>

ChildReply(k) ==      \* to a client that is gone, send fails or kills: both end
  /\ Goto(k, "reply", "exit")
  /\ down' = IF link[conn[k]] = "open" THEN [down EXCEPT ![conn[k]] = mes[k]]
             ELSE down
  /\ UNCHANGED <<mes, semPart, quePart, listening, backlog, conn, link, up, shown>>

(* The end of a child: the kernel applies its adjustments and closes its   *)
(* connection.                                                             *)
Ends(k) ==
  /\ pc' = [pc EXCEPT ![k] = "ended"]
  /\ exit_sem(k)
  /\ Msg!msgexit(k)
  /\ link' = [link EXCEPT ![conn[k]] =
                IF @ # "open" THEN @
                ELSE IF pc[k] = "recv" THEN Closed(conn[k]) ELSE "eof"]
  /\ UNCHANGED <<mes, semIpc, sops, shmes, semStarts, queIpc, ans, queStarts,
                 listening, backlog, conn, up, down, shown>>

ChildEnds(k) == pc[k] = "exit" /\ Ends(k)

KillChild(k) == pc[k] \notin {"unused", "ended"} /\ Ends(k)

ChildStep(k) ==
  \/ ChildRecv(k) \/ ChildRecvFails(k) \/ ChildReply(k) \/ ChildEnds(k)
  \/ SemChildStep(k) /\ UNCHANGED <<quePart, tcpPart>>
  \/ QueChildStep(k) /\ UNCHANGED <<semPart, tcpPart>>

-----------------------------------------------------------------------------
(* Signals end the two other servers. *)

KillSemServer ==
  /\ pc[SemServer] # "off"
  /\ pc' = [pc EXCEPT ![SemServer] = "off"]
  /\ exit_sem(SemServer)
  /\ UNCHANGED <<mes, semIpc, sops, shmes, semStarts, quePart, tcpPart>>

KillQueServer ==
  /\ pc[QueServer] # "off"
  /\ pc' = [pc EXCEPT ![QueServer] = "off"]
  /\ Msg!msgexit(QueServer)
  /\ ans' = NoMsg
  /\ UNCHANGED <<mes, queIpc, queStarts, semPart, tcpPart>>

Init ==
  /\ SemInit /\ QueInit
  /\ pc = [p \in Procs |-> IF p \in Clients THEN "start"
                           ELSE IF p \in Children THEN "unused" ELSE "off"]
  /\ mes = [k \in Children |-> Empty]
  /\ listening = TRUE /\ backlog = <<>>
  /\ conn = [k \in Children |-> NoText]
  /\ link = [c \in Clients |-> "none"]
  /\ up = [c \in Clients |-> NoChoice]
  /\ down = [c \in Clients |-> NoText]
  /\ shown = [c \in Clients |-> NoText]

ClientStep(c) == Connect(c) \/ ClientSend(c) \/ ClientRecv(c)

(***************************************************************************)
(* Serving: the servers are started some time and run for ever; clients    *)
(* come, and are killed, as their users like.  Next: children and servers  *)
(* are killed, the two of the tasks started again, and shmat fails.        *)
(***************************************************************************)
NextServing ==
  \/ \E c \in Clients : ClientStep(c) \/ KillClient(c)
  \/ Accept \/ AcceptForkFails
  \/ \E k \in Children : ChildStep(k)
  \/ SemServerStep /\ UNCHANGED <<quePart, tcpPart>>
  \/ QueServerStep /\ UNCHANGED <<semPart, tcpPart>>

Next ==
  \/ NextServing
  \/ \E k \in Children :
       \/ KillChild(k)
       \/ ShmatFails(k) /\ UNCHANGED <<quePart, tcpPart>>
  \/ SemServerShmFails /\ UNCHANGED <<quePart, tcpPart>>
  \/ KillSemServer \/ KillQueServer \/ CentralEnds
  \/ \E c \in Clients : ConnectFails(c)

(* Every process is scheduled: the kernel wakes waiters on semaphores in    *)
(* turn, and senders when a queue has room, and a process that polls the   *)
(* queue is not passed over for ever.  Users need not start, or type.      *)
Fairness ==
  /\ WF_vars(Accept \/ AcceptForkFails)
  /\ WF_vars(pc[SemServer] # "off" /\ SemServerStep /\ UNCHANGED <<quePart, tcpPart>>)
  /\ SF_vars(pc[QueServer] # "off" /\ QueServerStep /\ UNCHANGED <<semPart, tcpPart>>)
  /\ \A c \in Clients : WF_vars(ClientRecv(c))
  /\ \A k \in Children : SF_vars(ChildStep(k))

Serving     == Init /\ [][NextServing]_vars
FairServing == Serving /\ Fairness
Spec        == Init /\ [][Next]_vars

-----------------------------------------------------------------------------
(* Properties. *)

(* Every variable has its type, kernel ranges and limits included. *)
TypeOK ==
  /\ SemTypeOK /\ QueTypeOK
  /\ \A c \in Clients : pc[c] \in ClientPC
  /\ \A k \in Children : pc[k] \in ChildPC
  /\ pc[SemServer] \in SemServerPC /\ pc[QueServer] \in QueServerPC
  /\ mes \in [Children -> Texts]
  /\ listening \in BOOLEAN /\ backlog \in Seq(Clients)
  /\ conn \in [Children -> Clients \union {NoText}]
  /\ link \in [Clients -> Links]
  /\ up \in [Clients -> Choices \union {NoChoice}]
  /\ down \in [Clients -> Texts \union {NoText}]
  /\ shown \in [Clients -> Texts \union {NoText}]

InExchange(k) ==
  pc[k] \in {"sem_write", "sem_snd", "sem_rcv", "sem_read", "sem_reset"}

(* At most one child uses the shared segment at a time. *)
MutualExclusion ==
  \A k, l \in Children : InExchange(k) /\ InExchange(l) => k = l

(* "Got.", says the child: the text in the segment is the server's answer. *)
GotMeansAnswered ==
  [][ \A k \in Children :
        pc[k] = "sem_rcv" /\ pc'[k] = "sem_read"
          => shmes[shmid[k]] = SemAnswer ]_vars

(* Which texts a client may be shown: the answer to its choice, its own    *)
(* message when the server of the task was not there or no child was, and  *)
(* for a game, if the child took its request back, its own message, cut    *)
(* short or not; but what was sent back is never the other task's answer,  *)
(* nor, for sorting, the client's message.                                 *)
ShownFitsChoice ==
  \A c \in Clients :
    shown[c] # NoText =>
      IF down[c] = NoText THEN shown[c] = Question
      ELSE /\ shown[c] = down[c]
           /\ shown[c] \in IF up[c] = "SORT_FILES" THEN {SemAnswer}
                            ELSE {QueAnswer, Shifted, Question}

(* Clients that are killed cost the servers nothing: when all children     *)
(* have ended, the semaphores are free again and the queue is empty.       *)
AtRest ==
  /\ \A k \in Children : pc[k] \in {"unused", "ended"}
  /\ pc[SemServer] \in {"rcv", "write", "answer"}

QuietAtRest ==
  AtRest =>
    /\ s0 = 0 /\ s1 = 1
    /\ queue = <<>> /\ ans = NoMsg /\ buf[QueServer] = NoMsg

(* Whatever is killed and started again, a child has at most one message   *)
(* in the queue, at the server and in its buffer together, and none before *)
(* it sent its request: its identifier is its own.                         *)
Holds(m, k) == IF m # NoMsg /\ m.type = k THEN 1 ELSE 0

Copies(k) ==
  Cardinality({i \in DOMAIN queue : queue[i].type = k})
    + Holds(buf[QueServer], k) + Holds(ans, k) + Holds(buf[k], k)

AtMostOneEach ==
  \A k \in Children :
    Copies(k) <= IF pc[k] \in {"unused", "recv", "que_open", "que_snd"} THEN 0 ELSE 1

(* SemaphorServer has replied SEMAEM times, and its reply to the child in  *)
(* the exchange failed with ERANGE: both wait, and so does who comes next. *)
ReplyDropped ==
  /\ adj1[SemServer] = -SEMAEM - 1 /\ s0 = 0 /\ s1 = 0
  /\ pc[SemServer] = "rcv" /\ \E k \in Children : pc[k] = "sem_rcv"

(* A client that sent its choice ends, killed or not, unless it asked      *)
(* SemaphorServer and that has dropped a reply: in the end, for each asks  *)
(* once, no other one waits for its answer.                                *)
EveryClientEnds ==
  <>[](\A c \in Clients :
         pc[c] = "recv" => up[c] = "SORT_FILES" /\ ReplyDropped)

(* A request SemaphorServer took is posted again if the server ends before *)
(* it replied, whatever children, signals and restarts did until then.     *)
TakenRequestSurvivesCrash ==
  [][ HasSet(SemServer) /\ pc[SemServer] \in {"write", "answer"}
        /\ pc'[SemServer] = "off" => s0' >= 1 ]_vars
=============================================================================
