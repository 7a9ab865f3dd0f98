---------------------------- MODULE SemaExchange ----------------------------
(***************************************************************************)
(* ThirdLab/Semafores: SemaServer.c and its clients SemaClient.c exchange  *)
(* one expression and one result at a time through a shared memory         *)
(* segment, and take turns with the two semaphores of SysVSem.  Every      *)
(* operation is made with SEM_UNDO.                                        *)
(*                                                                         *)
(* A process step is what lies between two points where another process    *)
(* can act: a system call, or one access to the shared segment.  pc names  *)
(* the call a process makes next.                                          *)
(***************************************************************************)
EXTENDS SysVSem

CONSTANTS
  Clients,        \* the client processes
  Server,         \* the server process
  Expressions,    \* the strings that are asked to be solved
  Quit,           \* the line "\n", which ends a client
  Blank,          \* the string "": a new segment, a cleared buffer, and what
                  \* a client reads at the end of its input
  Results,        \* the numbers find_answer may return
  NoResult,       \* no number yet
  find_answer,    \* expression -> the numbers its solution may be: one when
                  \* it is two numbers and an operation; else the scan runs
                  \* past the string, into what the buffer held before
  MaxStarts,      \* bound: how often the server is started
  SemIdZero,      \* does the first semaphore set get the identifier 0?
  ShmIdZero       \* does the first shared segment get the identifier 0?

ASSUME SemaAssumption ==
  /\ Server \notin Clients
  /\ SEMAEM \in Nat /\ SEMAEM >= 2
  /\ MaxStarts \in Nat \ {0}
  /\ Quit \notin Expressions /\ Blank \in Expressions
  /\ find_answer \in [Expressions -> (SUBSET Results) \ {{}}]
  /\ NoResult \notin Results
  /\ SemIdZero \in BOOLEAN /\ ShmIdZero \in BOOLEAN

VARIABLES
  pc,             \* process -> the call it makes next
  sets, theSet,   \* semaphore sets created so far, numbered from 1; the one
                  \* that key 1234 names, 0 when there is none
  segs, theSeg,   \* the same for the shared segments
  semid, shmid,   \* process -> the set and the segment it opened, 0 for none
  equation_str,   \* segment -> its field equation_str
  result,         \* segment -> its field result
  buffer_equation,\* the server's copy of the expression
  exit_str,       \* client -> the line its user typed last
  shown,          \* client -> the result it printed last
  starts          \* how often the server was started

ipcVars  == <<sets, theSet, segs, theSeg, semid, shmid>>
shmVars  == <<equation_str, result>>
userVars == <<exit_str, shown>>
vars == <<semVars, pc, ipcVars, shmVars, buffer_equation, userVars, starts>>

Procs    == Clients \union {Server}
Lines    == Expressions \union {Quit}
Segments == 1 .. MaxStarts

ClientPC == {"off", "shmget", "loop", "getmem", "write", "snd", "rcv",
             "print", "reset"}
ServerPC == {"off", "semcreate", "shmget", "shmcreate", "reset", "rcv",
             "read", "solve", "reply"}

Goto(p, from, to) == pc[p] = from /\ pc' = [pc EXCEPT ![p] = to]

-----------------------------------------------------------------------------
(* Identifiers.  Only the first object the kernel ever makes can have the  *)
(* identifier 0, the one value main compares the identifiers with.         *)

SemIdIsZero == SemIdZero /\ theSet = 1
ShmIdIsZero == ShmIdZero /\ theSeg = 1

(* semctl(IPC_RMID): the set goes, and all adjustments made on it. *)
RemoveSet ==
  /\ theSet' = 0
  /\ s0' = 0 /\ s1' = 0
  /\ adj0' = [p \in Procs |-> 0]
  /\ adj1' = [p \in Procs |-> 0]

HasSet(p) == theSet # 0 /\ semid[p] = theSet

(* Two slips in getsem: SEM_UNDO left out, of both operations, of the      *)
(* first.                                                                  *)
getsem_no_undo(p, status) ==
  IF HasSet(p) THEN semop(p, status, FALSE, FALSE) ELSE UNCHANGED semVars

getsem_no_undo0(p, status) ==
  IF HasSet(p) THEN semop(p, status, FALSE, TRUE) ELSE UNCHANGED semVars

(***************************************************************************)
(* getsem waits until its two operations pass, and applies them; on a set  *)
(* that was removed, or with an adjustment out of range, semop fails,      *)
(* getsem prints a message and returns as if it had succeeded.             *)
(***************************************************************************)
getsem(p, status) ==
  \/ HasSet(p) /\ semop(p, status, TRUE, TRUE)
  \/ HasSet(p) /\ semop_ERANGE(p, status, TRUE, TRUE)
  \/ ~ HasSet(p) /\ UNCHANGED semVars

-----------------------------------------------------------------------------
(* The server. *)

ServerSemGet ==       \* remove an existing set, if its identifier is 0
  /\ starts < MaxStarts
  /\ Goto(Server, "off", "semcreate")
  /\ starts' = starts + 1
  /\ IF SemIdIsZero THEN RemoveSet ELSE UNCHANGED <<theSet, semVars>>
  /\ UNCHANGED <<sets, segs, theSeg, semid, shmid, shmVars,
                 buffer_equation, userVars>>

ServerSemCreate ==    \* open the set, creating it if there is none
  /\ Goto(Server, "semcreate", "shmget")
  /\ IF theSet = 0 THEN sets' = sets + 1 /\ theSet' = sets + 1
                   ELSE UNCHANGED <<sets, theSet>>
  /\ semid' = [semid EXCEPT ![Server] = theSet']
  /\ UNCHANGED <<semVars, segs, theSeg, shmid, shmVars, buffer_equation,
                 userVars, starts>>

ServerShmGet ==       \* remove an existing segment, if its identifier is 0
  /\ Goto(Server, "shmget", "shmcreate")
  /\ theSeg' = IF ShmIdIsZero THEN 0 ELSE theSeg
  /\ UNCHANGED <<semVars, sets, theSet, segs, semid, shmid, shmVars,
                 buffer_equation, userVars, starts>>

OpenSegment ==        \* shmget(IPC_CREAT)
  IF theSeg = 0 THEN segs' = segs + 1 /\ theSeg' = segs + 1
                ELSE UNCHANGED <<segs, theSeg>>

ServerShmCreate ==    \* open the segment, creating it if there is none; attach
  /\ Goto(Server, "shmcreate", "reset")
  /\ OpenSegment
  /\ shmid' = [shmid EXCEPT ![Server] = theSeg']
  /\ UNCHANGED <<semVars, sets, theSet, semid, shmVars, buffer_equation,
                 userVars, starts>>

(* shmget, or shmat after it, fails: the server removes the set and ends.  *)
ServerShmFails ==
  /\ Goto(Server, "shmcreate", "off")
  /\ RemoveSet
  /\ OpenSegment \/ UNCHANGED <<segs, theSeg>>
  /\ UNCHANGED <<sets, semid, shmid, shmVars, buffer_equation, userVars,
                 starts>>

ServerReset ==
  /\ Goto(Server, "reset", "rcv")
  /\ getsem(Server, "RESET_MEM")
  /\ buffer_equation' = Blank
  /\ UNCHANGED <<ipcVars, shmVars, userVars, starts>>

ServerRcvReq ==
  /\ Goto(Server, "rcv", "read")
  /\ getsem(Server, "SERVER_RCV_REQ")
  /\ UNCHANGED <<ipcVars, shmVars, buffer_equation, userVars, starts>>

ServerRead ==
  /\ Goto(Server, "read", "solve")
  /\ buffer_equation' = equation_str[shmid[Server]]
  /\ UNCHANGED <<semVars, ipcVars, shmVars, userVars, starts>>

(* An empty line asks for no answer: the result in the segment stays.      *)
ServerSolve ==
  /\ Goto(Server, "solve", "reply")
  /\ IF buffer_equation # Quit
     THEN \E r \in find_answer[buffer_equation] :
            result' = [result EXCEPT ![shmid[Server]] = r]
     ELSE UNCHANGED result
  /\ buffer_equation' = Blank
  /\ UNCHANGED <<semVars, ipcVars, equation_str, userVars, starts>>

ServerSndRpy ==
  /\ Goto(Server, "reply", "rcv")
  /\ getsem(Server, "SERVER_SND_RPY")
  /\ UNCHANGED <<ipcVars, shmVars, buffer_equation, userVars, starts>>

ServerStep ==
  \/ ServerSemGet \/ ServerSemCreate \/ ServerShmGet \/ ServerShmCreate
  \/ ServerReset \/ ServerRcvReq \/ ServerRead \/ ServerSolve \/ ServerSndRpy

-----------------------------------------------------------------------------
(* A client. *)

ClientSemGet(c) ==    \* needs an existing set, or the client ends at once
  /\ theSet # 0
  /\ Goto(c, "off", "shmget")
  /\ semid' = [semid EXCEPT ![c] = theSet]
  /\ UNCHANGED <<semVars, sets, theSet, segs, theSeg, shmid, shmVars,
                 buffer_equation, userVars, starts>>

(* Attach the segment; without one the client ends.  exit_str is not       *)
(* initialised, and the loop may already find an empty line in it.         *)
ClientShmGet(c) ==
  /\ \/ /\ theSeg # 0
        /\ Goto(c, "shmget", "loop")
        /\ shmid' = [shmid EXCEPT ![c] = theSeg]
        /\ \E garbage \in {Blank, Quit} :
             exit_str' = [exit_str EXCEPT ![c] = garbage]
     \/ /\ theSeg = 0
        /\ Goto(c, "shmget", "off")
        /\ UNCHANGED <<shmid, exit_str>>
  /\ UNCHANGED <<semVars, sets, theSet, segs, theSeg, semid, shmVars,
                 buffer_equation, shown, starts>>

(* shmat fails: the client removes the set all processes use, and ends. *)
ClientShmatFails(c) ==
  /\ HasSet(c) /\ theSeg # 0
  /\ Goto(c, "shmget", "off")
  /\ RemoveSet
  /\ UNCHANGED <<sets, segs, theSeg, semid, shmid, shmVars,
                 buffer_equation, userVars, starts>>

ClientInput(c) ==
  /\ exit_str[c] # Quit
  /\ Goto(c, "loop", "getmem")
  /\ \E typed \in Lines : exit_str' = [exit_str EXCEPT ![c] = typed]
  /\ UNCHANGED <<semVars, ipcVars, shmVars, buffer_equation, shown, starts>>

ClientGetMem(c) ==
  /\ Goto(c, "getmem", "write")
  /\ getsem(c, "CLIENT_GET_MEM")
  /\ UNCHANGED <<ipcVars, shmVars, buffer_equation, userVars, starts>>

ClientWrite(c) ==
  /\ Goto(c, "write", "snd")
  /\ equation_str' = [equation_str EXCEPT ![shmid[c]] = exit_str[c]]
  /\ UNCHANGED <<semVars, ipcVars, result, buffer_equation, userVars, starts>>

ClientSndReq(c) ==
  /\ Goto(c, "snd", "rcv")
  /\ getsem(c, "CLIENT_SND_REQ")
  /\ UNCHANGED <<ipcVars, shmVars, buffer_equation, userVars, starts>>

ClientRcvRpy_no_wait(c) ==     \* a slip: the client does not wait
  /\ Goto(c, "rcv", "print")
  /\ UNCHANGED <<semVars, ipcVars, shmVars, buffer_equation, userVars, starts>>

ClientRcvRpy(c) ==
  /\ Goto(c, "rcv", "print")
  /\ getsem(c, "CLIENT_RCV_RPY")
  /\ UNCHANGED <<ipcVars, shmVars, buffer_equation, userVars, starts>>

ClientPrint(c) ==
  /\ Goto(c, "print", "reset")
  /\ shown' = IF exit_str[c] = Quit THEN shown
              ELSE [shown EXCEPT ![c] = result[shmid[c]]]
  /\ UNCHANGED <<semVars, ipcVars, shmVars, buffer_equation, exit_str, starts>>

ClientReset_forgotten(c) ==    \* a slip: the segment is not given back
  /\ Goto(c, "reset", "loop")
  /\ UNCHANGED <<semVars, ipcVars, shmVars, buffer_equation, userVars, starts>>

ClientReset(c) ==
  /\ Goto(c, "reset", "loop")
  /\ getsem(c, "RESET_MEM")
  /\ UNCHANGED <<ipcVars, shmVars, buffer_equation, userVars, starts>>

(* The loop ends after an empty line; the process ends, and the kernel     *)
(* applies its adjustments.                                                *)
ClientExit(c) ==
  /\ exit_str[c] = Quit
  /\ Goto(c, "loop", "off")
  /\ exit_sem(c)
  /\ UNCHANGED <<ipcVars, shmVars, buffer_equation, userVars, starts>>

ClientStep(c) ==
  \/ ClientSemGet(c) \/ ClientShmGet(c) \/ ClientInput(c) \/ ClientGetMem(c)
  \/ ClientWrite(c) \/ ClientSndReq(c) \/ ClientRcvRpy(c) \/ ClientPrint(c)
  \/ ClientReset(c)

-----------------------------------------------------------------------------
(* The client is between CLIENT_GET_MEM and RESET_MEM. *)
InExchange(c) == pc[c] \in {"write", "snd", "rcv", "print", "reset"}

(* A signal ends a process anywhere, as ^C always ends the server: its     *)
(* loop has no other way out.                                              *)

Kill(p) ==
  /\ pc[p] # "off"
  /\ pc' = [pc EXCEPT ![p] = "off"]
  /\ exit_sem(p)
  /\ UNCHANGED <<ipcVars, shmVars, buffer_equation, userVars, starts>>

(* The moments at which a client's adjustments are exactly what it still   *)
(* owes: it completed no request yet, and the request it may have posted   *)
(* was not taken.                                                          *)
Untaken(c) ==
  \/ pc[c] \in {"shmget", "loop", "getmem"} /\ adj1[c] = 0
  \/ pc[c] \in {"write", "snd"} /\ adj1[c] = 1
  \/ pc[c] = "rcv" /\ adj1[c] = 1 /\ s0 = 1 /\ s1 = 0

KillUntaken(c) == Untaken(c) /\ Kill(c)

(* The server is stopped, to be started again, while no client is in an    *)
(* exchange.  With an identifier 0 the next start would remove the set or  *)
(* the segment that the waiting clients go on using.                       *)
KillIdleServer ==
  /\ starts < MaxStarts
  /\ ~ SemIdZero /\ ~ ShmIdZero
  /\ \A c \in Clients : ~ InExchange(c)
  /\ Kill(Server)

Init ==
  /\ s0 = 0 /\ s1 = 0
  /\ adj0 = [p \in Procs |-> 0]
  /\ adj1 = [p \in Procs |-> 0]
  /\ pc = [p \in Procs |-> "off"]
  /\ sets = 0 /\ theSet = 0
  /\ segs = 0 /\ theSeg = 0
  /\ semid = [p \in Procs |-> 0]
  /\ shmid = [p \in Procs |-> 0]
  /\ equation_str = [g \in Segments |-> Blank]
  /\ result = [g \in Segments |-> NoResult]
  /\ buffer_equation = Blank
  /\ exit_str = [c \in Clients |-> Blank]
  /\ shown = [c \in Clients |-> NoResult]
  /\ starts = 0

(***************************************************************************)
(* Three next-state relations over the same actions.  Serving: the server  *)
(* is only stopped between exchanges, no client ends after it completed a  *)
(* request, and none is killed once the server took its request.           *)
(* Lifetime: the server is never stopped, and clients end when their user  *)
(* is done.  Next: everything, signals, restarts and failures included.    *)
(***************************************************************************)
NextServing ==
  \/ ServerStep \/ KillIdleServer
  \/ \E c \in Clients : ClientStep(c) \/ KillUntaken(c)

NextLifetime ==
  \/ ServerStep
  \/ \E c \in Clients : ClientStep(c) \/ ClientExit(c)

Next ==
  \/ NextLifetime
  \/ \E p \in Procs : Kill(p)
  \/ ServerShmFails
  \/ \E c \in Clients : ClientShmatFails(c)

(* The scheduler runs every process; waiters on the set are woken in the   *)
(* order they came, so none is passed over for ever; users need not type.  *)
(* A server that was stopped is started again.                             *)
Fairness ==
  /\ WF_vars(ServerStep)
  /\ \A c \in Clients :
       /\ SF_vars(ClientGetMem(c))
       /\ WF_vars(ClientShmGet(c) \/ ClientWrite(c) \/ ClientSndReq(c)
                  \/ ClientRcvRpy(c) \/ ClientPrint(c) \/ ClientReset(c))

Serving  == Init /\ [][NextServing]_vars
FairServing == Serving /\ Fairness
Lifetime == Init /\ [][NextLifetime]_vars
Spec     == Init /\ [][Next]_vars

-----------------------------------------------------------------------------
(* Properties. *)

SemTypeOK ==
  /\ s0 \in 0 .. SEMAEM /\ s1 \in 0 .. SEMAEM
  /\ adj0 \in [Procs -> -SEMAEM - 1 .. SEMAEM]
  /\ adj1 \in [Procs -> -SEMAEM - 1 .. SEMAEM]

PcTypeOK ==
  /\ pc \in [Procs -> ClientPC \union ServerPC]
  /\ \A c \in Clients : pc[c] \in ClientPC
  /\ pc[Server] \in ServerPC

IpcTypeOK ==
  /\ starts \in 0 .. MaxStarts
  /\ sets \in 0 .. MaxStarts /\ theSet \in 0 .. sets
  /\ segs \in 0 .. MaxStarts /\ theSeg \in 0 .. segs
  /\ semid \in [Procs -> 0 .. MaxStarts]
  /\ shmid \in [Procs -> 0 .. MaxStarts]

DataTypeOK ==
  /\ equation_str \in [Segments -> Lines]
  /\ result \in [Segments -> Results \union {NoResult}]
  /\ buffer_equation \in Lines
  /\ exit_str \in [Clients -> Lines]
  /\ shown \in [Clients -> Results \union {NoResult}]

(* Every variable has its type; the semaphores and the adjustments stay in *)
(* the kernel's ranges whatever getsem asks for.                           *)
TypeOK == SemTypeOK /\ PcTypeOK /\ IpcTypeOK /\ DataTypeOK

(* At most one client uses the shared segment at a time. *)
MutualExclusion ==
  \A c, d \in Clients : InExchange(c) /\ InExchange(d) => c = d

(* The result a client prints is the answer to the line its user typed,    *)
(* not one left over from, or overwritten by, another client's request.    *)
ResultIsOwn ==
  \A c \in Clients :
    pc[c] = "reset" /\ exit_str[c] # Quit
      => shown[c] \in find_answer[exit_str[c]]

(* Whatever set it finds, a server that starts leaves it free for one      *)
(* client: getsem says "Reset semaphores done!", and the loop begins.      *)
ResetDone ==
  [][pc[Server] = "reset" /\ pc'[Server] = "rcv" => s0' = 0 /\ s1' = 1]_vars

(* A request the server took is posted again when the server ends before   *)
(* it replied, whatever the clients, signals and restarts did until then.  *)
TakenRequestSurvivesCrash ==
  [][ HasSet(Server) /\ pc[Server] \in {"read", "solve", "reply"}
        /\ pc'[Server] = "off" => s0' >= 1 ]_vars

(***************************************************************************)
(* What the pair promises: RequestReply.  The request of the client that   *)
(* waits in "rcv" is served once the server has written the result.        *)
(***************************************************************************)
Served(c) ==
  \/ pc[c] = "rcv" /\ pc[Server] = "reply"
  \/ pc[c] = "rcv" /\ pc[Server] = "rcv" /\ ~ (s0 = 1 /\ s1 = 0)
  \/ pc[c] = "print"

phase ==
  [c \in Clients |->
     IF pc[c] \notin {"getmem", "write", "snd", "rcv", "print"} THEN "idle"
     ELSE IF Served(c) THEN "served" ELSE "asked"]

line == [c \in Clients |-> IF phase[c] = "idle" THEN Blank ELSE exit_str[c]]

reply ==
  [c \in Clients |->
     IF phase[c] = "served" /\ exit_str[c] # Quit THEN result[shmid[c]]
     ELSE NoResult]

RR == INSTANCE RequestReply
        WITH NoLine <- Blank, Answer <- find_answer, NoAnswer <- NoResult

(* While one server runs and clients stay, the semaphores implement        *)
(* RequestReply: each request is computed once, and shown to its client.   *)
ImplementsRequestReply == RR!Spec

(* A client that waits for its turn gets its answer or ends, unless an     *)
(* adjustment has reached its bound: the server can then post no further   *)
(* reply, or the client in the exchange can no longer leave it.            *)
WornOut ==
  \/ adj1[Server] = -SEMAEM - 1
  \/ \E c \in Clients : pc[c] = "reset" /\ s0 = 1

AskedIsAnswered ==
  \A c \in Clients : pc[c] = "getmem" ~> (pc[c] \in {"reset", "off"} \/ WornOut)

-----------------------------------------------------------------------------
(***************************************************************************)
(* Why Serving is right: an inductive invariant.  At any moment one client *)
(* at most is in an exchange, and where it is, the server's place, the     *)
(* values of the semaphores and the content of the segment go together.    *)
(***************************************************************************)
ServerUp == pc[Server] \in {"rcv", "read", "solve", "reply"}

Sem(v0, v1) == s0 = v0 /\ s1 = v1

(* There is one set and one segment, ever; who works on them opened them.  *)
OneSet ==
  /\ sets = theSet /\ theSet \in {0, 1}
  /\ segs = theSeg /\ theSeg \in {0, 1}
  /\ theSet = 1 /\ pc[Server] \in {"off", "semcreate"}
       => ~ SemIdZero /\ ~ ShmIdZero
  /\ theSeg = 1 /\ pc[Server] \in {"off", "semcreate", "shmget"}
       => ~ SemIdZero /\ ~ ShmIdZero
  /\ pc[Server] \notin {"off", "semcreate"} => theSet = 1 /\ semid[Server] = 1
  /\ pc[Server] \notin {"off", "semcreate", "shmget", "shmcreate"}
       => theSeg = 1 /\ shmid[Server] = 1
  /\ \A c \in Clients :
       /\ pc[c] # "off" => theSet = 1 /\ semid[c] = 1
       /\ pc[c] \notin {"off", "shmget"} => theSeg = 1 /\ shmid[c] = 1

(* The adjustments: the server's of semaphore 1 sinks, a client's rises by *)
(* one with every exchange.                                                *)
Adjustments ==
  /\ ServerUp => adj1[Server] <= -1
  /\ ~ ServerUp => adj0[Server] = 0 /\ adj1[Server] = 0
  /\ \A c \in Clients :
       /\ InExchange(c) => adj1[c] >= 1
       /\ ~ InExchange(c) => adj0[c] = 0 /\ adj1[c] \in 0 .. SEMAEM - 1
       /\ pc[c] \in {"off", "shmget"} => adj1[c] = 0

AnswerIsOwn(c, r) == exit_str[c] # Quit => r \in find_answer[exit_str[c]]

(* Nobody is in an exchange: the server waits, the segment is free. *)
Free ==
  (\A c \in Clients : ~ InExchange(c)) =>
    IF ServerUp THEN pc[Server] = "rcv" /\ Sem(0, 1) /\ adj0[Server] = 0
                ELSE Sem(0, 0)

(* Client c has the segment, and has not posted its request.  *)
Preparing(c) ==
  /\ pc[Server] = "rcv" /\ Sem(0, 0)
  /\ adj0[Server] = 0 /\ adj0[c] = 0
  /\ pc[c] = "snd" => equation_str[1] = exit_str[c]

(* Client c waits for its reply.  The last case is a reply that was lost:  *)
(* SERVER_SND_RPY failed with ERANGE.                                      *)
Waiting(c) ==
  /\ adj0[c] = -1
  /\ \/ /\ pc[Server] = "rcv" /\ Sem(1, 0) /\ adj0[Server] = 0
        /\ equation_str[1] = exit_str[c]
     \/ /\ pc[Server] = "read" /\ Sem(0, 0) /\ adj0[Server] = 1
        /\ equation_str[1] = exit_str[c]
     \/ /\ pc[Server] = "solve" /\ Sem(0, 0) /\ adj0[Server] = 1
        /\ buffer_equation = exit_str[c]
     \/ /\ pc[Server] = "reply" /\ Sem(0, 0) /\ adj0[Server] = 1
        /\ AnswerIsOwn(c, result[1])
     \/ /\ pc[Server] = "rcv" /\ Sem(1, 1) /\ adj0[Server] = 0
        /\ AnswerIsOwn(c, result[1])
     \/ /\ pc[Server] = "rcv" /\ Sem(0, 0) /\ adj0[Server] = 1
        /\ AnswerIsOwn(c, result[1])

(* Client c has its reply.  With (1, 1) it has not really taken it:        *)
(* CLIENT_RCV_RPY failed with ERANGE, and RESET_MEM will never pass.       *)
Finishing(c) ==
  /\ pc[Server] = "rcv" /\ adj0[Server] = 0
  /\ \/ Sem(0, 0) /\ adj0[c] = 0
     \/ Sem(1, 1)
  /\ pc[c] = "print" => AnswerIsOwn(c, result[1])
  /\ pc[c] = "reset" => AnswerIsOwn(c, shown[c])

Exchange ==
  \A c \in Clients :
    /\ pc[c] \in {"write", "snd"} => Preparing(c)
    /\ pc[c] = "rcv" => Waiting(c)
    /\ pc[c] \in {"print", "reset"} => Finishing(c)

(* The segment, the semaphores and the places of server and clients always *)
(* fit together; inductive for NextServing.                                *)
IInv ==
  /\ TypeOK
  /\ MutualExclusion
  /\ OneSet
  /\ Adjustments
  /\ Free
  /\ Exchange
=============================================================================
