------------------------- MODULE MessageQueueProofs -------------------------
(***************************************************************************)
(* For any set of clients, any equations and any size of the queue: who    *)
(* gets which message.                                                     *)
(*                                                                         *)
(* Over Spec, where clients and servers are killed anywhere, the invariant *)
(* Inv says where the messages of a client may be that is not an heir of   *)
(* another process with its identifier.  Over Serving nobody is such an    *)
(* heir, every message is there and says what its client asked, and the    *)
(* exchange implements RequestReply.                                       *)
(***************************************************************************)
EXTENDS MessageQueue, SysVMsgProofs

USE SysVMsgAssumption, MessageQueueAssumption

(* What the next call of a process tells of the rest. *)
ByPc ==
  /\ \A p \in asleep : pc[p] = "rcv" /\ buf[p] = NoMsg
  /\ \A p \in Procs : buf[p] # NoMsg => pc[p] = "rcv"
  /\ ans # NoMsg <=> pc[Server] = "snd"
  /\ \A c \in Clients : pc[c] = "off" <=> coeffs[c] = NoEquation
  /\ \A c \in heirs : pc[c] # "off"

(* The messages of c are none before it sends one, and one at most then.   *)
Own(c) ==
  /\ pc[c] = "snd" => InQueue(c) = {} /\ ~ AtServer(c)
  /\ \A i, k \in InQueue(c) : i = k
  /\ InQueue(c) # {} => ~ AtServer(c) /\ buf[c] = NoMsg
  /\ AtServer(c) => buf[c] = NoMsg

Inv ==
  /\ TypeOK /\ ByPc
  /\ \A c \in Clients : pc[c] # "off" /\ c \notin heirs => Own(c)

(* What a message says, as long as its client waits for it. *)
Says(m) ==
  m.body = IF m.kind = "request" THEN coeffs[m.type]
           ELSE third_degree_equation[coeffs[m.type]]

(* If nobody is killed who waits, or has taken a request: no message is    *)
(* about without its client, and none is missing.                          *)
Held(c) ==
  /\ pc[c] = "off" => InQueue(c) = {} /\ ~ AtServer(c)
  /\ pc[c] = "rcv" => InQueue(c) # {} \/ AtServer(c) \/ buf[c] # NoMsg
  /\ buf[c] # NoMsg => buf[c].type = c

Said ==
  /\ \A i \in DOMAIN queue : Says(queue[i])
  /\ \A p \in Procs : buf[p] # NoMsg => Says(buf[p])
  /\ ans # NoMsg => Says(ans)

IInv ==
  /\ Inv /\ heirs = {} /\ Said
  /\ \A c \in Clients : Held(c)

-----------------------------------------------------------------------------
(* The queue. *)

LEMMA MessageFields ==
  \A m \in Messages :
    /\ m # NoMsg /\ m.type \in Clients /\ m.type # Server
    /\ m.kind \in {"request", "reply"}
    /\ m.kind = "request" => m.body \in Equations
    /\ m.kind = "reply" => m.body \in Roots
  BY DEF Messages, Request, Reply

LEMMA SendableMessages == Sendable(Messages)
  BY MessageFields DEF Sendable

(* The messages of c, when one is put into the queue, or taken from it.    *)
LEMMA SentOf ==
  ASSUME queue \in Seq(Messages), NEW m \in Messages, queue' = Append(queue, m),
         NEW c \in Clients
  PROVE  /\ InQueue(c)' = IF m.type = c THEN InQueue(c) \union {Len(queue) + 1}
                          ELSE InQueue(c)
         /\ \A k \in DOMAIN queue' : queue'[k] = m \/ (k \in DOMAIN queue /\ queue'[k] = queue[k])
  BY SentFor DEF QueuedFor, InQueue

LEMMA TakenOf ==
  ASSUME queue \in Seq(Messages), NEW i \in DOMAIN queue, queue' = RemoveAt(queue, i),
         NEW c \in Clients
  PROVE  /\ \A k \in InQueue(c)' : Before(i, k) \in InQueue(c) \ {i}
         /\ \A k \in InQueue(c) \ {i} : After(i, k) \in InQueue(c)'
         /\ (\A k, l \in InQueue(c) : k = l) => \A k, l \in InQueue(c)' : k = l
         /\ \A k \in DOMAIN queue' : \E l \in DOMAIN queue : queue'[k] = queue[l]
  BY TakenFor DEF QueuedFor, InQueue

OtherTypes ==
  /\ exists \in BOOLEAN
  /\ pc \in [Procs -> {"off", "snd", "rcv"}]
  /\ ans # NoMsg => ans \in Messages /\ ans.kind = "reply"
  /\ coeffs \in [Clients -> Equations \union {NoEquation}]
  /\ shown \in [Clients -> Roots \union Equations \union {NoMsg}]
  /\ heirs \subseteq Clients

LEMMA BothTypes == TypeOK <=> QueueTypes(Messages) /\ OtherTypes
  BY DEF TypeOK, QueueTypes, OtherTypes

LEMMA BothTypesPrime == TypeOK' <=> QueueTypes(Messages)' /\ OtherTypes'
  BY DEF TypeOK, QueueTypes, OtherTypes

-----------------------------------------------------------------------------
(* The invariant of Spec. *)

LEMMA InitInv == Init => Inv
<1> SUFFICES ASSUME Init PROVE Inv
  OBVIOUS
<1>1. QueueTypes(Messages)
  <2>1. queue = <<>> /\ Queued("request") = {} /\ Queued("reply") = {}
    BY DEF Init, Queued
  <2>2. BytesQueued = 0
    <3>1. Cardinality({}) = 0
      BY FS_EmptySet
    <3>2. BytesQueued = ReqSize * 0 + RpySize * 0
      BY <2>1, <3>1 DEF BytesQueued
    <3> QED BY <3>2
  <2> QED BY <2>1, <2>2 DEF Init, QueueTypes, Procs
<1>2. OtherTypes
  BY DEF Init, OtherTypes, Procs
<1>3. ByPc
  BY DEF Init, ByPc, Procs
<1>4. \A c \in Clients : pc[c] = "off"
  BY DEF Init, Procs
<1> QED BY <1>1, <1>2, <1>3, <1>4, BothTypes DEF Inv

LEMMA ServerStartInv == ASSUME Inv, ServerStart PROVE Inv'
<1>1. /\ pc[Server] = "off" /\ pc' = [pc EXCEPT ![Server] = "rcv"] /\ exists' = TRUE
      /\ UNCHANGED <<queue, asleep, buf, ans, coeffs, shown, heirs>>
  BY DEF ServerStart, Goto, msgVars
<1>2. TypeOK'
  BY <1>1 DEF Inv, TypeOK, Procs, BytesQueued, Queued
<1>3. ByPc'
  BY <1>1 DEF Inv, TypeOK, ByPc, Procs
<1>4. \A c \in Clients : pc'[c] = pc[c] /\ (Own(c) => Own(c)')
  BY <1>1 DEF Inv, TypeOK, Procs, Own, InQueue, AtServer
<1> QED BY <1>1, <1>2, <1>3, <1>4 DEF Inv

(* Who takes a message from the queue. *)
LEMMA TakeOwn ==
  ASSUME Inv, NEW p \in Procs, NEW i \in DOMAIN queue, pc[p] = "rcv", buf[p] = NoMsg,
         p = Server \/ p = queue[i].type,
         buf' = [buf EXCEPT ![p] = queue[i]],
         queue' = RemoveAt(queue, i), UNCHANGED <<pc, ans>>,
         NEW c \in Clients, Own(c)
  PROVE  Own(c)'
<1>1. /\ queue \in Seq(Messages) /\ queue[i] \in Messages /\ queue[i] # NoMsg
      /\ buf \in [Procs -> Messages \union {NoMsg}] /\ c \in Procs /\ Server \in Procs
  BY MessageFields DEF Inv, TypeOK, Procs
<1>2. p = Server => ans = NoMsg
  BY DEF Inv, ByPc
<1>3. /\ \A k \in InQueue(c)' : Before(i, k) \in InQueue(c) \ {i}
      /\ \A k, l \in InQueue(c)' : k = l
  BY <1>1, TakenOf DEF Own
<1>4. CASE queue[i].type = c
  <2>1. i \in InQueue(c)
    BY <1>4 DEF InQueue
  <2>2. InQueue(c)' = {}
    BY <1>3, <2>1 DEF Own
  <2>3. ~ AtServer(c) /\ buf[c] = NoMsg /\ pc[c] # "snd"
    BY <2>1 DEF Own
  <2>4. AtServer(c)' => buf'[c] = NoMsg
    BY <1>1, <1>2, <2>3 DEF AtServer
  <2> QED BY <2>2, <2>3, <2>4 DEF Own
<1>5. CASE queue[i].type # c
  <2>1. p # c /\ buf'[c] = buf[c]
    BY <1>1, <1>5
  <2>2. AtServer(c)' => AtServer(c)
    BY <1>1, <1>5 DEF AtServer
  <2>3. InQueue(c)' # {} => InQueue(c) # {}
    BY <1>3
  <2> QED BY <1>3, <2>1, <2>2, <2>3 DEF Own
<1> QED BY <1>4, <1>5

LEMMA RcvInv ==
  ASSUME Inv, NEW p \in Procs, pc[p] = "rcv", buf[p] = NoMsg, msgrcv(p),
         UNCHANGED <<exists, pc, ans, coeffs, shown, heirs>>
  PROVE  Inv'
<1>1. TypeOK'
  <2>1. QueueTypes(Messages)'
    BY Received, SendableMessages, BothTypes DEF Inv
  <2>2. OtherTypes'
    BY BothTypes DEF Inv, OtherTypes
  <2> QED BY <2>1, <2>2, BothTypesPrime
<1>2. CASE asleep' = asleep \union {p} /\ UNCHANGED <<queue, buf>>
  <2>1. ByPc'
    BY <1>2 DEF Inv, ByPc
  <2>2. \A c \in Clients : Own(c) => Own(c)'
    BY <1>2 DEF Own, InQueue, AtServer
  <2> QED BY <1>1, <2>1, <2>2 DEF Inv
<1>3. CASE \E i \in DOMAIN queue :
                 /\ p = Server \/ p = queue[i].type
                 /\ buf' = [buf EXCEPT ![p] = queue[i]]
                 /\ queue' = RemoveAt(queue, i)
                 /\ asleep' = asleep
  <2>1. \A c \in Clients : Own(c) => Own(c)'
    BY <1>3, TakeOwn
  <2>2. p \notin asleep
    BY DEF msgrcv
  <2>3. ByPc'
    BY <1>3, <2>2 DEF Inv, TypeOK, ByPc
  <2> QED BY <1>1, <2>1, <2>3 DEF Inv
<1> QED BY <1>2, <1>3, Received, SendableMessages, BothTypes DEF Inv

LEMMA ServerSolveInv == ASSUME Inv, ServerSolve PROVE Inv'
<1> DEFINE m == Reply(buf[Server].type, third_degree_equation[buf[Server].body])
<1>1. /\ buf[Server] # NoMsg /\ pc[Server] = "rcv" /\ pc' = [pc EXCEPT ![Server] = "snd"]
      /\ ans' = m /\ buf' = [buf EXCEPT ![Server] = NoMsg]
      /\ UNCHANGED <<queue, asleep, exists, coeffs, shown, heirs>>
  BY DEF ServerSolve, Goto
<1>2. Server \in Procs /\ buf[Server] \in Messages /\ buf[Server].kind = "request"
  BY <1>1 DEF Inv, TypeOK, Procs
<1>3. m \in Messages /\ m # NoMsg /\ m.kind = "reply" /\ m.type = buf[Server].type
  BY <1>2, MessageFields DEF Messages, Reply
<1> HIDE DEF m
<1>4. TypeOK'
  BY <1>1, <1>2, <1>3 DEF Inv, TypeOK, BytesQueued, Queued
<1>5. ByPc'
  BY <1>1, <1>2, <1>3 DEF Inv, TypeOK, ByPc, Procs
<1>6. \A c \in Clients : pc'[c] = pc[c] /\ buf'[c] = buf[c]
  BY <1>1 DEF Inv, TypeOK, Procs
<1>7. \A c \in Clients : AtServer(c)' => AtServer(c)
  BY <1>1, <1>2, <1>3 DEF Inv, TypeOK, AtServer
<1>8. \A c \in Clients : InQueue(c)' = InQueue(c)
  BY <1>1 DEF InQueue
<1>9. \A c \in Clients : Own(c) => Own(c)'
  BY <1>6, <1>7, <1>8 DEF Own
<1> QED BY <1>1, <1>4, <1>5, <1>6, <1>9 DEF Inv

(* A message that is sent is given to a process or put into the queue.  If *)
(* there is no other one of c, it is the only one.                         *)
LEMMA SendOwn ==
  ASSUME Inv, NEW m \in Messages, msgsnd(m), NEW c \in Clients, Own(c),
         ans' = NoMsg \/ ans' = ans,
         pc'[c] = "snd" => pc[c] = "snd",
         m.type = c => /\ InQueue(c) = {} /\ buf[c] = NoMsg /\ pc'[c] # "snd"
                       /\ ~ (buf[Server] # NoMsg /\ buf[Server].type = c)
                       /\ ~ (ans' # NoMsg /\ ans'.type = c)
  PROVE  Own(c)'
<1>1. /\ queue \in Seq(Messages) /\ m # NoMsg /\ m.type \in Clients
      /\ buf \in [Procs -> Messages \union {NoMsg}] /\ asleep \subseteq Procs
      /\ c \in Procs /\ Server \in Procs /\ c # Server
  BY MessageFields DEF Inv, TypeOK, Procs
<1>2. CASE \E p \in asleep : /\ p = Server \/ p = m.type
                             /\ buf' = [buf EXCEPT ![p] = m] /\ queue' = queue
  <2>1. PICK p \in asleep : /\ p = Server \/ p = m.type
                            /\ buf' = [buf EXCEPT ![p] = m] /\ queue' = queue
    BY <1>2
  <2>2. InQueue(c)' = InQueue(c)
    BY <2>1 DEF InQueue
  <2>3. CASE m.type = c
    <3>1. InQueue(c)' = {} /\ pc'[c] # "snd"
      BY <2>2, <2>3
    <3>2. AtServer(c)' => buf'[c] = NoMsg
      BY <1>1, <2>1, <2>3 DEF AtServer
    <3> QED BY <3>1, <3>2 DEF Own
  <2>4. CASE m.type # c
    <3>1. buf'[c] = buf[c]
      BY <1>1, <2>1, <2>4
    <3>2. AtServer(c)' => AtServer(c)
      BY <1>1, <2>1, <2>4 DEF AtServer
    <3> QED BY <2>2, <3>1, <3>2 DEF Own
  <2> QED BY <2>3, <2>4
<1>3. CASE queue' = Append(queue, m) /\ buf' = buf
  <2>1. InQueue(c)' = IF m.type = c THEN InQueue(c) \union {Len(queue) + 1} ELSE InQueue(c)
    BY <1>1, <1>3, SentOf
  <2>2. CASE m.type = c
    <3>1. \A i, k \in InQueue(c)' : i = k
      BY <2>1, <2>2
    <3>2. ~ AtServer(c)' /\ buf'[c] = NoMsg /\ pc'[c] # "snd"
      BY <1>3, <2>2 DEF AtServer
    <3> QED BY <3>1, <3>2 DEF Own
  <2>3. CASE m.type # c
    <3>1. InQueue(c)' = InQueue(c) /\ buf'[c] = buf[c]
      BY <1>3, <2>1, <2>3
    <3>2. AtServer(c)' => AtServer(c)
      BY <1>3 DEF AtServer
    <3> QED BY <3>1, <3>2 DEF Own
  <2> QED BY <2>2, <2>3
<1> QED BY <1>2, <1>3, Sent, SendableMessages, BothTypes DEF Inv

LEMMA ServerSndInv == ASSUME Inv, ServerSnd PROVE Inv'
<1>1. /\ pc[Server] = "snd" /\ pc' = [pc EXCEPT ![Server] = "rcv"]
      /\ msgsnd(ans) /\ ans' = NoMsg
      /\ UNCHANGED <<exists, coeffs, shown, heirs>>
  BY DEF ServerSnd, Goto
<1>2. /\ Server \in Procs /\ ans \in Messages /\ ans # NoMsg /\ ans.kind = "reply"
      /\ buf[Server] = NoMsg /\ Server \notin asleep /\ ans.type \in Clients
  BY <1>1, MessageFields DEF Inv, TypeOK, ByPc, Procs
<1>3. QueueTypes(Messages)'
  BY <1>1, <1>2, Sent, SendableMessages, BothTypes DEF Inv
<1>4. OtherTypes'
  BY <1>1, BothTypes DEF Inv, OtherTypes
<1>5. ByPc'
  <2>1. CASE \E p \in asleep : /\ p = Server \/ p = ans.type
                               /\ asleep' = asleep \ {p}
                               /\ buf' = [buf EXCEPT ![p] = ans]
    BY <1>1, <1>2, <2>1 DEF Inv, TypeOK, ByPc, Procs
  <2>2. CASE asleep' = asleep /\ buf' = buf
    BY <1>1, <1>2, <2>2 DEF Inv, TypeOK, ByPc, Procs
  <2> QED BY <1>1, <1>2, <2>1, <2>2, Sent, SendableMessages, BothTypes DEF Inv
<1>6. ASSUME NEW c \in Clients, Own(c) PROVE Own(c)'
  <2>1. pc'[c] = pc[c]
    BY <1>1 DEF Inv, TypeOK, Procs
  <2>2. ans.type = c => InQueue(c) = {} /\ buf[c] = NoMsg /\ pc[c] # "snd"
    BY <1>2, <1>6 DEF Own, AtServer
  <2> QED BY <1>1, <1>2, <1>6, <2>1, <2>2, SendOwn
<1>7. \A c \in Clients : pc'[c] = pc[c]
  BY <1>1 DEF Inv, TypeOK, Procs
<1> QED BY <1>1, <1>3, <1>4, <1>5, <1>6, <1>7, BothTypesPrime DEF Inv

LEMMA ClientSndInv == ASSUME Inv, NEW c \in Clients, ClientSnd(c) PROVE Inv'
<1> DEFINE m == Request(c, coeffs[c])
<1>1. /\ pc[c] = "snd" /\ pc' = [pc EXCEPT ![c] = "rcv"] /\ msgsnd(m)
      /\ UNCHANGED <<exists, ans, coeffs, shown, heirs>>
  BY DEF ClientSnd, Goto
<1>2. /\ c \in Procs /\ coeffs[c] \in Equations
      /\ buf[c] = NoMsg /\ c \notin asleep
  BY <1>1 DEF Inv, TypeOK, ByPc, Procs
<1>3. m \in Messages /\ m.type = c /\ m.kind = "request"
  BY <1>2 DEF Messages, Request
<1> HIDE DEF m
<1>4. QueueTypes(Messages)'
  BY <1>1, <1>3, Sent, SendableMessages, BothTypes DEF Inv
<1>5. OtherTypes'
  BY <1>1, BothTypes DEF Inv, OtherTypes
<1>6. ByPc'
  <2>1. CASE \E p \in asleep : /\ p = Server \/ p = m.type
                               /\ asleep' = asleep \ {p}
                               /\ buf' = [buf EXCEPT ![p] = m]
    BY <1>1, <1>2, <1>3, <2>1 DEF Inv, TypeOK, ByPc, Procs
  <2>2. CASE asleep' = asleep /\ buf' = buf
    BY <1>1, <1>2, <2>2 DEF Inv, TypeOK, ByPc, Procs
  <2> QED BY <1>1, <1>3, <2>1, <2>2, Sent, SendableMessages, BothTypes DEF Inv
<1>7. ASSUME NEW w \in Clients, Own(w) PROVE Own(w)'
  <2>1. pc'[w] = IF w = c THEN "rcv" ELSE pc[w]
    BY <1>1 DEF Inv, TypeOK, Procs
  <2>2. w = c => InQueue(c) = {} /\ ~ AtServer(c)
    BY <1>1, <1>7 DEF Own
  <2> QED BY <1>1, <1>2, <1>3, <1>7, <2>1, <2>2, SendOwn DEF AtServer
<1>8. \A w \in Clients : pc'[w] # "off" => pc[w] # "off"
  BY <1>1 DEF Inv, TypeOK, Procs
<1> QED BY <1>1, <1>4, <1>5, <1>6, <1>7, <1>8, BothTypesPrime DEF Inv

(* A client that finds no message of its identifier is no heir. *)
LEMMA ClientStartInv == ASSUME Inv, NEW c \in Clients, ClientStart(c) PROVE Inv'
<1>1. /\ pc[c] = "off" /\ pc' = [pc EXCEPT ![c] = "snd"]
      /\ heirs' = IF InQueue(c) # {} \/ AtServer(c) THEN heirs \union {c} ELSE heirs
      /\ UNCHANGED <<queue, asleep, buf, exists, ans, shown>>
  BY DEF ClientStart, Goto, msgVars
<1>2. PICK e \in Equations : coeffs' = [coeffs EXCEPT ![c] = e]
  BY DEF ClientStart
<1>3. TypeOK'
  BY <1>1, <1>2 DEF Inv, TypeOK, Procs, BytesQueued, Queued
<1>4. ByPc'
  BY <1>1, <1>2 DEF Inv, TypeOK, ByPc, Procs
<1>5. \A w \in Clients : /\ pc'[w] = IF w = c THEN "snd" ELSE pc[w]
                         /\ InQueue(w)' = InQueue(w) /\ AtServer(w)' = AtServer(w)
  BY <1>1 DEF Inv, TypeOK, Procs, InQueue, AtServer
<1>6. c \notin heirs' => Own(c)'
  <2>1. buf[c] = NoMsg
    BY <1>1 DEF Inv, ByPc, Procs
  <2> QED BY <1>1, <1>5, <2>1 DEF Own
<1>7. \A w \in Clients \ {c} : Own(w) => Own(w)'
  BY <1>1, <1>5 DEF Own
<1> QED BY <1>1, <1>3, <1>4, <1>5, <1>6, <1>7 DEF Inv

(* The end of a client. *)
LEMMA EndInv ==
  ASSUME Inv, NEW c \in Clients, pc' = [pc EXCEPT ![c] = "off"],
         coeffs' = [coeffs EXCEPT ![c] = NoEquation], heirs' = heirs \ {c},
         msgexit(c), UNCHANGED <<exists, ans>>,
         shown' \in [Clients -> Roots \union Equations \union {NoMsg}]
  PROVE  Inv'
<1>1. asleep' = asleep \ {c} /\ buf' = [buf EXCEPT ![c] = NoMsg] /\ queue' = queue
  BY DEF msgexit
<1>2. TypeOK'
  <2>1. QueueTypes(Messages)'
    BY Exited, SendableMessages, BothTypes DEF Inv, Procs
  <2>2. OtherTypes'
    BY BothTypes DEF Inv, OtherTypes
  <2> QED BY <2>1, <2>2, BothTypesPrime
<1>3. ByPc'
  BY <1>1 DEF Inv, TypeOK, ByPc, Procs
<1>4. \A w \in Clients \ {c} : pc'[w] = pc[w] /\ (Own(w) => Own(w)')
  BY <1>1 DEF Inv, TypeOK, Procs, Own, InQueue, AtServer
<1>5. pc'[c] = "off"
  BY DEF Inv, TypeOK, Procs
<1> QED BY <1>2, <1>3, <1>4, <1>5 DEF Inv

LEMMA ClientPrintInv == ASSUME Inv, NEW c \in Clients, ClientPrint(c) PROVE Inv'
<1>1. /\ buf[c] # NoMsg /\ pc' = [pc EXCEPT ![c] = "off"]
      /\ shown' = [shown EXCEPT ![c] = buf[c].body]
      /\ coeffs' = [coeffs EXCEPT ![c] = NoEquation]
      /\ heirs' = heirs \ {c} /\ msgexit(c) /\ UNCHANGED <<exists, ans>>
  BY DEF ClientPrint, Goto
<1>2. buf[c].body \in Roots \union Equations
  BY <1>1, MessageFields DEF Inv, TypeOK, Procs
<1>3. shown' \in [Clients -> Roots \union Equations \union {NoMsg}]
  BY <1>1, <1>2 DEF Inv, TypeOK
<1> QED BY <1>1, <1>3, EndInv

LEMMA KillClientInv == ASSUME Inv, NEW c \in Clients, KillClient(c) PROVE Inv'
<1>1. shown' \in [Clients -> Roots \union Equations \union {NoMsg}]
  BY DEF KillClient, Inv, TypeOK
<1> QED BY <1>1, EndInv DEF KillClient

LEMMA KillServerInv == ASSUME Inv, KillServer PROVE Inv'
<1>1. /\ pc' = [pc EXCEPT ![Server] = "off"] /\ ans' = NoMsg
      /\ asleep' = asleep \ {Server} /\ buf' = [buf EXCEPT ![Server] = NoMsg]
      /\ UNCHANGED <<queue, exists, coeffs, shown, heirs>>
  BY DEF KillServer, msgexit
<1>2. TypeOK'
  BY <1>1 DEF Inv, TypeOK, Procs, BytesQueued, Queued
<1>3. ByPc'
  BY <1>1 DEF Inv, TypeOK, ByPc, Procs
<1>4. \A c \in Clients : pc'[c] = pc[c] /\ (Own(c) => Own(c)')
  BY <1>1 DEF Inv, TypeOK, Procs, Own, InQueue, AtServer
<1> QED BY <1>1, <1>2, <1>3, <1>4 DEF Inv

LEMMA NextInv == Inv /\ [Next]_vars => Inv'
<1> SUFFICES ASSUME Inv, [Next]_vars PROVE Inv'
  OBVIOUS
<1>1. CASE UNCHANGED vars
  BY <1>1 DEF vars, msgVars, Inv, TypeOK, ByPc, Own, InQueue, AtServer, BytesQueued, Queued
<1>2. CASE ServerStart \/ KillIdleServer \/ KillServer
  BY <1>2, ServerStartInv, KillServerInv DEF KillIdleServer
<1>3. CASE ServerStep
  <2>1. CASE ServerRcv
    BY <2>1, RcvInv DEF ServerRcv, Procs
  <2> QED BY <1>3, <2>1, ServerSolveInv, ServerSndInv DEF ServerStep
<1>4. ASSUME NEW c \in Clients, ClientStart(c) \/ ClientStep(c) \/ KillClient(c)
      PROVE  Inv'
  <2>1. CASE ClientRcv(c)
    BY <2>1, RcvInv DEF ClientRcv, Procs
  <2> QED BY <1>4, <2>1, ClientStartInv, ClientSndInv, ClientPrintInv, KillClientInv
          DEF ClientStep
<1> QED BY <1>1, <1>2, <1>3, <1>4 DEF Next, NextServing

(* Every variable has its type; the queue holds at most QBytes bytes, and  *)
(* the server's buffer never a reply.                                      *)
THEOREM SpecTypeOK == Spec => []TypeOK
<1>1. Spec => []Inv
  BY InitInv, NextInv, PTL DEF Spec
<1> QED BY <1>1, PTL DEF Inv

(* A set whose members are equal is empty or has one. *)
LEMMA OneOrNone ==
  ASSUME NEW S, \A i, k \in S : i = k
  PROVE  IF S = {} THEN Cardinality(S) = 0 ELSE Cardinality(S) = 1
<1>1. CASE S = {}
  BY <1>1, FS_EmptySet
<1>2. CASE S # {}
  <2>1. PICK i : S = {i}
    BY <1>2
  <2> QED BY <1>2, <2>1, FS_Singleton
<1> QED BY <1>1, <1>2

LEMMA PlacesOfOwn ==
  ASSUME NEW c \in Clients, Own(c)
  PROVE  Places(c) = IF InQueue(c) = {} /\ ~ AtServer(c) /\ buf[c] = NoMsg THEN 0 ELSE 1
<1>1. IF InQueue(c) = {} THEN Cardinality(InQueue(c)) = 0 ELSE Cardinality(InQueue(c)) = 1
  BY OneOrNone DEF Own
<1> QED BY <1>1 DEF Own, Places

LEMMA StaleByInv == Inv => StaleOnlyToHeirs
<1> SUFFICES ASSUME Inv, NEW c \in Clients, pc[c] # "off", c \notin heirs
             PROVE  Places(c) = IF pc[c] = "snd" \/ Lost(c) THEN 0 ELSE 1
  BY DEF StaleOnlyToHeirs
<1>1. Own(c) /\ c \in Procs
  BY DEF Inv, Procs
<1>2. pc[c] \in {"snd", "rcv"} /\ (pc[c] = "snd" => buf[c] = NoMsg)
  BY <1>1 DEF Inv, TypeOK, ByPc
<1> QED BY <1>1, <1>2, PlacesOfOwn DEF Own, Lost

(* Even if clients and servers are killed, messages of another process     *)
(* reach only a client that has its identifier and started while they were *)
(* about; for every other one there is its own message and no more, or,    *)
(* when a server was killed with it, none.                                 *)
THEOREM SpecStaleOnlyToHeirs == Spec => []StaleOnlyToHeirs
<1>1. Spec => []Inv
  BY InitInv, NextInv, PTL DEF Spec
<1> QED BY <1>1, StaleByInv, PTL

-----------------------------------------------------------------------------
(* The invariant of Serving. *)

(* What is taken from the queue is still there, in the hands of its        *)
(* client or of the server.                                                *)
LEMMA TakeHeld ==
  ASSUME IInv, NEW p \in Procs, NEW i \in DOMAIN queue, pc[p] = "rcv", buf[p] = NoMsg,
         p = Server \/ p = queue[i].type,
         buf' = [buf EXCEPT ![p] = queue[i]],
         queue' = RemoveAt(queue, i), UNCHANGED <<pc, ans, coeffs>>
  PROVE  Said' /\ \A c \in Clients : Held(c)'
<1>1. /\ queue \in Seq(Messages) /\ queue[i] \in Messages /\ queue[i] # NoMsg
      /\ buf \in [Procs -> Messages \union {NoMsg}] /\ Server \in Procs
  BY MessageFields DEF IInv, Inv, TypeOK, Procs
<1>2. p = Server => ans = NoMsg
  BY DEF IInv, Inv, ByPc
<1>3. Said'
  <2>1. \A k \in DOMAIN queue' : \E l \in DOMAIN queue : queue'[k] = queue[l]
    BY <1>1, Removed
  <2>2. \A m : Says(m)' <=> Says(m)
    BY DEF Says
  <2> QED BY <1>1, <2>1, <2>2 DEF IInv, Said
<1>4. ASSUME NEW c \in Clients PROVE Held(c)'
  <2>1. /\ \A k \in InQueue(c)' : Before(i, k) \in InQueue(c) \ {i}
        /\ \A k \in InQueue(c) \ {i} : After(i, k) \in InQueue(c)'
    BY <1>1, TakenOf
  <2>2. c \in Procs /\ c # Server /\ Held(c)
    BY DEF Procs, IInv
  <2>3. CASE queue[i].type = c
    <3>1. i \in InQueue(c) /\ pc[c] # "off"
      BY <2>2, <2>3 DEF InQueue, Held
    <3>2. p = Server => AtServer(c)'
      BY <1>1, <2>3 DEF AtServer
    <3>3. p # Server => buf'[c] # NoMsg /\ buf'[c].type = c
      BY <1>1, <2>3
    <3>4. p = Server => buf'[c] = buf[c]
      BY <1>1, <2>2
    <3> QED BY <2>2, <3>1, <3>2, <3>3, <3>4 DEF Held
  <2>4. CASE queue[i].type # c
    <3>1. InQueue(c) = {} <=> InQueue(c)' = {}
      <4>1. i \notin InQueue(c)
        BY <2>4 DEF InQueue
      <4> QED BY <2>1, <4>1
    <3>2. buf'[c] = buf[c]
      BY <1>1, <2>2, <2>4
    <3>3. AtServer(c)' <=> AtServer(c)
      BY <1>1, <2>4 DEF AtServer
    <3> QED BY <2>2, <3>1, <3>2, <3>3 DEF Held
  <2> QED BY <2>3, <2>4
<1> QED BY <1>3, <1>4

LEMMA RcvHeld ==
  ASSUME IInv, NEW p \in Procs, pc[p] = "rcv", buf[p] = NoMsg, msgrcv(p),
         UNCHANGED <<exists, pc, ans, coeffs, shown, heirs>>
  PROVE  IInv'
<1>1. Inv' /\ heirs' = {}
  BY RcvInv DEF IInv
<1>2. CASE UNCHANGED <<queue, buf>>
  BY <1>1, <1>2 DEF IInv, Said, Says, Held, InQueue, AtServer
<1>3. CASE \E i \in DOMAIN queue :
                 /\ p = Server \/ p = queue[i].type
                 /\ buf' = [buf EXCEPT ![p] = queue[i]]
                 /\ queue' = RemoveAt(queue, i)
  BY <1>1, <1>3, TakeHeld DEF IInv
<1> QED BY <1>2, <1>3, Received, SendableMessages, BothTypes DEF IInv, Inv

LEMMA SolveHeld == ASSUME IInv, ServerSolve PROVE IInv'
<1> DEFINE m == Reply(buf[Server].type, third_degree_equation[buf[Server].body])
<1>1. /\ buf[Server] # NoMsg /\ pc[Server] = "rcv" /\ pc' = [pc EXCEPT ![Server] = "snd"]
      /\ ans' = m /\ buf' = [buf EXCEPT ![Server] = NoMsg]
      /\ UNCHANGED <<queue, asleep, exists, coeffs, shown, heirs>>
  BY DEF ServerSolve, Goto
<1>2. /\ Server \in Procs /\ buf[Server] \in Messages /\ buf[Server].kind = "request"
      /\ ans = NoMsg
  BY <1>1 DEF IInv, Inv, TypeOK, ByPc, Procs
<1>3. /\ m \in Messages /\ m # NoMsg /\ m.kind = "reply" /\ m.type = buf[Server].type
      /\ m.body = third_degree_equation[buf[Server].body]
  BY <1>2, MessageFields DEF Messages, Reply
<1>4. Says(m)
  BY <1>1, <1>2, <1>3 DEF IInv, Said, Says
<1> HIDE DEF m
<1>5. Said'
  BY <1>1, <1>2, <1>4 DEF IInv, Inv, TypeOK, Said, Says
<1>6. ASSUME NEW c \in Clients PROVE Held(c)'
  <2>1. pc'[c] = pc[c] /\ buf'[c] = buf[c] /\ InQueue(c)' = InQueue(c)
    BY <1>1 DEF IInv, Inv, TypeOK, Procs, InQueue
  <2>2. AtServer(c)' <=> AtServer(c)
    BY <1>1, <1>2, <1>3 DEF IInv, Inv, TypeOK, AtServer
  <2> QED BY <2>1, <2>2 DEF IInv, Held
<1> QED BY <1>1, <1>5, <1>6, ServerSolveInv DEF IInv

(* What is sent reaches the hands of its client or of the server, or the   *)
(* queue.                                                                  *)
LEMMA SendHeld ==
  ASSUME IInv, NEW m \in Messages, msgsnd(m), Says(m), UNCHANGED coeffs,
         pc'[m.type] = "rcv",
         \A c \in Clients \ {m.type} : pc'[c] = pc[c],
         \/ ans' = NoMsg /\ (ans = m \/ ans = NoMsg)
         \/ ans' = ans
  PROVE  Said' /\ \A c \in Clients : Held(c)'
<1>1. /\ queue \in Seq(Messages) /\ m # NoMsg /\ m.type \in Clients
      /\ buf \in [Procs -> Messages \union {NoMsg}] /\ asleep \subseteq Procs
      /\ Server \in Procs /\ Server \notin Clients /\ Clients \subseteq Procs
  BY MessageFields DEF IInv, Inv, TypeOK, Procs
<1>2. \A w : Says(w)' <=> Says(w)
  BY DEF Says
<1>3. CASE \E p \in asleep : /\ p = Server \/ p = m.type
                             /\ buf' = [buf EXCEPT ![p] = m] /\ queue' = queue
  <2>1. PICK p \in asleep : /\ p = Server \/ p = m.type
                            /\ buf' = [buf EXCEPT ![p] = m] /\ queue' = queue
    BY <1>3
  <2>2. Said'
    BY <1>1, <1>2, <2>1 DEF IInv, Said
  <2>3. ASSUME NEW c \in Clients PROVE Held(c)'
    <3>1. InQueue(c)' = InQueue(c)
      BY <2>1 DEF InQueue
    <3>2. CASE m.type = c
      <4>1. pc'[c] = "rcv"
        BY <3>2
      <4>2. p = Server => AtServer(c)' /\ buf'[c] = buf[c]
        BY <1>1, <2>1, <3>2 DEF AtServer
      <4>3. p # Server => buf'[c] = m
        BY <1>1, <2>1, <3>2
      <4> QED BY <1>1, <3>2, <4>1, <4>2, <4>3 DEF IInv, Held
    <3>3. CASE m.type # c
      <4>1. buf'[c] = buf[c] /\ pc'[c] = pc[c]
        BY <1>1, <2>1, <3>3
      <4>2. AtServer(c)' <=> AtServer(c)
        <5>1. p = Server => buf[Server] = NoMsg
          BY <2>1 DEF IInv, Inv, ByPc
        <5> QED BY <1>1, <2>1, <3>3, <5>1 DEF AtServer
      <4> QED BY <3>1, <4>1, <4>2 DEF IInv, Held
    <3> QED BY <3>2, <3>3
  <2> QED BY <2>2, <2>3
<1>4. CASE queue' = Append(queue, m) /\ buf' = buf
  <2>1. ASSUME NEW c \in Clients
        PROVE  /\ InQueue(c)' = IF m.type = c THEN InQueue(c) \union {Len(queue) + 1}
                                ELSE InQueue(c)
               /\ \A k \in DOMAIN queue' :
                    queue'[k] = m \/ (k \in DOMAIN queue /\ queue'[k] = queue[k])
    BY <1>1, <1>4, SentOf
  <2>2. Said'
    BY <1>1, <1>2, <1>4, <2>1 DEF IInv, Said
  <2>3. ASSUME NEW c \in Clients PROVE Held(c)'
    <3>1. CASE m.type = c
      BY <1>4, <2>1, <3>1 DEF IInv, Held
    <3>2. CASE m.type # c
      <4>1. InQueue(c)' = InQueue(c) /\ buf'[c] = buf[c] /\ pc'[c] = pc[c]
        BY <1>4, <2>1, <3>2
      <4>2. AtServer(c)' <=> AtServer(c)
        BY <1>4, <3>2 DEF AtServer
      <4> QED BY <4>1, <4>2 DEF IInv, Held
    <3> QED BY <3>1, <3>2
  <2> QED BY <2>2, <2>3
<1> QED BY <1>3, <1>4, Sent, SendableMessages, BothTypes DEF IInv, Inv

LEMMA ServerSndHeld == ASSUME IInv, ServerSnd PROVE IInv'
<1>1. /\ pc[Server] = "snd" /\ pc' = [pc EXCEPT ![Server] = "rcv"]
      /\ msgsnd(ans) /\ ans' = NoMsg
      /\ UNCHANGED <<exists, coeffs, shown, heirs>>
  BY DEF ServerSnd, Goto
<1>2. /\ ans \in Messages /\ ans # NoMsg /\ ans.type \in Clients /\ Says(ans)
  BY <1>1, MessageFields DEF IInv, Said, Inv, TypeOK, ByPc
<1>3. \A c \in Clients : pc'[c] = pc[c]
  BY <1>1 DEF IInv, Inv, TypeOK, Procs
<1>4. pc[ans.type] = "rcv"
  <2>1. AtServer(ans.type)
    BY <1>2 DEF AtServer
  <2>2. Own(ans.type) /\ Held(ans.type) /\ pc[ans.type] \in {"off", "snd", "rcv"}
    BY <1>2, <2>1 DEF IInv, Inv, Held, TypeOK, Procs
  <2> QED BY <2>1, <2>2 DEF Own, Held
<1>5. Said' /\ \A c \in Clients : Held(c)'
  BY <1>1, <1>2, <1>3, <1>4, SendHeld
<1> QED BY <1>1, <1>5, ServerSndInv DEF IInv

LEMMA ClientSndHeld == ASSUME IInv, NEW c \in Clients, ClientSnd(c) PROVE IInv'
<1> DEFINE m == Request(c, coeffs[c])
<1>1. /\ pc[c] = "snd" /\ pc' = [pc EXCEPT ![c] = "rcv"] /\ msgsnd(m)
      /\ UNCHANGED <<exists, ans, coeffs, shown, heirs>>
  BY DEF ClientSnd, Goto
<1>2. coeffs[c] \in Equations
  BY <1>1 DEF IInv, Inv, TypeOK, ByPc
<1>3. m \in Messages /\ m.type = c /\ Says(m)
  BY <1>2 DEF Messages, Request, Says
<1> HIDE DEF m
<1>4. pc'[c] = "rcv" /\ \A w \in Clients \ {c} : pc'[w] = pc[w]
  BY <1>1 DEF IInv, Inv, TypeOK, Procs
<1>5. Said' /\ \A w \in Clients : Held(w)'
  BY <1>1, <1>3, <1>4, SendHeld
<1> QED BY <1>1, <1>5, ClientSndInv DEF IInv

(* Whoever starts or ends, no message depends on what it typed. *)
LEMMA NoneOf ==
  ASSUME IInv, NEW c \in Clients, InQueue(c) = {}, ~ AtServer(c)
  PROVE  /\ \A i \in DOMAIN queue : queue[i].type # c
         /\ \A p \in Procs \ {c} : buf[p] # NoMsg => buf[p].type # c
         /\ ans # NoMsg => ans.type # c
  BY DEF IInv, Held, InQueue, AtServer, Procs

LEMMA ClientStartHeld == ASSUME IInv, NEW c \in Clients, ClientStart(c) PROVE IInv'
<1>1. /\ pc[c] = "off" /\ pc' = [pc EXCEPT ![c] = "snd"]
      /\ heirs' = IF InQueue(c) # {} \/ AtServer(c) THEN heirs \union {c} ELSE heirs
      /\ UNCHANGED <<queue, asleep, buf, exists, ans, shown>>
  BY DEF ClientStart, Goto, msgVars
<1>2. PICK e \in Equations : coeffs' = [coeffs EXCEPT ![c] = e]
  BY DEF ClientStart
<1>3. InQueue(c) = {} /\ ~ AtServer(c) /\ heirs' = {}
  BY <1>1 DEF IInv, Held
<1>4. Said'
  <2>1. \A w : w # c => coeffs'[w] = coeffs[w]
    BY <1>2 DEF IInv, Inv, TypeOK
  <2>2. buf[c] = NoMsg
    BY <1>1 DEF IInv, Inv, ByPc, Procs
  <2> QED BY <1>1, <1>3, <2>1, <2>2, NoneOf DEF IInv, Said, Says
<1>5. \A w \in Clients : Held(w)'
  BY <1>1 DEF IInv, Inv, TypeOK, Procs, Held, InQueue, AtServer
<1> QED BY <1>1, <1>3, <1>4, <1>5, ClientStartInv DEF IInv

LEMMA ClientPrintHeld == ASSUME IInv, NEW c \in Clients, ClientPrint(c) PROVE IInv'
<1>1. /\ pc[c] = "rcv" /\ buf[c] # NoMsg /\ pc' = [pc EXCEPT ![c] = "off"]
      /\ coeffs' = [coeffs EXCEPT ![c] = NoEquation]
      /\ heirs' = heirs \ {c} /\ buf' = [buf EXCEPT ![c] = NoMsg]
      /\ UNCHANGED <<queue, ans>>
  BY DEF ClientPrint, Goto, msgexit
<1>2. InQueue(c) = {} /\ ~ AtServer(c)
  BY <1>1 DEF IInv, Inv, Own
<1>3. Said'
  <2>1. \A w : w # c => coeffs'[w] = coeffs[w]
    BY <1>1 DEF IInv, Inv, TypeOK
  <2>2. \A p \in Procs : buf'[p] = IF p = c THEN NoMsg ELSE buf[p]
    BY <1>1 DEF IInv, Inv, TypeOK
  <2> QED BY <1>1, <1>2, <2>1, <2>2, NoneOf DEF IInv, Said, Says
<1>4. \A w \in Clients : Held(w)'
  BY <1>1, <1>2 DEF IInv, Inv, TypeOK, Procs, Held, InQueue, AtServer
<1>5. heirs' = {}
  BY <1>1 DEF IInv
<1> QED BY <1>3, <1>4, <1>5, ClientPrintInv DEF IInv

LEMMA ServerComesAndGoes == ASSUME IInv, ServerStart \/ KillIdleServer PROVE IInv'
<1>1. /\ \A c \in Clients : pc'[c] = pc[c]
      /\ UNCHANGED <<queue, buf, ans, coeffs, heirs>>
  <2>1. CASE ServerStart
    BY <2>1 DEF ServerStart, Goto, msgVars, IInv, Inv, TypeOK, Procs
  <2>2. CASE KillIdleServer
    <3>1. ans = NoMsg
      BY <2>2 DEF KillIdleServer, IInv, Inv, ByPc
    <3>2. buf' = buf
      BY <2>2 DEF KillIdleServer, KillServer, msgexit, IInv, Inv, TypeOK
    <3> QED BY <2>2, <3>1, <3>2
            DEF KillIdleServer, KillServer, msgexit, IInv, Inv, TypeOK, Procs
  <2> QED BY <2>1, <2>2
<1>2. Said' /\ \A c \in Clients : Held(c)'
  BY <1>1 DEF IInv, Said, Says, Held, InQueue, AtServer
<1> QED BY <1>1, <1>2, ServerStartInv, KillServerInv DEF IInv, KillIdleServer

LEMMA ServingInv == Serving => []IInv
<1>1. Init => IInv
  <2>1. Init => \A c \in Clients : Held(c)
    BY DEF Init, Held, InQueue, AtServer, Procs
  <2>2. Init => Said /\ heirs = {}
    BY DEF Init, Said
  <2> QED BY <2>1, <2>2, InitInv DEF IInv
<1>2. IInv /\ [NextServing]_vars => IInv'
  <2> SUFFICES ASSUME IInv, [NextServing]_vars PROVE IInv'
    OBVIOUS
  <2>1. CASE UNCHANGED vars
    <3>1. Inv'
      BY <2>1, NextInv DEF IInv
    <3> QED BY <2>1, <3>1
            DEF vars, msgVars, IInv, Said, Says, Held, InQueue, AtServer
  <2>2. CASE ServerStart \/ KillIdleServer
    BY <2>2, ServerComesAndGoes
  <2>3. CASE ServerStep
    <3>1. CASE ServerRcv
      BY <3>1, RcvHeld DEF ServerRcv, Procs
    <3> QED BY <2>3, <3>1, SolveHeld, ServerSndHeld DEF ServerStep
  <2>4. ASSUME NEW c \in Clients, ClientStart(c) \/ ClientStep(c)
        PROVE  IInv'
    <3>1. CASE ClientRcv(c)
      BY <3>1, RcvHeld DEF ClientRcv, Procs
    <3> QED BY <2>4, <3>1, ClientStartHeld, ClientSndHeld, ClientPrintHeld DEF ClientStep
  <2> QED BY <2>1, <2>2, <2>3, <2>4 DEF NextServing
<1> QED BY <1>1, <1>2, PTL DEF Serving

(* From the moment it is sent, a client's request, or the reply made from  *)
(* it, is in exactly one place; a client that ends leaves nothing behind   *)
(* for the next process with its identifier.                               *)
THEOREM ServingOneMessageEach == Serving => []OneMessageEach
<1>1. IInv => OneMessageEach
  <2> SUFFICES ASSUME IInv, NEW c \in Clients
               PROVE  Places(c) = IF pc[c] = "rcv" THEN 1 ELSE 0
    BY DEF OneMessageEach
  <2>1. /\ c \in Procs /\ pc[c] \in {"off", "snd", "rcv"} /\ Held(c)
        /\ pc[c] # "rcv" => buf[c] = NoMsg
        /\ pc[c] # "off" => Own(c)
    BY DEF IInv, Inv, TypeOK, ByPc, Procs
  <2>2. CASE pc[c] = "off"
    <3>1. Own(c)
      BY <2>1, <2>2 DEF Own, Held
    <3> QED BY <2>1, <2>2, <3>1, PlacesOfOwn DEF Held
  <2> QED BY <2>1, <2>2, PlacesOfOwn DEF Own, Held
<1> QED BY <1>1, ServingInv, PTL

-----------------------------------------------------------------------------
(* Serving implements RequestReply: one client's step, or one for it, is   *)
(* one of the promise or changes nothing of what is promised.              *)

LEMMA OneChanged ==
  ASSUME NEW S, NEW c \in S, NEW f, NEW g,
         f = [x \in S |-> f[x]], g = [x \in S |-> g[x]],
         \A d \in S \ {c} : g[d] = f[d]
  PROVE  g = [f EXCEPT ![c] = g[c]]
  OBVIOUS

LEMMA ViewIsFunction ==
  /\ phase = [d \in Clients |-> phase[d]]
  /\ reply = [d \in Clients |-> reply[d]]
<1>1. phase = [d \in Clients |-> phase[d]]
  BY DEF phase
<1>2. reply = [d \in Clients |-> reply[d]]
  BY DEF reply
<1> QED BY <1>1, <1>2

(* What one client sees does not change. *)
LEMMA ViewStays ==
  ASSUME NEW c \in Clients, pc'[c] = "off" <=> pc[c] = "off", buf'[c] = buf[c],
         coeffs'[c] = coeffs[c], Asked(c)' <=> Asked(c)
  PROVE  phase'[c] = phase[c] /\ reply'[c] = reply[c]
<1>1. phase'[c] = phase[c]
  BY DEF phase
<1> QED BY <1>1 DEF reply

LEMMA ViewStutters ==
  ASSUME \A d \in Clients : phase'[d] = phase[d] /\ reply'[d] = reply[d],
         UNCHANGED <<coeffs, shown>>
  PROVE  UNCHANGED RR!vars
<1>1. phase' = phase
  BY DEF phase
<1>2. reply' = reply
  BY DEF reply
<1> QED BY <1>1, <1>2 DEF RR!vars

LEMMA ViewOf ==
  ASSUME NEW c \in Clients,
         \A d \in Clients \ {c} : phase'[d] = phase[d] /\ reply'[d] = reply[d]
  PROVE  /\ phase' = [phase EXCEPT ![c] = phase'[c]]
         /\ reply' = [reply EXCEPT ![c] = reply'[c]]
<1>1. phase = [d \in Clients |-> phase[d]] /\ phase' = [d \in Clients |-> phase'[d]]
  BY DEF phase
<1>2. reply = [d \in Clients |-> reply[d]] /\ reply' = [d \in Clients |-> reply'[d]]
  BY DEF reply
<1>3. phase' = [phase EXCEPT ![c] = phase'[c]]
  BY <1>1, OneChanged
<1>4. reply' = [reply EXCEPT ![c] = reply'[c]]
  BY <1>2, OneChanged
<1> QED BY <1>3, <1>4

(* What an asking client, and one that is served, look like. *)
LEMMA Phases ==
  ASSUME NEW c \in Clients
  PROVE  /\ pc[c] = "off" => phase[c] = "idle" /\ reply[c] = NoMsg
         /\ pc[c] # "off" /\ Asked(c) => phase[c] = "asked" /\ reply[c] = NoMsg
         /\ pc[c] # "off" /\ ~ Asked(c) =>
              /\ phase[c] = "served"
              /\ reply[c] = IF buf[c] # NoMsg THEN buf[c].body
                            ELSE third_degree_equation[coeffs[c]]
  BY DEF phase, reply

LEMMA PhasesPrime ==
  ASSUME NEW c \in Clients
  PROVE  /\ pc'[c] = "off" => phase'[c] = "idle" /\ reply'[c] = NoMsg
         /\ pc'[c] # "off" /\ Asked(c)' => phase'[c] = "asked" /\ reply'[c] = NoMsg
         /\ pc'[c] # "off" /\ ~ Asked(c)' =>
              /\ phase'[c] = "served"
              /\ reply'[c] = IF buf'[c] # NoMsg THEN buf'[c].body
                             ELSE third_degree_equation[coeffs'[c]]
  BY DEF phase, reply

(* Who waits has exactly one message somewhere. *)
LEMMA Waits ==
  ASSUME IInv, NEW c \in Clients, AtServer(c) \/ InQueue(c) # {} \/ buf[c] # NoMsg
  PROVE  pc[c] = "rcv" /\ Own(c) /\ coeffs[c] \in Equations
<1>1. Held(c) /\ c \in Procs /\ pc[c] # "off"
  BY DEF IInv, Inv, Held, ByPc, Procs
<1>2. Own(c) /\ pc[c] \in {"snd", "rcv"} /\ coeffs[c] \in Equations
  BY <1>1 DEF IInv, Inv, TypeOK, ByPc
<1>3. pc[c] # "snd"
  BY <1>1, <1>2 DEF IInv, Inv, ByPc, Own
<1> QED BY <1>2, <1>3

(* What is left in the queue when a message leaves it. *)
LEMMA KindsLeft ==
  ASSUME queue \in Seq(Messages), NEW i \in DOMAIN queue, queue' = RemoveAt(queue, i),
         NEW c \in Clients, queue[i].type # c \/ queue[i].kind = "request"
  PROVE  (\A k \in InQueue(c)' : queue'[k].kind = "request")
            <=> \A k \in InQueue(c) : queue[k].kind = "request"
<1>1. /\ \A k \in DOMAIN queue' :
           Before(i, k) \in DOMAIN queue \ {i} /\ queue'[k] = queue[Before(i, k)]
      /\ \A k \in DOMAIN queue \ {i} :
           After(i, k) \in DOMAIN queue' /\ queue'[After(i, k)] = queue[k]
  BY Removed
<1>2. /\ \A k \in InQueue(c)' : Before(i, k) \in InQueue(c) /\ queue'[k] = queue[Before(i, k)]
      /\ \A k \in InQueue(c) \ {i} : After(i, k) \in InQueue(c)' /\ queue'[After(i, k)] = queue[k]
  BY <1>1 DEF InQueue
<1>3. i \in InQueue(c) => queue[i].kind = "request"
  BY DEF InQueue
<1> QED BY <1>2, <1>3

LEMMA ServerComesUnseen ==
  ASSUME IInv, ServerStart \/ KillIdleServer
  PROVE  UNCHANGED RR!vars
<1>1. /\ \A c \in Clients : pc'[c] = pc[c] /\ buf'[c] = buf[c]
      /\ UNCHANGED <<queue, ans, coeffs, shown>>
  <2>1. CASE ServerStart
    BY <2>1 DEF ServerStart, Goto, msgVars, IInv, Inv, TypeOK, Procs
  <2>2. CASE KillIdleServer
    <3>1. ans = NoMsg
      BY <2>2 DEF KillIdleServer, IInv, Inv, ByPc
    <3> QED BY <2>2, <3>1
            DEF KillIdleServer, KillServer, msgexit, IInv, Inv, TypeOK, Procs
  <2> QED BY <2>1, <2>2
<1>2. \A c \in Clients : Asked(c)' <=> Asked(c)
  BY <1>1 DEF Asked, InQueue
<1> QED BY <1>1, <1>2, ViewStays, ViewStutters

(* A request reaches the server: its client still waits for the answer. *)
LEMMA ServerRcvUnseen ==
  ASSUME IInv, ServerRcv
  PROVE  UNCHANGED RR!vars
<1>1. /\ msgrcv(Server) /\ UNCHANGED <<pc, ans, coeffs, shown>>
      /\ queue \in Seq(Messages) /\ buf \in [Procs -> Messages \union {NoMsg}]
  BY DEF ServerRcv, IInv, Inv, TypeOK
<1>2. CASE UNCHANGED <<queue, buf>>
  <2>1. \A c \in Clients : Asked(c)' <=> Asked(c)
    BY <1>1, <1>2 DEF Asked, InQueue
  <2> QED BY <1>1, <1>2, <2>1, ViewStays, ViewStutters
<1>3. CASE \E i \in DOMAIN queue :
             /\ queue[i].kind = "request"
             /\ buf' = [buf EXCEPT ![Server] = queue[i]]
             /\ queue' = RemoveAt(queue, i)
  <2>1. \A c \in Clients :
          (\A k \in InQueue(c)' : queue'[k].kind = "request")
             <=> \A k \in InQueue(c) : queue[k].kind = "request"
    BY <1>1, <1>3, KindsLeft
  <2>2. \A c \in Clients : buf'[c] = buf[c]
    BY <1>1, <1>3 DEF Procs
  <2>3. \A c \in Clients : Asked(c)' <=> Asked(c)
    BY <1>1, <2>1, <2>2 DEF Asked
  <2> QED BY <1>1, <2>2, <2>3, ViewStays, ViewStutters
<1> QED BY <1>1, <1>2, <1>3, Received, SendableMessages, BothTypes DEF IInv, Inv, Procs

(* The server computes the roots of the equation of the client whose       *)
(* request it has.                                                         *)
LEMMA ServerSolveServes ==
  ASSUME IInv, ServerSolve
  PROVE  RR!Next
<1>1. /\ buf[Server] # NoMsg /\ pc[Server] = "rcv" /\ pc' = [pc EXCEPT ![Server] = "snd"]
      /\ ans' = Reply(buf[Server].type, third_degree_equation[buf[Server].body])
      /\ buf' = [buf EXCEPT ![Server] = NoMsg]
      /\ UNCHANGED <<queue, asleep, exists, coeffs, shown, heirs>>
  BY DEF ServerSolve, Goto
<1>2. Server \in Procs /\ buf[Server] \in Messages /\ ans = NoMsg
  BY <1>1 DEF IInv, Inv, TypeOK, ByPc, Procs
<1>3. PICK c \in Clients : c = buf[Server].type /\ AtServer(c)
  BY <1>1, <1>2, MessageFields DEF AtServer
<1>4. ans' # NoMsg /\ ans'.type = c
  <2>1. third_degree_equation[buf[Server].body] \in Roots
    BY <1>1, <1>2, MessageFields DEF IInv, Inv, TypeOK
  <2>2. ans' \in Messages /\ ans'.type = c
    BY <1>1, <1>3, <2>1 DEF Messages, Reply
  <2> QED BY <2>2, MessageFields
<1>5. pc[c] = "rcv" /\ Own(c) /\ coeffs[c] \in Equations
  BY <1>3, Waits
<1>6. \A d \in Clients : pc'[d] = pc[d] /\ buf'[d] = buf[d]
  BY <1>1 DEF IInv, Inv, TypeOK, Procs
<1>7. Asked(c) /\ buf[c] = NoMsg
  BY <1>2, <1>3, <1>5 DEF Own, Asked
<1>8. ~ Asked(c)'
  BY <1>4, <1>5, <1>6, <1>3 DEF Asked
<1>9. \A d \in Clients \ {c} : Asked(d)' <=> Asked(d)
  BY <1>1, <1>2, <1>4, <1>6 DEF Asked, InQueue
<1>10. \A d \in Clients \ {c} : phase'[d] = phase[d] /\ reply'[d] = reply[d]
  BY <1>1, <1>6, <1>9, ViewStays
<1>11. /\ phase[c] = "asked" /\ phase'[c] = "served"
       /\ reply'[c] = third_degree_equation[coeffs[c]]
  BY <1>1, <1>3, <1>5, <1>6, <1>7, <1>8, Phases, PhasesPrime
<1>12. RR!Serve(c)
  BY <1>1, <1>3, <1>5, <1>10, <1>11, ViewOf DEF RR!Serve
<1> QED BY <1>3, <1>12 DEF RR!Next

(* The reply goes to the client that waits for it. *)
LEMMA ServerSndUnseen ==
  ASSUME IInv, ServerSnd
  PROVE  UNCHANGED RR!vars
<1>1. /\ pc[Server] = "snd" /\ pc' = [pc EXCEPT ![Server] = "rcv"]
      /\ msgsnd(ans) /\ ans' = NoMsg
      /\ UNCHANGED <<exists, coeffs, shown, heirs>>
  BY DEF ServerSnd, Goto
<1>2. /\ ans \in Messages /\ ans # NoMsg /\ ans.kind = "reply" /\ ans.type \in Clients
      /\ Says(ans) /\ AtServer(ans.type) /\ Server \notin asleep
      /\ queue \in Seq(Messages) /\ buf \in [Procs -> Messages \union {NoMsg}]
  BY <1>1, MessageFields DEF IInv, Said, Inv, TypeOK, ByPc, AtServer
<1>3. PICK c \in Clients : /\ c = ans.type /\ pc[c] = "rcv" /\ Own(c)
                          /\ buf[c] = NoMsg /\ InQueue(c) = {}
  BY <1>2, Waits DEF Own
<1>4. \A d \in Clients : pc'[d] = pc[d]
  BY <1>1 DEF IInv, Inv, TypeOK, Procs
<1>5. ~ Asked(c) /\ reply[c] = ans.body /\ phase[c] = "served"
  <2>1. ~ Asked(c)
    BY <1>2, <1>3 DEF Asked
  <2> QED BY <1>2, <1>3, <2>1, Phases DEF Says
<1>6. CASE buf' = [buf EXCEPT ![c] = ans] /\ queue' = queue
  <2>1. \A d \in Clients \ {c} : buf'[d] = buf[d] /\ (Asked(d)' <=> Asked(d))
    BY <1>1, <1>2, <1>3, <1>4, <1>6 DEF Asked, InQueue
  <2>2. buf'[c] = ans
    BY <1>2, <1>3, <1>6 DEF Procs
  <2>3. ~ Asked(c)'
    BY <1>2, <1>3, <1>4, <2>2 DEF Asked
  <2>4. phase'[c] = phase[c] /\ reply'[c] = reply[c]
    BY <1>2, <1>3, <1>4, <1>5, <2>2, <2>3, PhasesPrime
  <2>5. \A d \in Clients \ {c} : phase'[d] = phase[d] /\ reply'[d] = reply[d]
    BY <1>1, <1>4, <2>1, ViewStays
  <2> QED BY <1>1, <2>4, <2>5, ViewStutters
<1>7. CASE buf' = buf /\ queue' = Append(queue, ans)
  <2>1. \A d \in Clients :
          InQueue(d)' = IF c = d THEN InQueue(d) \union {Len(queue) + 1} ELSE InQueue(d)
    BY <1>2, <1>3, <1>7, SentOf
  <2>2. /\ queue'[Len(queue) + 1] = ans
        /\ \A k \in DOMAIN queue : queue'[k] = queue[k]
    BY <1>2, <1>7, Appended
  <2>3. \A d \in Clients \ {c} : Asked(d)' <=> Asked(d)
    <3>1. \A d \in Clients \ {c} : InQueue(d)' = InQueue(d)
      BY <2>1
    <3>2. \A d \in Clients : \A k \in InQueue(d) : queue'[k] = queue[k]
      BY <2>2 DEF InQueue
    <3>3. ASSUME NEW d \in Clients \ {c}
          PROVE  (\A k \in InQueue(d)' : queue'[k].kind = "request")
                    <=> \A k \in InQueue(d) : queue[k].kind = "request"
      BY <3>1, <3>2
    <3>4. ASSUME NEW d \in Clients \ {c}
          PROVE  /\ ~ (ans' # NoMsg /\ ans'.type = d) /\ ~ (ans # NoMsg /\ ans.type = d)
                 /\ pc'[d] = pc[d] /\ buf'[d] = buf[d]
      BY <1>1, <1>3, <1>4, <1>7
    <3> QED BY <3>3, <3>4 DEF Asked
  <2>4. ~ Asked(c)'
    BY <1>2, <1>3, <1>4, <2>1, <2>2 DEF Asked
  <2>5. phase'[c] = phase[c] /\ reply'[c] = reply[c]
    BY <1>1, <1>2, <1>3, <1>4, <1>5, <1>7, <2>4, PhasesPrime DEF Says
  <2>6. \A d \in Clients \ {c} : phase'[d] = phase[d] /\ reply'[d] = reply[d]
    BY <1>1, <1>4, <1>7, <2>3, ViewStays
  <2> QED BY <1>1, <2>5, <2>6, ViewStutters
<1> QED BY <1>1, <1>2, <1>3, <1>6, <1>7, Sent, SendableMessages, BothTypes DEF IInv, Inv

(* The user of an idle client asks. *)
LEMMA ClientStartAsks ==
  ASSUME IInv, NEW c \in Clients, ClientStart(c)
  PROVE  RR!Next
<1>1. /\ pc[c] = "off" /\ pc' = [pc EXCEPT ![c] = "snd"]
      /\ UNCHANGED <<queue, buf, ans, shown>>
  BY DEF ClientStart, Goto, msgVars
<1>2. PICK e \in Equations : coeffs' = [coeffs EXCEPT ![c] = e]
  BY DEF ClientStart
<1>3. /\ pc'[c] = "snd"
      /\ \A d \in Clients \ {c} : pc'[d] = pc[d] /\ coeffs'[d] = coeffs[d]
  BY <1>1, <1>2 DEF IInv, Inv, TypeOK, Procs
<1>4. \A d \in Clients \ {c} : Asked(d)' <=> Asked(d)
  BY <1>1, <1>3 DEF Asked, InQueue
<1>5. \A d \in Clients \ {c} : phase'[d] = phase[d] /\ reply'[d] = reply[d]
  BY <1>1, <1>3, <1>4, ViewStays
<1>6. Asked(c)'
  BY <1>3 DEF Asked
<1>7. /\ phase[c] = "idle" /\ phase'[c] = "asked"
      /\ reply[c] = NoMsg /\ reply'[c] = NoMsg
  BY <1>1, <1>3, <1>6, Phases, PhasesPrime
<1>8. /\ phase' = [phase EXCEPT ![c] = "asked"]
      /\ reply' = reply
  BY <1>5, <1>7, ViewOf, ViewIsFunction
<1>9. RR!Ask(c)
  BY <1>1, <1>2, <1>7, <1>8 DEF RR!Ask
<1> QED BY <1>9 DEF RR!Next

(* It sends its request: to a server that sleeps, or into the queue.  It   *)
(* has no message yet, and so still waits for its answer.                  *)
LEMMA ClientSndUnseen ==
  ASSUME IInv, NEW c \in Clients, ClientSnd(c)
  PROVE  UNCHANGED RR!vars
<1> DEFINE m == Request(c, coeffs[c])
<1>1. /\ pc[c] = "snd" /\ pc' = [pc EXCEPT ![c] = "rcv"] /\ msgsnd(m)
      /\ UNCHANGED <<exists, ans, coeffs, shown, heirs>>
  BY DEF ClientSnd, Goto
<1>2. /\ c \in Procs /\ coeffs[c] \in Equations /\ Own(c)
      /\ buf[c] = NoMsg /\ c \notin asleep
      /\ queue \in Seq(Messages) /\ buf \in [Procs -> Messages \union {NoMsg}]
  BY <1>1 DEF IInv, Inv, TypeOK, ByPc, Procs
<1>3. m \in Messages /\ m.type = c /\ m.kind = "request"
  BY <1>2 DEF Messages, Request
<1> HIDE DEF m
<1>4. pc'[c] = "rcv" /\ \A d \in Clients \ {c} : pc'[d] = pc[d]
  BY <1>1 DEF IInv, Inv, TypeOK, Procs
<1>5. InQueue(c) = {} /\ ~ (ans # NoMsg /\ ans.type = c)
  BY <1>1, <1>2 DEF Own, AtServer
<1>6. /\ \A d \in Clients : buf'[d] = buf[d]
      /\ \A d \in Clients \ {c} :
           (\A k \in InQueue(d)' : queue'[k].kind = "request")
              <=> \A k \in InQueue(d) : queue[k].kind = "request"
      /\ \A k \in InQueue(c)' : queue'[k].kind = "request"
  <2>1. CASE \E p \in asleep : /\ p = Server \/ p = m.type
                               /\ buf' = [buf EXCEPT ![p] = m] /\ queue' = queue
    <3>1. buf' = [buf EXCEPT ![Server] = m] /\ queue' = queue
      BY <1>2, <1>3, <2>1
    <3>2. \A d \in Clients : buf'[d] = buf[d] /\ InQueue(d)' = InQueue(d)
      BY <1>2, <3>1 DEF Procs, InQueue
    <3> QED BY <1>5, <3>1, <3>2
  <2>2. CASE queue' = Append(queue, m) /\ buf' = buf
    <3>1. \A d \in Clients :
            InQueue(d)' = IF c = d THEN InQueue(d) \union {Len(queue) + 1} ELSE InQueue(d)
      BY <1>2, <1>3, <2>2, SentOf
    <3>2. /\ queue'[Len(queue) + 1] = m
          /\ \A k \in DOMAIN queue : queue'[k] = queue[k]
      BY <1>2, <1>3, <2>2, Appended
    <3>3. \A d \in Clients : \A k \in InQueue(d) : queue'[k] = queue[k]
      BY <3>2 DEF InQueue
    <3>4. \A d \in Clients \ {c} :
            (\A k \in InQueue(d)' : queue'[k].kind = "request")
               <=> \A k \in InQueue(d) : queue[k].kind = "request"
      BY <3>1, <3>3
    <3>5. \A k \in InQueue(c)' : queue'[k].kind = "request"
      BY <1>3, <1>5, <3>1, <3>2
    <3> QED BY <2>2, <3>4, <3>5
  <2> QED BY <1>1, <1>3, <2>1, <2>2, Sent, SendableMessages, BothTypes DEF IInv, Inv
<1>7. Asked(c) /\ Asked(c)'
  BY <1>1, <1>2, <1>4, <1>5, <1>6 DEF Asked
<1>8. \A d \in Clients \ {c} : Asked(d)' <=> Asked(d)
  BY <1>1, <1>4, <1>6 DEF Asked
<1>9. \A d \in Clients : phase'[d] = phase[d] /\ reply'[d] = reply[d]
  BY <1>1, <1>4, <1>6, <1>7, <1>8, ViewStays
<1> QED BY <1>1, <1>9, ViewStutters

(* It takes the reply it waits for, or, before the server does, its own    *)
(* request: then that is its answer.                                       *)
LEMMA ClientRcvServes ==
  ASSUME IInv, NEW c \in Clients, ClientRcv(c)
  PROVE  RR!Next \/ UNCHANGED RR!vars
<1>1. /\ msgrcv(c) /\ UNCHANGED <<pc, ans, coeffs, shown>>
      /\ pc[c] = "rcv" /\ buf[c] = NoMsg /\ c \in Procs /\ c # Server
      /\ queue \in Seq(Messages) /\ buf \in [Procs -> Messages \union {NoMsg}]
  BY DEF ClientRcv, IInv, Inv, TypeOK, Procs
<1>2. CASE UNCHANGED <<queue, buf>>
  <2>1. \A d \in Clients : Asked(d)' <=> Asked(d)
    BY <1>1, <1>2 DEF Asked, InQueue
  <2> QED BY <1>1, <1>2, <2>1, ViewStays, ViewStutters
<1>3. ASSUME NEW i \in DOMAIN queue, queue[i].type = c,
             buf' = [buf EXCEPT ![c] = queue[i]], queue' = RemoveAt(queue, i)
      PROVE  RR!Next \/ UNCHANGED RR!vars
  <2>1. queue[i] \in Messages /\ queue[i] # NoMsg /\ i \in InQueue(c) /\ Says(queue[i])
    BY <1>1, <1>3, MessageFields DEF InQueue, IInv, Said
  <2>2. Own(c) /\ coeffs[c] \in Equations
    BY <2>1, Waits
  <2>3. /\ ~ (ans # NoMsg /\ ans.type = c)
        /\ \A k \in InQueue(c) : k = i
    BY <2>1, <2>2 DEF Own, AtServer
  <2>4. \A d \in Clients \ {c} :
          (\A k \in InQueue(d)' : queue'[k].kind = "request")
             <=> \A k \in InQueue(d) : queue[k].kind = "request"
    BY <1>1, <1>3, KindsLeft
  <2>5. /\ buf'[c] = queue[i]
        /\ \A d \in Clients \ {c} : buf'[d] = buf[d]
    BY <1>1, <1>3
  <2>6. \A d \in Clients \ {c} : Asked(d)' <=> Asked(d)
    BY <1>1, <2>4, <2>5 DEF Asked
  <2>7. \A d \in Clients \ {c} : phase'[d] = phase[d] /\ reply'[d] = reply[d]
    BY <1>1, <2>5, <2>6, ViewStays
  <2>8. phase'[c] = "served" /\ reply'[c] = queue[i].body
    <3>1. ~ Asked(c)'
      BY <1>1, <2>1, <2>5 DEF Asked
    <3> QED BY <1>1, <2>1, <2>5, <3>1, PhasesPrime
  <2>9. CASE queue[i].kind = "request"
    <3>1. Asked(c)
      BY <1>1, <2>3, <2>9 DEF Asked
    <3>2. phase[c] = "asked" /\ queue[i].body = coeffs[c]
      BY <1>1, <1>3, <2>1, <2>9, <3>1, Phases DEF Says
    <3>3. RR!Serve(c)
      BY <1>1, <2>2, <2>7, <2>8, <3>2, ViewOf DEF RR!Serve
    <3> QED BY <3>3 DEF RR!Next
  <2>10. CASE queue[i].kind # "request"
    <3>1. ~ Asked(c)
      BY <1>1, <2>1, <2>10 DEF Asked
    <3>2. phase[c] = "served" /\ reply[c] = queue[i].body
      BY <1>1, <1>3, <2>1, <2>10, <3>1, Phases DEF Says
    <3> QED BY <1>1, <2>7, <2>8, <3>2, ViewStutters
  <2> QED BY <2>9, <2>10
<1> QED BY <1>1, <1>2, <1>3, Received, SendableMessages, BothTypes DEF IInv, Inv

(* It prints what it got, and ends. *)
LEMMA ClientPrintTakes ==
  ASSUME IInv, NEW c \in Clients, ClientPrint(c)
  PROVE  RR!Next
<1>1. /\ pc[c] = "rcv" /\ buf[c] # NoMsg /\ pc' = [pc EXCEPT ![c] = "off"]
      /\ shown' = [shown EXCEPT ![c] = buf[c].body]
      /\ coeffs' = [coeffs EXCEPT ![c] = NoEquation]
      /\ buf' = [buf EXCEPT ![c] = NoMsg]
      /\ UNCHANGED <<queue, ans>>
  BY DEF ClientPrint, Goto, msgexit
<1>2. coeffs[c] \in Equations
  BY <1>1, Waits
<1>3. /\ pc'[c] = "off"
      /\ \A d \in Clients \ {c} : /\ pc'[d] = pc[d] /\ coeffs'[d] = coeffs[d]
                                   /\ buf'[d] = buf[d]
  BY <1>1 DEF IInv, Inv, TypeOK, Procs
<1>4. \A d \in Clients \ {c} : Asked(d)' <=> Asked(d)
  BY <1>1, <1>3 DEF Asked, InQueue
<1>5. \A d \in Clients \ {c} : phase'[d] = phase[d] /\ reply'[d] = reply[d]
  BY <1>1, <1>3, <1>4, ViewStays
<1>6. ~ Asked(c)
  BY <1>1 DEF Asked
<1>7. /\ phase[c] = "served" /\ reply[c] = buf[c].body
      /\ phase'[c] = "idle" /\ reply'[c] = NoMsg
  BY <1>1, <1>3, <1>6, Phases, PhasesPrime
<1>8. RR!Take(c)
  BY <1>1, <1>2, <1>5, <1>7, ViewOf DEF RR!Take, RR!Finish
<1> QED BY <1>8 DEF RR!Next

(* Each request is answered once, with its own roots or with itself. *)
THEOREM ServingRefinesRequestReply == Serving => ImplementsRequestReply
<1>1. Init => RR!Init
  BY DEF Init, RR!Init, phase, reply, Procs
<1>2. IInv /\ [NextServing]_vars => [RR!Next]_(RR!vars)
  <2> SUFFICES ASSUME IInv, [NextServing]_vars PROVE [RR!Next]_(RR!vars)
    OBVIOUS
  <2>1. CASE UNCHANGED vars
    BY <2>1 DEF vars, msgVars, RR!vars, phase, reply, Asked, InQueue
  <2>2. CASE ServerStart \/ KillIdleServer
    BY <2>2, ServerComesUnseen
  <2>3. CASE ServerStep
    BY <2>3, ServerRcvUnseen, ServerSolveServes, ServerSndUnseen DEF ServerStep
  <2>4. ASSUME NEW c \in Clients, ClientStart(c) \/ ClientStep(c)
        PROVE  [RR!Next]_(RR!vars)
    BY <2>4, ClientStartAsks, ClientSndUnseen, ClientRcvServes, ClientPrintTakes
       DEF ClientStep
  <2> QED BY <2>1, <2>2, <2>3, <2>4 DEF NextServing
<1> QED BY <1>1, <1>2, ServingInv, PTL DEF Serving, ImplementsRequestReply, RR!Spec
=============================================================================
