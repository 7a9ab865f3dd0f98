--------------------------- MODULE CourseProject ---------------------------
(***************************************************************************)
(* What the parts of CourseProject share: CentralServer.c forks one child  *)
(* per connection; the child asks SemaphorServer.c (through shared memory  *)
(* and semaphores) or QueueServer.c (through a message queue) for the      *)
(* client, and puts the answer into its copy of the client's MESSAGE.      *)
(*                                                                         *)
(* All texts are fixed in the code; they are the model values below.       *)
(***************************************************************************)
EXTENDS Integers, FiniteSets

CONSTANTS
  Children,       \* the processes CentralServer may fork
  SemServer, QueServer,
  Question,       \* "Message to server"
  SemAnswer,      \* "Hello from semaphores server"
  QueAnswer,      \* "Message from MESSAGE queue"
  Shifted,        \* "age to server": a Question that is read as a reply
  Empty           \* ""

Texts == {Question, SemAnswer, QueAnswer, Shifted, Empty}

ASSUME CourseAssumption ==
  /\ SemServer \notin Children /\ QueServer \notin Children
  /\ SemServer # QueServer
  /\ Cardinality(Texts) = 5

VARIABLES
  pc,             \* process -> the call it makes next
  mes             \* child -> the text in its mes_struct

Goto(p, from, to) == pc[p] = from /\ pc' = [pc EXCEPT ![p] = to]
=============================================================================
