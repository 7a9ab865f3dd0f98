---------------------------- MODULE RequestReply ----------------------------
(***************************************************************************)
(* What every client/server pair of the repository promises a client: it   *)
(* hands over a line, the server computes one answer to that line, and the *)
(* client shows the answer to its own line.  How the line and the answer   *)
(* travel (shared memory, a message queue, a socket) is left to the        *)
(* modules that implement this one.  A client may end at any moment before *)
(* it shows the answer.                                                    *)
(***************************************************************************)
CONSTANTS
  Clients,
  Lines,          \* what a client may ask
  NoLine,         \* what an idle client asks
  Answer,         \* line -> the answers it may get, for the lines that get one
  NoAnswer

VARIABLES
  phase,          \* client -> "idle", "asked" or "served"
  line,           \* client -> the line it asked
  reply,          \* client -> the answer computed for it and not yet shown
  shown           \* client -> the answer it showed last

vars == <<phase, line, reply, shown>>

Init ==
  /\ phase = [c \in Clients |-> "idle"]
  /\ line = [c \in Clients |-> NoLine]
  /\ reply = [c \in Clients |-> NoAnswer]
  /\ shown = [c \in Clients |-> NoAnswer]

Ask(c) ==
  /\ phase[c] = "idle"
  /\ phase' = [phase EXCEPT ![c] = "asked"]
  /\ \E l \in Lines : line' = [line EXCEPT ![c] = l]
  /\ UNCHANGED <<reply, shown>>

Serve(c) ==
  /\ phase[c] = "asked"
  /\ phase' = [phase EXCEPT ![c] = "served"]
  /\ IF line[c] \in DOMAIN Answer
     THEN \E a \in Answer[line[c]] : reply' = [reply EXCEPT ![c] = a]
     ELSE UNCHANGED reply
  /\ UNCHANGED <<line, shown>>

Finish(c) ==
  /\ phase' = [phase EXCEPT ![c] = "idle"]
  /\ line' = [line EXCEPT ![c] = NoLine]
  /\ reply' = [reply EXCEPT ![c] = NoAnswer]

Take(c) ==
  /\ phase[c] = "served"
  /\ Finish(c)
  /\ shown' = IF line[c] \in DOMAIN Answer
              THEN [shown EXCEPT ![c] = reply[c]]
              ELSE shown

Abandon(c) ==
  /\ phase[c] \in {"asked", "served"}
  /\ Finish(c)
  /\ UNCHANGED shown

Next == \E c \in Clients : Ask(c) \/ Serve(c) \/ Take(c) \/ Abandon(c)

Spec == Init /\ [][Next]_vars
=============================================================================
