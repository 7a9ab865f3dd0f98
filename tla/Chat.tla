-------------------------------- MODULE Chat --------------------------------
(***************************************************************************)
(* FourthLab/OnlineChat: a chat of users on one host over UDP.  The        *)
(* program of a user binds a port, asks for the port of a friend, and      *)
(* forks: the child sends what is typed, the parent shows what comes, and  *)
(* both share the socket.  "quit" sends a farewell and ends the parent by  *)
(* a signal.                                                               *)
(*                                                                         *)
(* UDP between two ports of one host is external: in order, lost when no   *)
(* process has the port or its buffer is full.                             *)
(***************************************************************************)
EXTENDS Integers, SequencesExt

CONSTANTS
  Users,
  BufferSize,     \* bound: the datagrams a socket holds
  MaxLetters,     \* bound: what all users type
  Runs,           \* bound: how often all users start the program
  MaxFaults       \* bound: how many calls fail, inputs end, or processes are killed

ASSUME ChatAssumption ==
  /\ IsFiniteSet(Users) /\ BufferSize \in Nat \ {0}
  /\ MaxLetters \in Nat /\ Runs \in Nat /\ MaxFaults \in Nat

VARIABLES
  receiver,       \* the parent of each user: off, asking (not forked yet), on
  sender,         \* its child: off, on, leaving (before kill), endless (no input)
  friend,         \* whom the user writes to
  inbox,          \* the datagrams in its socket
  typed,          \* how many letters it has typed
  runs,           \* how often it started the program
  shown,          \* the letters it was shown
  lost,           \* was a letter of its current run lost?
  faults,         \* how many calls failed, inputs ended, or processes were killed
  alone           \* what made one process go on without the other: failed, killed

chatVars == <<receiver, sender, friend, inbox, typed, runs, shown, lost, alone, faults>>

Letter(u, n, mes) == [from |-> u, n |-> n, run |-> runs[u], mes |-> mes]
Total(f) == FoldFunction(LAMBDA a, b : a + b, 0, f)
Fault      == faults < MaxFaults /\ faults' = faults + 1
HasPort(u) == receiver[u] # "off" \/ sender[u] # "off"

(* The processes of u become r and s.  With the last one the socket is     *)
(* gone, and what it held.                                                 *)
Remain(u, r, s, why) ==
  LET none == r = "off" /\ s = "off"
  IN  /\ receiver' = [receiver EXCEPT ![u] = r]
      /\ sender' = [sender EXCEPT ![u] = s]
      /\ alone' = [alone EXCEPT ![u] = IF none THEN "none" ELSE why]
      /\ friend' = IF none THEN [friend EXCEPT ![u] = u] ELSE friend
      /\ inbox' = IF none THEN [inbox EXCEPT ![u] = <<>>] ELSE inbox
      /\ lost' = IF none THEN [w \in Users |-> w # u /\ (lost[w] \/ friend[w] = u)]
                 ELSE lost

-----------------------------------------------------------------------------
(* The program starts; bind fails while an old process has the port. *)
Start(u) ==
  /\ ~ HasPort(u) /\ Total(runs) < Runs
  /\ receiver' = [receiver EXCEPT ![u] = "asking"]
  /\ runs' = [runs EXCEPT ![u] = @ + 1]
  /\ UNCHANGED <<sender, friend, inbox, typed, shown, lost, alone, faults>>

(* The friend's port is entered; fork. *)
Fork(u) ==
  /\ receiver[u] = "asking"
  /\ receiver' = [receiver EXCEPT ![u] = "on"]
  /\ sender' = [sender EXCEPT ![u] = "on"]
  /\ \E w \in Users : friend' = [friend EXCEPT ![u] = w]
  /\ UNCHANGED <<inbox, typed, runs, shown, lost, alone, faults>>

(* fork returns -1: the parent is a receiver without a sender. *)
ForkFails(u) ==
  /\ Fault
  /\ receiver[u] = "asking"
  /\ receiver' = [receiver EXCEPT ![u] = "on"]
  /\ alone' = [alone EXCEPT ![u] = "failed"]
  /\ UNCHANGED <<sender, friend, inbox, typed, runs, shown, lost>>

(* sendto. *)
Deliver_unbounded(u, letter) ==   \* a slip: no limit of the buffer
  LET w == friend[u]
  IN  /\ inbox' = IF HasPort(w) THEN [inbox EXCEPT ![w] = Append(@, letter)] ELSE inbox
      /\ lost' = IF HasPort(w) THEN lost ELSE [lost EXCEPT ![u] = TRUE]

Deliver(u, letter) ==
  LET w == friend[u]
      arrives == HasPort(w) /\ Len(inbox[w]) < BufferSize
  IN  /\ inbox' = IF arrives THEN [inbox EXCEPT ![w] = Append(@, letter)] ELSE inbox
      /\ lost' = IF arrives THEN lost ELSE [lost EXCEPT ![u] = TRUE]

(* A line is typed; after "quit" the child leaves the loop. *)
Type_goes_on(u) ==       \* a slip: no break after the farewell
  /\ sender[u] = "on" /\ Total(typed) < MaxLetters
  /\ typed' = [typed EXCEPT ![u] = @ + 1]
  /\ \E mes \in {"text", "farewell"} : Deliver(u, Letter(u, typed[u] + 1, mes))
  /\ UNCHANGED <<receiver, sender, friend, runs, shown, alone, faults>>

Type(u) ==
  /\ sender[u] = "on" /\ Total(typed) < MaxLetters
  /\ typed' = [typed EXCEPT ![u] = @ + 1]
  /\ \E mes \in {"text", "farewell"} :
       /\ Deliver(u, Letter(u, typed[u] + 1, mes))
       /\ sender' = IF mes = "text" THEN sender ELSE [sender EXCEPT ![u] = "leaving"]
  /\ UNCHANGED <<receiver, friend, runs, shown, alone, faults>>

(* The input ends: fgets changes nothing, and empty letters are sent for   *)
(* ever.                                                                   *)
InputEnds(u) ==
  /\ Fault
  /\ sender[u] = "on"
  /\ sender' = [sender EXCEPT ![u] = "endless"]
  /\ UNCHANGED <<receiver, friend, inbox, typed, runs, shown, lost, alone>>

SendEmpty(u) ==
  /\ sender[u] = "endless"
  /\ Deliver(u, Letter(u, typed[u], "empty"))
  /\ UNCHANGED <<receiver, sender, friend, typed, runs, shown, alone, faults>>

(* sendto fails, which only the child notices. *)
SendFails(u) ==
  /\ Fault
  /\ sender[u] \in {"on", "endless"}
  /\ Remain(u, receiver[u], "off", "failed")
  /\ UNCHANGED <<typed, runs, shown>>

(* kill(getppid(), SIGTERM): the parent, or another process in its place. *)
Leave_itself(u) ==       \* a slip: the signal goes to the child itself
  /\ sender[u] = "leaving"
  /\ Remain(u, receiver[u], "off", alone[u])
  /\ UNCHANGED <<typed, runs, shown, faults>>

Leave(u) ==
  /\ sender[u] = "leaving"
  /\ Remain(u, "off", "off", alone[u])
  /\ UNCHANGED <<typed, runs, shown, faults>>

(* recvfrom, again and again, as it gives up after 10 microseconds.  Empty *)
(* letters are left out of the history.                                    *)
Receive_latest(u) ==     \* a slip: the newest letter first
  /\ receiver[u] = "on" /\ inbox[u] # <<>>
  /\ inbox' = [inbox EXCEPT ![u] = Front(@)]
  /\ shown' = IF Last(inbox[u]).mes = "empty" THEN shown
              ELSE [shown EXCEPT ![u] = Append(@, Last(inbox[u]))]
  /\ UNCHANGED <<receiver, sender, friend, typed, runs, lost, alone, faults>>

Receive(u) ==
  /\ receiver[u] = "on" /\ inbox[u] # <<>>
  /\ inbox' = [inbox EXCEPT ![u] = Tail(@)]
  /\ shown' = IF Head(inbox[u]).mes = "empty" THEN shown
              ELSE [shown EXCEPT ![u] = Append(@, Head(inbox[u]))]
  /\ UNCHANGED <<receiver, sender, friend, typed, runs, lost, alone, faults>>

(* Ctrl-C reaches both processes, kill one of them. *)
Interrupt(u) ==
  /\ HasPort(u)
  /\ Remain(u, "off", "off", alone[u])
  /\ UNCHANGED <<typed, runs, shown, faults>>

KillOne(u) ==
  /\ Fault
  /\ receiver[u] = "on" /\ sender[u] # "off"
  /\ \/ Remain(u, "off", sender[u], "killed")
     \/ Remain(u, receiver[u], "off", "killed")
  /\ UNCHANGED <<typed, runs, shown>>

-----------------------------------------------------------------------------
ChatInit ==
  /\ receiver = [u \in Users |-> "off"] /\ sender = [u \in Users |-> "off"]
  /\ friend = [u \in Users |-> u]
  /\ inbox = [u \in Users |-> <<>>]
  /\ typed = [u \in Users |-> 0] /\ runs = [u \in Users |-> 0]
  /\ shown = [u \in Users |-> <<>>]
  /\ lost = [u \in Users |-> FALSE] /\ alone = [u \in Users |-> "none"] /\ faults = 0

ChatNext == \E u \in Users :
  \/ Start(u) \/ Fork(u) \/ ForkFails(u)
  \/ Type(u) \/ InputEnds(u) \/ SendEmpty(u) \/ SendFails(u) \/ Leave(u)
  \/ Receive(u) \/ Interrupt(u) \/ KillOne(u)

ChatSpec == ChatInit /\ [][ChatNext]_chatVars

-----------------------------------------------------------------------------
(* Properties. *)

Letters == [from : Users, n : 0 .. MaxLetters, run : 1 .. Runs,
            mes : {"text", "farewell", "empty"}]

ChatTypeOK ==
  /\ receiver \in [Users -> {"off", "asking", "on"}]
  /\ sender \in [Users -> {"off", "on", "leaving", "endless"}]
  /\ friend \in [Users -> Users]
  /\ \A u \in Users : /\ inbox[u] \in Seq(Letters) /\ Len(inbox[u]) <= BufferSize
                      /\ shown[u] \in Seq(Letters)
  /\ typed \in [Users -> 0 .. MaxLetters] /\ runs \in [Users -> 0 .. Runs]
  /\ lost \in [Users -> BOOLEAN]
  /\ faults \in 0 .. MaxFaults
  /\ alone \in [Users -> {"none", "killed", "failed"}]

(* What u was shown and then what is in its socket; where the letters of w *)
(* are in it; and the numbers of those of the current run of w.            *)
Arrived(u)    == shown[u] \o inbox[u]
From(u, w)    == {i \in DOMAIN Arrived(u) :
                    Arrived(u)[i].from = w /\ Arrived(u)[i].mes # "empty"}
Current(u, w) == {Arrived(u)[i].n : i \in {k \in From(u, w) : Arrived(u)[k].run = runs[w]}}

(* The letters of a user are shown in the order they were typed, nothing   *)
(* follows a farewell in the same run, and as long as none of them was     *)
(* lost there is no gap, from the first one of its run to the last typed.  *)
ShownInOrder ==
  \A u, w \in Users :
    /\ \A i, k \in From(u, w) :
         i < k => /\ Arrived(u)[i].n < Arrived(u)[k].n
                  /\ Arrived(u)[i].mes = "farewell" => Arrived(u)[i].run < Arrived(u)[k].run
    /\ sender[w] # "off" /\ friend[w] = u /\ ~ lost[w] =>
         \A n \in Current(u, w) : n <= typed[w] /\ n .. typed[w] \subseteq Current(u, w)

(* One process of a user goes on without the other only when a call        *)
(* failed, which only one of them noticed, or one of them was killed; only *)
(* a child whose parent was killed may signal a process in its place.      *)
EndTogether ==
  \A u \in Users :
    /\ receiver[u] = "on" /\ sender[u] = "off" => alone[u] # "none"
    /\ sender[u] # "off" /\ receiver[u] = "off" => alone[u] = "killed"

(* Letters in the socket of a running user are shown to it, even though    *)
(* somebody without input floods that socket.                              *)
Waits(u) == receiver[u] = "on" /\ \E l \in ToSet(inbox[u]) : l.mes # "empty"

ArrivedIsShown ==
  \A u \in Users, k \in 0 .. MaxLetters - 1 :
    Waits(u) /\ Len(shown[u]) = k ~> receiver[u] # "on" \/ Len(shown[u]) > k
=============================================================================
