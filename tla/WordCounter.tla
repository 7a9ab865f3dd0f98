----------------------------- MODULE WordCounter -----------------------------
(***************************************************************************)
(* FourthLab/WordCounter: a client sends a line of text over TCP; a server *)
(* forks a child per connection, which counts the words and sends the      *)
(* message back.  Both pass a struct of SIZE characters and a counter, in  *)
(* one call of send and one of recv, and do not look at how much went.     *)
(*                                                                         *)
(* A message is cut into its bytes, the characters and the four of the     *)
(* counter, which may come apart.                                          *)
(* What a struct holds where nothing was written is any character.  TCP is *)
(* external: recv returns any part of what arrived, at least one byte.     *)
(***************************************************************************)
EXTENDS Integers, FiniteSets

CONSTANTS
  WordClients,
  SIZE,           \* the characters of a message, 128 in the code
  Inputs,         \* bound: what the clients' structs may hold
  ServerStarts    \* bound: how often the server is started

(* Letter, another character, and the end of a string. *)
Texts == [1 .. SIZE -> {"a", ".", "0"}]

ASSUME WordsAssumption ==
  SIZE \in Nat \ {0} /\ Inputs \subseteq Texts /\ ServerStarts \in Nat

VARIABLES
  listening,      \* does the server run?
  starts,         \* how often it was started
  at,             \* what a client does: off, input, sent, done
  text,           \* the characters in its struct
  conn,           \* its connection: none, backlog, accepted, answered, broken
  reply,          \* the answer on its way: how many bytes, and the count
  value           \* the value a client showed

wordVars == <<listening, starts, at, text, conn, reply, value>>

Terminated(s) == \E i \in 1 .. SIZE : s[i] = "0"
Bytes         == SIZE + 4      \* sizeof(MESSAGE)
AnyCount      == SIZE + 1      \* stands for a value nobody computed
None          == -1

(* The end of a string, and the first position from i on with another      *)
(* character.                                                              *)
End(s)           == CHOOSE i \in 1 .. SIZE : s[i] = "0" /\ \A k \in 1 .. i - 1 : s[k] # "0"
After(s, i, char) == CHOOSE j \in i .. End(s) :
                      s[j] # char /\ \A k \in i .. j - 1 : s[k] = char

(* Turns over letters and over other characters, up to the end: the words  *)
(* from each position on.                                                  *)
WordsFrom(s) ==
  LET words[i \in 1 .. End(s)] ==
        LET j == After(s, i, "a")
            k == After(s, j, ".")
        IN  (IF j > i THEN 1 ELSE 0) + (IF s[k] = "0" THEN 0 ELSE words[k])
  IN  words

word_counter(s) == WordsFrom(s)[1]

(* A string without an end is read on into the counter and beyond. *)
Count(s) == IF Terminated(s) THEN word_counter(s) ELSE AnyCount

-----------------------------------------------------------------------------
(* The client. *)

Connect(c) ==
  /\ at[c] = "off" /\ listening
  /\ at' = [at EXCEPT ![c] = "input"]
  /\ conn' = [conn EXCEPT ![c] = "backlog"]
  /\ UNCHANGED <<listening, starts, text, reply, value>>

(* fgets, and send of the whole struct; that it fails is not noticed. *)
Send(c) ==
  /\ at[c] = "input"
  /\ at' = [at EXCEPT ![c] = "sent"]
  /\ \E s \in Inputs : text' = [text EXCEPT ![c] = s]
  /\ UNCHANGED <<listening, starts, conn, reply, value>>

(* One recv: the counter is the server's if all bytes came at once; if     *)
(* not, some of its bytes are what the client's struct held before.        *)
ShowValue(c) ==
  /\ at[c] = "sent" /\ conn[c] \in {"answered", "broken"}
  /\ \E got \in IF conn[c] = "broken" THEN {0} ELSE 1 .. reply[c].bytes :
       value' = [value EXCEPT ![c] = IF got = Bytes THEN reply[c].count
                                     ELSE AnyCount]
  /\ at' = [at EXCEPT ![c] = "done"]
  /\ conn' = [conn EXCEPT ![c] = "none"]
  /\ UNCHANGED <<listening, starts, text, reply>>

(* Ctrl-C; its child, if there is one, finds the connection closed. *)
KillClient(c) ==
  /\ at[c] \in {"input", "sent"}
  /\ at' = [at EXCEPT ![c] = "done"]
  /\ conn' = [conn EXCEPT ![c] = "none"]
  /\ UNCHANGED <<listening, starts, text, reply, value>>

-----------------------------------------------------------------------------
(* The server.  bind fails as long as the port is used by a connection; a  *)
(* child that outlived the server has one.                                 *)
StartServer ==
  /\ ~ listening /\ starts < ServerStarts
  /\ \A c \in WordClients : conn[c] \in {"none", "broken"}
  /\ listening' = TRUE /\ starts' = starts + 1
  /\ UNCHANGED <<at, text, conn, reply, value>>

(* accept, and fork of the child; the parent closes its socket, which is   *)
(* the end of the connection if fork failed.                               *)
Accept_unclosed(c) ==        \* a slip: the parent does not close
  /\ listening /\ conn[c] = "backlog"
  /\ conn' \in {[conn EXCEPT ![c] = "accepted"], [conn EXCEPT ![c] = "held"]}
  /\ UNCHANGED <<listening, starts, at, text, reply, value>>

Accept(c) ==
  /\ listening /\ conn[c] = "backlog"
  /\ conn' \in {[conn EXCEPT ![c] = "accepted"], [conn EXCEPT ![c] = "broken"]}
  /\ UNCHANGED <<listening, starts, at, text, reply, value>>

(* The child: one recv, the count, and as many bytes back as came.  Where  *)
(* nothing came its struct holds anything.                                 *)
Serve_whole_struct(c) ==     \* a slip: sizeof(MESSAGE) is sent back
  /\ conn[c] = "accepted" /\ at[c] = "sent"
  /\ \E got \in 1 .. Bytes, garbage \in Inputs :
       LET mes == [i \in 1 .. SIZE |-> IF i <= got THEN text[c][i] ELSE garbage[i]]
       IN  reply' = [reply EXCEPT ![c] = [bytes |-> Bytes, count |-> Count(mes)]]
  /\ conn' = [conn EXCEPT ![c] = "answered"]
  /\ UNCHANGED <<listening, starts, at, text, value>>

Serve(c) ==
  /\ conn[c] = "accepted" /\ at[c] = "sent"
  /\ \E got \in 1 .. Bytes, garbage \in Inputs :
       LET mes == [i \in 1 .. SIZE |-> IF i <= got THEN text[c][i] ELSE garbage[i]]
       IN  reply' = [reply EXCEPT ![c] = [bytes |-> got, count |-> Count(mes)]]
  /\ conn' = [conn EXCEPT ![c] = "answered"]
  /\ UNCHANGED <<listening, starts, at, text, value>>

(* The server is killed, or accept fails: what was not accepted is reset. *)
StopServer ==
  /\ listening /\ listening' = FALSE
  /\ conn' = [c \in WordClients |-> IF conn[c] = "backlog" THEN "broken" ELSE conn[c]]
  /\ UNCHANGED <<starts, at, text, reply, value>>

-----------------------------------------------------------------------------
WordInit ==
  /\ listening = FALSE /\ starts = 0
  /\ at = [c \in WordClients |-> "off"]
  /\ text = [c \in WordClients |-> [i \in 1 .. SIZE |-> "0"]]
  /\ conn = [c \in WordClients |-> "none"]
  /\ reply = [c \in WordClients |-> [bytes |-> 0, count |-> 0]]
  /\ value = [c \in WordClients |-> None]

WordNext ==
  \/ StartServer \/ StopServer
  \/ \E c \in WordClients : \/ Connect(c) \/ Send(c) \/ ShowValue(c) \/ KillClient(c)
                            \/ Accept(c) \/ Serve(c)

WordSpec == WordInit /\ [][WordNext]_wordVars

WordSteps(c) == ShowValue(c) \/ Accept(c) \/ Serve(c)

-----------------------------------------------------------------------------
(* Properties. *)

WordTypeOK ==
  /\ listening \in BOOLEAN /\ starts \in 0 .. ServerStarts
  /\ at \in [WordClients -> {"off", "input", "sent", "done"}]
  /\ text \in [WordClients -> Texts]
  /\ conn \in [WordClients -> {"none", "backlog", "accepted", "answered", "broken"}]
  /\ reply \in [WordClients -> [bytes : 0 .. Bytes, count : 0 .. AnyCount]]
  /\ value \in [WordClients -> None .. AnyCount]

(* The words of a string: the letters that no letter precedes. *)
WordsIn(s) ==
  Cardinality({i \in 1 .. SIZE : /\ s[i] = "a"
                                 /\ i > 1 => s[i - 1] # "a"
                                 /\ \A k \in 1 .. i : s[k] # "0"})

(* Although nobody looks at how much was sent or received, the number that *)
(* a client shows is the count of the words of its own whole text, or is   *)
(* made of what its struct held before: never the count of a text that was *)
(* cut.                                                                    *)
ShownIsTheCount ==
  \A c \in WordClients :
    value[c] \notin {None, AnyCount} => value[c] = WordsIn(text[c])

(* A client that sent its text ends, though servers and forks may fail.    *)
SentIsEnded == \A c \in WordClients : at[c] = "sent" ~> at[c] = "done"
=============================================================================
