------------------------------ MODULE MCTexts ------------------------------
(***************************************************************************)
(* The programs that handle what users type, for TLC: the word counter and *)
(* the chat of FourthLab, and the solver of equations.  They have nothing  *)
(* to do with each other: a behaviour is one of one program, and the first *)
(* step decides of which.                                                  *)
(***************************************************************************)
EXTENDS WordCounter, Chat, EquationSolver

vars == <<wordVars, chatVars, solverVars>>

(* Two words; one between other characters, and letters behind the end;    *)
(* and two without an end, as the struct may hold if no line was entered.  *)
MCInputs == { <<"a", ".", "a", "0">>, <<".", "a", "0", "a">>, <<"a", "a", ".", "a">> }

(* Earlier lines, long ones among them, which leave their ends behind;     *)
(* then every line of up to four characters.                               *)
MCLines ==
  << { <<"1", "0", "1", "1", "-", "1">>, <<"1", " ", "-", "0", "/", "1">>,
       <<"x", "-", "-", "1", "1", "1">>, <<"1">>, <<>> },
     BoundedSeq({"0", "1", "-", "/", " ", "x"}, 4) >>

(* The arguments of five characters that begin as ProcessEquations wants.  *)
MCArguments ==
  {<<"1">> \o s : s \in BoundedSeq({"0", "1", "-", "/", " "}, 4)}

Init == WordInit /\ ChatInit /\ SolverInit

(* What the solver is like while another program runs. *)
SolverRests == served = 0 /\ asked[1] = "nobody"

Word(A)   == ChatInit /\ SolverRests /\ A /\ UNCHANGED <<chatVars, solverVars>>
Talk(A)   == WordInit /\ SolverRests /\ A /\ UNCHANGED <<wordVars, solverVars>>
Solver(A) == WordInit /\ ChatInit /\ A /\ UNCHANGED <<wordVars, chatVars>>

Next == Word(WordNext) \/ Talk(ChatNext) \/ Solver(SolverNext)

(* Every process that can run does; what users type is up to them. *)
Fairness == /\ \A c \in WordClients : WF_vars(Word(WordSteps(c)))
            /\ \A u \in Users : WF_vars(Talk(Receive(u)))

Spec == Init /\ [][Next]_vars /\ Fairness

(* Every variable of every program has its type. *)
TypeOK == WordTypeOK /\ ChatTypeOK /\ SolverTypeOK
=============================================================================
