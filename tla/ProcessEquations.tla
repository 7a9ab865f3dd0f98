-------------------------- MODULE ProcessEquations --------------------------
(***************************************************************************)
(* FirstLab/ProcessEquations: a process reads a file of equations and for  *)
(* each of them forks a child, which executes solve_equation, and waits    *)
(* for it; solve_equation appends the solved equation to the answers.      *)
(*                                                                         *)
(* fork copies what the stdio streams hold: the lines that were read ahead *)
(* and the log that was not written yet.  The position in the file is      *)
(* shared.  When exec fails the child goes on in the loop of its parent,   *)
(* with these copies, as one more reader of the file.                      *)
(*                                                                         *)
(* Every parent waits for its child, so that the processes form a stack,   *)
(* of which only the last one runs.                                        *)
(***************************************************************************)
EXTENDS Integers, SequencesExt

CONSTANTS
  MaxLines,       \* bound: the length of the file
  Block,          \* how many lines one read of the file buffers
  MaxFailures     \* bound: how many calls may fail

ASSUME EquationsAssumption ==
  MaxLines \in Nat /\ Block \in Nat \ {0} /\ MaxFailures \in Nat

VARIABLES
  file,           \* the lines: an equation, or another line, where reading ends
  offset,         \* the shared position in it
  stack,          \* the processes
  answers,        \* the lines solve_equation answered, in order
  log,            \* the lines "Was read" names in log.txt, in order
  failed          \* the calls that failed, and for which line

eqVars == <<file, offset, stack, answers, log, failed>>

LineNumbers == 1 .. MaxLines

(* A process: what it does next; the line it read last; the lines it read  *)
(* ahead; the log its stream still holds; and whether it may write to it.  *)
Process(at, line, ahead, held, logs) ==
  [at |-> at, line |-> line, ahead |-> ahead, held |-> held, logs |-> logs]

Top           == Last(stack)
Runs(at)      == stack # <<>> /\ Top.at = at
Becomes(q)    == stack' = Append(Front(stack), q)
Dies          == stack' = Front(stack)
Fails(what)   == /\ Len(failed) < MaxFailures
                 /\ failed' = Append(failed, <<what, Top.line>>)

NextBlock == [i \in 1 .. (IF offset + Block <= Len(file) THEN Block
                          ELSE Len(file) - offset) |-> offset + i]

(* fgets, from the lines read ahead or from the file. *)
Read_past_the_end ==     \* a slip: the loop does not end with the file
  LET got == IF Top.ahead = <<>> THEN NextBlock ELSE Top.ahead
  IN  /\ Runs("read") /\ got # <<>>
      /\ offset' = IF Top.ahead = <<>> THEN offset + Len(got) ELSE offset
      /\ Becomes([Top EXCEPT !.line = Head(got), !.ahead = Tail(got),
                           !.at = IF file[Head(got)] = "equation" THEN "fork" ELSE "close"])
      /\ UNCHANGED <<file, answers, log, failed>>

Read ==
  LET got == IF Top.ahead = <<>> THEN NextBlock ELSE Top.ahead
  IN  /\ Runs("read")
      /\ offset' = IF Top.ahead = <<>> THEN offset + Len(got) ELSE offset
      /\ Becomes(IF got = <<>> THEN [Top EXCEPT !.at = "close"]
                 ELSE [Top EXCEPT !.line = Head(got), !.ahead = Tail(got),
                                !.at = IF file[Head(got)] = "equation"
                                       THEN "fork" ELSE "close"])
      /\ UNCHANGED <<file, answers, log, failed>>

Fork_log_open ==         \* a slip: the child goes on with the log open
  /\ Runs("fork")
  /\ stack' = Front(stack) \o << [Top EXCEPT !.at = "wait"],
                                 Process("child", Top.line, Top.ahead, Top.held, TRUE) >>
  /\ UNCHANGED <<file, offset, answers, log, failed>>

Fork ==
  /\ Runs("fork")
  /\ stack' = Front(stack) \o << [Top EXCEPT !.at = "wait"],
                                 Process("child", Top.line, Top.ahead, Top.held, FALSE) >>
  /\ UNCHANGED <<file, offset, answers, log, failed>>

ForkFails ==
  /\ Runs("fork") /\ Fails("fork")
  /\ Becomes([Top EXCEPT !.at = "close"])
  /\ UNCHANGED <<file, offset, answers, log>>

(* The parent, when its child has ended. *)
Waited_read_anew ==      \* a slip: the lines read ahead are thrown away
  /\ Runs("wait")
  /\ Becomes([Top EXCEPT !.at = "read", !.ahead = <<>>])
  /\ UNCHANGED <<file, offset, answers, log, failed>>

Waited ==
  /\ Runs("wait")
  /\ Becomes([Top EXCEPT !.at = "read",
                       !.held = IF Top.logs THEN Append(@, Top.line) ELSE @])
  /\ UNCHANGED <<file, offset, answers, log, failed>>

(* What the child wrote to its own log stream is lost with it; "Was read"  *)
(* is not among that.                                                      *)
Exec ==
  /\ Runs("child")
  /\ Becomes([Top EXCEPT !.at = "solve"])
  /\ UNCHANGED <<file, offset, answers, log, failed>>

(* exec fails: "Success!"; the child closes its log, and goes on to use it. *)
ExecFails ==
  /\ Runs("child") /\ Fails("exec")
  /\ Becomes([Top EXCEPT !.at = "read"])
  /\ UNCHANGED <<file, offset, answers, log>>

(* A stream that is null: the log of the child, or the answers. *)
OpenFails_goes_on ==     \* a slip: the child reads on
  /\ Runs("child") /\ Fails("open")
  /\ Becomes([Top EXCEPT !.at = "read"])
  /\ UNCHANGED <<file, offset, answers, log>>

OpenFails ==
  /\ Runs("child") \/ Runs("solve")
  /\ Fails("open") /\ Dies
  /\ UNCHANGED <<file, offset, answers, log>>

Solve_first_line ==      \* a slip: the child is given the wrong line
  /\ Runs("solve")
  /\ answers' = Append(answers, 1)
  /\ Dies
  /\ UNCHANGED <<file, offset, log, failed>>

Solve ==
  /\ Runs("solve")
  /\ answers' = Append(answers, Top.line)
  /\ Dies
  /\ UNCHANGED <<file, offset, log, failed>>

(* The use of a closed stream may end the process. *)
Crash ==
  /\ Runs("read") /\ ~ Top.logs /\ Fails("crash") /\ Dies
  /\ UNCHANGED <<file, offset, answers, log>>

(* The streams are closed, the process ends.  Closing the file may, or may *)
(* not, take the shared position back by what was read ahead, though never *)
(* to before the file, for then lseek fails.  The log is written out; a    *)
(* process whose log is closed closes it once more, and, if it survives    *)
(* that, writes out the copy of its parent's log.                          *)
Close ==
  /\ Runs("close")
  /\ offset' \in {offset} \union ({offset - Len(Top.ahead)} \intersect Nat)
  /\ log' \in {log \o Top.held} \union (IF Top.logs THEN {} ELSE {log})
  /\ Dies
  /\ UNCHANGED <<file, answers, failed>>

EqInit ==
  /\ file \in BoundedSeq({"equation", "other"}, MaxLines)
  /\ offset = 0
  /\ stack = << Process("read", 0, <<>>, <<>>, TRUE) >>
  /\ answers = <<>> /\ log = <<>> /\ failed = <<>>

EqStep == Read \/ Fork \/ Waited \/ Exec \/ Solve \/ Close
EqNext == EqStep \/ ForkFails \/ ExecFails \/ OpenFails \/ Crash

EqSpec == EqInit /\ [][EqNext]_eqVars

-----------------------------------------------------------------------------
(* Properties. *)

EqTypeOK ==
  /\ Len(file) <= MaxLines /\ ToSet(file) \subseteq {"equation", "other"}
  /\ offset \in 0 .. Len(file)
  /\ \A i \in DOMAIN stack :
       /\ stack[i].at \in IF i < Len(stack) THEN {"wait"}
                          ELSE {"read", "fork", "wait", "child", "solve", "close"}
       /\ stack[i].line \in 0 .. Len(file)
       /\ stack[i].ahead \in Seq(LineNumbers) /\ stack[i].held \in Seq(LineNumbers)
       /\ stack[i].logs <=> i = 1
  /\ answers \in Seq(LineNumbers) /\ log \in Seq(LineNumbers)

(* The equations before the first other line. *)
Due == {i \in DOMAIN file : \A k \in 1 .. i : file[k] = "equation"}

Ended == stack = <<>>

Calls(what)    == {k \in DOMAIN failed : failed[k][1] = what}
Failures(what) == {failed[k][2] : k \in Calls(what)}

Times(i) == Cardinality({k \in DOMAIN answers : answers[k] = i})

(* As long as no call fails, the answers are those of the equations, each  *)
(* once and in the order of the file; in the end of all of them, and the   *)
(* log says so.                                                            *)
AnsweredInOrder ==
  failed = <<>> =>
    /\ answers = [i \in 1 .. Len(answers) |-> i]
    /\ ToSet(answers) \subseteq Due
    /\ Ended => Len(answers) = Cardinality(Due) /\ log = answers

(* Whatever fails, a line is answered twice, or though it is not due, only *)
(* when exec failed: there are two readers then.  If it failed once, that  *)
(* was for an earlier line; more readers may together put the position     *)
(* back to lines before.                                                   *)
ExtraOnlyAfterExec ==
  \A i \in DOMAIN file :
    Times(i) > (IF i \in Due THEN 1 ELSE 0) =>
      \/ \E k \in Failures("exec") : k < i
      \/ \E k, l \in Calls("exec") : k # l

(* No equation gets lost between the readers of the file: one that is not  *)
(* answered in the end is one for which exec or an open failed, or follows *)
(* where a reader stopped: at the line for which fork failed, or after the *)
(* line of which a crash was the end.                                      *)
NoneMissed ==
  Ended => \A i \in Due \ ToSet(answers) :
    \/ i \in Failures("exec") \union Failures("open")
    \/ \E k \in Failures("fork") : k <= i
    \/ \E k \in Failures("crash") : k < i

(* A failing exec or open costs no equation but its own, a failing fork or *)
(* a crash no earlier one, and none is answered twice unless exec failed.  *)
AnsweredOnce == ExtraOnlyAfterExec /\ NoneMissed

(* Once the first line was read everything ends, although readers may put  *)
(* the position back.                                                      *)
EquationsEnd == offset > 0 ~> Ended
=============================================================================
