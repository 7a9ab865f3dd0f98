--------------------------- MODULE EquationSolver ---------------------------
(***************************************************************************)
(* The solver of the exchanges of ThirdLab and of solve_equation of        *)
(* FirstLab: it scans a C string by pointers, and its scan goes on over    *)
(* the end of the string into what the buffer held before.                 *)
(*                                                                         *)
(* The semaphore server copies every line into one buffer, strips the      *)
(* blanks from it in place, without looking at the verdict, and solves it; *)
(* solve_equation solves its argument as it is, and what is in memory      *)
(* behind an argument is unknown.  Of the digits two stand for all, of the *)
(* operations two, and "x" for what is neither digit, blank nor sign.      *)
(***************************************************************************)
EXTENDS Integers, SequencesExt

CONSTANTS
  BufferLength,
  Lines,          \* bound: Lines[k] is the set of what may come as k-th line
  Arguments       \* bound: what solve_equation is called with

(* What a user may type: an end of line or of string is not among it.      *)
Typed == {"0", "1", "-", "/", " ", "x"}

ASSUME SolverAssumption ==
  /\ BufferLength \in Nat \ {0}
  /\ Lines \in Seq(SUBSET Seq(Typed)) /\ Arguments \subseteq Seq(Typed)
  /\ \A k \in DOMAIN Lines : \A line \in Lines[k] : Len(line) + 2 <= BufferLength

VARIABLES
  buffer,         \* buffer_equation; "nul" ends a string, "?" is unknown
  served,         \* how many lines were served
  asked,          \* the last line or argument, and which program was asked
  result          \* what find_answer returned

solverVars == <<buffer, served, asked, result>>

Digits  == {"0", "1"}
Blanks  == {" ", "\n"}
Signs   == {"-"}
Ops     == {"-", "/"}

Zero    == <<"0">>
Unknown == <<"?">>

Char(b, i) == IF i <= Len(b) THEN b[i] ELSE "?"

(* The first position, from i on, of a character outside S. *)
Past(b, i, S) == CHOOSE j \in i .. Len(b) + 1 :
                   Char(b, j) \notin S /\ \A k \in i .. j - 1 : Char(b, k) \in S

Number(digits) ==
  LET value[k \in 0 .. Len(digits)] ==
        IF k = 0 THEN 0 ELSE 10 * value[k - 1] + (IF digits[k] = "1" THEN 1 ELSE 0)
  IN  value[Len(digits)]

(* strtod, external: without a digit it returns 0, and where it started. *)
strtod(b, i) ==
  LET s == Past(b, i, Blanks)
      d == IF Char(b, s) \in Signs THEN s + 1 ELSE s
      e == Past(b, d, Digits)
      n == Number(SubSeq(b, d, e - 1))
  IN  IF Char(b, e) = "?" THEN [known |-> FALSE, value |-> 0, end |-> e]
      ELSE IF e = d THEN [known |-> TRUE, value |-> 0, end |-> i]
      ELSE [known |-> TRUE, value |-> IF d > s THEN 0 - n ELSE n, end |-> e]

(* What the operation yields; zero for an unknown one. *)
Apply(op, first, second) ==
  IF op \notin Ops \/ (op = "/" /\ second = 0) THEN Zero ELSE <<op, first, second>>

find_answer_unskipped(b) ==      \* a slip: no blanks before the operation
  LET first  == strtod(b, 1)
      o      == first.end
      second == strtod(b, Past(b, o + 1, {"nul", " "}))
  IN  IF ~ first.known \/ Char(b, o) = "?" THEN Unknown
      ELSE IF Char(b, o) \in Ops /\ ~ second.known THEN Unknown
      ELSE Apply(Char(b, o), first.value, second.value)

find_answer(b) ==
  LET first  == strtod(b, 1)
      o      == Past(b, first.end, {"nul", " "})
      second == strtod(b, Past(b, o + 1, {"nul", " "}))
  IN  IF ~ first.known \/ Char(b, o) = "?" THEN Unknown
      ELSE IF Char(b, o) \in Ops /\ ~ second.known THEN Unknown
      ELSE Apply(Char(b, o), first.value, second.value)

Without(s, S) ==                 \* s but for the characters of S
  LET kept[k \in 0 .. Len(s)] ==
        IF k = 0 THEN <<>>
        ELSE IF s[k] \in S THEN kept[k - 1] ELSE Append(kept[k - 1], s[k])
  IN  kept[Len(s)]

Overlay(b, s) == s \o SubSeq(b, Len(s) + 1, Len(b))

(* Strips up to the end of the line; at a symbol it stops, without an end. *)
parse_equation_str_unended(b) == \* a slip: no '\0' behind the stripped line
  LET stop == Past(b, 1, Digits \union Ops \union {" "})
  IN  Overlay(b, Without(SubSeq(b, 1, stop - 1), Blanks))

parse_equation_str(b) ==
  LET stop == Past(b, 1, Digits \union Ops \union {" "})
      kept == Without(SubSeq(b, 1, stop - 1), Blanks)
  IN  IF b[1] = "nul" THEN b
      ELSE Overlay(b, IF b[stop] = "x" THEN kept ELSE Append(kept, "nul"))

-----------------------------------------------------------------------------
SolverInit ==
  /\ buffer = [i \in 1 .. BufferLength |-> IF i = 1 THEN "nul" ELSE "?"]
  /\ served = 0 /\ asked = <<"nobody", <<>> >> /\ result = Zero

(* One turn of the server: strcpy, and an empty line is not solved. *)
ServeLine ==
  /\ served < Len(Lines)
  /\ \E line \in Lines[served + 1] :
       LET copied == Overlay(buffer, line \o <<"\n", "nul">>)
           parsed == parse_equation_str(copied)
       IN  /\ asked' = <<"server", line>>
           /\ result' = IF line = <<>> THEN result ELSE find_answer(parsed)
           /\ buffer' = [IF line = <<>> THEN copied ELSE parsed EXCEPT ![1] = "nul"]
  /\ served' = served + 1

SolveArgument ==
  /\ served = 0
  /\ \E line \in Arguments :
       /\ asked' = <<"solve_equation", line>>
       /\ result' = find_answer(Append(line, "nul"))
  /\ UNCHANGED <<buffer, served>>

SolverNext == ServeLine \/ SolveArgument

SolverSpec == SolverInit /\ [][SolverNext]_solverVars

-----------------------------------------------------------------------------
(* Properties. *)

SolverTypeOK ==
  /\ Len(buffer) = BufferLength /\ served \in 0 .. Len(Lines)
  /\ result \in {Zero, Unknown} \union (Ops \X Int \X Int)

(* A number with or without a sign. *)
Numeral(s) ==
  s # <<>> /\ LET d == IF s[1] \in Signs THEN Tail(s) ELSE s
              IN  d # <<>> /\ ToSet(d) \subseteq Digits
Value(s)   == IF s[1] \in Signs THEN 0 - Number(Tail(s)) ELSE Number(s)

(* r is what s comes to, if s is an equation of two numerals once these    *)
(* are cleaned of blanks.                                                  *)
Means(s, Clean(_), r) ==
  \A i \in DOMAIN s :
    LET first  == Clean(SubSeq(s, 1, i - 1))
        second == Clean(SubSeq(s, i + 1, Len(s)))
    IN  s[i] \in Ops /\ Numeral(first) /\ Numeral(second) =>
          r = IF s[i] = "/" /\ Value(second) = 0 THEN Zero
              ELSE <<s[i], Value(first), Value(second)>>

Stripped(s) == Without(s, {" "})
Trimmed(s)  == LET solid == {i \in DOMAIN s : s[i] # " "}
               IN  IF solid = {} THEN <<>> ELSE SubSeq(s, Min(solid), Max(solid))

(* The server solves every line that is an equation once its blanks are    *)
(* taken away, whatever the lines before it left in the buffer.            *)
LinesAreSolved ==
  asked[1] = "server" => Means(asked[2], Stripped, result)

(* solve_equation solves an argument that is an equation, with blanks      *)
(* around its numbers only; the memory behind it has no part in it.        *)
ArgumentsAreSolved ==
  asked[1] = "solve_equation" => Means(asked[2], Trimmed, result)

(* Both programs solve what is an equation to them. *)
EquationsAreSolved == LinesAreSolved /\ ArgumentsAreSolved
=============================================================================
