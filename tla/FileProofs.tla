---------------------------- MODULE FileProofs ------------------------------
(***************************************************************************)
(* Proofs about the programs that share files.                             *)
(*                                                                         *)
(* ProcessEquations, for any file, any block of lines that is read at once *)
(* and any calls that fail: without failures every equation is answered    *)
(* once and in order; no equation is missed and none doubled but where the *)
(* properties say so.                                                      *)
(*                                                                         *)
(* The programs of SecondLab, for any directory: the letters of every mode *)
(* tell the mode, links have the numbers that runs gave them, and the list *)
(* of files is sorted, complete and stable.                                *)
(*                                                                         *)
(* Sorting and writing digits are recursive functions; the lemmas of the   *)
(* first part say that such functions exist and are used to follow them    *)
(* from one turn of a loop to the next.                                    *)
(***************************************************************************)
EXTENDS MCFiles, TLAPS, FiniteSetTheorems, SequenceTheorems, WellFoundedInduction

(* Numbers, and functions that are defined from one number to the next. *)

(* A non-empty set of naturals has a least element. *)
LEMMA LeastNatural ==
  ASSUME NEW I \in SUBSET Nat, I # {}
  PROVE  \E i \in I : \A k \in I : i <= k
<1>1. PICK i \in I : \A k \in I : ~ (<<k, i>> \in OpToRel(<, Nat))
  BY WFMin, NatLessThanWellFounded
<1>2. \A k \in I : ~ (k < i)
  BY <1>1 DEF OpToRel
<1>3. \A k \in I : i <= k
  BY <1>2
<1> QED BY <1>3

(* Induction over the numbers up to n, for a set of them. *)
LEMMA InductionTo ==
  ASSUME NEW n \in Nat, NEW T, 0 \in T, \A i \in 0 .. n - 1 : i \in T => i + 1 \in T
  PROVE  0 .. n \subseteq T /\ n \in T
<1> SUFFICES ASSUME NEW m \in 0 .. n, m \notin T PROVE FALSE
  OBVIOUS
<1> DEFINE I == (0 .. n) \ T
<1>1. PICK i \in I : \A k \in I : i <= k
  <2>1. I \in SUBSET Nat /\ I # {}
    OBVIOUS
  <2> HIDE DEF I
  <2> QED BY <2>1, LeastNatural
<1>2. i # 0 /\ i - 1 \in 0 .. n - 1 /\ i - 1 \in T
  BY <1>1
<1> QED BY <1>1, <1>2

(* step makes a value of S from one of S and a number up to n; h has the    *)
(* values that it makes one after another, from base.                      *)
IsStep(S, base, n, step) == base \in S /\ n \in Nat /\ step \in [S \X (1 .. n) -> S]
Iterates(h, S, base, n, step) ==
  h \in [0 .. n -> S] /\ h[0] = base /\ \A i \in 1 .. n : h[i] = step[<<h[i - 1], i>>]

(* There is such a function h.                                             *)
LEMMA Iteration ==
  ASSUME NEW S, NEW base, NEW n, NEW step, IsStep(S, base, n, step)
  PROVE  \E h : Iterates(h, S, base, n, step)
<1> SUFFICES ASSUME base \in S, n \in Nat, step \in [S \X (1 .. n) -> S]
             PROVE  \E h \in [0 .. n -> S] :
                      h[0] = base /\ \A i \in 1 .. n : h[i] = step[<<h[i - 1], i>>]
  BY DEF IsStep, Iterates
<1> DEFINE Goes(h, m) == h[0] = base /\ \A i \in 1 .. m : h[i] = step[<<h[i - 1], i>>]
           T == {m \in 0 .. n : \E h \in [0 .. m -> S] : Goes(h, m)}
<1>1. 0 \in T
  <2> DEFINE h == [i \in 0 .. 0 |-> base]
  <2>1. h \in [0 .. 0 -> S] /\ h[0] = base /\ 1 .. 0 = {}
    OBVIOUS
  <2> HIDE DEF h
  <2>2. Goes(h, 0)
    BY <2>1
  <2> QED BY <2>1, <2>2
<1>2. ASSUME NEW m \in 0 .. n - 1, m \in T PROVE m + 1 \in T
  <2>1. PICK h \in [0 .. m -> S] : Goes(h, m)
    BY <1>2
  <2> DEFINE g == [i \in 0 .. m + 1 |-> IF i = m + 1 THEN step[<<h[m], m + 1>>] ELSE h[i]]
  <2>2. step[<<h[m], m + 1>>] \in S
    OBVIOUS
  <2>3. g \in [0 .. m + 1 -> S]
    BY <2>2
  <2>4. g[m + 1] = step[<<h[m], m + 1>>] /\ \A i \in 0 .. m : g[i] = h[i]
    OBVIOUS
  <2> HIDE DEF g
  <2>5. g[0] = base
    BY <2>1, <2>4
  <2>6. ASSUME NEW i \in 1 .. m + 1 PROVE g[i] = step[<<g[i - 1], i>>]
    <3>1. CASE i = m + 1
      <4>1. i - 1 = m /\ m \in 0 .. m
        BY <3>1
      <4> QED BY ONLY <2>4, <3>1, <4>1
    <3>2. CASE i # m + 1
      <4>1. i \in 1 .. m /\ i \in 0 .. m /\ i - 1 \in 0 .. m
        BY <3>2
      <4> QED BY <2>1, <2>4, <4>1
    <3> QED BY <3>1, <3>2
  <2> QED BY <2>3, <2>5, <2>6
<1>3. n \in T
  <2> HIDE DEF T
  <2> QED BY <1>1, <1>2, InductionTo
<1> QED BY <1>3

-----------------------------------------------------------------------------
(* ProcessEquations. *)

Places  == {"read", "fork", "wait", "child", "solve", "close"}
Child   == {"child", "solve"}

Proc == [at : Places, line : 0 .. MaxLines, ahead : Seq(LineNumbers),
         held : Seq(LineNumbers), logs : BOOLEAN]

Types ==
  /\ file \in Seq({"equation", "other"}) /\ Len(file) <= MaxLines
  /\ offset \in 0 .. Len(file)
  /\ stack \in Seq(Proc)
  /\ answers \in Seq(LineNumbers) /\ log \in Seq(LineNumbers)
  /\ failed \in Seq({"fork", "exec", "open", "crash"} \X (0 .. MaxLines))

Upto(p) == p.line + Len(p.ahead)

(* What a process read ahead are the lines that follow its own.            *)
Reads(f, p) ==
  /\ Upto(p) <= Len(f)
  /\ \A k \in DOMAIN p.ahead : p.ahead[k] = p.line + k
  /\ p.at \in {"fork", "wait"} \union Child => p.line >= 1 /\ f[p.line] = "equation"

(* Only the last process runs; a child has what its parent read ahead.     *)
Stacked ==
  \A i \in DOMAIN stack :
    /\ Reads(file, stack[i])
    /\ i < Len(stack) => stack[i].at = "wait"
    /\ stack[i].logs <=> i = 1
    /\ stack[i].at \in Child => /\ i > 1
                                /\ stack[i - 1].line = stack[i].line
                                /\ stack[i - 1].ahead = stack[i].ahead

(* A process stops to read at a line that is no equation, at the end of    *)
(* the file, or where fork failed.                                         *)
Stops(p) == \/ p.line >= 1 /\ file[p.line] = "other"
            \/ p.ahead = <<>> /\ offset = Len(file)
            \/ p.line >= 1 /\ p.line \in Failures("fork")

Stopped == \A i \in DOMAIN stack : stack[i].at = "close" => Stops(stack[i])

(* An equation that is due was answered, or a call failed for it, or a     *)
(* reader stopped before it; or a process has it; or nobody read that far. *)
Settled(i) ==
  \/ i \in ToSet(answers) \union Failures("exec") \union Failures("open")
  \/ \E k \in Failures("fork") : k <= i
  \/ \E k \in Failures("crash") : k < i

Has(p, i) == \/ p.line < i /\ i <= Upto(p)
             \/ p.line = i /\ p.at \in {"fork"} \union Child

Pending(i) == \E k \in DOMAIN stack : Has(stack[k], i)

Unread(i) ==
  /\ stack # <<>> /\ offset < i
  /\ \A k \in DOMAIN stack : Upto(stack[k]) < i

Tracked == \A i \in Due : Settled(i) \/ Pending(i) \/ Unread(i)

(* As long as exec did not fail the first process is the only reader.      *)
Alone ==
  /\ Len(stack) <= 2
  /\ \A k, l \in DOMAIN answers : k < l => answers[k] < answers[l]
  /\ \A k \in DOMAIN answers : answers[k] \in Due
  /\ stack # <<>> =>
       /\ Upto(stack[1]) = offset
       /\ \A i \in 1 .. stack[1].line :
            i < stack[1].line \/ stack[1].at # "close" => file[i] = "equation"
       /\ \A k \in DOMAIN answers :
            /\ answers[k] <= stack[1].line
            /\ stack[1].at = "fork" \/ Len(stack) = 2 => answers[k] < stack[1].line
  /\ Len(stack) = 2 => stack[2].at \in Child

(* When it failed once, for the line m, there are two of them: nobody goes *)
(* back to m.                                                              *)
Two(m) ==
  /\ Len(stack) <= 3
  /\ \A k, l \in DOMAIN answers : k < l /\ answers[l] <= m => answers[k] # answers[l]
  /\ \A k \in DOMAIN answers : answers[k] <= m => answers[k] \in Due
  /\ stack # <<>> => m <= offset
  /\ \A i \in DOMAIN stack :
       /\ m <= stack[i].line
       /\ stack[i].at \in {"fork"} \union Child => m < stack[i].line
  /\ Len(stack) >= 2 /\ stack[2].at \notin Child => Upto(stack[2]) <= offset
  /\ Len(stack) = 3 => stack[3].at \in Child

Readers ==
  /\ Calls("exec") = {} => Alone
  /\ (\A k, l \in Calls("exec") : k = l) => \A m \in Failures("exec") : Two(m)

(* Without any failure the answers, and the log, are the lines so far.     *)
Even ==
  LET n    == Len(answers)
      nothing == n = Len(file) \/ file[n + 1] = "other"
  IN  /\ \A k \in DOMAIN answers : answers[k] = k
      /\ stack # <<>> =>
           /\ log = <<>>
           /\ stack[1].at = "read" => stack[1].line = n /\ stack[1].held = answers
           /\ stack[1].at = "fork" \/ Len(stack) = 2 =>
                stack[1].line = n + 1 /\ stack[1].held = answers
           /\ stack[1].at = "wait" /\ Len(stack) = 1 =>
                stack[1].line = n /\ Append(stack[1].held, n) = answers
           /\ stack[1].at = "close" => stack[1].held = answers /\ nothing
      /\ stack = <<>> => log = answers /\ nothing

Inv == Types /\ Stacked /\ Stopped /\ Tracked /\ Readers /\ (failed = <<>> => Even)

-----------------------------------------------------------------------------
(* Sequences. *)

LEMMA LastOf ==
  ASSUME NEW S, NEW s \in Seq(S), s # <<>>
  PROVE  /\ Len(s) \in Nat \ {0} /\ DOMAIN s = 1 .. Len(s)
         /\ Last(s) = s[Len(s)] /\ Last(s) \in S
         /\ Front(s) \in Seq(S) /\ Len(Front(s)) = Len(s) - 1
         /\ \A i \in 1 .. Len(s) - 1 : Front(s)[i] = s[i]
<1>1. Len(s) \in Nat \ {0} /\ DOMAIN s = 1 .. Len(s)
  OBVIOUS
<1>2. Last(s) = s[Len(s)] /\ Last(s) \in S
  BY <1>1 DEF Last
<1>3. Front(s) = SubSeq(s, 1, Len(s) - 1)
  BY DEF Front
<1>4. /\ SubSeq(s, 1, Len(s) - 1) \in Seq(S)
      /\ Len(SubSeq(s, 1, Len(s) - 1)) = Len(s) - 1
      /\ \A i \in 1 .. Len(s) - 1 : SubSeq(s, 1, Len(s) - 1)[i] = s[i]
  BY <1>1
<1> QED BY <1>1, <1>2, <1>3, <1>4

LEMMA Appended ==
  ASSUME NEW S, NEW s \in Seq(S), NEW q \in S
  PROVE  /\ Append(s, q) \in Seq(S) /\ Len(s) \in Nat /\ Len(Append(s, q)) = Len(s) + 1
         /\ DOMAIN s = 1 .. Len(s) /\ DOMAIN Append(s, q) = 1 .. Len(s) + 1
         /\ Append(s, q)[Len(s) + 1] = q
         /\ \A i \in 1 .. Len(s) : Append(s, q)[i] = s[i]
  OBVIOUS

LEMMA Replaced ==
  ASSUME NEW S, NEW s \in Seq(S), s # <<>>, NEW q \in S
  PROVE  /\ Append(Front(s), q) \in Seq(S) /\ Len(Append(Front(s), q)) = Len(s)
         /\ Append(Front(s), q) # <<>> /\ Append(Front(s), q)[Len(s)] = q
         /\ \A i \in 1 .. Len(s) - 1 : Append(Front(s), q)[i] = s[i]
<1> DEFINE f == Front(s)
           t == Append(f, q)
<1>1. f \in Seq(S) /\ Len(f) = Len(s) - 1 /\ Len(s) \in Nat \ {0}
      /\ \A i \in 1 .. Len(s) - 1 : f[i] = s[i]
  BY LastOf
<1> HIDE DEF f
<1>2. /\ Append(f, q) \in Seq(S) /\ Len(Append(f, q)) = Len(f) + 1
      /\ Append(f, q)[Len(f) + 1] = q
      /\ \A i \in 1 .. Len(f) : Append(f, q)[i] = f[i]
  BY <1>1, Appended
<1>3. t \in Seq(S) /\ Len(t) = Len(s) /\ t # <<>> /\ t[Len(s)] = q
  BY <1>1, <1>2
<1>4. \A i \in 1 .. Len(s) - 1 : t[i] = s[i]
  BY <1>1, <1>2
<1> QED BY <1>3, <1>4 DEF f

LEMMA Pushed ==
  ASSUME NEW S, NEW s \in Seq(S), s # <<>>, NEW q \in S, NEW r \in S
  PROVE  LET t == Front(s) \o <<q, r>>
         IN  /\ t \in Seq(S) /\ Len(t) = Len(s) + 1 /\ t # <<>>
             /\ t[Len(s)] = q /\ t[Len(s) + 1] = r
             /\ \A i \in 1 .. Len(s) - 1 : t[i] = s[i]
<1> DEFINE f == Front(s)
           g == <<q, r>>
           t == f \o g
<1>1. f \in Seq(S) /\ Len(f) = Len(s) - 1 /\ Len(s) \in Nat \ {0}
      /\ \A i \in 1 .. Len(s) - 1 : f[i] = s[i]
  BY LastOf
<1>2. g \in Seq(S) /\ Len(g) = 2 /\ g[1] = q /\ g[2] = r
  OBVIOUS
<1>3. t = f \o g
  OBVIOUS
<1> HIDE DEF t
<1> HIDE DEF f, g
<1>4. /\ f \o g \in Seq(S) /\ Len(f \o g) = Len(f) + Len(g)
      /\ \A i \in 1 .. Len(f) : (f \o g)[i] = f[i]
      /\ \A i \in 1 .. Len(g) : (f \o g)[Len(f) + i] = g[i]
  <2>1. /\ f \o g \in Seq(S) /\ Len(f \o g) = Len(f) + Len(g)
        /\ \A i \in 1 .. Len(f) + Len(g) :
             (f \o g)[i] = IF i <= Len(f) THEN f[i] ELSE g[i - Len(f)]
    BY <1>1, <1>2, ConcatProperties
  <2>2. Len(f) \in Nat /\ Len(g) = 2
    BY <1>1, <1>2
  <2>3. \A i \in 1 .. Len(g) : (f \o g)[Len(f) + i] = g[i]
    <3> TAKE i \in 1 .. Len(g)
    <3>1. /\ Len(f) + i \in 1 .. Len(f) + Len(g) /\ ~ (Len(f) + i <= Len(f))
          /\ Len(f) + i - Len(f) = i
      BY <2>2
    <3> QED BY <2>1, <3>1
  <2> QED BY <2>1, <2>2, <2>3
<1>5. /\ (f \o g)[Len(f) + 1] = q /\ (f \o g)[Len(f) + 2] = r
      /\ Len(f) + 1 = Len(s) /\ Len(f) + 2 = Len(s) + 1 /\ Len(f) + Len(g) = Len(s) + 1
  BY <1>1, <1>2, <1>4
<1>6. t \in Seq(S) /\ Len(t) = Len(s) + 1 /\ t[Len(s)] = q /\ t[Len(s) + 1] = r
  BY <1>3, <1>4, <1>5
<1>7. t # <<>>
  BY <1>1, <1>6
<1>8. \A i \in 1 .. Len(s) - 1 : t[i] = s[i]
  BY <1>1, <1>3, <1>4
<1> QED BY <1>6, <1>7, <1>8 DEF t, f, g

LEMMA AtMostOne ==
  ASSUME NEW T, \A k, l \in T : k = l
  PROVE  Cardinality(T) \in {0, 1} /\ (T = {} => Cardinality(T) = 0)
<1>1. CASE T = {}
  BY <1>1, FS_EmptySet
<1>2. CASE T # {}
  <2>1. PICK x \in T : TRUE
    BY <1>2
  <2>2. T = {x}
    BY <2>1
  <2> QED BY <1>2, <2>2, FS_Singleton
<1> QED BY <1>1, <1>2

-----------------------------------------------------------------------------
(* The properties follow from the invariant. *)

LEMMA InOrderByInv == Inv => AnsweredInOrder
<1> SUFFICES ASSUME Inv, failed = <<>>
             PROVE  /\ answers = [i \in 1 .. Len(answers) |-> i]
                    /\ ToSet(answers) \subseteq Due
                    /\ Ended => Len(answers) = Cardinality(Due) /\ log = answers
  BY DEF AnsweredInOrder
<1> DEFINE n == Len(answers)
<1>1. answers \in Seq(LineNumbers) /\ n \in Nat /\ DOMAIN answers = 1 .. n
  BY DEF Inv, Types
<1>2. \A k \in DOMAIN answers : answers[k] = k
  BY DEF Inv, Even
<1>3. Calls("exec") = {}
  BY DEF Calls
<1>4. \A k \in DOMAIN answers : answers[k] \in Due
  BY <1>3 DEF Inv, Readers, Alone
<1>5. answers = [i \in 1 .. n |-> i]
  BY <1>1, <1>2
<1>6. ToSet(answers) \subseteq Due
  BY <1>4 DEF ToSet
<1>7. ASSUME Ended PROVE n = Cardinality(Due) /\ log = answers
  <2>1. log = answers /\ (n = Len(file) \/ file[n + 1] = "other")
    BY <1>7 DEF Inv, Even, Ended
  <2>2. 1 .. n \subseteq Due
    BY <1>1, <1>2, <1>4
  <2>3. ASSUME NEW i \in Due PROVE i \in 1 .. n
    <3>1. i \in 1 .. Len(file) /\ Len(file) \in Nat /\ \A k \in 1 .. i : file[k] = "equation"
      BY DEF Due, Inv, Types
    <3>2. i <= n
      BY <1>1, <2>1, <3>1
    <3> QED BY <3>1, <3>2
  <2>4. Due = 1 .. n
    BY <2>2, <2>3
  <2>5. Cardinality(1 .. n) = n
    <3> HIDE DEF n
    <3>1. n \in Nat
      BY <1>1
    <3>2. Cardinality(1 .. n) = IF 1 > n THEN 0 ELSE n - 1 + 1
      BY <3>1, FS_Interval
    <3> QED BY <3>1, <3>2
  <2> QED BY <2>1, <2>4, <2>5
<1> QED BY <1>5, <1>6, <1>7

LEMMA ExtraByInv == Inv => ExtraOnlyAfterExec
<1> SUFFICES ASSUME Inv, NEW i \in DOMAIN file,
                    \A k \in Failures("exec") : ~ (k < i),
                    \A k, l \in Calls("exec") : k = l
             PROVE  ~ (Times(i) > (IF i \in Due THEN 1 ELSE 0))
  BY DEF ExtraOnlyAfterExec
<1> DEFINE T == {k \in DOMAIN answers : answers[k] = i}
<1>1. /\ answers \in Seq(LineNumbers) /\ i \in Nat /\ DOMAIN answers = 1 .. Len(answers)
      /\ Len(answers) \in Nat
  BY DEF Inv, Types
<1>2. \A k, l \in T : k < l => FALSE
  <2>1. CASE Calls("exec") = {}
    <3>1. \A k, l \in DOMAIN answers : k < l => answers[k] < answers[l]
      BY <2>1 DEF Inv, Readers, Alone
    <3> QED BY <1>1, <3>1
  <2>2. CASE Calls("exec") # {}
    <3>1. PICK m \in Failures("exec") : m \in Nat
      BY <2>2 DEF Failures, Calls, Inv, Types
    <3>2. Two(m) /\ i <= m
      BY <1>1, <3>1 DEF Inv, Readers
    <3> QED BY <3>2 DEF Two
  <2> QED BY <2>1, <2>2
<1>3. \A k, l \in T : k = l
  BY <1>1, <1>2
<1>4. i \notin Due => T = {}
  <2>1. CASE Calls("exec") = {}
    BY <2>1 DEF Inv, Readers, Alone
  <2>2. CASE Calls("exec") # {}
    <3>1. PICK m \in Failures("exec") : m \in Nat
      BY <2>2 DEF Failures, Calls, Inv, Types
    <3>2. Two(m) /\ i <= m
      BY <1>1, <3>1 DEF Inv, Readers
    <3> QED BY <3>2 DEF Two
  <2> QED BY <2>1, <2>2
<1>5. Times(i) = Cardinality(T)
  BY DEF Times
<1> HIDE DEF T
<1>6. Cardinality(T) \in {0, 1} /\ (T = {} => Cardinality(T) = 0)
  BY <1>3, AtMostOne
<1> QED BY <1>4, <1>5, <1>6

LEMMA NoneMissedByInv == Inv => NoneMissed
<1>1. ASSUME Inv, Ended, NEW i \in Due PROVE Settled(i)
  <2>1. Settled(i) \/ Pending(i) \/ Unread(i)
    BY <1>1 DEF Inv, Tracked
  <2>2. ~ Unread(i) /\ ~ Pending(i)
    BY <1>1 DEF Ended, Unread, Pending
  <2> QED BY <2>1, <2>2
<1> QED BY <1>1 DEF NoneMissed, Settled

LEMMA InitInv == EqInit => Inv
<1> SUFFICES ASSUME EqInit PROVE Inv
  OBVIOUS
<1> USE EquationsAssumption
<1> DEFINE first == Process("read", 0, <<>>, <<>>, TRUE)
<1>1. /\ stack = <<first>> /\ first \in Proc
      /\ first.at = "read" /\ first.line = 0 /\ first.ahead = <<>> /\ first.held = <<>>
      /\ first.logs = TRUE
  BY DEF EqInit, Process, Proc, Places, LineNumbers
<1> HIDE DEF first
<1>2. file \in Seq({"equation", "other"}) /\ Len(file) <= MaxLines /\ Len(file) \in Nat
  <2>1. PICK m \in 0 .. MaxLines : file \in [1 .. m -> {"equation", "other"}]
    BY DEF EqInit, BoundedSeq, SeqOf
  <2> QED BY <2>1
<1>3. stack \in Seq(Proc) /\ Len(stack) = 1 /\ stack[1] = first /\ DOMAIN stack = {1}
  BY <1>1
<1>4. offset = 0 /\ answers = <<>> /\ log = <<>> /\ failed = <<>>
  BY DEF EqInit
<1>5. Types
  BY <1>2, <1>3, <1>4 DEF Types
<1>6. Upto(first) = 0 /\ Reads(file, first)
  BY <1>1, <1>2 DEF Upto, Reads, Child
<1>7. Stacked /\ Stopped
  <2>1. \A i \in DOMAIN stack : i = 1 /\ stack[i] = first
    BY <1>3
  <2>2. first.at \notin Child /\ first.at # "close" /\ Len(stack) = 1
    BY <1>1, <1>3 DEF Child
  <2> QED BY <1>1, <1>6, <2>1, <2>2 DEF Stacked, Stopped
<1>8. Tracked
  BY <1>1, <1>2, <1>3, <1>4, <1>6 DEF Tracked, Due, Unread
<1>9. Readers
  <2>1. Calls("exec") = {} /\ Failures("exec") = {}
    BY <1>4 DEF Calls, Failures
  <2>2. Alone
    BY <1>1, <1>3, <1>4, <1>6 DEF Alone
  <2> QED BY <2>1, <2>2 DEF Readers
<1>10. Even
  BY <1>1, <1>3, <1>4 DEF Even
<1> QED BY <1>5, <1>7, <1>8, <1>9, <1>10 DEF Inv

-----------------------------------------------------------------------------
(* What the steps do to the stack, and to the calls that failed.           *)

LEMMA Running ==
  ASSUME Inv, NEW at, Runs(at)
  PROVE  /\ stack \in Seq(Proc) /\ stack # <<>> /\ Len(stack) \in Nat \ {0}
         /\ DOMAIN stack = 1 .. Len(stack)
         /\ Top = stack[Len(stack)] /\ Top \in Proc /\ Top.at = at
         /\ Reads(file, Top) /\ (Top.logs <=> Len(stack) = 1)
<1>1. stack \in Seq(Proc) /\ stack # <<>> /\ Top.at = at
  BY DEF Inv, Types, Runs
<1>2. /\ Len(stack) \in Nat \ {0} /\ DOMAIN stack = 1 .. Len(stack)
      /\ Top = stack[Len(stack)] /\ Top \in Proc
  BY <1>1, LastOf DEF Top
<1>3. Len(stack) \in DOMAIN stack
  BY <1>2
<1>4. Reads(file, Top) /\ (Top.logs <=> Len(stack) = 1)
  BY <1>2, <1>3 DEF Inv, Stacked
<1> QED BY <1>1, <1>2, <1>4

LEMMA Becoming ==
  ASSUME Inv, stack # <<>>, NEW q \in Proc, Becomes(q)
  PROVE  /\ stack' \in Seq(Proc) /\ Len(stack') = Len(stack) /\ stack' # <<>>
         /\ DOMAIN stack' = 1 .. Len(stack) /\ stack'[Len(stack)] = q
         /\ \A i \in 1 .. Len(stack) - 1 : stack'[i] = stack[i]
<1>1. /\ stack' \in Seq(Proc) /\ Len(stack') = Len(stack) /\ stack' # <<>>
      /\ stack'[Len(stack)] = q /\ \A i \in 1 .. Len(stack) - 1 : stack'[i] = stack[i]
  <2>1. stack \in Seq(Proc) /\ stack' = Append(Front(stack), q)
    BY DEF Becomes, Inv, Types
  <2> DEFINE t == stack'
  <2>2. t = Append(Front(stack), q)
    BY <2>1
  <2> HIDE DEF t
  <2>3. /\ t \in Seq(Proc) /\ Len(t) = Len(stack) /\ t # <<>> /\ t[Len(stack)] = q
        /\ \A i \in 1 .. Len(stack) - 1 : t[i] = stack[i]
    BY <2>1, <2>2, Replaced
  <2> QED BY <2>3 DEF t
<1>2. DOMAIN stack' = 1 .. Len(stack')
  BY <1>1
<1> QED BY <1>1, <1>2

LEMMA Dying ==
  ASSUME Inv, stack # <<>>, Dies
  PROVE  /\ stack' \in Seq(Proc) /\ Len(stack') = Len(stack) - 1
         /\ DOMAIN stack' = 1 .. Len(stack) - 1
         /\ (stack' = <<>> <=> Len(stack) = 1)
         /\ \A i \in 1 .. Len(stack) - 1 : stack'[i] = stack[i]
<1>1. /\ stack' \in Seq(Proc) /\ Len(stack') = Len(stack) - 1 /\ Len(stack) \in Nat \ {0}
      /\ \A i \in 1 .. Len(stack) - 1 : stack'[i] = stack[i]
  BY LastOf DEF Dies, Inv, Types
<1>2. DOMAIN stack' = 1 .. Len(stack') /\ (stack' = <<>> <=> Len(stack') = 0)
  BY <1>1
<1> QED BY <1>1, <1>2

LEMMA Failing ==
  ASSUME Inv, NEW what \in {"fork", "exec", "open", "crash"}, NEW at, Runs(at), Fails(what)
  PROVE  /\ failed' \in Seq({"fork", "exec", "open", "crash"} \X (0 .. MaxLines))
         /\ failed' # <<>>
         /\ Calls(what)' = Calls(what) \union {Len(failed) + 1}
         /\ Len(failed) + 1 \notin DOMAIN failed
         /\ Failures(what)' = Failures(what) \union {Top.line}
         /\ \A w \in {"fork", "exec", "open", "crash"} \ {what} :
              Calls(w)' = Calls(w) /\ Failures(w)' = Failures(w)
<1> DEFINE call == <<what, Top.line>>
           W    == {"fork", "exec", "open", "crash"}
<1>1. /\ failed \in Seq(W \X (0 .. MaxLines)) /\ call \in W \X (0 .. MaxLines)
      /\ failed' = Append(failed, call)
  BY Running DEF Inv, Types, Fails, Proc
<1>2. call[1] = what /\ call[2] = Top.line
  OBVIOUS
<1> HIDE DEF call, W
<1>3. /\ failed' \in Seq(W \X (0 .. MaxLines)) /\ Len(failed) \in Nat
      /\ DOMAIN failed = 1 .. Len(failed) /\ DOMAIN failed' = 1 .. Len(failed) + 1
      /\ failed'[Len(failed) + 1] = call
      /\ \A k \in 1 .. Len(failed) : failed'[k] = failed[k]
  BY <1>1, Appended
<1>4. /\ DOMAIN failed' = DOMAIN failed \union {Len(failed) + 1}
      /\ Len(failed) + 1 \notin DOMAIN failed /\ failed' # <<>>
  BY <1>3
<1>5. Calls(what)' = Calls(what) \union {Len(failed) + 1}
  BY <1>2, <1>3, <1>4 DEF Calls
<1>6. \A w \in W \ {what} : Calls(w)' = Calls(w)
  BY <1>2, <1>3, <1>4 DEF Calls
<1>7. Failures(what)' = Failures(what) \union {Top.line}
  <2>1. \A k \in Calls(what) : failed'[k] = failed[k]
    BY <1>3 DEF Calls
  <2>2. failed'[Len(failed) + 1][2] = Top.line
    BY <1>2, <1>3
  <2>3. Failures(what)' = {failed'[k][2] : k \in Calls(what) \union {Len(failed) + 1}}
    BY <1>5 DEF Failures
  <2>4. {failed'[k][2] : k \in Calls(what)} = {failed[k][2] : k \in Calls(what)}
    BY <2>1
  <2> QED BY <2>2, <2>3, <2>4 DEF Failures
<1>8. \A w \in W \ {what} : Failures(w)' = Failures(w)
  <2>1. \A w : \A k \in Calls(w) : failed'[k] = failed[k]
    BY <1>3 DEF Calls
  <2> QED BY <1>6, <2>1 DEF Failures
<1> QED BY <1>3, <1>4, <1>5, <1>6, <1>7, <1>8 DEF W

(* The process on top goes on as q. *)
LEMMA BecomesStacked ==
  ASSUME Inv, stack # <<>>, NEW q \in Proc, Becomes(q), file' = file, Reads(file, q),
         q.logs = Top.logs, q.at = "close" => Stops(q)',
         q.at \in Child => Top.at \in Child /\ q.line = Top.line /\ q.ahead = Top.ahead
  PROVE  Stacked' /\ Stopped'
<1> DEFINE n == Len(stack)
<1>1. /\ n \in Nat \ {0} /\ Top = stack[n] /\ DOMAIN stack = 1 .. n
      /\ Len(stack') = n /\ DOMAIN stack' = 1 .. n /\ stack'[n] = q
      /\ \A i \in 1 .. n - 1 : stack'[i] = stack[i]
  BY Becoming, LastOf DEF Inv, Types, Top
<1> HIDE DEF n
<1>2. \A i \in 1 .. n :
        /\ Reads(file, stack[i])
        /\ i < n => stack[i].at = "wait"
        /\ stack[i].logs <=> i = 1
        /\ stack[i].at \in Child => /\ i > 1
                                    /\ stack[i - 1].line = stack[i].line
                                    /\ stack[i - 1].ahead = stack[i].ahead
  BY <1>1 DEF Inv, Stacked, n
<1>3. ASSUME NEW i \in 1 .. n
      PROVE  /\ Reads(file, stack'[i])
             /\ i < n => stack'[i].at = "wait"
             /\ stack'[i].logs <=> i = 1
             /\ stack'[i].at \in Child => /\ i > 1
                                          /\ stack'[i - 1].line = stack'[i].line
                                          /\ stack'[i - 1].ahead = stack'[i].ahead
             /\ stack'[i].at = "close" => i = n
  <2>1. CASE i = n
    <3>1. i > 1 => i - 1 \in 1 .. n - 1
      BY <1>1, <2>1
    <3> QED BY <1>1, <1>2, <2>1, <3>1
  <2>2. CASE i # n
    <3>1. i \in 1 .. n - 1 /\ stack'[i] = stack[i] /\ stack[i].at = "wait"
      BY <1>1, <1>2, <2>2
    <3> QED BY <1>2, <3>1 DEF Child
  <2> QED BY <2>1, <2>2
<1>4. Stacked'
  BY <1>1, <1>3 DEF Stacked
<1>5. Stopped'
  <2>1. ASSUME NEW i \in 1 .. n, stack'[i].at = "close" PROVE Stops(stack[i])'
    <3>1. stack'[i] = q
      BY <1>1, <1>3, <2>1
    <3> QED BY <2>1, <3>1 DEF Stops
  <2> QED BY <1>1, <2>1 DEF Stopped, Stops
<1> QED BY <1>4, <1>5

(* It ends. *)
LEMMA DiesStacked ==
  ASSUME Inv, stack # <<>>, Dies, file' = file
  PROVE  Stacked' /\ Stopped'
<1> DEFINE n == Len(stack)
<1>1. /\ n \in Nat \ {0} /\ DOMAIN stack = 1 .. n
      /\ Len(stack') = n - 1 /\ DOMAIN stack' = 1 .. n - 1
      /\ \A i \in 1 .. n - 1 : stack'[i] = stack[i] /\ i \in DOMAIN stack /\ i < n
  <2>1. n \in Nat \ {0} /\ DOMAIN stack = 1 .. n
    <3>1. stack \in Seq(Proc)
      BY DEF Inv, Types
    <3> QED BY <3>1, LastOf
  <2>2. /\ Len(stack') = n - 1 /\ DOMAIN stack' = 1 .. n - 1
        /\ \A i \in 1 .. n - 1 : stack'[i] = stack[i]
    BY Dying
  <2> HIDE DEF n
  <2> QED BY <2>1, <2>2
<1>2. \A i \in 1 .. n - 1 : stack'[i].at = "wait" /\ stack'[i] = stack[i]
  BY <1>1 DEF Inv, Stacked
<1>3. Stacked'
  BY <1>1, <1>2 DEF Inv, Stacked, Child
<1> QED BY <1>1, <1>2, <1>3 DEF Stopped

(* The equations that are due are still tracked when the process on top    *)
(* goes on as q, or ends.                                                  *)
LEMMA BecomesTracked ==
  ASSUME Inv, stack # <<>>, NEW q \in Proc, Becomes(q), file' = file,
         \A i \in Due : Settled(i) => Settled(i)',
         \A i \in Due : Has(Top, i) => Has(q, i) \/ Settled(i)',
         \A i \in Due : offset < i /\ Upto(Top) < i =>
                          Has(q, i) \/ (offset' < i /\ Upto(q) < i)
  PROVE  Tracked'
<1> SUFFICES ASSUME NEW i \in Due, ~ Settled(i)'
             PROVE  Pending(i)' \/ Unread(i)'
  BY DEF Tracked, Due
<1> DEFINE n == Len(stack)
<1>1. /\ n \in Nat \ {0} /\ Top = stack[n] /\ DOMAIN stack = 1 .. n
      /\ DOMAIN stack' = 1 .. n /\ stack'[n] = q /\ stack' # <<>>
      /\ \A k \in 1 .. n - 1 : stack'[k] = stack[k]
  BY Becoming, LastOf DEF Inv, Types, Top
<1> HIDE DEF n
<1>2. \A k \in 1 .. n : k = n \/ (k \in 1 .. n - 1 /\ stack'[k] = stack[k])
  BY <1>1
<1>3. n \in 1 .. n
  BY <1>1
<1>4. Has(q, i) => Pending(i)'
  BY <1>1, <1>3 DEF Pending
<1>5. Pending(i) \/ Unread(i)
  BY DEF Inv, Tracked
<1>6. CASE Pending(i)
  <2>1. PICK k \in 1 .. n : Has(stack[k], i)
    BY <1>1, <1>6 DEF Pending
  <2>2. CASE k = n
    BY <1>1, <1>4, <2>1, <2>2
  <2>3. CASE k # n
    <3>1. k \in DOMAIN stack' /\ Has(stack'[k], i)
      BY <1>1, <1>2, <2>1, <2>3
    <3> QED BY <3>1 DEF Pending
  <2> QED BY <2>2, <2>3
<1>7. CASE Unread(i) /\ ~ Has(q, i)
  <2>1. /\ offset < i /\ Upto(Top) < i /\ \A k \in 1 .. n : Upto(stack[k]) < i
    BY <1>1, <1>3, <1>7 DEF Unread
  <2>2. offset' < i /\ Upto(q) < i
    BY <1>7, <2>1
  <2>3. \A k \in 1 .. n : Upto(stack'[k]) < i
    BY <1>1, <1>2, <2>1, <2>2
  <2> QED BY <1>1, <2>2, <2>3 DEF Unread
<1> QED BY <1>4, <1>5, <1>6, <1>7

LEMMA DiesTracked ==
  ASSUME Inv, stack # <<>>, Dies, file' = file, offset' \in Int, offset' <= offset,
         \A i \in Due : Settled(i) => Settled(i)',
         \A i \in Due : Has(Top, i) =>
           \/ Settled(i)'
           \/ \E k \in 1 .. Len(stack) - 1 : Has(stack[k], i),
         \A i \in Due : offset < i /\ Upto(Top) < i => Settled(i)' \/ Len(stack) # 1
  PROVE  Tracked'
<1> SUFFICES ASSUME NEW i \in Due, ~ Settled(i)'
             PROVE  Pending(i)' \/ Unread(i)'
  BY DEF Tracked, Due
<1> DEFINE n == Len(stack)
<1>1. /\ n \in Nat \ {0} /\ Top = stack[n] /\ DOMAIN stack = 1 .. n
      /\ DOMAIN stack' = 1 .. n - 1 /\ (stack' = <<>> <=> n = 1)
      /\ \A k \in 1 .. n - 1 : stack'[k] = stack[k]
  BY Dying, LastOf DEF Inv, Types, Top
<1>2. i \in Nat /\ offset \in Nat
  BY DEF Due, Inv, Types
<1>3. Pending(i) \/ Unread(i)
  BY DEF Inv, Tracked
<1>4. Has(Top, i) => \E k \in 1 .. n - 1 : Has(stack[k], i)
  OBVIOUS
<1>5. offset < i /\ Upto(Top) < i => n # 1
  OBVIOUS
<1> HIDE DEF n
<1>6. CASE Pending(i)
  <2>1. PICK k \in 1 .. n : Has(stack[k], i)
    BY <1>1, <1>6 DEF Pending
  <2>2. PICK m \in 1 .. n - 1 : Has(stack[m], i)
    <3>1. k = n \/ k \in 1 .. n - 1
      BY <1>1
    <3> QED BY <1>1, <1>4, <2>1, <3>1
  <2> QED BY <1>1, <2>2 DEF Pending
<1>7. CASE Unread(i)
  <2>1. /\ offset < i /\ \A k \in 1 .. n : Upto(stack[k]) < i
    BY <1>1, <1>7 DEF Unread
  <2>2. n \in 1 .. n /\ \A k \in 1 .. n - 1 : k \in 1 .. n
    BY <1>1
  <2>3. stack' # <<>>
    BY <1>1, <1>5, <2>1, <2>2
  <2>4. offset' < i
    BY <1>2, <2>1
  <2> QED BY <1>1, <2>1, <2>2, <2>3, <2>4 DEF Unread
<1> QED BY <1>3, <1>6, <1>7

-----------------------------------------------------------------------------
(* All but the readers, and the order without failures.                    *)
Base == Types /\ Stacked /\ Stopped /\ Tracked

LEMMA TopType ==
  ASSUME NEW p \in Proc
  PROVE  /\ p.line \in Nat /\ p.line \in 0 .. MaxLines /\ p.ahead \in Seq(LineNumbers)
         /\ p.held \in Seq(LineNumbers) /\ Len(p.ahead) \in Nat
         /\ p.at \in Places /\ p.logs \in BOOLEAN /\ Upto(p) \in Nat
<1>1. p.line \in 0 .. MaxLines /\ p.ahead \in Seq(LineNumbers)
      /\ p.held \in Seq(LineNumbers) /\ p.at \in Places /\ p.logs \in BOOLEAN
  BY DEF Proc
<1>2. p.line \in Nat /\ Len(p.ahead) \in Nat
  BY <1>1
<1> QED BY <1>1, <1>2 DEF Upto

(* Waiting is over, or a program is executed, or that fails. *)
LEMMA GoesOnBase ==
  ASSUME Inv, NEW at, Runs(at), NEW q \in Proc, Becomes(q),
         q.line = Top.line, q.ahead = Top.ahead, q.logs = Top.logs,
         UNCHANGED <<file, offset, answers, log>>,
         failed' \in Seq({"fork", "exec", "open", "crash"} \X (0 .. MaxLines)),
         \A i \in Due : Settled(i) => Settled(i)',
         q.at \in {"read"} \union Child, at # "fork", q.at \in Child => at \in Child,
         at \in Child => q.at \in Child \/ \A i \in Due : i = Top.line => Settled(i)'
  PROVE  Base'
<1>1. /\ stack # <<>> /\ Top \in Proc /\ Top.at = at /\ Reads(file, Top)
  BY Running
<1>2. Upto(q) = Upto(Top)
  BY DEF Upto
<1>3. Reads(file, q)
  BY <1>1, <1>2 DEF Reads, Child
<1>4. Stacked' /\ Stopped'
  BY <1>1, <1>3, BecomesStacked DEF Child
<1>5. Types'
  BY <1>1, Becoming DEF Inv, Types
<1>6. \A i \in Due : Has(Top, i) => Has(q, i) \/ Settled(i)'
  BY <1>1, <1>2 DEF Has
<1>7. Tracked'
  BY <1>1, <1>2, <1>6, BecomesTracked
<1> QED BY <1>4, <1>5, <1>7 DEF Base

LEMMA WaitedEffect ==
  ASSUME Inv, Waited
  PROVE  \E q \in Proc :
           /\ Runs("wait") /\ Becomes(q) /\ UNCHANGED <<file, offset, answers, log, failed>>
           /\ q.line = Top.line /\ q.ahead = Top.ahead /\ q.logs = Top.logs /\ q.at = "read"
           /\ Top.logs => q.held = Append(Top.held, Top.line)
<1> DEFINE q == [Top EXCEPT !.at = "read",
                          !.held = IF Top.logs THEN Append(@, Top.line) ELSE @]
<1>1. Runs("wait") /\ Becomes(q) /\ UNCHANGED <<file, offset, answers, log, failed>>
  BY DEF Waited
<1>2. Top \in Proc /\ Top.at = "wait" /\ Reads(file, Top)
  BY <1>1, Running
<1>3. /\ q.line = Top.line /\ q.ahead = Top.ahead /\ q.logs = Top.logs /\ q.at = "read"
      /\ q.held = IF Top.logs THEN Append(Top.held, Top.line) ELSE Top.held
  BY <1>2 DEF Proc
<1>4. Top.line \in LineNumbers
  BY <1>2, TopType DEF Reads, LineNumbers
<1>5. q \in Proc
  <2>1. Append(Top.held, Top.line) \in Seq(LineNumbers)
    BY <1>2, <1>4, TopType
  <2> QED BY <1>2, <2>1 DEF Proc, Places
<1> HIDE DEF q
<1> QED BY <1>1, <1>3, <1>5

LEMMA WaitedBase == ASSUME Inv, Waited PROVE Base'
<1>1. PICK q \in Proc :
        /\ Runs("wait") /\ Becomes(q) /\ UNCHANGED <<file, offset, answers, log, failed>>
        /\ q.line = Top.line /\ q.ahead = Top.ahead /\ q.logs = Top.logs /\ q.at = "read"
  BY WaitedEffect
<1>2. /\ \A i \in Due : Settled(i) => Settled(i)'
      /\ failed' \in Seq({"fork", "exec", "open", "crash"} \X (0 .. MaxLines))
  BY <1>1 DEF Calls, Settled, Failures, Inv, Types
<1> QED BY <1>1, <1>2, GoesOnBase DEF Child

LEMMA ExecBase == ASSUME Inv, Exec PROVE Base'
<1> DEFINE q == [Top EXCEPT !.at = "solve"]
<1>1. Runs("child") /\ Becomes(q) /\ UNCHANGED <<file, offset, answers, log, failed>>
  BY DEF Exec
<1>2. Top \in Proc
  BY <1>1, Running
<1>3. /\ q.line = Top.line /\ q.ahead = Top.ahead /\ q.logs = Top.logs /\ q.at = "solve"
      /\ q \in Proc
  BY <1>2 DEF Proc, Places
<1> HIDE DEF q
<1>4. /\ \A i \in Due : Settled(i) => Settled(i)'
      /\ failed' \in Seq({"fork", "exec", "open", "crash"} \X (0 .. MaxLines))
  BY <1>1 DEF Calls, Settled, Failures, Inv, Types
<1> QED BY <1>1, <1>3, <1>4, GoesOnBase DEF Child

LEMMA ExecFailsBase == ASSUME Inv, ExecFails PROVE Base'
<1> DEFINE q == [Top EXCEPT !.at = "read"]
<1>1. /\ Runs("child") /\ Fails("exec") /\ Becomes(q)
      /\ UNCHANGED <<file, offset, answers, log>>
  BY DEF ExecFails
<1>2. Top \in Proc
  BY <1>1, Running
<1>3. /\ q.line = Top.line /\ q.ahead = Top.ahead /\ q.logs = Top.logs /\ q.at = "read"
      /\ q \in Proc
  BY <1>2 DEF Proc, Places
<1> HIDE DEF q
<1>4. /\ failed' \in Seq({"fork", "exec", "open", "crash"} \X (0 .. MaxLines))
      /\ Failures("exec")' = Failures("exec") \union {Top.line}
      /\ \A w \in {"open", "fork", "crash"} : Failures(w)' = Failures(w)
  BY <1>1, Failing
<1>5. \A i : Settled(i) \/ i = Top.line => Settled(i)'
  BY <1>1, <1>4 DEF Settled
<1> QED BY <1>1, <1>3, <1>4, <1>5, GoesOnBase DEF Child

(* A line is read, from those read ahead or from the file. *)
LEMMA ReadEffect ==
  ASSUME Inv, Read
  PROVE  \E q \in Proc :
    /\ Becomes(q) /\ q.logs = Top.logs /\ q.held = Top.held /\ Reads(file, q)
    /\ UNCHANGED <<file, answers, log, failed>> /\ offset' \in 0 .. Len(file)
    /\ \/ /\ q.at = "close" /\ q.line = Top.line /\ q.ahead = <<>> /\ Top.ahead = <<>>
          /\ offset' = offset /\ offset = Len(file)
       \/ /\ q.at = IF file[q.line] = "equation" THEN "fork" ELSE "close"
          /\ q.line \in 1 .. Len(file)
          /\ \/ /\ Top.ahead # <<>> /\ q.line = Top.line + 1 /\ Upto(q) = Upto(Top)
                /\ offset' = offset
             \/ /\ Top.ahead = <<>> /\ q.line = offset + 1 /\ Upto(q) = offset'
                /\ offset < offset'
<1> DEFINE t   == Top
           got == IF t.ahead = <<>> THEN NextBlock ELSE t.ahead
           q   == IF got = <<>> THEN [t EXCEPT !.at = "close"]
                  ELSE [t EXCEPT !.line = Head(got), !.ahead = Tail(got),
                                 !.at = IF file[Head(got)] = "equation"
                                        THEN "fork" ELSE "close"]
<1>1. /\ Runs("read") /\ Becomes(q) /\ UNCHANGED <<file, answers, log, failed>>
      /\ offset' = IF t.ahead = <<>> THEN offset + Len(got) ELSE offset
  BY DEF Read
<1>2. /\ t \in Proc /\ t.at = "read" /\ Upto(t) <= Len(file)
      /\ \A k \in DOMAIN t.ahead : t.ahead[k] = t.line + k
  BY <1>1, Running DEF Reads
<1>3. /\ t.line \in Nat /\ t.ahead \in Seq(LineNumbers) /\ Len(t.ahead) \in Nat
      /\ Upto(t) = t.line + Len(t.ahead)
  BY <1>2, TopType DEF Upto
<1>4. /\ offset \in Nat /\ Len(file) \in Nat /\ offset <= Len(file) /\ Len(file) <= MaxLines
      /\ Block \in Nat \ {0} /\ MaxLines \in Nat
  BY EquationsAssumption DEF Inv, Types
<1> DEFINE b == IF offset + Block <= Len(file) THEN Block ELSE Len(file) - offset
<1>5. /\ b \in Nat /\ offset + b <= Len(file) /\ (b = 0 => offset = Len(file))
      /\ NextBlock = [i \in 1 .. b |-> offset + i]
  BY <1>4 DEF NextBlock
<1> HIDE DEF b
<1>6. /\ NextBlock \in Seq(LineNumbers) /\ Len(NextBlock) = b
      /\ \A i \in 1 .. b : NextBlock[i] = offset + i
  <2>1. \A i \in 1 .. b : offset + i \in LineNumbers
    BY <1>4, <1>5 DEF LineNumbers
  <2> QED BY <1>5, <2>1
<1> DEFINE base == IF t.ahead = <<>> THEN offset ELSE t.line
<1>7. /\ got \in Seq(LineNumbers) /\ Len(got) \in Nat /\ base \in Nat
      /\ \A k \in 1 .. Len(got) : got[k] = base + k
      /\ base + Len(got) <= Len(file)
      /\ got = <<>> => t.ahead = <<>> /\ offset = Len(file)
  <2>1. CASE t.ahead = <<>>
    BY <1>4, <1>5, <1>6, <2>1
  <2>2. CASE t.ahead # <<>>
    BY <1>2, <1>3, <2>2
  <2> QED BY <2>1, <2>2
<1>8. CASE got = <<>>
  <2>1. q = [t EXCEPT !.at = "close"] /\ t.ahead = <<>> /\ offset = Len(file)
    BY <1>7, <1>8
  <2>2. Len(got) = 0
    BY <1>8
  <2> HIDE DEF got, base
  <2>3. offset' = offset
    BY <1>1, <1>4, <2>1, <2>2
  <2>4. /\ q \in Proc /\ q.at = "close" /\ q.line = t.line /\ q.ahead = t.ahead
        /\ q.logs = t.logs /\ q.held = t.held
    BY <1>2, <2>1 DEF Proc, Places
  <2>5. Reads(file, q)
    BY <1>2, <2>4 DEF Reads, Upto, Child
  <2>6. offset' \in 0 .. Len(file) /\ q.ahead = <<>>
    BY <1>4, <2>1, <2>3, <2>4
  <2>7. Becomes(q) /\ UNCHANGED <<file, answers, log, failed>>
    BY <1>1
  <2> HIDE DEF q
  <2> QED BY <2>1, <2>3, <2>4, <2>5, <2>6, <2>7
<1>9. CASE got # <<>>
  <2> DEFINE h == Head(got)
             r == Tail(got)
  <2>1. /\ q = [t EXCEPT !.line = h, !.ahead = r,
                         !.at = IF file[h] = "equation" THEN "fork" ELSE "close"]
    BY <1>9
  <2> HIDE DEF q
  <2>2. /\ h \in LineNumbers /\ r \in Seq(LineNumbers) /\ Len(r) = Len(got) - 1
        /\ Len(got) \in Nat \ {0} /\ h = got[1]
        /\ \A k \in 1 .. Len(r) : r[k] = got[k + 1]
    <3> HIDE DEF got, base
    <3> QED BY <1>7, <1>9
  <2>3. t.ahead = <<>> => offset' = offset + Len(got) /\ base = offset
    BY <1>1
  <2>4. t.ahead # <<>> => offset' = offset /\ base = t.line /\ Len(got) = Len(t.ahead)
    BY <1>1
  <2> HIDE DEF got, base, h, r
  <2>5. /\ h = base + 1 /\ DOMAIN r = 1 .. Len(r) /\ \A k \in DOMAIN r : r[k] = h + k
        /\ h + Len(r) = base + Len(got) /\ h + Len(r) <= Len(file)
        /\ h >= 1 /\ h <= Len(file) /\ h \in Nat
    <3>1. h = base + 1 /\ h + Len(r) = base + Len(got) /\ h \in Nat
      BY <1>7, <2>2
    <3>2. DOMAIN r = 1 .. Len(r) /\ Len(r) \in Nat
      BY <2>2
    <3>3. \A k \in 1 .. Len(r) : r[k] = h + k
      BY <1>7, <2>2, <3>1, <3>2
    <3> QED BY <1>4, <1>7, <3>1, <3>2, <3>3
  <2>6. /\ q \in Proc /\ q.line = h /\ q.ahead = r /\ q.logs = t.logs /\ q.held = t.held
        /\ q.at = IF file[h] = "equation" THEN "fork" ELSE "close"
    <3>1. h \in 0 .. MaxLines
      BY <1>4, <2>2 DEF LineNumbers
    <3> QED BY <1>2, <2>1, <2>2, <3>1 DEF Proc, Places
  <2>7. Upto(q) = base + Len(got)
    BY <2>5, <2>6 DEF Upto
  <2>8. Reads(file, q)
    BY <2>5, <2>6, <2>7 DEF Reads, Child, Upto
  <2>9. h \in 1 .. Len(file)
    BY <1>4, <2>5
  <2>10. CASE t.ahead = <<>>
    <3>1. Upto(q) = offset' /\ offset < offset' /\ offset' \in 0 .. Len(file) /\ h = offset + 1
      BY <1>4, <1>7, <2>2, <2>3, <2>5, <2>7, <2>10
    <3> QED BY <1>1, <2>6, <2>8, <2>9, <2>10, <3>1
  <2>11. CASE t.ahead # <<>>
    <3>1. offset' = offset /\ base = t.line /\ Len(got) = Len(t.ahead)
      BY <2>4, <2>11
    <3>2. Upto(t) = t.line + Len(t.ahead) /\ offset' \in 0 .. Len(file)
      BY <1>3, <1>4, <2>11, <3>1 DEF Upto
    <3>3. Upto(q) = Upto(t) /\ h = t.line + 1
      BY <2>5, <2>7, <3>1, <3>2
    <3> QED BY <1>1, <2>6, <2>8, <2>9, <2>11, <3>1, <3>2, <3>3
  <2> QED BY <2>10, <2>11
<1> QED BY <1>8, <1>9

LEMMA DueIs ==
  ASSUME Inv, NEW i \in Due
  PROVE  /\ i \in Nat \ {0} /\ i <= Len(file) /\ Len(file) \in Nat
         /\ \A k \in 1 .. i : file[k] = "equation"
BY DEF Due, Inv, Types

LEMMA ReadBase == ASSUME Inv, Read PROVE Base'
<1>1. PICK q \in Proc :
        /\ Becomes(q) /\ q.logs = Top.logs /\ q.held = Top.held /\ Reads(file, q)
        /\ UNCHANGED <<file, answers, log, failed>> /\ offset' \in 0 .. Len(file)
        /\ \/ /\ q.at = "close" /\ q.line = Top.line /\ q.ahead = <<>> /\ Top.ahead = <<>>
              /\ offset' = offset /\ offset = Len(file)
           \/ /\ q.at = IF file[q.line] = "equation" THEN "fork" ELSE "close"
              /\ q.line \in 1 .. Len(file)
              /\ \/ /\ Top.ahead # <<>> /\ q.line = Top.line + 1 /\ Upto(q) = Upto(Top)
                    /\ offset' = offset
                 \/ /\ Top.ahead = <<>> /\ q.line = offset + 1 /\ Upto(q) = offset'
                    /\ offset < offset'
  BY ReadEffect
<1>2. stack # <<>> /\ Top \in Proc /\ Top.at = "read"
  BY Running DEF Read
<1>3. /\ file \in Seq({"equation", "other"}) /\ Len(file) \in Nat /\ offset \in Nat
      /\ q.line \in Nat /\ Top.line \in Nat /\ Upto(q) \in Nat /\ Upto(Top) \in Nat
      /\ (Top.ahead = <<>> => Upto(Top) = Top.line) /\ (q.ahead = <<>> => Upto(q) = q.line)
  <2>1. file \in Seq({"equation", "other"}) /\ Len(file) \in Nat /\ offset \in Nat
    BY DEF Inv, Types
  <2>2. /\ q.line \in Nat /\ Top.line \in Nat /\ Upto(q) \in Nat /\ Upto(Top) \in Nat
    BY <1>2, TopType
  <2>3. \A p \in Proc : p.ahead = <<>> => Upto(p) = p.line
    <3>1. \A p \in Proc : p.line \in Nat /\ (p.ahead = <<>> => Len(p.ahead) = 0)
      BY TopType
    <3> QED BY <3>1 DEF Upto
  <2> QED BY <1>2, <2>1, <2>2, <2>3
<1>4. q.at = "close" => Stops(q)'
  <2>1. ASSUME q.at = "close", q.line \in 1 .. Len(file), file[q.line] # "equation"
        PROVE  q.line >= 1 /\ file[q.line] = "other"
    BY <1>3, <2>1
  <2> QED BY <1>1, <2>1 DEF Stops
<1>5. Stacked' /\ Stopped'
  BY <1>1, <1>2, <1>4, BecomesStacked DEF Child
<1>6. Types'
  BY <1>1, <1>2, Becoming DEF Inv, Types
<1>7. \A i \in Due : Settled(i) => Settled(i)'
  BY <1>1 DEF Calls, Settled, Failures
<1>8. ASSUME NEW i \in Due
      PROVE  /\ Has(Top, i) => Has(q, i)
             /\ offset < i /\ Upto(Top) < i => Has(q, i) \/ (offset' < i /\ Upto(q) < i)
  <2>1. i \in Nat \ {0} /\ i <= Len(file) /\ file[i] = "equation"
    BY DueIs
  <2>2. Has(Top, i) <=> Top.line < i /\ i <= Upto(Top)
    BY <1>2 DEF Has, Child
  <2>3. CASE q.line = Top.line /\ Top.ahead = <<>> /\ q.ahead = <<>> /\ offset' = offset
    <3>1. ~ Has(Top, i) /\ Upto(q) = Upto(Top)
      BY <1>3, <2>1, <2>2, <2>3
    <3> QED BY <2>3, <3>1
  <2>4. CASE /\ q.at = IF file[q.line] = "equation" THEN "fork" ELSE "close"
             /\ Top.ahead # <<>> /\ q.line = Top.line + 1 /\ Upto(q) = Upto(Top)
             /\ offset' = offset
    <3>1. Has(Top, i) => Has(q, i)
      <4>1. CASE i = q.line
        BY <2>1, <2>4, <4>1 DEF Has
      <4>2. CASE i # q.line
        BY <1>3, <2>1, <2>2, <2>4, <4>2 DEF Has
      <4> QED BY <4>1, <4>2
    <3> QED BY <2>4, <3>1
  <2>5. CASE /\ q.at = IF file[q.line] = "equation" THEN "fork" ELSE "close"
             /\ Top.ahead = <<>> /\ q.line = offset + 1 /\ Upto(q) = offset'
    <3>1. ~ Has(Top, i)
      BY <1>3, <2>1, <2>2, <2>5
    <3>2. CASE i = q.line
      BY <2>1, <2>5, <3>1, <3>2 DEF Has
    <3>3. CASE i # q.line
      BY <1>3, <2>1, <2>5, <3>1, <3>3 DEF Has
    <3> QED BY <3>2, <3>3
  <2> QED BY <1>1, <2>3, <2>4, <2>5
<1>9. Tracked'
  BY <1>1, <1>2, <1>7, <1>8, BecomesTracked
<1> QED BY <1>5, <1>6, <1>9 DEF Base

(* The process goes on to wait, above it is the child. *)
LEMMA ForkEffect ==
  ASSUME Inv, Fork
  PROVE  \E q, r \in Proc :
    /\ q = [Top EXCEPT !.at = "wait"]
    /\ q.at = "wait" /\ q.line = Top.line /\ q.ahead = Top.ahead
    /\ q.held = Top.held /\ q.logs = Top.logs
    /\ r.at = "child" /\ r.line = Top.line /\ r.ahead = Top.ahead /\ r.logs = FALSE
    /\ stack' \in Seq(Proc) /\ Len(stack') = Len(stack) + 1 /\ stack' # <<>>
    /\ DOMAIN stack' = 1 .. Len(stack) + 1
    /\ stack'[Len(stack)] = q /\ stack'[Len(stack) + 1] = r
    /\ \A i \in 1 .. Len(stack) - 1 : stack'[i] = stack[i]
    /\ UNCHANGED <<file, offset, answers, log, failed>>
<1> DEFINE q == [Top EXCEPT !.at = "wait"]
           r == Process("child", Top.line, Top.ahead, Top.held, FALSE)
<1>1. /\ stack' = Front(stack) \o <<q, r>> /\ Runs("fork")
      /\ UNCHANGED <<file, offset, answers, log, failed>>
  BY DEF Fork
<1>2. /\ stack \in Seq(Proc) /\ stack # <<>> /\ Top \in Proc
  BY <1>1, Running
<1>3. /\ q \in Proc /\ q.at = "wait" /\ q.line = Top.line /\ q.ahead = Top.ahead
      /\ q.held = Top.held /\ q.logs = Top.logs /\ q = [Top EXCEPT !.at = "wait"]
  BY <1>2 DEF Proc, Places
<1>4. /\ r \in Proc /\ r.at = "child" /\ r.line = Top.line /\ r.ahead = Top.ahead
      /\ r.logs = FALSE
  BY <1>2 DEF Proc, Places, Process
<1> HIDE DEF q, r
<1> DEFINE t == Front(stack) \o <<q, r>>
<1>5. /\ t \in Seq(Proc) /\ Len(t) = Len(stack) + 1 /\ t # <<>>
      /\ t[Len(stack)] = q /\ t[Len(stack) + 1] = r
      /\ \A i \in 1 .. Len(stack) - 1 : t[i] = stack[i]
  <2>1. stack \in Seq(Proc) /\ stack # <<>> /\ q \in Proc /\ r \in Proc
    BY <1>2, <1>3, <1>4
  <2> QED BY <2>1, Pushed, SMTT(60)
<1>6. stack' = t
  BY <1>1
<1> HIDE DEF t
<1>7. DOMAIN t = 1 .. Len(t)
  BY <1>5
<1>8. DOMAIN stack' = 1 .. Len(stack) + 1
  BY <1>5, <1>6, <1>7
<1>9. /\ stack' \in Seq(Proc) /\ Len(stack') = Len(stack) + 1 /\ stack' # <<>>
      /\ stack'[Len(stack)] = q /\ stack'[Len(stack) + 1] = r
      /\ \A i \in 1 .. Len(stack) - 1 : stack'[i] = stack[i]
  BY <1>5, <1>6
<1> DEFINE Effect(a, b) ==
      /\ a = [Top EXCEPT !.at = "wait"]
      /\ a.at = "wait" /\ a.line = Top.line /\ a.ahead = Top.ahead
      /\ a.held = Top.held /\ a.logs = Top.logs
      /\ b.at = "child" /\ b.line = Top.line /\ b.ahead = Top.ahead /\ b.logs = FALSE
      /\ stack' \in Seq(Proc) /\ Len(stack') = Len(stack) + 1 /\ stack' # <<>>
      /\ DOMAIN stack' = 1 .. Len(stack) + 1
      /\ stack'[Len(stack)] = a /\ stack'[Len(stack) + 1] = b
      /\ \A i \in 1 .. Len(stack) - 1 : stack'[i] = stack[i]
      /\ UNCHANGED <<file, offset, answers, log, failed>>
<1>10. Effect(q, r)
  BY <1>1, <1>3, <1>4, <1>8, <1>9
<1> HIDE DEF Effect
<1>11. \E a, b \in Proc : Effect(a, b)
  BY <1>3, <1>4, <1>10
<1> QED BY <1>11 DEF Effect

LEMMA ForkBase == ASSUME Inv, Fork PROVE Base'
<1> DEFINE n == Len(stack)
<1>1. PICK q \in Proc, r \in Proc :
        /\ q.at = "wait" /\ q.line = Top.line /\ q.ahead = Top.ahead /\ q.logs = Top.logs
        /\ r.at = "child" /\ r.line = Top.line /\ r.ahead = Top.ahead /\ r.logs = FALSE
        /\ stack' \in Seq(Proc) /\ Len(stack') = n + 1 /\ stack' # <<>>
        /\ DOMAIN stack' = 1 .. n + 1 /\ stack'[n] = q /\ stack'[n + 1] = r
        /\ \A i \in 1 .. n - 1 : stack'[i] = stack[i]
        /\ UNCHANGED <<file, offset, answers, log, failed>>
  BY ForkEffect
<1>2. /\ n \in Nat \ {0} /\ DOMAIN stack = 1 .. n /\ Top = stack[n] /\ Top \in Proc
      /\ Top.at = "fork" /\ Reads(file, Top) /\ (Top.logs <=> n = 1)
  BY Running DEF Fork
<1>3. Reads(file, q) /\ Reads(file, r) /\ Upto(q) = Upto(Top) /\ Upto(r) = Upto(Top)
  BY <1>1, <1>2 DEF Reads, Upto, Child
<1> HIDE DEF n
<1>4. \A i \in 1 .. n :
        /\ Reads(file, stack[i]) /\ (i < n => stack[i].at = "wait")
        /\ stack[i].logs <=> i = 1
  BY <1>2 DEF Inv, Stacked, n
<1>5. \A i \in 1 .. n + 1 :
        \/ i \in 1 .. n - 1 /\ i < n /\ i \in 1 .. n /\ stack'[i] = stack[i]
        \/ i = n /\ stack'[i] = q
        \/ i = n + 1 /\ i > 1 /\ stack'[i] = r /\ stack'[i - 1] = q
  BY <1>1, <1>2
<1>6. Stacked'
  <2>1. ASSUME NEW i \in 1 .. n + 1
        PROVE  /\ Reads(file, stack'[i])
               /\ i < n + 1 => stack'[i].at = "wait"
               /\ stack'[i].logs <=> i = 1
               /\ stack'[i].at \in Child => /\ i > 1
                                            /\ stack'[i - 1].line = stack'[i].line
                                            /\ stack'[i - 1].ahead = stack'[i].ahead
    <3>1. CASE i \in 1 .. n - 1 /\ i < n /\ i \in 1 .. n /\ stack'[i] = stack[i]
      BY <1>4, <3>1 DEF Child
    <3>2. CASE i = n /\ stack'[i] = q
      BY <1>1, <1>2, <1>3, <3>2 DEF Child
    <3>3. CASE i = n + 1 /\ i > 1 /\ stack'[i] = r /\ stack'[i - 1] = q
      BY <1>1, <1>2, <1>3, <3>3
    <3> QED BY <1>5, <3>1, <3>2, <3>3
  <2> QED BY <1>1, <2>1 DEF Stacked
<1>7. Stopped'
  BY <1>1, <1>2, <1>4, <1>5 DEF Stopped
<1>8. Types'
  BY <1>1 DEF Inv, Types
<1>9. Tracked'
  <2> SUFFICES ASSUME NEW i \in Due, ~ Settled(i)
               PROVE  Pending(i)' \/ Unread(i)'
    BY <1>1 DEF Tracked, Due, Calls, Settled, Failures
  <2>1. Pending(i) \/ Unread(i)
    BY DEF Inv, Tracked
  <2>2. CASE Pending(i)
    <3>1. PICK k \in 1 .. n : Has(stack[k], i)
      BY <1>2, <2>2 DEF Pending
    <3>2. CASE k = n
      <4>1. Has(r, i)
        BY <1>1, <1>2, <1>3, <3>1, <3>2 DEF Has, Child
      <4>2. n + 1 \in DOMAIN stack'
        BY <1>1, <1>2
      <4> QED BY <1>1, <4>1, <4>2 DEF Pending
    <3>3. CASE k # n
      <4>1. k \in 1 .. n - 1 /\ k \in DOMAIN stack'
        BY <1>1, <1>2, <3>3
      <4> QED BY <1>1, <3>1, <4>1 DEF Pending
    <3> QED BY <3>2, <3>3
  <2>3. CASE Unread(i)
    <3>1. n \in 1 .. n
      BY <1>2
    <3>2. offset < i /\ Upto(Top) < i /\ \A k \in 1 .. n : Upto(stack[k]) < i
      BY <1>2, <2>3, <3>1 DEF Unread
    <3>3. \A k \in 1 .. n + 1 : Upto(stack'[k]) < i
      BY <1>3, <1>5, <3>2
    <3> QED BY <1>1, <3>2, <3>3 DEF Unread
  <2> QED BY <2>1, <2>2, <2>3
<1> QED BY <1>6, <1>7, <1>8, <1>9 DEF Base

LEMMA ForkFailsBase == ASSUME Inv, ForkFails PROVE Base'
<1>1. /\ Runs("fork") /\ Fails("fork") /\ Becomes([Top EXCEPT !.at = "close"])
      /\ UNCHANGED <<file, offset, answers, log>>
  BY DEF ForkFails
<1>2. stack # <<>> /\ Top \in Proc /\ Top.at = "fork" /\ Reads(file, Top)
  BY <1>1, Running
<1>3. PICK q \in Proc :
        /\ Becomes(q) /\ q.line = Top.line /\ q.ahead = Top.ahead /\ q.logs = Top.logs
        /\ q.at = "close"
  BY <1>1, <1>2 DEF Proc, Places
<1>4. /\ failed' \in Seq({"fork", "exec", "open", "crash"} \X (0 .. MaxLines))
      /\ Failures("fork")' = Failures("fork") \union {Top.line}
      /\ \A w \in {"open", "exec", "crash"} : Failures(w)' = Failures(w)
  BY <1>1, Failing
<1>5. Reads(file, q)
  BY <1>2, <1>3 DEF Reads, Upto, Child
<1>6. Stacked' /\ Stopped'
  <2>1. q.line >= 1 /\ q.line \in Failures("fork")'
    BY <1>2, <1>3, <1>4 DEF Reads
  <2>2. Stops(q)'
    BY <2>1 DEF Stops
  <2> QED BY <1>1, <1>2, <1>3, <1>5, <2>2, BecomesStacked DEF Child
<1>7. Types'
  BY <1>1, <1>2, <1>3, <1>4, Becoming DEF Inv, Types
<1>8. \A i \in Due : Settled(i) => Settled(i)'
  BY <1>1, <1>4 DEF Settled
<1>9. Upto(q) = Upto(Top)
  BY <1>3 DEF Upto
<1>10. \A i \in Due : Has(Top, i) => Settled(i)'
  <2>1. \A i \in Due : Has(Top, i) => Top.line <= i
    BY <1>2, TopType, DueIs DEF Has
  <2> QED BY <1>4, <2>1 DEF Settled
<1>11. Tracked'
  BY <1>1, <1>2, <1>3, <1>8, <1>9, <1>10, BecomesTracked
<1> QED BY <1>6, <1>7, <1>11 DEF Base

(* A child, or the solver, ends: its parent has all it had but its line,   *)
(* and that is settled.                                                    *)
LEMMA ChildEndsBase ==
  ASSUME Inv, NEW at \in Child, Runs(at), Dies, UNCHANGED <<file, offset, log>>,
         answers' \in Seq(LineNumbers),
         failed' \in Seq({"fork", "exec", "open", "crash"} \X (0 .. MaxLines)),
         \A i : Settled(i) \/ i = Top.line => Settled(i)'
  PROVE  Base'
<1> DEFINE n == Len(stack)
<1>1. /\ stack # <<>> /\ n \in Nat \ {0} /\ DOMAIN stack = 1 .. n /\ Top = stack[n]
      /\ Top \in Proc /\ Top.at = at
  BY Running
<1>2. Stacked' /\ Stopped'
  BY <1>1, DiesStacked
<1>3. Types'
  BY <1>1, Dying, Zenon DEF Inv, Types
<1>4. n > 1 /\ stack[n - 1].line = Top.line /\ stack[n - 1].ahead = Top.ahead
  <2>1. n \in DOMAIN stack
    BY <1>1
  <2> QED BY <1>1, <2>1 DEF Inv, Stacked
<1>5. n - 1 \in 1 .. n - 1 /\ n # 1
  BY <1>1, <1>4
<1> HIDE DEF n
<1>6. ASSUME NEW i \in Due, Has(Top, i)
      PROVE  Settled(i)' \/ \E k \in 1 .. n - 1 : Has(stack[k], i)
  <2>1. CASE i = Top.line
    BY <2>1
  <2>2. CASE i # Top.line
    <3>1. Has(stack[n - 1], i)
      BY <1>4, <1>6, <2>2 DEF Has, Upto
    <3> QED BY <1>5, <3>1
  <2> QED BY <2>1, <2>2
<1>7. offset' \in Int /\ offset' <= offset
  BY DEF Inv, Types
<1>8. Tracked'
  BY <1>1, <1>5, <1>6, <1>7, DiesTracked DEF n
<1> QED BY <1>2, <1>3, <1>8 DEF Base

LEMMA SolveBase == ASSUME Inv, Solve PROVE Base'
<1>1. /\ Runs("solve") /\ Dies /\ answers' = Append(answers, Top.line)
      /\ UNCHANGED <<file, offset, log, failed>>
  BY DEF Solve
<1>2. /\ Top \in Proc /\ Top.at = "solve" /\ Reads(file, Top)
  BY <1>1, Running
<1>3. Top.line \in LineNumbers /\ answers \in Seq(LineNumbers)
  BY <1>2, TopType DEF Reads, Child, LineNumbers, Inv, Types
<1> DEFINE l == Top.line
<1> HIDE DEF l
<1>4. /\ answers' \in Seq(LineNumbers) /\ DOMAIN answers = 1 .. Len(answers)
      /\ DOMAIN answers' = 1 .. Len(answers) + 1 /\ Len(answers) \in Nat
      /\ answers'[Len(answers) + 1] = l
      /\ \A k \in 1 .. Len(answers) : answers'[k] = answers[k]
  BY <1>1, <1>3, Appended DEF l
<1>5. \A i : i \in ToSet(answers) \/ i = l => i \in ToSet(answers)'
  <2>1. \A k \in DOMAIN answers : k \in DOMAIN answers' /\ answers'[k] = answers[k]
    BY <1>4
  <2>2. Len(answers) + 1 \in DOMAIN answers'
    BY <1>4
  <2> QED BY <1>4, <2>1, <2>2 DEF ToSet
<1>6. \A i : Settled(i) \/ i = Top.line => Settled(i)'
  BY <1>1, <1>5 DEF Settled, Failures, Calls, l
<1>7. failed' \in Seq({"fork", "exec", "open", "crash"} \X (0 .. MaxLines))
  BY <1>1 DEF Inv, Types
<1> QED BY <1>1, <1>4, <1>6, <1>7, ChildEndsBase DEF Child

LEMMA OpenFailsBase == ASSUME Inv, OpenFails PROVE Base'
<1>1. PICK at \in Child : Runs(at)
  BY DEF OpenFails, Child
<1>2. Fails("open") /\ Dies /\ UNCHANGED <<file, offset, answers, log>>
  BY DEF OpenFails
<1>3. /\ failed' \in Seq({"fork", "exec", "open", "crash"} \X (0 .. MaxLines))
      /\ Failures("open")' = Failures("open") \union {Top.line}
      /\ \A w \in {"exec", "fork", "crash"} : Failures(w)' = Failures(w)
  BY <1>1, <1>2, Failing
<1>4. \A i : Settled(i) \/ i = Top.line => Settled(i)'
  BY <1>2, <1>3 DEF Settled
<1>5. answers' \in Seq(LineNumbers)
  BY <1>2 DEF Inv, Types
<1> QED BY <1>1, <1>2, <1>3, <1>4, <1>5, ChildEndsBase

LEMMA CrashBase == ASSUME Inv, Crash PROVE Base'
<1>1. /\ Runs("read") /\ ~ Top.logs /\ Fails("crash") /\ Dies
      /\ UNCHANGED <<file, offset, answers, log>>
  BY DEF Crash
<1>2. stack # <<>> /\ Top \in Proc /\ Top.at = "read" /\ Len(stack) # 1
  BY <1>1, Running
<1>3. /\ failed' \in Seq({"fork", "exec", "open", "crash"} \X (0 .. MaxLines))
      /\ Failures("crash")' = Failures("crash") \union {Top.line}
      /\ \A w \in {"open", "exec", "fork"} : Failures(w)' = Failures(w)
  BY <1>1, Failing
<1>4. Stacked' /\ Stopped'
  BY <1>1, <1>2, DiesStacked
<1>5. Types'
  BY <1>1, <1>2, <1>3, Dying DEF Inv, Types
<1>6. \A i \in Due : Settled(i) => Settled(i)'
  BY <1>1, <1>3 DEF Settled
<1>7. \A i \in Due : Has(Top, i) => Settled(i)'
  <2>1. \A i \in Due : Has(Top, i) => Top.line < i
    BY <1>2 DEF Has, Child
  <2> QED BY <1>3, <2>1 DEF Settled
<1>8. offset' \in Int /\ offset' <= offset
  BY <1>1 DEF Inv, Types
<1>9. Tracked'
  BY <1>1, <1>2, <1>6, <1>7, <1>8, DiesTracked
<1> QED BY <1>4, <1>5, <1>9 DEF Base

(* Who closes has no equation left that is due. *)
LEMMA CloseEffect ==
  ASSUME Inv, Close
  PROVE  /\ stack # <<>> /\ Runs("close") /\ Dies /\ Top \in Proc /\ Reads(file, Top)
         /\ Stops(Top) /\ UNCHANGED <<file, answers, failed>>
         /\ offset' \in 0 .. offset /\ offset' \in {offset, offset - Len(Top.ahead)}
         /\ log' \in {log \o Top.held} \union (IF Top.logs THEN {} ELSE {log})
         /\ log' \in Seq(LineNumbers)
<1>1. /\ Runs("close") /\ Dies /\ UNCHANGED <<file, answers, failed>>
      /\ offset' \in {offset} \union ({offset - Len(Top.ahead)} \intersect Nat)
      /\ log' \in {log \o Top.held} \union (IF Top.logs THEN {} ELSE {log})
  BY DEF Close
<1>2. /\ stack # <<>> /\ Top \in Proc /\ Reads(file, Top) /\ Top.at = "close"
      /\ Len(stack) \in DOMAIN stack /\ Top = stack[Len(stack)]
  BY <1>1, Running
<1>3. Stops(Top)
  <2>1. Stops(stack[Len(stack)])
    BY <1>2 DEF Inv, Stopped
  <2> QED BY <1>2, <2>1 DEF Stops
<1>4. offset \in Nat /\ Len(Top.ahead) \in Nat
  BY <1>2, TopType DEF Inv, Types
<1>5. offset' \in 0 .. offset /\ offset' \in {offset, offset - Len(Top.ahead)}
  BY <1>1, <1>4
<1>6. log' \in Seq(LineNumbers)
  <2>1. log \in Seq(LineNumbers) /\ Top.held \in Seq(LineNumbers)
    BY <1>2, TopType DEF Inv, Types
  <2>2. log \o Top.held \in Seq(LineNumbers)
    BY <2>1, ConcatProperties
  <2> QED BY <1>1, <2>1, <2>2
<1> QED BY <1>1, <1>2, <1>3, <1>5, <1>6

LEMMA CloseBase == ASSUME Inv, Close PROVE Base'
<1>1. /\ stack # <<>> /\ Runs("close") /\ Dies /\ Top \in Proc /\ Top.at = "close"
      /\ Stops(Top) /\ UNCHANGED <<file, answers, failed>>
      /\ offset' \in 0 .. offset /\ log' \in Seq(LineNumbers)
  BY CloseEffect DEF Runs
<1>2. offset \in 0 .. Len(file) /\ Len(file) \in Nat
  BY DEF Inv, Types
<1>3. Stacked' /\ Stopped'
  BY <1>1, DiesStacked
<1>4. offset' \in 0 .. Len(file) /\ offset' \in Int /\ offset' <= offset
  BY <1>1, <1>2
<1>5. Types'
  BY <1>1, <1>4, Dying DEF Inv, Types
<1>6. ASSUME NEW i \in Due, ~ Settled(i)
      PROVE  ~ Has(Top, i) /\ ~ (offset < i /\ Upto(Top) < i)
  <2>1. i \in Nat \ {0} /\ i <= Len(file) /\ \A k \in 1 .. i : file[k] = "equation"
    BY DueIs
  <2>2. Top.line \in Nat /\ Len(Top.ahead) \in Nat /\ Upto(Top) = Top.line + Len(Top.ahead)
    BY <1>1, TopType DEF Upto
  <2>3. Has(Top, i) <=> Top.line < i /\ i <= Upto(Top)
    BY <1>1 DEF Has, Child
  <2>4. CASE Top.line >= 1 /\ file[Top.line] = "other"
    <3>1. ~ (Top.line < i)
      BY <2>1, <2>2, <2>4
    <3> QED BY <2>1, <2>2, <2>3, <3>1
  <2>5. CASE Top.ahead = <<>> /\ offset = Len(file)
    <3>1. Len(Top.ahead) = 0
      BY <2>5
    <3> QED BY <1>2, <2>1, <2>2, <2>3, <2>5, <3>1
  <2>6. CASE Top.line >= 1 /\ Top.line \in Failures("fork")
    <3>1. i < Top.line
      BY <1>6, <2>1, <2>2, <2>6 DEF Settled
    <3> QED BY <2>1, <2>2, <2>3, <3>1
  <2> QED BY <1>1, <2>4, <2>5, <2>6 DEF Stops
<1>7. \A i \in Due : Settled(i) => Settled(i)'
  BY <1>1 DEF Calls, Settled, Failures
<1>8. Tracked'
  BY <1>1, <1>4, <1>6, <1>7, DiesTracked
<1> QED BY <1>3, <1>5, <1>8 DEF Base

-----------------------------------------------------------------------------
(* Who reads, as long as exec did not fail.                                *)

LEMMA AnswersAre ==
  ASSUME Inv
  PROVE  /\ Len(answers) \in Nat /\ DOMAIN answers = 1 .. Len(answers)
         /\ \A k \in DOMAIN answers : answers[k] \in Nat /\ answers[k] >= 1
<1>1. answers \in Seq(LineNumbers)
  BY DEF Inv, Types
<1>2. LineNumbers \subseteq Nat /\ \A i \in LineNumbers : i >= 1
  BY EquationsAssumption DEF LineNumbers
<1>3. /\ Len(answers) \in Nat /\ DOMAIN answers = 1 .. Len(answers)
      /\ \A k \in DOMAIN answers : answers[k] \in LineNumbers
  BY <1>1
<1> QED BY <1>2, <1>3

LEMMA FirstOf ==
  ASSUME Inv, NEW at, Runs(at)
  PROVE  /\ Len(stack) \in Nat \ {0} /\ stack[1] \in Proc
         /\ Len(stack) = 1 => stack[1] = Top
         /\ Len(stack) > 1 => stack[1].at = "wait" /\ ~ Top.logs
         /\ at \in Child => Len(stack) > 1
         /\ Len(stack) = 2 /\ at \in Child =>
              stack[1].line = Top.line /\ stack[1].ahead = Top.ahead
<1>1. /\ stack \in Seq(Proc) /\ Len(stack) \in Nat \ {0} /\ DOMAIN stack = 1 .. Len(stack)
      /\ Top = stack[Len(stack)] /\ Top.at = at /\ (Top.logs <=> Len(stack) = 1)
  BY Running
<1>2. 1 \in DOMAIN stack /\ Len(stack) \in DOMAIN stack /\ stack[1] \in Proc
  BY <1>1
<1>3. Len(stack) > 1 => stack[1].at = "wait"
  BY <1>1, <1>2 DEF Inv, Stacked
<1>4. at \in Child => /\ Len(stack) > 1
                      /\ stack[Len(stack) - 1].line = Top.line
                      /\ stack[Len(stack) - 1].ahead = Top.ahead
  BY <1>1, <1>2 DEF Inv, Stacked
<1> QED BY <1>1, <1>2, <1>3, <1>4

(* There is only the first process, or its child as well. *)
LEMMA AloneShape ==
  ASSUME Inv, Alone, NEW at, Runs(at)
  PROVE  /\ at \in Child => Len(stack) = 2 /\ stack[1].at = "wait"
         /\ at \notin Child => Len(stack) = 1 /\ stack[1] = Top /\ Top.logs
         /\ at \in Child => stack[1].line = Top.line /\ stack[1].ahead = Top.ahead
<1>1. Len(stack) \in {1, 2}
  <2>1. Len(stack) \in Nat \ {0}
    BY FirstOf
  <2>2. Len(stack) <= 2
    BY DEF Alone
  <2> DEFINE n == Len(stack)
  <2>3. n \in Nat \ {0} /\ n <= 2
    BY <2>1, <2>2
  <2> HIDE DEF n
  <2>4. n \in {1, 2}
    BY <2>3
  <2> QED BY <2>4 DEF n
<1>2. /\ Top.at = at /\ (Top.logs <=> Len(stack) = 1)
      /\ Len(stack) = 2 => Top = stack[2]
  BY Running
<1>3. Len(stack) = 2 => at \in Child
  BY <1>2 DEF Alone
<1> QED BY <1>1, <1>2, <1>3, FirstOf

LEMMA AloneRead == ASSUME Inv, Alone, Read PROVE Alone'
<1>1. PICK q \in Proc :
        /\ Becomes(q) /\ UNCHANGED <<file, answers>> /\ offset' \in 0 .. Len(file)
        /\ \/ /\ q.at = "close" /\ q.line = Top.line /\ q.ahead = <<>> /\ Top.ahead = <<>>
              /\ offset' = offset /\ offset = Len(file)
           \/ /\ q.at = IF file[q.line] = "equation" THEN "fork" ELSE "close"
              /\ q.line \in 1 .. Len(file)
              /\ \/ /\ Top.ahead # <<>> /\ q.line = Top.line + 1 /\ Upto(q) = Upto(Top)
                    /\ offset' = offset
                 \/ /\ Top.ahead = <<>> /\ q.line = offset + 1 /\ Upto(q) = offset'
                    /\ offset < offset'
  BY ReadEffect
<1>2. /\ Len(stack) = 1 /\ stack[1] = Top /\ Top.at = "read" /\ Top \in Proc
      /\ stack # <<>>
  BY AloneShape, Running DEF Read, Child
<1>3. Len(stack') = 1 /\ stack'[1] = q /\ stack' # <<>>
  BY <1>1, <1>2, Becoming
<1>4. /\ Top.line \in Nat /\ q.line \in Nat
      /\ (Top.ahead = <<>> => Upto(Top) = Top.line)
      /\ (q.ahead = <<>> => Upto(q) = q.line)
  <2>1. \A p \in Proc : p.line \in Nat /\ (p.ahead = <<>> => Len(p.ahead) = 0)
    BY TopType
  <2> QED BY <1>2, <2>1 DEF Upto
<1>5. /\ Upto(Top) = offset
      /\ \A i \in 1 .. Top.line : file[i] = "equation"
      /\ \A k \in DOMAIN answers : answers[k] <= Top.line
  BY <1>2 DEF Alone
<1>6. /\ Upto(q) = offset'
      /\ \/ q.line = Top.line /\ q.at = "close"
         \/ /\ q.line = Top.line + 1 /\ q.at \in {"fork", "close"}
            /\ q.at = "fork" => file[q.line] = "equation"
  BY <1>1, <1>4, <1>5
<1>7. \A i \in 1 .. q.line : i < q.line \/ q.at # "close" => file[i] = "equation"
  BY <1>4, <1>5, <1>6
<1>8. \A k \in DOMAIN answers : /\ answers[k] <= q.line
                                /\ q.at = "fork" => answers[k] < q.line
  <2>1. ASSUME NEW k \in DOMAIN answers PROVE answers[k] \in Nat /\ answers[k] <= Top.line
    <3>1. answers[k] \in Nat
      BY AnswersAre
    <3> QED BY <1>5, <3>1
  <2>2. ASSUME NEW k \in DOMAIN answers, q.line = Top.line + 1
        PROVE  answers[k] <= q.line /\ answers[k] < q.line
    <3>1. answers[k] \in Nat /\ answers[k] <= Top.line
      BY <2>1
    <3> QED BY <1>4, <2>2, <3>1
  <2> QED BY <1>6, <2>1, <2>2
<1> QED BY <1>1, <1>3, <1>6, <1>7, <1>8 DEF Alone, Due

LEMMA AloneFork == ASSUME Inv, Alone, Fork PROVE Alone'
<1>1. Len(stack) = 1 /\ stack[1] = Top /\ Top.at = "fork" /\ stack # <<>>
  BY AloneShape, Running DEF Fork, Child
<1>2. PICK q \in Proc, r \in Proc :
        /\ q.at = "wait" /\ q.line = Top.line /\ q.ahead = Top.ahead
        /\ r.at = "child" /\ Len(stack') = Len(stack) + 1 /\ stack' # <<>>
        /\ stack'[Len(stack)] = q /\ stack'[Len(stack) + 1] = r
        /\ UNCHANGED <<file, offset, answers, log, failed>>
  BY ForkEffect
<1>3. Upto(q) = Upto(Top)
  BY <1>2 DEF Upto
<1>4. Len(stack') = 2 /\ stack'[1] = q /\ stack'[2] = r
  BY <1>1, <1>2
<1> QED BY <1>1, <1>2, <1>3, <1>4 DEF Alone, Due, Child

(* Fork fails, the wait is over, or the child executes the solver. *)
LEMMA AloneGoesOn ==
  ASSUME Inv, Alone, NEW at, Runs(at), NEW q \in Proc, Becomes(q),
         q.line = Top.line, q.ahead = Top.ahead, UNCHANGED <<file, offset, answers>>,
         \/ at = "fork" /\ q.at = "close"
         \/ at = "wait" /\ q.at = "read"
         \/ at = "child" /\ q.at = "solve"
  PROVE  Alone'
<1>1. stack # <<>> /\ Top.at = at /\ Upto(q) = Upto(Top)
  BY Running DEF Upto
<1>2. CASE at = "child"
  <2>1. Len(stack) = 2
    BY <1>2, AloneShape DEF Child
  <2>2. Len(stack') = 2 /\ stack'[1] = stack[1] /\ stack'[2] = q
    BY <1>1, <2>1, Becoming
  <2> QED BY <1>1, <1>2, <2>1, <2>2 DEF Alone, Due, Child
<1>3. CASE at # "child"
  <2>1. Len(stack) = 1 /\ stack[1] = Top
    BY <1>3, AloneShape DEF Child
  <2>2. Len(stack') = 1 /\ stack'[1] = q /\ stack' # <<>>
    BY <1>1, <2>1, Becoming
  <2>3. \A i \in 1 .. Top.line : file[i] = "equation"
    BY <1>1, <1>3, <2>1 DEF Alone
  <2> QED BY <1>1, <1>3, <2>1, <2>2, <2>3 DEF Alone, Due
<1> QED BY <1>2, <1>3

LEMMA AloneSolve == ASSUME Inv, Alone, Solve PROVE Alone'
<1>1. /\ Runs("solve") /\ Dies /\ answers' = Append(answers, Top.line)
      /\ UNCHANGED <<file, offset, log, failed>>
  BY DEF Solve
<1>2. /\ Len(stack) = 2 /\ stack[1].at = "wait" /\ stack[1].line = Top.line
      /\ stack # <<>> /\ Top \in Proc /\ Reads(file, Top) /\ Top.at = "solve"
  BY <1>1, AloneShape, Running DEF Child
<1>3. Len(stack') = 1 /\ stack'[1] = stack[1] /\ stack' # <<>>
  BY <1>1, <1>2, Dying
<1> DEFINE l == Top.line
<1>4. /\ l \in Nat \ {0} /\ l <= Len(file) /\ l \in LineNumbers
      /\ Upto(Top) \in Nat /\ l <= Upto(Top)
  <2>1. l \in Nat /\ Len(Top.ahead) \in Nat /\ Upto(Top) = l + Len(Top.ahead)
        /\ l \in 0 .. MaxLines
    BY <1>2, TopType DEF Upto
  <2>2. l >= 1 /\ Upto(Top) <= Len(file) /\ Len(file) \in Nat
    BY <1>2 DEF Reads, Child, Inv, Types
  <2> HIDE DEF l
  <2> QED BY <2>1, <2>2 DEF LineNumbers
<1>5. /\ \A i \in 1 .. l : file[i] = "equation"
      /\ \A k \in DOMAIN answers : answers[k] < l
      /\ Upto(stack[1]) = offset
  BY <1>2 DEF Alone
<1> HIDE DEF l
<1>6. /\ answers \in Seq(LineNumbers) /\ DOMAIN answers = 1 .. Len(answers)
      /\ DOMAIN answers' = 1 .. Len(answers) + 1 /\ Len(answers) \in Nat
      /\ answers'[Len(answers) + 1] = l
      /\ \A k \in 1 .. Len(answers) : answers'[k] = answers[k]
  <2>1. answers \in Seq(LineNumbers)
    BY DEF Inv, Types
  <2> QED BY <1>1, <1>4, <2>1, Appended DEF l
<1>7. l \in Due
  <2>1. file \in Seq({"equation", "other"})
    BY DEF Inv, Types
  <2>2. l \in DOMAIN file
    BY <1>4, <2>1
  <2> QED BY <1>5, <2>2 DEF Due
<1>8. \A k \in DOMAIN answers' :
        \/ k \in DOMAIN answers /\ answers'[k] = answers[k] /\ k < Len(answers) + 1
        \/ k = Len(answers) + 1 /\ answers'[k] = l
  BY <1>6
<1>9. \A k \in DOMAIN answers' : answers'[k] \in Due /\ answers'[k] <= l
  <2>1. \A k \in DOMAIN answers : answers[k] \in Nat /\ answers[k] <= l
    <3>1. \A k \in DOMAIN answers : answers[k] \in Nat
      BY AnswersAre
    <3> QED BY <1>4, <1>5, <3>1
  <2>2. l <= l
    BY <1>4
  <2>3. \A k \in DOMAIN answers : answers[k] \in Due
    BY DEF Alone
  <2> QED BY <1>7, <1>8, <2>1, <2>2, <2>3
<1>10. \A j, k \in DOMAIN answers' : j < k => answers'[j] < answers'[k]
  BY <1>5, <1>6, <1>8 DEF Alone
<1> QED BY <1>1, <1>2, <1>3, <1>5, <1>9, <1>10 DEF Alone, Due, l

LEMMA AloneOpenFails == ASSUME Inv, Alone, OpenFails PROVE Alone'
<1>1. PICK at \in Child : Runs(at)
  BY DEF OpenFails, Child
<1>2. Dies /\ UNCHANGED <<file, offset, answers>>
  BY DEF OpenFails
<1>3. Len(stack) = 2 /\ stack[1].at = "wait" /\ stack # <<>>
  BY <1>1, AloneShape, Running
<1>4. Len(stack') = 1 /\ stack'[1] = stack[1] /\ stack' # <<>>
  BY <1>2, <1>3, Dying
<1>5. \A k \in DOMAIN answers : answers[k] <= stack[1].line
  BY <1>3 DEF Alone
<1> QED BY <1>2, <1>3, <1>4, <1>5 DEF Alone, Due

LEMMA AloneClose == ASSUME Inv, Alone, Close PROVE Alone'
<1>1. Len(stack) = 1 /\ stack # <<>> /\ Dies /\ UNCHANGED <<file, answers>>
  BY AloneShape, CloseEffect DEF Child
<1>2. stack' = <<>> /\ Len(stack') = 0
  BY <1>1, Dying
<1> QED BY <1>1, <1>2 DEF Alone, Due

LEMMA AloneCrash == ASSUME Inv, Alone, Crash PROVE FALSE
  BY AloneShape DEF Crash, Child

-----------------------------------------------------------------------------
(* Who reads, when exec failed once, for the line m.                       *)

LEMMA TwoShape ==
  ASSUME Inv, NEW m \in Nat, Two(m), NEW at, Runs(at)
  PROVE  /\ Len(stack) \in {1, 2, 3} /\ Top.line \in Nat /\ m <= Top.line
         /\ at \in {"fork"} \union Child => m < Top.line
         /\ at \notin Child => Len(stack) \in {1, 2}
         /\ at \notin Child /\ Len(stack) = 2 => Upto(Top) <= offset
         /\ Len(stack) = 3 => stack[2].at = "wait"
<1> DEFINE n == Len(stack)
<1>1. /\ n \in Nat \ {0} /\ DOMAIN stack = 1 .. n /\ Top = stack[n] /\ Top.at = at
      /\ Top \in Proc
  BY Running
<1>2. n <= 3 /\ (n = 3 => stack[3].at \in Child)
  BY DEF Two
<1> HIDE DEF n
<1>3. n \in {1, 2, 3} /\ n \in 1 .. n
  BY <1>1, <1>2
<1>4. m <= Top.line /\ (at \in {"fork"} \union Child => m < Top.line)
  BY <1>1, <1>3 DEF Two
<1>5. at \notin Child => n \in {1, 2}
  BY <1>1, <1>2, <1>3
<1>6. at \notin Child /\ n = 2 => Upto(Top) <= offset
  BY <1>1 DEF Two, n
<1>7. n = 3 => stack[2].at = "wait"
  BY <1>1 DEF Inv, Stacked, n
<1> QED BY <1>1, <1>3, <1>4, <1>5, <1>6, <1>7, TopType DEF n

(* The process on top goes on as q. *)
LEMMA TwoBecomes ==
  ASSUME Inv, NEW m \in Nat, Two(m), NEW at, Runs(at), NEW q \in Proc, Becomes(q),
         UNCHANGED <<file, answers>>, m <= offset', m <= q.line,
         q.at \in {"fork"} \union Child => m < q.line,
         at \in Child => q.at \in Child /\ offset' = offset,
         Len(stack) = 2 /\ q.at \notin Child => Upto(q) <= offset'
  PROVE  Two(m)'
<1>1. /\ Len(stack) \in {1, 2, 3} /\ stack # <<>>
      /\ at \notin Child => Len(stack) \in {1, 2}
      /\ DOMAIN stack = 1 .. Len(stack)
  BY TwoShape, Running
<1>2. /\ Len(stack') = Len(stack) /\ DOMAIN stack' = 1 .. Len(stack)
      /\ stack'[Len(stack)] = q
      /\ \A i \in 1 .. Len(stack) - 1 : stack'[i] = stack[i]
  BY <1>1, Becoming
<1>3. ASSUME NEW i \in DOMAIN stack'
      PROVE  /\ m <= stack'[i].line
             /\ stack'[i].at \in {"fork"} \union Child => m < stack'[i].line
  <2>1. CASE i = Len(stack)
    BY <1>2, <2>1
  <2>2. CASE i # Len(stack)
    <3>1. i \in DOMAIN stack /\ stack'[i] = stack[i]
      BY <1>1, <1>2, <2>2
    <3> QED BY <3>1 DEF Two
  <2> QED BY <2>1, <2>2
<1>4. Len(stack') >= 2 /\ stack'[2].at \notin Child => Upto(stack'[2]) <= offset'
  <2>1. CASE Len(stack) = 2
    BY <1>2, <2>1
  <2>2. CASE Len(stack) = 3
    <3>1. stack'[2] = stack[2] /\ at \in Child
      BY <1>1, <1>2, <2>2
    <3> QED BY <2>2, <3>1 DEF Two
  <2> QED BY <1>1, <1>2, <2>1, <2>2
<1>5. Len(stack') = 3 => stack'[3].at \in Child
  BY <1>1, <1>2
<1>6. Len(stack') <= 3
  BY <1>1, <1>2
<1>7. Upto(stack[2])' = Upto(stack'[2])
  BY DEF Upto
<1> QED BY <1>3, <1>4, <1>5, <1>6, <1>7 DEF Two, Due

(* It ends. *)
LEMMA TwoDies ==
  ASSUME Inv, NEW m \in Nat, Two(m), NEW at, Runs(at), Dies, file' = file,
         \A k, l \in DOMAIN answers' :
           k < l /\ answers'[l] <= m => answers'[k] # answers'[l],
         \A k \in DOMAIN answers' : answers'[k] <= m => answers'[k] \in Due,
         Len(stack) > 1 => m <= offset', at \in Child => offset' = offset
  PROVE  Two(m)'
<1>1. /\ Len(stack) \in {1, 2, 3} /\ stack # <<>>
      /\ at \notin Child => Len(stack) \in {1, 2}
      /\ DOMAIN stack = 1 .. Len(stack)
  BY TwoShape, Running
<1>2. /\ Len(stack') = Len(stack) - 1 /\ DOMAIN stack' = 1 .. Len(stack) - 1
      /\ (stack' = <<>> <=> Len(stack) = 1)
      /\ \A i \in 1 .. Len(stack) - 1 : stack'[i] = stack[i]
  BY <1>1, Dying, Zenon
<1>3. ASSUME NEW i \in DOMAIN stack'
      PROVE  /\ m <= stack'[i].line
             /\ stack'[i].at \in {"fork"} \union Child => m < stack'[i].line
  <2>1. i \in DOMAIN stack /\ stack'[i] = stack[i]
    BY <1>1, <1>2
  <2> QED BY <2>1 DEF Two
<1>4. Len(stack') >= 2 /\ stack'[2].at \notin Child => Upto(stack'[2]) <= offset'
  <2>1. ASSUME Len(stack') >= 2, stack'[2].at \notin Child
        PROVE  Len(stack) = 3 /\ stack'[2] = stack[2] /\ at \in Child
    BY <1>1, <1>2, <2>1
  <2> QED BY <2>1 DEF Two
<1>5. Len(stack') <= 2 /\ (stack' # <<>> => m <= offset')
  BY <1>1, <1>2
<1>6. Upto(stack[2])' = Upto(stack'[2]) /\ Due' = Due
  BY DEF Upto, Due
<1>7. Len(stack') <= 3 /\ Len(stack') # 3
  <2> DEFINE n == Len(stack')
  <2>1. n \in {0, 1, 2}
    BY <1>1, <1>2
  <2> HIDE DEF n
  <2>2. n <= 3 /\ n # 3
    BY <2>1
  <2> QED BY <2>2 DEF n
<1>8. \A k \in DOMAIN answers' : answers'[k] <= m => answers'[k] \in Due'
  BY <1>6
<1> QED BY <1>3, <1>4, <1>5, <1>6, <1>7, <1>8 DEF Two

LEMMA TwoRead == ASSUME Inv, NEW m \in Nat, Two(m), Read PROVE Two(m)'
<1>1. PICK q \in Proc :
        /\ Becomes(q) /\ UNCHANGED <<file, answers>> /\ offset' \in 0 .. Len(file)
        /\ \/ /\ q.at = "close" /\ q.line = Top.line /\ q.ahead = <<>> /\ Top.ahead = <<>>
              /\ offset' = offset
           \/ /\ q.at = IF file[q.line] = "equation" THEN "fork" ELSE "close"
              /\ \/ /\ q.line = Top.line + 1 /\ Upto(q) = Upto(Top) /\ offset' = offset
                 \/ /\ q.line = offset + 1 /\ Upto(q) = offset' /\ offset < offset'
  BY ReadEffect
<1>2. Runs("read")
  BY DEF Read
<1>3. /\ Len(stack) \in {1, 2} /\ Top.line \in Nat /\ m <= Top.line /\ Top \in Proc
      /\ Len(stack) = 2 => Upto(Top) <= offset
      /\ m <= offset /\ offset \in Nat /\ stack # <<>>
  <2>1. Top \in Proc /\ stack # <<>>
    BY <1>2, Running
  <2>2. m <= offset /\ offset \in Nat
    BY <2>1 DEF Two, Inv, Types
  <2> QED BY <1>2, <2>1, <2>2, TwoShape DEF Child
<1>4. q.at \in {"fork", "close"}
  BY <1>1
<1>5. q.ahead = <<>> /\ Top.ahead = <<>> /\ q.line = Top.line => Upto(q) = Upto(Top)
  BY DEF Upto
<1>6. m <= offset' /\ m <= q.line /\ (q.at = "fork" => m < q.line)
  BY <1>1, <1>3
<1>7. Len(stack) = 2 => Upto(q) <= offset'
  <2>1. offset' \in Nat
    BY <1>1 DEF Inv, Types
  <2> QED BY <1>1, <1>3, <1>5, <2>1
<1> QED BY <1>1, <1>2, <1>4, <1>6, <1>7, TwoBecomes DEF Child

(* Fork fails, the wait is over, or the child executes the solver. *)
LEMMA TwoGoesOn ==
  ASSUME Inv, NEW m \in Nat, Two(m), NEW at, Runs(at), NEW q \in Proc, Becomes(q),
         q.line = Top.line, q.ahead = Top.ahead, UNCHANGED <<file, offset, answers>>,
         q.at \in Child <=> at \in Child, q.at # "fork"
  PROVE  Two(m)'
<1>1. Upto(q) = Upto(Top)
  BY DEF Upto
<1>2. /\ m <= Top.line /\ (at \in Child => m < Top.line) /\ stack # <<>>
      /\ at \notin Child /\ Len(stack) = 2 => Upto(Top) <= offset
  BY TwoShape, Running
<1>3. m <= offset
  BY <1>2 DEF Two
<1> QED BY <1>1, <1>2, <1>3, TwoBecomes

LEMMA TwoFork == ASSUME Inv, NEW m \in Nat, Two(m), Fork PROVE Two(m)'
<1> DEFINE n == Len(stack)
<1>1. Runs("fork")
  BY DEF Fork
<1>2. /\ n \in {1, 2} /\ m < Top.line /\ m <= Top.line /\ stack # <<>>
      /\ n = 2 => Upto(Top) <= offset
      /\ DOMAIN stack = 1 .. n
  BY <1>1, TwoShape, Running DEF Child
<1>3. PICK q \in Proc, r \in Proc :
        /\ q.at = "wait" /\ q.line = Top.line /\ q.ahead = Top.ahead
        /\ r.at = "child" /\ r.line = Top.line /\ Len(stack') = n + 1 /\ stack' # <<>>
        /\ DOMAIN stack' = 1 .. n + 1
        /\ stack'[n] = q /\ stack'[n + 1] = r
        /\ \A i \in 1 .. n - 1 : stack'[i] = stack[i]
        /\ UNCHANGED <<file, offset, answers, log, failed>>
  BY ForkEffect
<1>4. Upto(q) = Upto(Top)
  BY <1>3 DEF Upto
<1> HIDE DEF n
<1>5. ASSUME NEW i \in DOMAIN stack'
      PROVE  /\ m <= stack'[i].line
             /\ stack'[i].at \in {"fork"} \union Child => m < stack'[i].line
  <2>1. CASE i \in {n, n + 1}
    BY <1>2, <1>3, <2>1
  <2>2. CASE i \notin {n, n + 1}
    <3>1. i \in DOMAIN stack /\ stack'[i] = stack[i]
      BY <1>2, <1>3, <2>2
    <3> QED BY <3>1 DEF Two
  <2> QED BY <2>1, <2>2
<1>6. Len(stack') >= 2 /\ stack'[2].at \notin Child => Upto(stack'[2]) <= offset'
  <2>1. CASE n = 1
    BY <1>3, <2>1 DEF Child
  <2>2. CASE n = 2
    BY <1>2, <1>3, <1>4, <2>2
  <2> QED BY <1>2, <2>1, <2>2
<1>7. Len(stack') = 3 => stack'[3].at \in Child
  <2>1. Len(stack') = 3 => n + 1 = 3
    BY <1>2, <1>3
  <2> QED BY <1>3, <2>1 DEF Child
<1>8. Len(stack') <= 3
  BY <1>2, <1>3
<1>9. Upto(stack[2])' = Upto(stack'[2]) /\ Due' = Due /\ m <= offset'
  BY <1>2, <1>3 DEF Upto, Due, Two
<1> QED BY <1>3, <1>5, <1>6, <1>7, <1>8, <1>9 DEF Two

LEMMA TwoSolve == ASSUME Inv, NEW m \in Nat, Two(m), Solve PROVE Two(m)'
<1>1. /\ Runs("solve") /\ Dies /\ answers' = Append(answers, Top.line)
      /\ UNCHANGED <<file, offset, log, failed>>
  BY DEF Solve
<1>2. m < Top.line /\ Top.line \in Nat /\ stack # <<>> /\ Top \in Proc
  BY <1>1, TwoShape, Running DEF Child
<1>3. Reads(file, Top) /\ Top.at = "solve"
  BY <1>1, Running
<1>4. Top.line \in LineNumbers
  BY <1>2, <1>3, TopType DEF Reads, Child, LineNumbers
<1> DEFINE l == Top.line
<1> HIDE DEF l
<1>5. /\ DOMAIN answers = 1 .. Len(answers) /\ Len(answers) \in Nat
      /\ DOMAIN answers' = 1 .. Len(answers) + 1
      /\ answers'[Len(answers) + 1] = l
      /\ \A k \in 1 .. Len(answers) : answers'[k] = answers[k]
  <2>1. answers \in Seq(LineNumbers) /\ l \in LineNumbers
    BY <1>4 DEF Inv, Types, l
  <2> QED BY <1>1, <2>1, Appended DEF l
<1>6. \A k \in DOMAIN answers' :
        \/ k \in DOMAIN answers /\ answers'[k] = answers[k] /\ k < Len(answers) + 1
        \/ k = Len(answers) + 1 /\ answers'[k] = l /\ ~ (answers'[k] <= m)
  <2>1. ~ (l <= m)
    BY <1>2 DEF l
  <2> QED BY <1>5, <2>1
<1>7. \A k \in DOMAIN answers' : answers'[k] <= m => answers'[k] \in Due
  BY <1>6 DEF Two
<1>8. \A j, k \in DOMAIN answers' :
        j < k /\ answers'[k] <= m => answers'[j] # answers'[k]
  <2> SUFFICES ASSUME NEW j \in DOMAIN answers', NEW k \in DOMAIN answers',
                      j < k, answers'[k] <= m
               PROVE  answers'[j] # answers'[k]
    OBVIOUS
  <2>1. k \in DOMAIN answers /\ answers'[k] = answers[k]
    BY <1>6
  <2>2. j \in DOMAIN answers /\ answers'[j] = answers[j]
    BY <1>5, <2>1
  <2> QED BY <2>1, <2>2 DEF Two
<1>9. m <= offset'
  BY <1>1, <1>2 DEF Two
<1> QED BY <1>1, <1>7, <1>8, <1>9, TwoDies

LEMMA TwoOpenFails == ASSUME Inv, NEW m \in Nat, Two(m), OpenFails PROVE Two(m)'
<1>1. PICK at \in Child : Runs(at)
  BY DEF OpenFails, Child
<1>2. Dies /\ UNCHANGED <<file, offset, answers>> /\ m <= offset
  BY <1>1, Running DEF OpenFails, Two
<1> QED BY <1>1, <1>2, TwoDies DEF Two

LEMMA TwoCrash == ASSUME Inv, NEW m \in Nat, Two(m), Crash PROVE Two(m)'
<1>1. Runs("read")
  BY DEF Crash
<1>2. Dies /\ UNCHANGED <<file, offset, answers>> /\ m <= offset
  BY <1>1, Running DEF Crash, Two
<1> QED BY <1>1, <1>2, TwoDies DEF Two

(* The second reader takes back at most what it read ahead, from where it  *)
(* had come.                                                               *)
LEMMA TwoClose == ASSUME Inv, NEW m \in Nat, Two(m), Close PROVE Two(m)'
<1>1. /\ Runs("close") /\ Dies /\ UNCHANGED <<file, answers, failed>> /\ Top \in Proc
      /\ offset' \in 0 .. offset /\ offset' \in {offset, offset - Len(Top.ahead)}
      /\ stack # <<>>
  BY CloseEffect
<1>2. /\ Len(stack) \in {1, 2} /\ m <= Top.line /\ Top.line \in Nat
      /\ Len(stack) = 2 => Upto(Top) <= offset
  BY <1>1, TwoShape DEF Child
<1>3. m <= offset /\ offset \in Nat
  BY <1>1 DEF Two, Inv, Types
<1>4. Len(Top.ahead) \in Nat /\ Upto(Top) = Top.line + Len(Top.ahead)
  BY <1>1, TopType DEF Upto
<1>5. Len(stack) > 1 => m <= offset'
  <2>1. Len(stack) > 1 => Upto(Top) <= offset
    <3> DEFINE n == Len(stack)
    <3>1. n \in {1, 2} /\ (n = 2 => Upto(Top) <= offset)
      BY <1>2
    <3> HIDE DEF n
    <3>2. n > 1 => n = 2
      BY <3>1
    <3> QED BY <3>1, <3>2 DEF n
  <2> DEFINE a == Len(Top.ahead)
             l == Top.line
  <2>2. /\ a \in Nat /\ l \in Nat /\ m <= l /\ offset' \in {offset, offset - a}
        /\ Upto(Top) = l + a
    BY <1>1, <1>2, <1>4
  <2> HIDE DEF a, l
  <2>3. Len(stack) > 1 => m <= offset - a
    BY <1>3, <2>1, <2>2
  <2> QED BY <1>3, <2>2, <2>3
<1> QED BY <1>1, <1>5, TwoDies DEF Two, Child

-----------------------------------------------------------------------------
(* Every step keeps what is known of the readers.                          *)

LEMMA ReadersKept ==
  ASSUME Inv, Calls("exec")' = Calls("exec"), Failures("exec")' = Failures("exec"),
         Alone => Alone', \A m \in Nat : Two(m) => Two(m)'
  PROVE  Readers'
<1>1. Failures("exec") \subseteq Nat
  BY DEF Failures, Calls, Inv, Types
<1>2. Calls("exec") = {} => Alone'
  BY DEF Inv, Readers
<1>3. ASSUME \A k, l \in Calls("exec") : k = l, NEW m \in Failures("exec") PROVE Two(m)'
  BY <1>1, <1>3 DEF Inv, Readers
<1> QED BY <1>2, <1>3 DEF Readers

(* After the first failure there are two readers, from its line on; after  *)
(* the second nothing is said of them.                                     *)
LEMMA ReadersExecFails == ASSUME Inv, ExecFails PROVE Readers'
<1> DEFINE q == [Top EXCEPT !.at = "read"]
<1>1. /\ Runs("child") /\ Fails("exec") /\ Becomes(q)
      /\ UNCHANGED <<file, offset, answers, log>>
  BY DEF ExecFails
<1>2. /\ stack # <<>> /\ Top \in Proc /\ Top.line \in Nat /\ Len(Top.ahead) \in Nat
      /\ Upto(Top) = Top.line + Len(Top.ahead)
  BY <1>1, Running, TopType DEF Upto
<1>3. /\ q \in Proc /\ q.at = "read" /\ q.line = Top.line /\ q.ahead = Top.ahead
  BY <1>2 DEF Proc, Places
<1> HIDE DEF q
<1>4. /\ Calls("exec")' = Calls("exec") \union {Len(failed) + 1}
      /\ Len(failed) + 1 \notin DOMAIN failed
      /\ Failures("exec")' = Failures("exec") \union {Top.line}
  BY <1>1, Failing
<1>5. CASE Calls("exec") # {}
  <2>1. PICK c \in Calls("exec") : c # Len(failed) + 1
    BY <1>4, <1>5 DEF Calls
  <2>2. ~ \A k, l \in Calls("exec")' : k = l
    BY <1>4, <2>1
  <2>3. Calls("exec")' # {}
    BY <1>4
  <2> QED BY <2>2, <2>3 DEF Readers
<1>6. CASE Calls("exec") = {}
  <2>1. Alone
    BY <1>6 DEF Inv, Readers
  <2>2. /\ Len(stack) = 2 /\ stack[1].at = "wait"
        /\ stack[1].line = Top.line /\ stack[1].ahead = Top.ahead
    BY <1>1, <2>1, AloneShape DEF Child
  <2>3. Upto(stack[1]) = offset /\ \A k \in DOMAIN answers : answers[k] \in Due
    BY <1>2, <2>1 DEF Alone
  <2>4. Upto(q) = offset /\ Top.line <= offset
    <3>1. Upto(Top) = offset /\ Upto(q) = offset
      BY <1>3, <2>2, <2>3 DEF Upto
    <3> QED BY <1>2, <3>1
  <2>5. /\ Len(stack') = 2 /\ DOMAIN stack' = {1, 2} /\ stack'[1] = stack[1] /\ stack'[2] = q
    BY <1>1, <1>2, <1>3, <2>2, Becoming
  <2>6. \A k, l \in DOMAIN answers : k < l => answers[k] # answers[l]
    <3>1. \A k, l \in DOMAIN answers : k < l => answers[k] < answers[l]
      BY <2>1 DEF Alone
    <3> QED BY <3>1, AnswersAre
  <2>7. ASSUME NEW m \in {Top.line} PROVE Two(m)'
    <3>1. \A i \in DOMAIN stack' :
            m <= stack'[i].line /\ stack'[i].at \notin {"fork"} \union Child
      <4>1. m \in Nat /\ m <= m
        BY <1>2
      <4>2. stack'[1].line = m /\ stack'[2].line = m
        BY <1>3, <2>2, <2>5
      <4>3. \A i \in DOMAIN stack' : stack'[i].at \in {"wait", "read"}
        BY <1>3, <2>2, <2>5
      <4> QED BY <2>5, <4>1, <4>2, <4>3 DEF Child
    <3>2. Upto(stack[2])' = offset /\ Due' = Due /\ m <= offset' /\ offset' = offset
      BY <1>1, <2>4, <2>5 DEF Upto, Due
    <3>3. offset <= offset
      BY DEF Inv, Types
    <3> QED BY <1>1, <2>3, <2>5, <2>6, <3>1, <3>2, <3>3 DEF Two
  <2>8. Failures("exec")' = {Top.line}
    BY <1>4, <1>6 DEF Failures
  <2>9. Calls("exec")' # {}
    BY <1>4
  <2>10. \A m \in Failures("exec")' : Two(m)'
    BY <2>7, <2>8
  <2> QED BY <2>9, <2>10 DEF Readers
<1> QED BY <1>5, <1>6

-----------------------------------------------------------------------------
(* The answers without failures. *)

LEMMA Calm ==
  ASSUME Inv, failed = <<>>, NEW at, Runs(at)
  PROVE  /\ Alone /\ Even /\ log = <<>> /\ stack # <<>>
         /\ at \in Child => /\ Len(stack) = 2 /\ stack[1].at = "wait"
                            /\ stack[1].line = Top.line /\ stack[1].ahead = Top.ahead
         /\ at \notin Child => Len(stack) = 1 /\ stack[1] = Top /\ Top.logs
         /\ Top \in Proc /\ Top.at = at
<1>1. Calls("exec") = {}
  BY DEF Calls
<1>2. Alone /\ Even
  BY <1>1 DEF Inv, Readers
<1>3. stack # <<>> /\ Top \in Proc /\ Top.at = at
  BY Running
<1>4. log = <<>>
  BY <1>2, <1>3 DEF Even
<1> QED BY <1>2, <1>3, <1>4, AloneShape

LEMMA EvenRead == ASSUME Inv, failed = <<>>, Read PROVE Even'
<1> DEFINE n == Len(answers)
<1>1. PICK q \in Proc :
        /\ Becomes(q) /\ q.held = Top.held /\ UNCHANGED <<file, answers, log, failed>>
        /\ \/ /\ q.at = "close" /\ Top.ahead = <<>> /\ offset = Len(file)
           \/ /\ q.at = IF file[q.line] = "equation" THEN "fork" ELSE "close"
              /\ q.line \in 1 .. Len(file)
              /\ \/ q.line = Top.line + 1
                 \/ Top.ahead = <<>> /\ q.line = offset + 1
  BY ReadEffect
<1>2. /\ Alone /\ Even /\ log = <<>> /\ stack # <<>> /\ Len(stack) = 1
      /\ stack[1] = Top /\ Top.at = "read" /\ Top \in Proc
  BY Calm DEF Read, Child
<1>3. Len(stack') = 1 /\ stack'[1] = q /\ stack' # <<>>
  BY <1>1, <1>2, Becoming
<1>4. /\ Top.line = n /\ Top.held = answers /\ Upto(Top) = offset
      /\ \A k \in DOMAIN answers : answers[k] = k
  BY <1>2 DEF Even, Alone
<1>5. Top.ahead = <<>> => offset = n
  <2>1. Top.ahead = <<>> => Len(Top.ahead) = 0
    OBVIOUS
  <2> QED BY <1>2, <1>4, <2>1, TopType DEF Upto
<1>6. \/ q.at = "close" /\ n = Len(file)
      \/ /\ q.line = n + 1 /\ q.at = IF file[n + 1] = "equation" THEN "fork" ELSE "close"
         /\ n + 1 \in 1 .. Len(file)
  BY <1>1, <1>4, <1>5
<1>7. n + 1 \in 1 .. Len(file) => file[n + 1] \in {"equation", "other"}
  <2>1. file \in Seq({"equation", "other"})
    BY DEF Inv, Types
  <2> HIDE DEF n
  <2> QED BY <2>1
<1>8. /\ q.at \in {"fork", "close"}
      /\ q.at = "fork" => q.line = n + 1
      /\ q.at = "close" => n = Len(file) \/ file[n + 1] = "other"
  BY <1>6, <1>7
<1> QED BY <1>1, <1>2, <1>3, <1>4, <1>8 DEF Even

LEMMA EvenFork == ASSUME Inv, failed = <<>>, Fork PROVE Even'
<1>1. /\ Even /\ log = <<>> /\ stack # <<>> /\ Len(stack) = 1
      /\ stack[1] = Top /\ Top.at = "fork"
  BY Calm DEF Fork, Child
<1>2. PICK q \in Proc :
        /\ q.at = "wait" /\ q.line = Top.line /\ q.held = Top.held
        /\ Len(stack') = Len(stack) + 1 /\ stack' # <<>> /\ stack'[Len(stack)] = q
        /\ UNCHANGED <<file, offset, answers, log, failed>>
  BY ForkEffect
<1>3. Len(stack') = 2 /\ stack'[1] = q
  BY <1>1, <1>2
<1>4. /\ Top.line = Len(answers) + 1 /\ Top.held = answers
      /\ \A k \in DOMAIN answers : answers[k] = k
  BY <1>1 DEF Even
<1> QED BY <1>1, <1>2, <1>3, <1>4 DEF Even

LEMMA EvenWaited == ASSUME Inv, failed = <<>>, Waited PROVE Even'
<1>1. PICK q \in Proc :
        /\ Runs("wait") /\ Becomes(q) /\ UNCHANGED <<file, offset, answers, log, failed>>
        /\ q.line = Top.line /\ q.at = "read"
        /\ Top.logs => q.held = Append(Top.held, Top.line)
  BY WaitedEffect
<1>2. /\ Even /\ log = <<>> /\ stack # <<>> /\ Len(stack) = 1
      /\ stack[1] = Top /\ Top.logs /\ Top.at = "wait"
  BY <1>1, Calm DEF Child
<1>3. Len(stack') = 1 /\ stack'[1] = q /\ stack' # <<>>
  BY <1>1, <1>2, Becoming
<1>4. /\ Top.line = Len(answers) /\ Append(Top.held, Len(answers)) = answers
      /\ \A k \in DOMAIN answers : answers[k] = k
  BY <1>2 DEF Even
<1>5. q.line = Len(answers) /\ q.held = answers
  BY <1>1, <1>2, <1>4
<1> QED BY <1>1, <1>2, <1>3, <1>4, <1>5 DEF Even

LEMMA EvenExec == ASSUME Inv, failed = <<>>, Exec PROVE Even'
<1> DEFINE q == [Top EXCEPT !.at = "solve"]
<1>1. Runs("child") /\ Becomes(q) /\ UNCHANGED <<file, offset, answers, log, failed>>
  BY DEF Exec
<1>2. /\ Even /\ log = <<>> /\ stack # <<>> /\ Len(stack) = 2
      /\ stack[1].at = "wait" /\ Top \in Proc
  BY <1>1, Calm DEF Child
<1>3. q \in Proc
  BY <1>2 DEF Proc, Places
<1> HIDE DEF q
<1>4. Len(stack') = 2 /\ stack'[1] = stack[1] /\ stack' # <<>>
  BY <1>1, <1>2, <1>3, Becoming
<1> QED BY <1>1, <1>2, <1>4 DEF Even

LEMMA EvenSolve == ASSUME Inv, failed = <<>>, Solve PROVE Even'
<1> DEFINE n == Len(answers)
<1>1. /\ Runs("solve") /\ Dies /\ answers' = Append(answers, Top.line)
      /\ UNCHANGED <<file, offset, log, failed>>
  BY DEF Solve
<1>2. /\ Even /\ log = <<>> /\ stack # <<>> /\ Len(stack) = 2
      /\ stack[1].at = "wait" /\ stack[1].line = Top.line
  BY <1>1, Calm DEF Child
<1>3. Len(stack') = 1 /\ stack'[1] = stack[1] /\ stack' # <<>>
  BY <1>1, <1>2, Dying
<1>4. /\ Top.line = n + 1 /\ stack[1].held = answers
      /\ \A k \in DOMAIN answers : answers[k] = k
  BY <1>2 DEF Even
<1>5. answers \in Seq(LineNumbers) /\ n \in Nat
  BY DEF Inv, Types
<1>6. answers \in Seq(Nat)
  BY <1>5, EquationsAssumption DEF LineNumbers
<1>7. /\ Len(answers') = n + 1 /\ DOMAIN answers = 1 .. n /\ DOMAIN answers' = 1 .. n + 1
      /\ answers'[n + 1] = n + 1 /\ \A k \in 1 .. n : answers'[k] = answers[k]
  BY <1>1, <1>4, <1>5, <1>6, Appended
<1> HIDE DEF n
<1>8. \A k \in DOMAIN answers' : answers'[k] = k
  <2>1. \A k \in DOMAIN answers' : k \in 1 .. n \/ k = n + 1
    BY <1>5, <1>7
  <2> QED BY <1>4, <1>7, <2>1
<1>9. stack'[1].line = Len(answers') /\ Append(stack'[1].held, Len(answers')) = answers'
  BY <1>1, <1>2, <1>3, <1>4, <1>7
<1> QED BY <1>1, <1>2, <1>3, <1>8, <1>9 DEF Even

LEMMA EvenClose == ASSUME Inv, failed = <<>>, Close PROVE Even'
<1>1. /\ Runs("close") /\ Dies /\ UNCHANGED <<file, answers, failed>>
      /\ log' \in {log \o Top.held} \union (IF Top.logs THEN {} ELSE {log})
  BY CloseEffect
<1>2. /\ Even /\ log = <<>> /\ stack # <<>> /\ Len(stack) = 1
      /\ stack[1] = Top /\ Top.logs /\ Top.at = "close" /\ Top \in Proc
  BY <1>1, Calm DEF Child
<1>3. stack' = <<>>
  BY <1>1, <1>2, Dying
<1>4. Top.held = answers /\ answers \in Seq(LineNumbers)
  BY <1>2 DEF Even, Inv, Types
<1>5. log' = answers
  <2>1. log' = log \o Top.held
    BY <1>1, <1>2
  <2>2. <<>> \o answers = answers
    BY <1>4
  <2> QED BY <1>2, <1>4, <2>1, <2>2
<1> QED BY <1>1, <1>2, <1>3, <1>5 DEF Even

-----------------------------------------------------------------------------
(* The invariant is kept. *)

LEMMA NoExecFailure ==
  ASSUME Inv, \/ failed' = failed
              \/ \E what \in {"fork", "open", "crash"} : Fails(what) /\ \E at : Runs(at)
  PROVE  Calls("exec")' = Calls("exec") /\ Failures("exec")' = Failures("exec")
<1>1. CASE failed' = failed
  BY <1>1 DEF Calls, Failures
<1>2. CASE \E what \in {"fork", "open", "crash"} : Fails(what) /\ \E at : Runs(at)
  BY <1>2, Failing
<1> QED BY <1>1, <1>2

LEMMA StepInv == ASSUME Inv, EqStep PROVE Inv'
<1>1. failed' = failed
  BY DEF EqStep, Read, Fork, Waited, Exec, Solve, Close
<1>2. Calls("exec")' = Calls("exec") /\ Failures("exec")' = Failures("exec")
  BY <1>1, NoExecFailure
<1>3. CASE Read
  BY <1>1, <1>2, <1>3, ReadBase, AloneRead, TwoRead, EvenRead, ReadersKept DEF Inv, Base
<1>4. CASE Fork
  BY <1>1, <1>2, <1>4, ForkBase, AloneFork, TwoFork, EvenFork, ReadersKept DEF Inv, Base
<1>5. CASE Solve
  BY <1>1, <1>2, <1>5, SolveBase, AloneSolve, TwoSolve, EvenSolve, ReadersKept DEF Inv, Base
<1>6. CASE Close
  BY <1>1, <1>2, <1>6, CloseBase, AloneClose, TwoClose, EvenClose, ReadersKept DEF Inv, Base
<1>7. CASE Waited
  <2>1. PICK q \in Proc :
          /\ Runs("wait") /\ Becomes(q) /\ UNCHANGED <<file, offset, answers, log, failed>>
          /\ q.line = Top.line /\ q.ahead = Top.ahead /\ q.at = "read"
    BY <1>7, WaitedEffect
  <2>2. Alone => Alone'
    BY <2>1, AloneGoesOn
  <2>3. \A m \in Nat : Two(m) => Two(m)'
    BY <2>1, TwoGoesOn DEF Child
  <2> QED BY <1>1, <1>2, <1>7, <2>2, <2>3, WaitedBase, EvenWaited, ReadersKept DEF Inv, Base
<1>8. CASE Exec
  <2> DEFINE q == [Top EXCEPT !.at = "solve"]
  <2>1. /\ Runs("child") /\ Becomes(q) /\ Top \in Proc
        /\ UNCHANGED <<file, offset, answers, log, failed>>
    BY <1>8, Running DEF Exec
  <2>2. /\ q.at = "solve" /\ q.line = Top.line /\ q.ahead = Top.ahead /\ q \in Proc
    BY <2>1 DEF Proc, Places
  <2> HIDE DEF q
  <2>3. Alone => Alone'
    BY <2>1, <2>2, AloneGoesOn
  <2>4. \A m \in Nat : Two(m) => Two(m)'
    BY <2>1, <2>2, TwoGoesOn DEF Child
  <2> QED BY <1>1, <1>2, <1>8, <2>3, <2>4, ExecBase, EvenExec, ReadersKept DEF Inv, Base
<1> QED BY <1>3, <1>4, <1>5, <1>6, <1>7, <1>8 DEF EqStep

LEMMA NextInv == ASSUME Inv, EqNext PROVE Inv'
<1>1. CASE EqStep
  BY <1>1, StepInv
<1>2. CASE ExecFails
  <2>1. failed' # <<>>
    BY <1>2, Failing DEF ExecFails
  <2> QED BY <1>2, <2>1, ExecFailsBase, ReadersExecFails DEF Inv, Base
<1>3. CASE ForkFails
  <2> DEFINE q == [Top EXCEPT !.at = "close"]
  <2>1. /\ Runs("fork") /\ Fails("fork") /\ Becomes(q) /\ Top \in Proc
        /\ UNCHANGED <<file, offset, answers, log>>
    BY <1>3, Running DEF ForkFails
  <2>2. /\ q.at = "close" /\ q.line = Top.line /\ q.ahead = Top.ahead /\ q \in Proc
    BY <2>1 DEF Proc, Places
  <2> HIDE DEF q
  <2>3. failed' # <<>> /\ Calls("exec")' = Calls("exec") /\ Failures("exec")' = Failures("exec")
    BY <2>1, Failing
  <2>4. Alone => Alone'
    BY <2>1, <2>2, AloneGoesOn
  <2>5. \A m \in Nat : Two(m) => Two(m)'
    BY <2>1, <2>2, TwoGoesOn DEF Child
  <2> QED BY <1>3, <2>3, <2>4, <2>5, ForkFailsBase, ReadersKept DEF Inv, Base
<1>4. CASE OpenFails
  <2>1. failed' # <<>> /\ Calls("exec")' = Calls("exec") /\ Failures("exec")' = Failures("exec")
    BY <1>4, Failing DEF OpenFails
  <2> QED BY <1>4, <2>1, OpenFailsBase, AloneOpenFails, TwoOpenFails, ReadersKept DEF Inv, Base
<1>5. CASE Crash
  <2>1. failed' # <<>> /\ Calls("exec")' = Calls("exec") /\ Failures("exec")' = Failures("exec")
    BY <1>5, Failing DEF Crash
  <2> QED BY <1>5, <2>1, CrashBase, AloneCrash, TwoCrash, ReadersKept DEF Inv, Base
<1> QED BY <1>1, <1>2, <1>3, <1>4, <1>5 DEF EqNext

LEMMA StutterInv == ASSUME Inv, UNCHANGED eqVars PROVE Inv'
<1> USE DEF eqVars
<1>1. Types' /\ Stacked'
  BY DEF Inv, Types, Stacked, Reads, Upto
<1>2. Stopped'
  BY DEF Inv, Stopped, Stops, Failures, Calls
<1>3. Tracked'
  BY DEF Inv, Tracked, Settled, Pending, Has, Unread, Upto, Due, Calls, Failures
<1>4. Alone => Alone'
  BY DEF Alone, Upto, Due
<1>5. \A m \in Nat : Two(m) => Two(m)'
  BY DEF Two, Upto, Due
<1>6. Readers'
  BY <1>4, <1>5, ReadersKept DEF Calls, Failures
<1>7. failed' = <<>> => Even'
  BY DEF Inv, Even
<1> QED BY <1>1, <1>2, <1>3, <1>6, <1>7 DEF Inv

LEMMA EqInv == EqSpec => []Inv
<1>1. Inv /\ [EqNext]_eqVars => Inv'
  BY NextInv, StutterInv
<1> QED BY InitInv, <1>1, PTL DEF EqSpec

(* As long as no call fails the answers are those of the equations, each   *)
(* once and in the order of the file; in the end of all of them, and the   *)
(* log says so: whatever the file, and however much of it is read at once. *)
THEOREM EquationsAnsweredInOrder == EqSpec => []AnsweredInOrder
  BY EqInv, InOrderByInv, PTL

(* However many calls fail, a failed exec or open costs no equation but    *)
(* its own; a failed fork costs none before its line, a crash none up to   *)
(* the line that was read last; and none is answered twice, or though it   *)
(* is not due, unless exec failed for an earlier line, or several times.   *)
THEOREM EquationsAnsweredOnce == EqSpec => []AnsweredOnce
<1>1. Inv => AnsweredOnce
  BY ExtraByInv, NoneMissedByInv DEF AnsweredOnce
<1> QED BY EqInv, <1>1, PTL

(* The position stays in the file, what is read ahead and logged are lines *)
(* of it, and only the last process does not wait for a child.             *)
THEOREM EquationsTypeOK == EqSpec => []EqTypeOK
<1>1. ASSUME Inv PROVE EqTypeOK
  <2>1. /\ Len(file) <= MaxLines /\ ToSet(file) \subseteq {"equation", "other"}
        /\ offset \in 0 .. Len(file) /\ Len(file) \in Nat
        /\ answers \in Seq(LineNumbers) /\ log \in Seq(LineNumbers)
    BY <1>1 DEF Inv, Types, ToSet
  <2>2. ASSUME NEW i \in DOMAIN stack
        PROVE  /\ stack[i].at \in IF i < Len(stack) THEN {"wait"} ELSE Places
               /\ stack[i].line \in 0 .. Len(file)
               /\ stack[i].ahead \in Seq(LineNumbers) /\ stack[i].held \in Seq(LineNumbers)
               /\ stack[i].logs <=> i = 1
    <3>1. stack[i] \in Proc
      BY <1>1 DEF Inv, Types
    <3>2. /\ stack[i].line \in Nat /\ Len(stack[i].ahead) \in Nat
          /\ stack[i].ahead \in Seq(LineNumbers) /\ stack[i].held \in Seq(LineNumbers)
          /\ stack[i].at \in Places /\ Upto(stack[i]) = stack[i].line + Len(stack[i].ahead)
      BY <3>1, TopType DEF Upto
    <3>3. /\ Upto(stack[i]) <= Len(file) /\ (i < Len(stack) => stack[i].at = "wait")
          /\ (stack[i].logs <=> i = 1)
      BY <1>1 DEF Inv, Stacked, Reads
    <3>4. stack[i].line \in 0 .. Len(file)
      BY <2>1, <3>2, <3>3
    <3> QED BY <3>2, <3>3, <3>4
  <2> QED BY <2>1, <2>2 DEF EqTypeOK, Places
<1> QED BY EqInv, <1>1, PTL

-----------------------------------------------------------------------------
(* The permissions of a mode. *)

LEMMA PermissionTells ==
  ASSUME NEW mode \in SUBSET (0 .. 11) PROVE Tells(get_permission(mode)) = mode
<1> DEFINE p == get_permission(mode)
           Rwx(i)   == IF 9 - i \in mode THEN perm_statuses[i] ELSE "-"
           Marked(i, bit, up, low) ==
             IF bit \in mode THEN (IF Rwx(i) = "x" THEN up ELSE low) ELSE Rwx(i)
<1>1. /\ \A i \in {1, 2, 4, 5, 7, 8} : p[i] = Rwx(i)
      /\ p[3] = Marked(3, 11, "S", "s")
      /\ p[6] = Marked(6, 10, "G", "g")
      /\ p[9] = Marked(9, 9, "T", "t")
  <2> DEFINE plain == [i \in 1 .. 9 |-> Rwx(i)]
             Mark(q, bit, i, up, low) ==
               IF bit \in mode THEN [q EXCEPT ![i] = IF @ = "x" THEN up ELSE low] ELSE q
             p1 == Mark(plain, 11, 3, "S", "s")
             p2 == Mark(p1, 10, 6, "G", "g")
  <2>1. p = Mark(p2, 9, 9, "T", "t")
    BY DEF get_permission
  <2> HIDE DEF p
  <2>2. DOMAIN plain = 1 .. 9 /\ \A i \in 1 .. 9 : plain[i] = Rwx(i)
    OBVIOUS
  <2> HIDE DEF plain, Rwx
  <2>3. /\ DOMAIN p1 = 1 .. 9 /\ p1[3] = Marked(3, 11, "S", "s")
        /\ \A i \in (1 .. 9) \ {3} : p1[i] = Rwx(i)
    BY <2>2
  <2> HIDE DEF p1
  <2>4. /\ DOMAIN p2 = 1 .. 9 /\ p2[6] = Marked(6, 10, "G", "g")
        /\ \A i \in (1 .. 9) \ {6} : p2[i] = p1[i]
    BY <2>3
  <2> HIDE DEF p2
  <2>5. /\ p[9] = Marked(9, 9, "T", "t")
        /\ \A i \in (1 .. 9) \ {9} : p[i] = p2[i]
    BY <2>1, <2>3, <2>4
  <2> HIDE DEF Mark, Marked
  <2> QED BY <2>3, <2>4, <2>5
<1> HIDE DEF p
<1>2. \A i \in 1 .. 9 : Rwx(i) \in {"r", "w", "x", "-"} /\ (Rwx(i) # "-" <=> 9 - i \in mode)
  BY DEF perm_statuses
<1>3. Rwx(3) \in {"x", "-"} /\ Rwx(6) \in {"x", "-"} /\ Rwx(9) \in {"x", "-"}
  BY DEF perm_statuses
<1> HIDE DEF Rwx
<1>4. \A i \in 1 .. 9 : p[i] \in {"r", "w", "x", "S", "G", "T"} <=> 9 - i \in mode
  BY <1>1, <1>2, <1>3
<1>5. \A i \in 0 .. 8 : p[9 - i] \in {"r", "w", "x", "S", "G", "T"} <=> i \in mode
  <2> SUFFICES ASSUME NEW i \in 0 .. 8
               PROVE  p[9 - i] \in {"r", "w", "x", "S", "G", "T"} <=> i \in mode
    OBVIOUS
  <2>1. 9 - i \in 1 .. 9 /\ 9 - (9 - i) = i
    OBVIOUS
  <2> QED BY <1>4, <2>1
<1>6. /\ p[3] \in {"S", "s"} <=> 11 \in mode
      /\ p[6] \in {"G", "g"} <=> 10 \in mode
      /\ p[9] \in {"T", "t"} <=> 9 \in mode
  BY <1>1, <1>3
<1>7. \A i : i \in Tells(p) <=> i \in mode
  <2>1. \A i : i \in mode => i \in 0 .. 8 \/ i \in {9, 10, 11}
    OBVIOUS
  <2> QED BY <1>5, <1>6, <2>1 DEF Tells
<1> QED BY <1>7 DEF p, Tells

(* What sort_files and get_atrs_by_link show of the permissions of a file  *)
(* tells all twelve bits of its mode, though it has nine letters.          *)
THEOREM StatPermissionsTell == StatSpec => []PermissionsTellTheMode
<1> DEFINE SInv == listed # <<>> =>
                     \E mode \in Modes : listed = <<mode, get_permission(mode)>>
<1>1. StatInit => SInv
  BY DEF StatInit
<1>2. SInv /\ [get_full_stat]_listed => SInv'
  BY DEF get_full_stat
<1>3. SInv => PermissionsTellTheMode
  <2> SUFFICES ASSUME SInv, listed # <<>> PROVE Tells(listed[2]) = listed[1]
    BY DEF PermissionsTellTheMode
  <2>1. PICK mode \in Modes : listed = <<mode, get_permission(mode)>>
    OBVIOUS
  <2>2. mode \in SUBSET (0 .. 11)
    BY DirectoryAssumption
  <2> QED BY <2>1, <2>2, PermissionTells
<1> QED BY <1>1, <1>2, <1>3, PTL DEF StatSpec
-----------------------------------------------------------------------------
(* from_int_to_str: the digits of a number make that number again.         *)

(* What Decimal(s) is computed with. *)
Decimals(s) ==
  LET value[k \in 0 .. Len(s)] == IF k = 0 THEN 0 ELSE 10 * value[k - 1] + s[k]
  IN  value

LEMMA DecimalsDef ==
  ASSUME NEW s \in Seq(Nat)
  PROVE  /\ Decimals(s) \in [0 .. Len(s) -> Nat]
         /\ Decimals(s)[0] = 0
         /\ \A k \in 1 .. Len(s) : Decimals(s)[k] = 10 * Decimals(s)[k - 1] + s[k]
<1> DEFINE n    == Len(s)
           step == [p \in Nat \X (1 .. n) |-> 10 * p[1] + s[p[2]]]
<1>1. n \in Nat /\ \A k \in 1 .. n : s[k] \in Nat
  OBVIOUS
<1>2. step \in [Nat \X (1 .. n) -> Nat]
  <2> SUFFICES ASSUME NEW p \in Nat \X (1 .. n) PROVE 10 * p[1] + s[p[2]] \in Nat
    OBVIOUS
  <2>1. p[1] \in Nat /\ s[p[2]] \in Nat
    BY <1>1
  <2> QED BY <2>1
<1>3. PICK h \in [0 .. n -> Nat] :
        h[0] = 0 /\ \A k \in 1 .. n : h[k] = step[<<h[k - 1], k>>]
  <2> HIDE DEF step, n
  <2>1. IsStep(Nat, 0, n, step)
    BY <1>1, <1>2 DEF IsStep
  <2>2. \E h : Iterates(h, Nat, 0, n, step)
    BY <2>1, Iteration, Zenon
  <2> QED BY <2>2, Zenon DEF Iterates
<1>4. /\ h \in [0 .. n -> Nat] /\ h[0] = 0
      /\ \A k \in 1 .. n : h[k] = 10 * h[k - 1] + s[k]
  <2> SUFFICES ASSUME NEW k \in 1 .. n PROVE h[k] = 10 * h[k - 1] + s[k]
    BY <1>3
  <2>1. k - 1 \in 0 .. n /\ h[k - 1] \in Nat
    <3> HIDE DEF n, step
    <3>1. k - 1 \in 0 .. n
      BY <1>1
    <3>2. h \in [0 .. n -> Nat]
      BY <1>3
    <3> QED BY ONLY <3>1, <3>2
  <2>2. h[k] = step[<<h[k - 1], k>>]
    BY <1>3
  <2> QED BY ONLY <2>1, <2>2
<1> HIDE DEF step
<1>9. h = [k \in 0 .. n |-> IF k = 0 THEN 0 ELSE 10 * h[k - 1] + s[k]]
  <2> HIDE DEF n
  <2>1. \A k \in 0 .. n : k # 0 => k \in 1 .. n
    BY <1>1
  <2> QED BY ONLY <1>4, <2>1
<1> DEFINE w == Decimals(s)
<1>5. w = [k \in 0 .. n |-> IF k = 0 THEN 0 ELSE 10 * w[k - 1] + s[k]]
  BY <1>9, Zenon DEF Decimals
<1> HIDE DEF w
<1>6. w[0] = 0 /\ \A k \in 1 .. n : w[k] = 10 * w[k - 1] + s[k]
  <2> HIDE DEF n
  <2>1. 0 \in 0 .. n /\ \A k \in 1 .. n : k \in 0 .. n /\ k # 0
    BY <1>1
  <2> QED BY ONLY <1>5, <2>1
<1>7. \A k \in 0 .. n : w[k] \in Nat
  <2> DEFINE T == {k \in 0 .. n : w[k] \in Nat}
  <2>1. 0 \in T
    BY <1>1, <1>6
  <2>2. ASSUME NEW k \in 0 .. n - 1, k \in T PROVE k + 1 \in T
    <3>1. k + 1 \in 1 .. n /\ (k + 1) - 1 = k /\ w[k] \in Nat /\ s[k + 1] \in Nat
      BY <1>1, <2>2
    <3>2. w[k + 1] = 10 * w[k] + s[k + 1]
      BY <1>6, <3>1
    <3> QED BY <3>1, <3>2
  <2> HIDE DEF T
  <2>3. 0 .. n \subseteq T
    BY <1>1, <2>1, <2>2, InductionTo
  <2> QED BY <2>3 DEF T
<1>8. w \in [0 .. n -> Nat]
  BY <1>5, <1>7
<1> QED BY <1>6, <1>8 DEF w

(* One digit more, behind the others. *)
LEMMA DecimalAppend ==
  ASSUME NEW s \in Seq(Nat), NEW d \in Nat
  PROVE  Decimal(s) \in Nat /\ Decimal(Append(s, d)) = 10 * Decimal(s) + d
<1> DEFINE t == Append(s, d)
           n == Len(s)
           v == Decimals(s)
           w == Decimals(t)
<1>1. /\ t \in Seq(Nat) /\ n \in Nat /\ Len(t) = n + 1 /\ t[n + 1] = d
      /\ \A k \in 1 .. n : t[k] = s[k]
  OBVIOUS
<1>2. /\ v \in [0 .. n -> Nat] /\ v[0] = 0
      /\ \A k \in 1 .. n : v[k] = 10 * v[k - 1] + s[k]
  BY DecimalsDef
<1>3. /\ w[0] = 0 /\ \A k \in 1 .. n + 1 : w[k] = 10 * w[k - 1] + t[k]
  <2> HIDE DEF t
  <2> QED BY <1>1, DecimalsDef
<1>4. Decimal(s) = v[n] /\ Decimal(t) = w[n + 1]
  BY <1>1 DEF Decimal, Decimals
<1> HIDE DEF t, v, w, n
<1>5. \A k \in 0 .. n : w[k] = v[k]
  <2> DEFINE T == {k \in 0 .. n : w[k] = v[k]}
  <2>1. 0 \in T
    BY <1>1, <1>2, <1>3
  <2>2. ASSUME NEW k \in 0 .. n - 1, k \in T PROVE k + 1 \in T
    <3>1. k + 1 \in 1 .. n /\ k + 1 \in 1 .. n + 1 /\ (k + 1) - 1 = k /\ w[k] = v[k]
      BY <1>1, <2>2
    <3>2. w[k + 1] = 10 * w[k] + t[k + 1] /\ v[k + 1] = 10 * v[k] + s[k + 1]
      BY <1>2, <1>3, <3>1
    <3> QED BY <1>1, <3>1, <3>2
  <2> HIDE DEF T
  <2>3. 0 .. n \subseteq T
    BY <1>1, <2>1, <2>2, InductionTo
  <2> QED BY <2>3 DEF T
<1>6. w[n + 1] = 10 * w[n] + t[n + 1]
  BY <1>1, <1>3
<1> QED BY <1>1, <1>2, <1>4, <1>5, <1>6 DEF t

LEMMA DivMod ==
  ASSUME NEW n \in Nat \ {0}
  PROVE  n % 10 \in Nat /\ n \div 10 \in 0 .. n - 1 /\ 10 * (n \div 10) + (n % 10) = n
<1>1. n % 10 \in Nat /\ n \div 10 \in 0 .. n - 1
  OBVIOUS
<1> DEFINE q == n \div 10
           r == n % 10
<1>2. r = n - 10 * q /\ q \in Int /\ r \in Int
  OBVIOUS
<1> HIDE DEF q, r
<1>3. 10 * q + r = n
  BY <1>2
<1> QED BY <1>1, <1>3 DEF q, r

(* The digits of n, the last one first: there are such sequences. *)
LEMMA ReversedExists ==
  ASSUME NEW v \in Nat
  PROVE  \E h \in [0 .. v -> Seq(Nat)] :
           \A n \in 0 .. v : h[n] = IF n = 0 THEN <<>> ELSE <<n % 10>> \o h[n \div 10]
<1> DEFINE Goes(h, m) == \A n \in 0 .. m : h[n] = IF n = 0 THEN <<>>
                                                  ELSE <<n % 10>> \o h[n \div 10]
           T == {m \in 0 .. v : \E h \in [0 .. m -> Seq(Nat)] : Goes(h, m)}
<1>0. \A n \in Nat \ {0} : n % 10 \in Nat /\ n \div 10 \in 0 .. n - 1
  BY DivMod
<1>1. 0 \in T
  <2> DEFINE h == [n \in 0 .. 0 |-> <<>>]
  <2>1. h \in [0 .. 0 -> Seq(Nat)] /\ h[0] = <<>>
    OBVIOUS
  <2> HIDE DEF h
  <2>2. Goes(h, 0)
    BY <2>1
  <2> QED BY <2>1, <2>2
<1>2. ASSUME NEW m \in 0 .. v - 1, m \in T PROVE m + 1 \in T
  <2>1. PICK h \in [0 .. m -> Seq(Nat)] : Goes(h, m)
    BY <1>2
  <2> DEFINE new == <<(m + 1) % 10>> \o h[(m + 1) \div 10]
             g   == [n \in 0 .. m + 1 |-> IF n = m + 1 THEN new ELSE h[n]]
  <2>2. new \in Seq(Nat)
    <3>1. (m + 1) \div 10 \in 0 .. m /\ (m + 1) % 10 \in Nat
      BY <1>0
    <3>2. h[(m + 1) \div 10] \in Seq(Nat) /\ <<(m + 1) % 10>> \in Seq(Nat)
      BY <3>1
    <3> QED BY <3>2
  <2>3. /\ g \in [0 .. m + 1 -> Seq(Nat)] /\ g[m + 1] = new
        /\ \A n \in 0 .. m : g[n] = h[n]
    <3> HIDE DEF new
    <3> QED BY <2>2
  <2> HIDE DEF g
  <2>4. ASSUME NEW n \in 0 .. m + 1
        PROVE  g[n] = IF n = 0 THEN <<>> ELSE <<n % 10>> \o g[n \div 10]
    <3>1. CASE n = m + 1
      <4>1. n # 0 /\ n \div 10 \in 0 .. m
        BY <1>0, <3>1
      <4> QED BY <2>3, <3>1, <4>1
    <3>2. CASE n \in 0 .. m
      <4>1. n # 0 => n \div 10 \in 0 .. m
        BY <1>0, <3>2
      <4>2. h[n] = IF n = 0 THEN <<>> ELSE <<n % 10>> \o h[n \div 10]
        BY <2>1, <3>2
      <4> QED BY <2>3, <3>2, <4>1, <4>2
    <3> QED BY <3>1, <3>2
  <2>5. Goes(g, m + 1)
    BY <2>4
  <2> HIDE DEF Goes
  <2> QED BY <2>3, <2>5
<1>3. v \in T
  <2> HIDE DEF T
  <2> QED BY <1>1, <1>2, InductionTo
<1> QED BY <1>3

LEMMA ReversedDef ==
  ASSUME NEW v \in Nat, NEW w,
         w = CHOOSE r : r = [n \in 0 .. v |-> IF n = 0 THEN <<>>
                                              ELSE <<n % 10>> \o r[n \div 10]]
  PROVE  \A n \in 0 .. v :
           w[n] \in Seq(Nat) /\ w[n] = IF n = 0 THEN <<>> ELSE <<n % 10>> \o w[n \div 10]
<1>4. PICK h \in [0 .. v -> Seq(Nat)] :
        \A n \in 0 .. v : h[n] = IF n = 0 THEN <<>> ELSE <<n % 10>> \o h[n \div 10]
  BY ReversedExists
<1>5. h = [n \in 0 .. v |-> IF n = 0 THEN <<>> ELSE <<n % 10>> \o h[n \div 10]]
  BY ONLY <1>4
<1>6. w = [n \in 0 .. v |-> IF n = 0 THEN <<>> ELSE <<n % 10>> \o w[n \div 10]]
  BY <1>5, Zenon
<1>7. \A n \in 0 .. v : w[n] = IF n = 0 THEN <<>> ELSE <<n % 10>> \o w[n \div 10]
  BY ONLY <1>6
<1> SUFFICES ASSUME NEW n \in 0 .. v PROVE w[n] \in Seq(Nat)
  BY <1>7
<1>8. ASSUME w[n] \notin Seq(Nat) PROVE FALSE
  <2> DEFINE I == {m \in Nat : m \in 0 .. v /\ w[m] \notin Seq(Nat)}
  <2>1. I \in SUBSET Nat /\ n \in I
    BY ONLY <1>8, n \in 0 .. v, v \in Nat
  <2>2. \A m : m \in I <=> m \in 0 .. v /\ w[m] \notin Seq(Nat)
    BY ONLY v \in Nat
  <2> HIDE DEF I
  <2>3. PICK m \in I : \A k \in I : m <= k
    BY ONLY <2>1, LeastNatural
  <2>4. m \in 0 .. v /\ w[m] \notin Seq(Nat)
    BY <2>2, <2>3, Zenon
  <2>5. CASE m = 0
    <3>1. w[m] = <<>>
      BY ONLY <1>7, <2>4, <2>5
    <3> QED BY ONLY <2>4, <3>1
  <2>6. CASE m # 0
    <3>1. m \div 10 \in 0 .. m - 1 /\ m % 10 \in Nat /\ m \div 10 \in 0 .. v
      BY ONLY <2>4, <2>6, DivMod, v \in Nat
    <3>2. m \div 10 \notin I
      BY ONLY <2>3, <2>4, <3>1, v \in Nat
    <3>3. w[m \div 10] \in Seq(Nat)
      BY ONLY <2>2, <3>1, <3>2
    <3>4. <<m % 10>> \o w[m \div 10] \in Seq(Nat)
      BY ONLY <3>1, <3>3
    <3> QED BY ONLY <1>7, <2>4, <2>6, <3>4
  <2> QED BY <2>5, <2>6
<1> QED BY <1>8

LEMMA ReverseMore ==
  ASSUME NEW s \in Seq(Nat), NEW d \in Nat
  PROVE  /\ Reverse(s) \in Seq(Nat) /\ Len(Reverse(s)) = Len(s)
         /\ Reverse(<<d>> \o s) = Append(Reverse(s), d)
<1> DEFINE t == <<d>> \o s
           n == Len(s)
<1>1. /\ t \in Seq(Nat) /\ n \in Nat /\ Len(t) = n + 1 /\ t[1] = d
      /\ \A k \in 1 .. n : t[k + 1] = s[k]
  OBVIOUS
<1> HIDE DEF t
<1>2. Reverse(s) \in Seq(Nat) /\ Len(Reverse(s)) = n
      /\ \A k \in 1 .. n : Reverse(s)[k] = s[n - k + 1]
  <2>1. \A k \in 1 .. n : n - k + 1 \in 1 .. n /\ s[n - k + 1] \in Nat
    OBVIOUS
  <2> QED BY <2>1 DEF Reverse
<1>3. Reverse(t) \in Seq(Nat) /\ Len(Reverse(t)) = n + 1
      /\ \A k \in 1 .. n + 1 : Reverse(t)[k] = t[(n + 1) - k + 1]
  <2>1. \A k \in 1 .. n + 1 : (n + 1) - k + 1 \in 1 .. n + 1 /\ t[(n + 1) - k + 1] \in Nat
    BY <1>1
  <2> QED BY <1>1, <2>1 DEF Reverse
<1> HIDE DEF n
<1>4. Append(Reverse(s), d) \in Seq(Nat) /\ Len(Append(Reverse(s), d)) = n + 1
      /\ Append(Reverse(s), d)[n + 1] = d
      /\ \A k \in 1 .. n : Append(Reverse(s), d)[k] = Reverse(s)[k]
  BY <1>1, <1>2
<1>5. ASSUME NEW k \in 1 .. n + 1 PROVE Reverse(t)[k] = Append(Reverse(s), d)[k]
  <2>1. CASE k = n + 1
    BY <1>1, <1>3, <1>4, <2>1
  <2>2. CASE k \in 1 .. n
    <3>1. n - k + 1 \in 1 .. n /\ (n + 1) - k + 1 = (n - k + 1) + 1
      BY <1>1, <2>2
    <3>2. Reverse(t)[k] = t[(n - k + 1) + 1]
      BY ONLY <1>3, <3>1, k \in 1 .. n + 1
    <3>3. t[(n - k + 1) + 1] = s[n - k + 1]
      BY ONLY <1>1, <3>1
    <3>4. Append(Reverse(s), d)[k] = s[n - k + 1]
      BY ONLY <1>2, <1>4, <2>2
    <3> QED BY ONLY <3>2, <3>3, <3>4
  <2>3. k = n + 1 \/ k \in 1 .. n
    BY ONLY <1>1, k \in 1 .. n + 1
  <2> QED BY ONLY <2>1, <2>2, <2>3
<1>6. Reverse(t) = Append(Reverse(s), d)
  BY ONLY <1>3, <1>4, <1>5, SeqEqual
<1> QED BY <1>2, <1>6 DEF t, n

LEMMA DigitsMakeTheNumber ==
  ASSUME NEW v \in Nat PROVE Decimal(from_int_to_str(v)) = v
<1> DEFINE w == CHOOSE r : r = [n \in 0 .. v |-> IF n = 0 THEN <<>>
                                                 ELSE <<n % 10>> \o r[n \div 10]]
<1>1. from_int_to_str(v) = IF v = 0 THEN <<0>> ELSE Reverse(w[v])
  BY Zenon DEF from_int_to_str
<1>2. \A n \in 0 .. v :
        w[n] \in Seq(Nat) /\ w[n] = IF n = 0 THEN <<>> ELSE <<n % 10>> \o w[n \div 10]
  BY ReversedDef
<1> HIDE DEF w
<1>3. Decimal(<<>>) = 0 /\ Decimal(<<0>>) = 0
  <2>1. <<>> \in Seq(Nat) /\ Len(<<>>) = 0 /\ <<0>> = Append(<<>>, 0)
    OBVIOUS
  <2>2. Decimal(<<>>) = 0
    BY <2>1, DecimalsDef DEF Decimal, Decimals
  <2>3. Decimal(Append(<<>>, 0)) = 10 * Decimal(<<>>) + 0
    BY <2>1, DecimalAppend
  <2> QED BY <2>1, <2>2, <2>3
<1>4. \A n \in 0 .. v : Decimal(Reverse(w[n])) = n
  <2> DEFINE I == {n \in Nat : n \in 0 .. v /\ Decimal(Reverse(w[n])) # n}
  <2> SUFFICES ASSUME I # {} PROVE FALSE
    OBVIOUS
  <2> HIDE DEF I
  <2>1. PICK n \in I : \A k \in I : n <= k
    <3>1. I \in SUBSET Nat
      BY DEF I
    <3> QED BY <3>1, LeastNatural
  <2>2. n \in 0 .. v /\ Decimal(Reverse(w[n])) # n
    BY <2>1 DEF I
  <2>3. CASE n = 0
    <3>1. w[n] = <<>> /\ <<>> \in Seq(Nat) /\ Len(<<>>) = 0 /\ 0 \in Nat
      BY <1>2, <2>2, <2>3
    <3>2. Reverse(<<>>) \in Seq(Nat) /\ Len(Reverse(<<>>)) = 0
      BY <3>1, ReverseMore
    <3>3. Reverse(<<>>) = <<>>
      BY <3>2
    <3> QED BY <1>3, <2>2, <2>3, <3>1, <3>3
  <2>4. CASE n # 0
    <3>1. n \div 10 \in 0 .. n - 1 /\ n % 10 \in Nat /\ 10 * (n \div 10) + (n % 10) = n
      BY <2>2, <2>4, DivMod
    <3>2. n \div 10 \in 0 .. v /\ Decimal(Reverse(w[n \div 10])) = n \div 10
      BY <2>1, <2>2, <3>1 DEF I
    <3>3. Reverse(w[n]) = Append(Reverse(w[n \div 10]), n % 10)
      BY <1>2, <2>2, <2>4, <3>1, <3>2, ReverseMore
    <3>4. Reverse(w[n \div 10]) \in Seq(Nat)
      BY <1>2, <3>1, <3>2, ReverseMore
    <3>5. Decimal(Reverse(w[n])) = 10 * (n \div 10) + (n % 10)
      <4>1. Decimal(Append(Reverse(w[n \div 10]), n % 10))
              = 10 * Decimal(Reverse(w[n \div 10])) + (n % 10)
        BY <3>1, <3>4, DecimalAppend
      <4>2. Decimal(Reverse(w[n])) = 10 * Decimal(Reverse(w[n \div 10])) + (n % 10)
        BY ONLY <3>3, <4>1, Zenon
      <4> QED BY ONLY <3>2, <4>2, Zenon
    <3> QED BY <2>2, <3>1, <3>5
  <2> QED BY <2>3, <2>4
<1> QED BY <1>1, <1>3, <1>4

-----------------------------------------------------------------------------
(* HardLinkNumber. *)

LinkerAts == {"off", "search", "link", "linked", "failed"}
SorterAts == {"off", "reading", "printing", "done", "failed", "crashed"}

LinkerType ==
  /\ entry \in [Names -> Objects \union {"symlink", "none"}]
  /\ changes \in 0 .. MaxChanges
  /\ linker \in [Linkers -> [at : LinkerAts, file : Files \union {"none"}, number : Nat]]
  /\ \A r \in Linkers : linker[r].at # "off" => linker[r].file \in Files /\ linker[r].number > 0

(* The number n of f was a link at first, or is the one that a run made.   *)
Taken(k, f, n) == n <= k \/ \E q \in Linked(f) : linker[q].number = n

(* Every link was there at first or was made by a run; a run passes only   *)
(* numbers that are taken; and while no user has changed anything, exactly *)
(* the numbers taken are links, a run that found a number has one that was *)
(* not there at first, two runs never made the same link, and a run fails  *)
(* only when another one made its link.                                    *)
LinksAreTaken(k) ==
  \A f \in Files, n \in 1 .. MaxNumber : entry[LinkName(f, n)] \in Files => Taken(k, f, n)

PassedAreTaken(k) ==
  \A r \in Linkers :
    /\ linker[r].number <= MaxNumber
    /\ linker[r].at # "off" =>
         \A n \in 1 .. linker[r].number - 1 : Taken(k, linker[r].file, n)

Undisturbed(k) ==
  changes = 0 =>
    /\ \A f \in Files : entry[f] = f
    /\ \A f \in Files, n \in 1 .. MaxNumber :
         entry[LinkName(f, n)] = IF Taken(k, f, n) THEN f ELSE "none"
    /\ \A r \in Linkers : linker[r].at \in {"link", "linked", "failed"} => linker[r].number > k
    /\ \A f \in Files : \A p, q \in Linked(f) : linker[p].number = linker[q].number => p = q
    /\ \A r \in Linkers : linker[r].at = "failed" =>
         \E q \in Linked(linker[r].file) : linker[q].number = linker[r].number

NumbersOK(k) == LinksAreTaken(k) /\ PassedAreTaken(k) /\ Undisturbed(k)
LinkInv == LinkerType /\ \E k \in OldLinks : NumbersOK(k)

(* The name of a link tells its file and its number.                       *)
LEMMA LinkNames ==
  ASSUME NEW f, NEW g, NEW n \in Nat, NEW m \in Nat
  PROVE  /\ LinkName(f, n)[1] = f /\ Decimal(LinkName(f, n)[2]) = n
         /\ LinkName(f, n) = LinkName(g, m) => f = g /\ n = m
<1>1. \A h, i : LinkName(h, i) = <<h, from_int_to_str(i)>>
  BY DEF LinkName
<1>2. Decimal(from_int_to_str(n)) = n /\ Decimal(from_int_to_str(m)) = m
  BY DigitsMakeTheNumber
<1>3. LinkName(f, n)[1] = f /\ LinkName(f, n)[2] = from_int_to_str(n)
  BY <1>1
<1>4. LinkName(g, m)[1] = g /\ LinkName(g, m)[2] = from_int_to_str(m)
  BY <1>1
<1> QED BY <1>2, <1>3, <1>4

LEMMA NamesOfLinks ==
  ASSUME NEW f \in Files, NEW n \in 1 .. MaxNumber
  PROVE  /\ f \in Names /\ LinkName(f, n) \in Names
         /\ LinkName(f, n) \notin Files /\ LinkName(f, n) \notin Objects
         /\ f # "none" /\ "none" \notin Files /\ "symlink" \notin Files
BY NamesAssumption DEF Names, Objects

(* A run that looks for a number goes no further than there are numbers:   *)
(* what it passed beyond the first k belongs to other runs.                *)
LEMMA NumbersAreEnough ==
  ASSUME LinkerType, NEW k \in OldLinks, NEW r \in Linkers, linker[r].at = "search",
         NEW m \in Nat, \A n \in 1 .. m - 1 : Taken(k, linker[r].file, n)
  PROVE  m <= MaxNumber
<1> DEFINE others == Linkers \ {r}
           I == {n \in Nat : k < n /\ n < m}
           J == {linker[q].number : q \in Linked(linker[r].file)}
<1>1. k \in Nat /\ MaxNumber \in Nat /\ IsFiniteSet(Linkers) /\ k + Cardinality(Linkers) <= MaxNumber
  BY NamesAssumption, DirectoryAssumption
<1>2. IsFiniteSet(others) /\ Cardinality(others) = Cardinality(Linkers) - 1
      /\ Cardinality(Linkers) \in Nat
  BY <1>1, FS_RemoveElement, FS_CardinalityType
<1>3. Linked(linker[r].file) \subseteq others
  BY DEF Linked
<1>4. (k + 1) .. (m - 1) \subseteq {linker[q].number : q \in others}
  BY <1>1, <1>3 DEF Taken
<1>5. IsFiniteSet({linker[q].number : q \in others})
      /\ Cardinality({linker[q].number : q \in others}) <= Cardinality(others)
  <2> DEFINE F == [q \in others |-> linker[q].number]
  <2>1. {linker[q].number : q \in others} = {F[q] : q \in others}
    OBVIOUS
  <2>2. F \in Surjection(others, {F[q] : q \in others})
    BY DEF Surjection
  <2> HIDE DEF F
  <2> QED BY <1>2, <2>1, <2>2, FS_Surjection
<1>6. CASE m - 1 >= k + 1
  <2>1. Cardinality((k + 1) .. (m - 1)) = m - 1 - k
    <3> DEFINE low  == k + 1
               high == m - 1
    <3>1. low \in Int /\ high \in Int /\ ~ (low > high)
      BY <1>1, <1>6
    <3>2. Cardinality(low .. high) = high - low + 1
      <4> HIDE DEF low, high
      <4> QED BY ONLY <3>1, FS_Interval
    <3> QED BY <1>1, <3>2
  <2>2. m - 1 - k <= Cardinality({linker[q].number : q \in others})
    <3> DEFINE S == {linker[q].number : q \in others}
               T == (k + 1) .. (m - 1)
    <3>1. IsFiniteSet(S) /\ T \in SUBSET S
      BY <1>4, <1>5
    <3>2. Cardinality(T) <= Cardinality(S)
      <4> HIDE DEF S, T
      <4> QED BY <3>1, FS_Subset
    <3> QED BY <2>1, <3>2
  <2>3. Cardinality({linker[q].number : q \in others}) \in Nat
    BY <1>5, FS_CardinalityType
  <2> QED BY <1>1, <1>2, <1>5, <2>2, <2>3
<1>7. CASE ~ (m - 1 >= k + 1)
  <2>1. Cardinality(Linkers) # 0
    BY <1>1, FS_EmptySet
  <2> QED BY <1>1, <1>2, <1>7, <2>1
<1> QED BY <1>6, <1>7

LEMMA LinkInit == DirInit => LinkInv
<1> SUFFICES ASSUME DirInit PROVE LinkInv
  OBVIOUS
<1>1. PICK k \in OldLinks :
        entry = [name \in Names |->
                   IF name \in Objects THEN name
                   ELSE IF name \in {LinkName(name[1], n) : n \in 1 .. k} THEN name[1]
                   ELSE "none"]
  BY DEF DirInit
<1>2. k \in Nat /\ MaxNumber \in Nat /\ MaxChanges \in Nat
  BY DirectoryAssumption
<1>3. \A f \in Objects : entry[f] = f
  BY <1>1 DEF Names
<1>4. ASSUME NEW f \in Files, NEW n \in 1 .. MaxNumber
      PROVE  entry[LinkName(f, n)] = IF n <= k THEN f ELSE "none"
  <2> DEFINE name == LinkName(f, n)
  <2>1. name \in Names /\ name \notin Objects /\ name[1] = f
    BY <1>2, NamesOfLinks, LinkNames
  <2>2. name \in {LinkName(f, m) : m \in 1 .. k} <=> n <= k
    <3>1. \A m \in 1 .. k : name = LinkName(f, m) => n = m
      BY <1>2, LinkNames
    <3> QED BY <1>2, <3>1
  <2> HIDE DEF name
  <2>3. entry[name] = IF n <= k THEN f ELSE "none"
    BY <1>1, <2>1, <2>2
  <2> QED BY <2>3 DEF name
<1>5. \A f : Linked(f) = {}
  BY DEF DirInit, Linked
<1>6. \A f, n : Taken(k, f, n) <=> n <= k
  BY <1>5 DEF Taken
<1>7. LinkerType
  <2>1. entry \in [Names -> Objects \union {"symlink", "none"}]
    <3>1. ASSUME NEW name \in Names PROVE entry[name] \in Objects \union {"symlink", "none"}
      <4>1. CASE name \in Objects
        BY <1>3, <4>1
      <4>2. CASE name \notin Objects
        <5>1. PICK f \in Files, n \in 1 .. MaxNumber : name = LinkName(f, n)
          BY <4>2 DEF Names
        <5> QED BY <1>4, <5>1 DEF Objects
      <4> QED BY <4>1, <4>2
    <3> QED BY <1>1, <3>1
  <2> QED BY <1>2, <2>1 DEF LinkerType, LinkerAts, DirInit
<1>8. LinksAreTaken(k)
  BY <1>4, <1>6, NamesOfLinks DEF LinksAreTaken
<1>9. PassedAreTaken(k)
  <2>1. \A r \in Linkers : linker[r].at = "off" /\ linker[r].number = 0
    BY DEF DirInit
  <2> QED BY <1>2, <2>1 DEF PassedAreTaken
<1>10. Undisturbed(k)
  <2>1. \A r \in Linkers : linker[r].at = "off"
    BY DEF DirInit
  <2> QED BY <1>3, <1>4, <1>5, <1>6, <2>1 DEF Undisturbed, Objects
<1> QED BY <1>7, <1>8, <1>9, <1>10 DEF LinkInv, NumbersOK

(* A step that only makes more numbers taken keeps what was passed.        *)
LEMMA LinkOpen ==
  ASSUME LinkerType, NEW k \in OldLinks, NumbersOK(k), NEW r \in Linkers, Open(r)
  PROVE  LinkerType' /\ NumbersOK(k)'
<1>1. PICK f \in Files :
        linker' = [linker EXCEPT ![r] = [at |-> "search", file |-> f, number |-> 1]]
  BY DEF Open
<1>2. /\ linker[r].at = "off" /\ entry' = entry /\ changes' = changes
      /\ linker'[r] = [at |-> "search", file |-> f, number |-> 1]
      /\ \A q \in Linkers \ {r} : linker'[q] = linker[q]
  BY <1>1 DEF Open, LinkerType
<1>3. LinkerType'
  <2>1. [at |-> "search", file |-> f, number |-> 1]
          \in [at : LinkerAts, file : Files \union {"none"}, number : Nat]
    BY DEF LinkerAts
  <2>2. linker' \in [Linkers -> [at : LinkerAts, file : Files \union {"none"}, number : Nat]]
    BY <1>1, <2>1 DEF LinkerType
  <2> QED BY <1>2, <2>2 DEF LinkerType
<1>4. \A g : Linked(g)' = Linked(g)
  BY <1>2 DEF Linked
<1>5. \A g, n : Taken(k, g, n)' <=> Taken(k, g, n)
  <2> SUFFICES ASSUME NEW g, NEW n PROVE Taken(k, g, n)' <=> Taken(k, g, n)
    OBVIOUS
  <2>1. \A q \in Linked(g) : linker'[q] = linker[q]
    BY <1>2 DEF Linked
  <2> QED BY <1>4, <2>1 DEF Taken
<1>6. LinksAreTaken(k)'
  BY <1>2, <1>5 DEF NumbersOK, LinksAreTaken
<1>7. PassedAreTaken(k)'
  <2> SUFFICES ASSUME NEW q \in Linkers
               PROVE  /\ linker'[q].number <= MaxNumber
                      /\ linker'[q].at # "off" =>
                           \A n \in 1 .. linker'[q].number - 1 : Taken(k, linker[q].file, n)'
    BY DEF PassedAreTaken
  <2>1. CASE q = r
    <3>1. 1 <= MaxNumber
      <4>1. Cardinality(Linkers) # 0 /\ Cardinality(Linkers) \in Nat
        BY NamesAssumption, FS_EmptySet, FS_CardinalityType
      <4>2. k \in Nat /\ MaxNumber \in Nat /\ k + Cardinality(Linkers) <= MaxNumber
        BY NamesAssumption, DirectoryAssumption
      <4> QED BY <4>1, <4>2
    <3>2. linker'[q].number = 1
      BY <1>2, <2>1
    <3> QED BY <3>1, <3>2
  <2>2. CASE q # r
    BY <1>2, <1>5, <2>2 DEF NumbersOK, PassedAreTaken
  <2> QED BY <2>1, <2>2
<1>8. Undisturbed(k)'
  <2> SUFFICES ASSUME changes = 0 PROVE Undisturbed(k)'
    BY <1>2 DEF Undisturbed
  <2> QED BY <1>2, <1>4, <1>5 DEF NumbersOK, Undisturbed, Linked
<1> QED BY <1>3, <1>6, <1>7, <1>8 DEF NumbersOK

LEMMA LinkSearch ==
  ASSUME LinkerType, NEW k \in OldLinks, NumbersOK(k), NEW r \in Linkers, Search(r)
  PROVE  LinkerType' /\ NumbersOK(k)'
<1> DEFINE l == linker[r]
<1>0. /\ l.at = "search" /\ l.file \in Files /\ l.number \in Nat /\ l.number > 0
      /\ l.number <= MaxNumber /\ k \in Nat /\ MaxNumber \in Nat
      /\ l = [at |-> "search", file |-> l.file, number |-> l.number]
  BY DirectoryAssumption DEF Search, LinkerType, NumbersOK, PassedAreTaken
<1> DEFINE there == entry[LinkName(l.file, l.number)] \in Files
           next  == IF there THEN [at |-> "search", file |-> l.file, number |-> l.number + 1]
                    ELSE [at |-> "link", file |-> l.file, number |-> l.number]
<1>1. /\ entry' = entry /\ changes' = changes /\ linker'[r] = next
      /\ DOMAIN linker' = Linkers /\ linker' = [q \in Linkers |-> linker'[q]]
      /\ \A q \in Linkers \ {r} : linker'[q] = linker[q]
  <2>1. entry' = entry /\ changes' = changes
    BY DEF Search
  <2>2. /\ DOMAIN linker' = Linkers /\ linker' = [q \in Linkers |-> linker'[q]]
        /\ \A q \in Linkers \ {r} : linker'[q] = linker[q]
    BY DEF Search, LinkerType
  <2>3. CASE there
    <3>1. linker'[r] = [l EXCEPT !.number = @ + 1]
      BY <2>3 DEF Search, LinkerType
    <3>2. [l EXCEPT !.number = @ + 1] = next
      BY <1>0, <2>3
    <3> QED BY ONLY <2>1, <2>2, <3>1, <3>2
  <2>4. CASE ~ there
    <3>1. linker'[r] = [l EXCEPT !.at = "link"]
      BY <2>4 DEF Search, LinkerType
    <3>2. [l EXCEPT !.at = "link"] = next
      BY <1>0, <2>4
    <3> QED BY ONLY <2>1, <2>2, <3>1, <3>2
  <2> QED BY <2>3, <2>4
<1>2. /\ next.file = l.file
      /\ there => next.at = "search" /\ next.number = l.number + 1
      /\ ~ there => next.at = "link" /\ next.number = l.number
      /\ next \in [at : LinkerAts, file : Files \union {"none"}, number : Nat]
  <2> HIDE DEF there
  <2> QED BY <1>0 DEF LinkerAts
<1>3. l.number \in 1 .. MaxNumber
  BY <1>0
<1> HIDE DEF next
<1>4. LinkerType'
  <2>1. linker' \in [Linkers -> [at : LinkerAts, file : Files \union {"none"}, number : Nat]]
    BY <1>1, <1>2 DEF LinkerType
  <2>2. next.file \in Files /\ next.number > 0
    <3> HIDE DEF there
    <3> QED BY <1>0, <1>2
  <2> QED BY <1>1, <2>1, <2>2 DEF LinkerType
<1>5. \A g : Linked(g)' = Linked(g)
  <2>1. r \notin Linked(l.file) /\ \A g : r \notin Linked(g) /\ r \notin Linked(g)'
    BY <1>0, <1>1, <1>2 DEF Linked
  <2> QED BY <1>1, <2>1 DEF Linked
<1>6. \A g : \A q \in Linked(g) : q # r /\ linker'[q] = linker[q]
  BY <1>0, <1>1 DEF Linked
<1>7. \A g, n : Taken(k, g, n)' <=> Taken(k, g, n)
  BY <1>5, <1>6 DEF Taken
<1>8. LinksAreTaken(k)'
  BY <1>1, <1>7 DEF NumbersOK, LinksAreTaken
<1>9. there => Taken(k, l.file, l.number)
  BY <1>0, <1>3 DEF NumbersOK, LinksAreTaken
<1>10. /\ next.number <= MaxNumber
       /\ \A n \in 1 .. next.number - 1 : Taken(k, l.file, n)
  <2>1. \A n \in 1 .. l.number - 1 : Taken(k, l.file, n)
    BY <1>0 DEF NumbersOK, PassedAreTaken
  <2>2. CASE there
    <3>1. \A n \in 1 .. (l.number + 1) - 1 : n = l.number \/ n \in 1 .. l.number - 1
      BY <1>0
    <3>2. \A n \in 1 .. (l.number + 1) - 1 : Taken(k, l.file, n)
      BY <1>9, <2>1, <2>2, <3>1
    <3>3. l.number + 1 \in Nat
      BY <1>0
    <3>4. l.number + 1 <= MaxNumber
      BY <1>0, <3>2, <3>3, NumbersAreEnough
    <3> QED BY <1>2, <2>2, <3>2, <3>4
  <2>3. CASE ~ there
    BY <1>0, <1>2, <2>1, <2>3
  <2> QED BY <2>2, <2>3
<1>11. PassedAreTaken(k)'
  <2> SUFFICES ASSUME NEW q \in Linkers
               PROVE  /\ linker'[q].number <= MaxNumber
                      /\ linker'[q].at # "off" =>
                           \A n \in 1 .. linker'[q].number - 1 : Taken(k, linker[q].file, n)'
    BY DEF PassedAreTaken
  <2>1. CASE q = r
    BY <1>1, <1>2, <1>7, <1>10, <2>1
  <2>2. CASE q # r
    BY <1>1, <1>7, <2>2 DEF NumbersOK, PassedAreTaken
  <2> QED BY <2>1, <2>2
<1>12. Undisturbed(k)'
  <2> SUFFICES ASSUME changes = 0 PROVE Undisturbed(k)'
    BY <1>1 DEF Undisturbed
  <2>1. Undisturbed(k)
    BY DEF NumbersOK
  <2>2. ~ there => l.number > k
    <3> SUFFICES ASSUME ~ (l.number > k) PROVE there
      OBVIOUS
    <3>1. Taken(k, l.file, l.number)
      BY <1>0 DEF Taken
    <3> QED BY <1>0, <1>3, <2>1, <3>1 DEF Undisturbed
  <2>3. \A q \in Linkers : linker'[q].at \in {"link", "linked", "failed"} => linker'[q].number > k
    BY <1>1, <1>2, <2>1, <2>2 DEF Undisturbed
  <2>4. \A f \in Files : \A p, q \in Linked(f)' : linker'[p].number = linker'[q].number => p = q
    BY <1>5, <1>6, <2>1 DEF Undisturbed
  <2>5. \A q \in Linkers : linker'[q].at = "failed" =>
          q # r /\ linker'[q] = linker[q]
    BY <1>1, <1>2
  <2>6. \A q \in Linkers : linker'[q].at = "failed" =>
          \E p \in Linked(linker[q].file)' : linker'[p].number = linker'[q].number
    BY <1>5, <1>6, <2>1, <2>5 DEF Undisturbed
  <2>7. /\ \A f \in Files : entry'[f] = f
        /\ \A f \in Files, n \in 1 .. MaxNumber :
             entry'[LinkName(f, n)] = IF Taken(k, f, n)' THEN f ELSE "none"
    BY <1>1, <1>7, <2>1 DEF Undisturbed
  <2> QED BY <2>3, <2>4, <2>6, <2>7 DEF Undisturbed
<1> QED BY <1>4, <1>8, <1>11, <1>12 DEF NumbersOK

LEMMA LinkStep ==
  ASSUME LinkerType, NEW k \in OldLinks, NumbersOK(k), NEW r \in Linkers, Link(r)
  PROVE  LinkerType' /\ NumbersOK(k)'
<1> DEFINE l    == linker[r]
           f    == l.file
           m    == l.number
           name == LinkName(f, m)
           ok   == Exists(f) /\ ~ Exists(name)
<1>0. /\ l.at = "link" /\ f \in Files /\ m \in 1 .. MaxNumber /\ name \in Names
      /\ k \in Nat /\ MaxNumber \in Nat
      /\ l = [at |-> "link", file |-> f, number |-> m]
      /\ name \notin Files /\ f \in Names
  <2>1. l.at = "link" /\ f \in Files /\ m \in Nat /\ m > 0 /\ m <= MaxNumber
    BY DEF Link, LinkerType, NumbersOK, PassedAreTaken
  <2>2. k \in Nat /\ MaxNumber \in Nat
    BY DirectoryAssumption
  <2>3. l = [at |-> "link", file |-> f, number |-> m]
    BY <2>1 DEF LinkerType
  <2>4. m \in 1 .. MaxNumber
    BY <2>1, <2>2
  <2> QED BY <2>1, <2>2, <2>3, <2>4, NamesOfLinks
<1>1. /\ changes' = changes
      /\ entry' = IF ok THEN [entry EXCEPT ![name] = entry[f]] ELSE entry
      /\ linker'[r] = [at |-> IF ok THEN "linked" ELSE "failed", file |-> f, number |-> m]
      /\ \A q \in Linkers \ {r} : linker'[q] = linker[q]
      /\ linker' = [q \in Linkers |-> linker'[q]]
  <2> HIDE DEF name
  <2>1. /\ changes' = changes
        /\ entry' = IF ok THEN [entry EXCEPT ![name] = entry[f]] ELSE entry
        /\ linker' = [linker EXCEPT ![r].at = IF ok THEN "linked" ELSE "failed"]
    BY DEF Link, name
  <2> HIDE DEF ok
  <2> QED BY <1>0, <2>1 DEF LinkerType
<1>2. LinkerType'
  <2>1. linker'[r] \in [at : LinkerAts, file : Files \union {"none"}, number : Nat]
        /\ linker'[r].file \in Files /\ linker'[r].number > 0
    <3> HIDE DEF ok
    <3> QED BY <1>0, <1>1 DEF LinkerAts
  <2>2. entry' \in [Names -> Objects \union {"symlink", "none"}]
    <3> HIDE DEF ok, name
    <3> QED BY <1>0, <1>1 DEF LinkerType
  <2>3. \A q \in Linkers : linker'[q] \in [at : LinkerAts, file : Files \union {"none"}, number : Nat]
    BY <1>1, <2>1 DEF LinkerType
  <2>4. linker' \in [Linkers -> [at : LinkerAts, file : Files \union {"none"}, number : Nat]]
    BY <1>1, <2>3
  <2>5. \A q \in Linkers : linker'[q].at # "off" => linker'[q].file \in Files /\ linker'[q].number > 0
    BY <1>1, <2>1 DEF LinkerType
  <2> QED BY <1>1, <2>2, <2>4, <2>5 DEF LinkerType
<1>3. /\ linker'[r].file = f /\ linker'[r].number = m
      /\ linker'[r].at = IF ok THEN "linked" ELSE "failed"
  BY <1>1
<1>4. \A g : Linked(g)' = IF ok /\ g = f THEN Linked(g) \union {r} ELSE Linked(g)
  <2> HIDE DEF ok, name
  <2>1. \A g : r \notin Linked(g) /\ (r \in Linked(g)' <=> ok /\ g = f)
    BY <1>0, <1>3 DEF Linked
  <2>2. \A g : \A q \in Linkers \ {r} : q \in Linked(g)' <=> q \in Linked(g)
    BY <1>1 DEF Linked
  <2>3. \A g : Linked(g) \subseteq Linkers /\ Linked(g)' \subseteq Linkers
    BY DEF Linked
  <2> QED BY <2>1, <2>2, <2>3
<1>5. \A g : \A q \in Linked(g) : q # r /\ linker'[q] = linker[q]
  BY <1>0, <1>1 DEF Linked
<1> HIDE DEF l, f, m
<1>6. \A g, n : Taken(k, g, n)' <=> (Taken(k, g, n) \/ (ok /\ g = f /\ n = m))
  <2> HIDE DEF ok, name
  <2> QED BY <1>3, <1>4, <1>5 DEF Taken
<1>7. \A g \in Files, n \in 1 .. MaxNumber :
        /\ LinkName(g, n) \in Names
        /\ LinkName(g, n) = name => g = f /\ n = m
  <2>1. m \in Nat /\ \A n \in 1 .. MaxNumber : n \in Nat
    BY <1>0
  <2> QED BY <2>1, LinkNames, NamesOfLinks
<1>8. LinksAreTaken(k)'
  <2> SUFFICES ASSUME NEW g \in Files, NEW n \in 1 .. MaxNumber, entry'[LinkName(g, n)] \in Files
               PROVE  Taken(k, g, n)'
    BY DEF LinksAreTaken
  <2>1. CASE ok /\ LinkName(g, n) = name
    BY <1>6, <1>7, <2>1
  <2>2. CASE ~ (ok /\ LinkName(g, n) = name)
    <3>1. entry'[LinkName(g, n)] = entry[LinkName(g, n)]
      <4> HIDE DEF ok, name
      <4> QED BY <1>1, <1>7, <2>2 DEF LinkerType
    <3> QED BY <1>6, <3>1 DEF NumbersOK, LinksAreTaken
  <2> QED BY <2>1, <2>2
<1>9. PassedAreTaken(k)'
  <2>1. \A q \in Linkers : /\ linker'[q].number = linker[q].number
                           /\ linker'[q].file = linker[q].file
                           /\ linker'[q].at # "off" => linker[q].at # "off"
    <3> HIDE DEF ok
    <3> QED BY <1>0, <1>1, <1>3 DEF f, m, l
  <2>2. \A q \in Linkers :
          /\ linker[q].number <= MaxNumber
          /\ linker[q].at # "off" =>
               \A n \in 1 .. linker[q].number - 1 : Taken(k, linker[q].file, n)
    BY DEF NumbersOK, PassedAreTaken
  <2>3. \A g, n : Taken(k, g, n) => Taken(k, g, n)'
    BY <1>6
  <2> QED BY <2>1, <2>2, <2>3 DEF PassedAreTaken
<1>10. Undisturbed(k)'
  <2> SUFFICES ASSUME changes = 0 PROVE Undisturbed(k)'
    BY <1>1 DEF Undisturbed
  <2>1. /\ \A g \in Files : entry[g] = g
        /\ \A g \in Files, n \in 1 .. MaxNumber :
             entry[LinkName(g, n)] = IF Taken(k, g, n) THEN g ELSE "none"
        /\ \A q \in Linkers : linker[q].at \in {"link", "linked", "failed"} => linker[q].number > k
        /\ \A g \in Files : \A p, q \in Linked(g) : linker[p].number = linker[q].number => p = q
        /\ \A q \in Linkers : linker[q].at = "failed" =>
             \E p \in Linked(linker[q].file) : linker[p].number = linker[q].number
    BY DEF NumbersOK, Undisturbed
  <2>2. m > k
    BY <1>0, <2>1 DEF l, m
  <2>3. Exists(f) /\ f # "none"
    BY <1>0, <2>1, NamesAssumption DEF Exists, Objects
  <2>4. ok <=> ~ Taken(k, f, m)
    BY <1>0, <2>1, <2>3 DEF Exists
  <2>5. Taken(k, f, m) => \E q \in Linked(f) : linker[q].number = m
    BY <1>0, <2>2 DEF Taken
  <2> HIDE DEF ok
  <2>6. \A g \in Files : entry'[g] = g
    <3>1. \A g \in Files : g \in Names /\ g # name
      BY <1>0 DEF Names, Objects
    <3> HIDE DEF name
    <3> QED BY <1>0, <1>1, <2>1, <3>1 DEF LinkerType
  <2>7. ASSUME NEW g \in Files, NEW n \in 1 .. MaxNumber
        PROVE  entry'[LinkName(g, n)] = IF Taken(k, g, n)' THEN g ELSE "none"
    <3>1. CASE ok /\ LinkName(g, n) = name
      <4>1. entry'[name] = entry[f] /\ entry[f] = f
        <5> HIDE DEF name
        <5> QED BY <1>0, <1>1, <2>1, <3>1 DEF LinkerType
      <4>2. g = f /\ n = m
        BY <1>7, <3>1
      <4> QED BY <1>6, <3>1, <4>1, <4>2
    <3>2. CASE ~ (ok /\ LinkName(g, n) = name)
      <4>1. entry'[LinkName(g, n)] = entry[LinkName(g, n)]
        <5> HIDE DEF name
        <5> QED BY <1>1, <1>7, <3>2 DEF LinkerType
      <4>2. ~ (ok /\ g = f /\ n = m)
        BY <3>2
      <4> QED BY <1>6, <2>1, <4>1, <4>2
    <3> QED BY <3>1, <3>2
  <2>8. \A q \in Linkers : linker'[q].at \in {"link", "linked", "failed"} => linker'[q].number > k
    BY <1>1, <1>3, <2>1, <2>2
  <2>9. ASSUME NEW g \in Files, NEW p \in Linked(g)', NEW q \in Linked(g)',
               linker'[p].number = linker'[q].number
        PROVE  p = q
    <3>1. \A o \in Linked(g)' : o = r \/ (o \in Linked(g) /\ linker'[o] = linker[o])
      BY <1>4, <1>5
    <3>2. \A o \in Linked(g) : r \in Linked(g)' => linker[o].number # m
      <4>1. r \in Linked(g)' => ok /\ g = f
        BY <1>3, <1>5, <1>4
      <4>2. ok => \A o \in Linked(f) : linker[o].number # m
        BY <2>4 DEF Taken
      <4> QED BY <4>1, <4>2
    <3> QED BY <1>3, <2>1, <2>9, <3>1, <3>2
  <2>10. ASSUME NEW q \in Linkers, linker'[q].at = "failed"
         PROVE  \E p \in Linked(linker[q].file)' : linker'[p].number = linker'[q].number
    <3>1. CASE q = r
      <4>1. ~ ok
        BY <1>3, <2>10, <3>1
      <4>2. PICK p \in Linked(f) : linker[p].number = m
        BY <2>4, <2>5, <4>1
      <4>3. \A g : g = f => p \in Linked(g)' /\ linker'[p].number = m
        BY <1>4, <1>5, <4>2
      <4> QED BY <1>3, <3>1, <4>3
    <3>2. CASE q # r
      <4>1. linker'[q] = linker[q]
        BY <1>1, <3>2
      <4>2. PICK p \in Linked(linker[q].file) : linker[p].number = linker[q].number
        BY <2>1, <2>10, <4>1
      <4>3. p \in Linked(linker[q].file)' /\ linker'[p] = linker[p]
        BY <1>4, <1>5, <4>1, <4>2
      <4> QED BY <4>1, <4>2, <4>3
    <3> QED BY <3>1, <3>2
  <2> QED BY <2>6, <2>7, <2>8, <2>9, <2>10 DEF Undisturbed
<1> QED BY <1>2, <1>8, <1>9, <1>10 DEF NumbersOK

(* The steps of the others: sort_files changes nothing that HardLinkNumber *)
(* looks at, users may remove any name and make a symbolic link.           *)
LEMMA LinkOthers ==
  ASSUME LinkerType, NEW k \in OldLinks, NumbersOK(k),
         OpenDir \/ ReadEntry \/ Sort \/ ShowEntry \/ Finish \/ UNCHANGED dirVars
  PROVE  LinkerType' /\ NumbersOK(k)'
<1>1. UNCHANGED <<entry, linker, changes>>
  BY DEF OpenDir, ReadEntry, Sort, ShowEntry, Finish, dirVars
<1> QED
  BY <1>1 DEF LinkerType, NumbersOK, LinksAreTaken, PassedAreTaken, Undisturbed, Taken, Linked

LEMMA LinkUsers ==
  ASSUME LinkerType, NEW k \in OldLinks, NumbersOK(k), Unlink \/ Write \/ Symlink
  PROVE  LinkerType' /\ NumbersOK(k)'
<1>1. changes' = changes + 1 /\ changes' \in 0 .. MaxChanges /\ changes' # 0 /\ linker' = linker
  BY DirectoryAssumption DEF LinkerType, Unlink, Write, Symlink, Change
<1>2. /\ entry' \in [Names -> Objects \union {"symlink", "none"}]
      /\ \A name \in Names : entry'[name] \in Files => entry[name] \in Files
  <2>1. CASE Write
    BY <2>1 DEF Write, LinkerType
  <2>2. CASE Unlink
    <3>1. PICK name \in Names : entry' = [entry EXCEPT ![name] = "none"]
      BY <2>2 DEF Unlink, Present
    <3> QED BY <3>1, NamesAssumption DEF LinkerType, Objects
  <2>3. CASE Symlink
    <3>1. PICK f \in Files, n \in SymlinkNumbers :
            entry' = [entry EXCEPT ![LinkName(f, n)] = "symlink"]
      BY <2>3 DEF Symlink
    <3> DEFINE name == LinkName(f, n)
    <3>2. name \in Names
      BY DirectoryAssumption, NamesOfLinks
    <3> HIDE DEF name
    <3>3. entry' = [entry EXCEPT ![name] = "symlink"]
      BY <3>1 DEF name
    <3> QED BY <3>2, <3>3, NamesAssumption DEF LinkerType, Objects
  <2> QED BY <2>1, <2>2, <2>3
<1>3. \A g, n : Taken(k, g, n)' <=> Taken(k, g, n)
  BY <1>1 DEF Taken, Linked
<1>4. LinksAreTaken(k)'
  BY <1>2, <1>3, NamesOfLinks DEF NumbersOK, LinksAreTaken
<1>5. PassedAreTaken(k)'
  BY <1>1, <1>3 DEF NumbersOK, PassedAreTaken
<1> QED BY <1>1, <1>2, <1>4, <1>5 DEF LinkerType, NumbersOK, Undisturbed

LEMMA LinkInvariant == DirSpec => []LinkInv
<1>1. LinkInv /\ [DirNext]_dirVars => LinkInv'
  <2> SUFFICES ASSUME LinkInv, [DirNext]_dirVars PROVE LinkInv'
    OBVIOUS
  <2>1. PICK k \in OldLinks : NumbersOK(k)
    BY DEF LinkInv
  <2>2. LinkerType
    BY DEF LinkInv
  <2> SUFFICES LinkerType' /\ NumbersOK(k)'
    BY DEF LinkInv
  <2>3. ASSUME NEW r \in Linkers, Open(r) \/ Search(r) \/ Link(r)
        PROVE  LinkerType' /\ NumbersOK(k)'
    BY <2>1, <2>2, <2>3, LinkOpen, LinkSearch, LinkStep
  <2>4. CASE OpenDir \/ ReadEntry \/ Sort \/ ShowEntry \/ Finish \/ UNCHANGED dirVars
    BY <2>1, <2>2, <2>4, LinkOthers
  <2>5. CASE Unlink \/ Write \/ Symlink
    BY <2>1, <2>2, <2>5, LinkUsers
  <2> QED BY <2>3, <2>4, <2>5 DEF DirNext
<1> QED BY LinkInit, <1>1, PTL DEF DirSpec

(* The numbers of the links that runs made, when none is left out and none *)
(* is made twice, are those that follow k.                                 *)
LEMMA NumbersFollow ==
  ASSUME NEW k \in Nat, NEW S, IsFiniteSet(S), NEW num \in [S -> Nat],
         \A p, q \in S : num[p] = num[q] => p = q,
         \A p \in S : num[p] > k,
         \A p \in S : \A n \in (k + 1) .. (num[p] - 1) : \E q \in S : num[q] = n
  PROVE  /\ {num[p] : p \in S} = (k + 1) .. (k + Cardinality(S))
         /\ Cardinality(S) \in Nat
<1> DEFINE T == {num[p] : p \in S}
           G == {n \in Nat : n > k /\ n \notin T}
<1>1. num \in Bijection(S, T)
  BY DEF Bijection, Injection, Surjection, IsInjective
<1>2. IsFiniteSet(T) /\ Cardinality(T) = Cardinality(S) /\ Cardinality(S) \in Nat
  <2>1. ExistsBijection(S, T)
    BY <1>1 DEF ExistsBijection
  <2> HIDE DEF T
  <2> QED BY <2>1, FS_Bijection, FS_CardinalityType
<1>3. G # {}
  <2> SUFFICES ASSUME G = {} PROVE FALSE
    OBVIOUS
  <2> DEFINE c == Cardinality(T)
             high == k + c + 1
  <2>1. (k + 1) .. high \subseteq T
    BY <1>2
  <2>2. Cardinality((k + 1) .. high) <= c
    <3> HIDE DEF high, T
    <3> QED BY <1>2, <2>1, FS_Subset
  <2>3. Cardinality((k + 1) .. high) = c + 1
    <3> DEFINE low == k + 1
    <3>1. low \in Int /\ high \in Int /\ ~ (low > high) /\ high - low + 1 = c + 1
      BY <1>2
    <3> HIDE DEF low, high
    <3>2. Cardinality(low .. high) = high - low + 1
      BY ONLY <3>1, FS_Interval
    <3> QED BY <3>1, <3>2 DEF low
  <2> QED BY <1>2, <2>2, <2>3
<1>4. PICK g \in G : \A n \in G : g <= n
  <2>1. G \in SUBSET Nat
    OBVIOUS
  <2> HIDE DEF G
  <2> QED BY <1>3, <2>1, LeastNatural
<1>5. \A n \in (k + 1) .. (g - 1) : n \in T
  BY <1>4
<1>6. \A p \in S : num[p] \in (k + 1) .. (g - 1)
  <2> SUFFICES ASSUME NEW p \in S PROVE num[p] \in (k + 1) .. (g - 1)
    OBVIOUS
  <2>1. num[p] \in Nat /\ num[p] > k /\ num[p] # g
    BY <1>4
  <2>2. ~ (g < num[p])
    <3>1. g < num[p] => g \in (k + 1) .. (num[p] - 1)
      BY <2>1
    <3> QED BY <1>4, <3>1
  <2> QED BY <2>1, <2>2
<1>7. T = (k + 1) .. (g - 1)
  BY <1>5, <1>6
<1>8. Cardinality(S) = g - 1 - k
  <2> DEFINE low == k + 1
             high == g - 1
  <2>1. g \in Nat /\ g > k
    OBVIOUS
  <2>2. low \in Int /\ high \in Int
    BY <2>1
  <2>3. Cardinality(low .. high) = IF low > high THEN 0 ELSE high - low + 1
    <3> HIDE DEF low, high
    <3> QED BY ONLY <2>2, FS_Interval
  <2> HIDE DEF T
  <2> QED BY <1>2, <1>7, <2>1, <2>3
<1> QED BY <1>2, <1>7, <1>8

LEMMA LinksAreNumbered == LinkInv => LinksNumbered
<1> SUFFICES ASSUME LinkInv PROVE LinksNumbered
  OBVIOUS
<1>1. PICK k \in OldLinks : NumbersOK(k)
  BY DEF LinkInv
<1>2. LinkerType /\ k \in Nat /\ MaxNumber \in Nat /\ IsFiniteSet(Linkers)
      /\ Cardinality(Linkers) \in Nat /\ k + Cardinality(Linkers) <= MaxNumber
  BY NamesAssumption, DirectoryAssumption, FS_CardinalityType DEF LinkInv
<1>3. ASSUME changes = 0, NEW f \in Files
      PROVE  {Decimal(name[2]) : name \in {nm \in Present \ Objects : nm[1] = f}}
               = 1 .. k + Cardinality(Linked(f))
  <2> DEFINE links == {nm \in Present \ Objects : nm[1] = f}
             shown == {Decimal(name[2]) : name \in links}
             num   == [q \in Linked(f) |-> linker[q].number]
             made  == {num[q] : q \in Linked(f)}
  <2>1. IsFiniteSet(Linked(f)) /\ Linked(f) \in SUBSET Linkers
        /\ Cardinality(Linked(f)) <= Cardinality(Linkers)
    <3>1. Linked(f) \in SUBSET Linkers
      BY DEF Linked
    <3> QED BY <1>2, <3>1, FS_Subset
  <2>2. \A q \in Linked(f) : linker[q].at = "linked" /\ linker[q].file = f
                             /\ linker[q].number \in Nat
    BY <1>2 DEF Linked, LinkerType
  <2>3. num \in [Linked(f) -> Nat] /\ \A q \in Linked(f) : num[q] = linker[q].number
    BY <2>2
  <2> HIDE DEF num
  <2>4. \A p, q \in Linked(f) : num[p] = num[q] => p = q
    BY <1>1, <1>3, <2>3 DEF NumbersOK, Undisturbed
  <2>5. \A p \in Linked(f) : num[p] > k
    BY <1>1, <1>3, <2>1, <2>2, <2>3 DEF NumbersOK, Undisturbed
  <2>6. ASSUME NEW p \in Linked(f), NEW n \in (k + 1) .. (num[p] - 1)
        PROVE  \E q \in Linked(f) : num[q] = n
    <3>1. n \in 1 .. linker[p].number - 1 /\ ~ (n <= k)
      BY <1>2, <2>2, <2>3
    <3>2. Taken(k, f, n)
      BY <1>1, <2>1, <2>2, <3>1 DEF NumbersOK, PassedAreTaken
    <3> QED BY <2>3, <3>1, <3>2 DEF Taken
  <2>7. made = (k + 1) .. (k + Cardinality(Linked(f))) /\ Cardinality(Linked(f)) \in Nat
    BY <1>2, <2>1, <2>3, <2>4, <2>5, <2>6, NumbersFollow
  <2>8. \A n \in 1 .. MaxNumber : Taken(k, f, n) <=> n <= k + Cardinality(Linked(f))
    <3>1. \A n \in 1 .. MaxNumber : Taken(k, f, n) <=> n <= k \/ n \in made
      BY <2>3 DEF Taken
    <3> HIDE DEF made
    <3> QED BY <1>2, <2>7, <3>1
  <2>9. \A n \in 1 .. MaxNumber : LinkName(f, n) \in links <=> Taken(k, f, n)
    <3> SUFFICES ASSUME NEW n \in 1 .. MaxNumber PROVE LinkName(f, n) \in links <=> Taken(k, f, n)
      OBVIOUS
    <3>1. entry[LinkName(f, n)] = IF Taken(k, f, n) THEN f ELSE "none"
      BY <1>1, <1>3 DEF NumbersOK, Undisturbed
    <3>2. LinkName(f, n) \in Names \ Objects /\ f # "none" /\ LinkName(f, n)[1] = f
      BY <1>2, NamesOfLinks, LinkNames
    <3> QED BY <3>1, <3>2 DEF Present, Exists
  <2>10. \A nm \in links : \E n \in 1 .. MaxNumber : nm = LinkName(f, n)
    <3> SUFFICES ASSUME NEW nm \in links PROVE \E n \in 1 .. MaxNumber : nm = LinkName(f, n)
      OBVIOUS
    <3>1. nm \in Names /\ nm \notin Objects /\ nm[1] = f
      BY DEF Present
    <3>2. PICK g \in Files, n \in 1 .. MaxNumber : nm = LinkName(g, n)
      BY <3>1 DEF Names
    <3>3. g = f
      BY <1>2, <3>1, <3>2, LinkNames
    <3> QED BY <3>2, <3>3
  <2>11. \A n \in 1 .. MaxNumber : Decimal(LinkName(f, n)[2]) = n
    BY <1>2, LinkNames
  <2> HIDE DEF links
  <2>12. \A n : n \in shown <=> n \in 1 .. MaxNumber /\ Taken(k, f, n)
    BY <2>9, <2>10, <2>11
  <2> HIDE DEF shown, made
  <2>13. shown = 1 .. k + Cardinality(Linked(f))
    <3> DEFINE c == Cardinality(Linked(f))
    <3>1. c \in Nat /\ k + c <= MaxNumber
      BY <1>2, <2>1, <2>7
    <3>2. \A n \in 1 .. MaxNumber : Taken(k, f, n) <=> n <= k + c
      BY <2>8
    <3> HIDE DEF c
    <3>3. \A n : n \in shown <=> n \in 1 .. k + c
      BY <1>2, <2>12, <3>1, <3>2
    <3>4. shown = 1 .. k + c
      BY <3>3
    <3> QED BY <3>4 DEF c
  <2> QED BY <2>13 DEF shown, links
<1>4. NumberedWithoutGaps
  BY <1>3 DEF NumberedWithoutGaps
<1>5. FailsOnlyByOthers
  BY <1>1 DEF FailsOnlyByOthers, NumbersOK, Undisturbed
<1> QED BY <1>4, <1>5 DEF LinksNumbered

(* As long as no user changes the directory, the links of a file have the  *)
(* numbers from one on without a gap, one for each run that succeeded, and *)
(* a run of HardLinkNumber fails only because another took its number.     *)
THEOREM DirectoryLinksNumbered == DirSpec => []LinksNumbered
BY LinkInvariant, LinksAreNumbered, PTL

-----------------------------------------------------------------------------
(* bubble_sort. *)

(* What the sorting leaves as it is: b has the entries of a, each once, and*)
(* those of equal times in the order they have in a.                       *)
Place(a, e) == CHOOSE i \in DOMAIN a : a[i] = e
Sortable(a, E) == /\ a \in Seq(E) /\ \A e \in E : e.time \in Nat
                  /\ \A i, j \in DOMAIN a : a[i] = a[j] => i = j
Rearranged(a, b) ==
  /\ DOMAIN b = DOMAIN a /\ ToSet(b) = ToSet(a)
  /\ \A p, q \in DOMAIN b : b[p] = b[q] => p = q
  /\ \A p, q \in DOMAIN b : p < q /\ b[p].time = b[q].time => Place(a, b[p]) < Place(a, b[q])

(* The entries from position n + 1 on are not before any that precede them.*)
TailSorted(b, n) == \A p, q \in DOMAIN b : p < q /\ q > n => b[p].time <= b[q].time

(* The entry at position j is not before any that precede it.              *)
HighestAt(b, j) == \A p \in DOMAIN b : p <= j => b[p].time <= b[j].time

LEMMA OneTurnSorts ==
  ASSUME NEW E, NEW b \in Seq(E), \A e \in E : e.time \in Nat, NEW j \in 1 .. Len(b) - 1,
         NEW c, c = InOrder(b, j)
  PROVE  /\ c \in Seq(E) /\ Len(c) = Len(b) /\ DOMAIN c = DOMAIN b
         /\ c[j].time <= c[j + 1].time
         /\ \A p \in DOMAIN b : p # j /\ p # j + 1 => c[p] = b[p]
         /\ \/ b[j].time <= b[j + 1].time /\ c = b
            \/ b[j].time > b[j + 1].time /\ c[j] = b[j + 1] /\ c[j + 1] = b[j]
<1>1. /\ Len(b) \in Nat /\ j \in DOMAIN b /\ j + 1 \in DOMAIN b /\ b[j] \in E /\ b[j + 1] \in E
      /\ b[j].time \in Nat /\ b[j + 1].time \in Nat /\ DOMAIN b = 1 .. Len(b)
      /\ j # j + 1
  OBVIOUS
<1>2. CASE b[j].time > b[j + 1].time
  <2>1. c = [b EXCEPT ![j] = b[j + 1], ![j + 1] = b[j]]
    BY <1>2 DEF InOrder
  <2>2. c \in Seq(E) /\ Len(c) = Len(b) /\ DOMAIN c = DOMAIN b
    BY <1>1, <2>1
  <2>3. c[j] = b[j + 1] /\ c[j + 1] = b[j]
    BY ONLY <1>1, <2>1
  <2>4. \A p \in DOMAIN b : p # j /\ p # j + 1 => c[p] = b[p]
    BY <1>1, <2>1
  <2> QED BY <1>1, <1>2, <2>2, <2>3, <2>4
<1>3. CASE ~ (b[j].time > b[j + 1].time)
  <2>1. c = b
    BY <1>3 DEF InOrder
  <2> QED BY <1>1, <1>3, <2>1
<1> QED BY <1>2, <1>3

LEMMA OneTurnRearranges ==
  ASSUME NEW E, NEW a, Sortable(a, E), NEW b \in Seq(E), Rearranged(a, b),
         NEW j \in 1 .. Len(b) - 1
  PROVE  Rearranged(a, InOrder(b, j))
<1> DEFINE c == InOrder(b, j)
           to(p) == IF p = j THEN j + 1 ELSE IF p = j + 1 THEN j ELSE p
<1>1. /\ c \in Seq(E) /\ Len(c) = Len(b) /\ DOMAIN c = DOMAIN b
      /\ \A p \in DOMAIN b : p # j /\ p # j + 1 => c[p] = b[p]
      /\ \/ b[j].time <= b[j + 1].time /\ c = b
         \/ b[j].time > b[j + 1].time /\ c[j] = b[j + 1] /\ c[j + 1] = b[j]
  BY OneTurnSorts DEF Sortable
<1>2. Len(b) \in Nat /\ DOMAIN b = 1 .. Len(b) /\ j \in DOMAIN b /\ j + 1 \in DOMAIN b
  OBVIOUS
<1> HIDE DEF c
<1>3. CASE c = b
  BY <1>3 DEF c
<1>4. CASE b[j].time > b[j + 1].time /\ c[j] = b[j + 1] /\ c[j + 1] = b[j]
  <2>1. \A p \in DOMAIN b : to(p) \in DOMAIN b /\ c[p] = b[to(p)] /\ c[to(p)] = b[p]
    BY <1>1, <1>2, <1>4
  <2>2. \A p, q \in DOMAIN b : to(p) = to(q) => p = q
    BY <1>2
  <2>3. ASSUME NEW p \in DOMAIN b, NEW q \in DOMAIN b, p < q, c[p].time = c[q].time
        PROVE  to(p) < to(q)
    <3>1. ~ (p = j /\ q = j + 1)
      <4>1. b[j].time \in Nat /\ b[j + 1].time \in Nat
        BY <1>2 DEF Sortable
      <4> QED BY <1>4, <2>3, <4>1
    <3> QED BY <1>2, <2>3, <3>1
  <2>4. ToSet(c) = ToSet(b)
    <3>1. \A x : x \in ToSet(c) <=> x \in ToSet(b)
      <4> HIDE DEF to
      <4> QED BY <1>1, <2>1 DEF ToSet
    <3> QED BY <3>1
  <2> HIDE DEF to
  <2>5. \A p, q \in DOMAIN c : c[p] = c[q] => p = q
    BY <1>1, <2>1, <2>2 DEF Rearranged
  <2>6. ASSUME NEW p \in DOMAIN c, NEW q \in DOMAIN c, p < q, c[p].time = c[q].time
        PROVE  Place(a, c[p]) < Place(a, c[q])
    <3>1. to(p) < to(q) /\ to(p) \in DOMAIN b /\ to(q) \in DOMAIN b
          /\ c[p] = b[to(p)] /\ c[q] = b[to(q)]
      BY <1>1, <2>1, <2>3, <2>6
    <3> QED BY <2>6, <3>1 DEF Rearranged
  <2> QED BY <1>1, <2>4, <2>5, <2>6 DEF Rearranged, c
<1> QED BY <1>1, <1>3, <1>4

(* The arrays of one pass; there are such arrays.                          *)
Passes(a, n) ==
  LET pass[j \in 0 .. n] == IF j = 0 THEN a ELSE InOrder(pass[j - 1], j) IN pass

LEMMA PassesDef ==
  ASSUME NEW E, NEW a \in Seq(E), \A e \in E : e.time \in Nat, NEW n \in Nat, n < Len(a)
  PROVE  /\ Passes(a, n) \in [0 .. n -> {b \in Seq(E) : Len(b) = Len(a)}]
         /\ Passes(a, n)[0] = a
         /\ \A j \in 1 .. n : Passes(a, n)[j] = InOrder(Passes(a, n)[j - 1], j)
<1> DEFINE S == {b \in Seq(E) : Len(b) = Len(a)}
           step == [p \in S \X (1 .. n) |-> InOrder(p[1], p[2])]
<1>1. \A b \in S, j \in 1 .. n : InOrder(b, j) \in S
  <2> SUFFICES ASSUME NEW b \in S, NEW j \in 1 .. n PROVE InOrder(b, j) \in S
    OBVIOUS
  <2>1. b \in Seq(E) /\ Len(b) = Len(a) /\ j \in 1 .. Len(b) - 1
    OBVIOUS
  <2>2. PICK c : c = InOrder(b, j)
    OBVIOUS
  <2>3. c \in Seq(E) /\ Len(c) = Len(b)
    <3> HIDE DEF S, step
    <3> QED BY <2>1, <2>2, OneTurnSorts
  <2> QED BY <2>1, <2>2, <2>3
<1>2. IsStep(S, a, n, step)
  <2>1. a \in S
    OBVIOUS
  <2> HIDE DEF S
  <2> QED BY <1>1, <2>1 DEF IsStep
<1>3. PICK h : Iterates(h, S, a, n, step)
  <2> HIDE DEF S, step
  <2> QED BY <1>2, Iteration, Zenon
<1>4. /\ h \in [0 .. n -> S] /\ h[0] = a
      /\ \A j \in 1 .. n : h[j] = step[<<h[j - 1], j>>]
  BY <1>3 DEF Iterates
<1> HIDE DEF S
<1>5. \A j \in 1 .. n : h[j] = InOrder(h[j - 1], j)
  <2> SUFFICES ASSUME NEW j \in 1 .. n PROVE h[j] = InOrder(h[j - 1], j)
    OBVIOUS
  <2>1. j - 1 \in 0 .. n /\ h[j - 1] \in S
    BY <1>4
  <2> QED BY <1>4, <2>1
<1> HIDE DEF step
<1>6. h = [j \in 0 .. n |-> IF j = 0 THEN a ELSE InOrder(h[j - 1], j)]
  <2>1. \A j \in 0 .. n : h[j] = IF j = 0 THEN a ELSE InOrder(h[j - 1], j)
    BY <1>4, <1>5
  <2> QED BY <1>4, <2>1
<1> DEFINE w == Passes(a, n)
<1>7. w = [j \in 0 .. n |-> IF j = 0 THEN a ELSE InOrder(w[j - 1], j)]
  BY <1>6, Zenon DEF Passes
<1> HIDE DEF w
<1>8. DOMAIN w = 0 .. n /\ w[0] = a /\ \A j \in 1 .. n : w[j] = InOrder(w[j - 1], j)
  BY <1>7
<1>9. \A j \in 0 .. n : w[j] = h[j]
  <2> DEFINE T == {j \in 0 .. n : w[j] = h[j]}
  <2>1. 0 \in T
    BY <1>4, <1>8
  <2>2. ASSUME NEW j \in 0 .. n - 1, j \in T PROVE j + 1 \in T
    <3>1. j + 1 \in 1 .. n /\ (j + 1) - 1 = j /\ w[j] = h[j]
      BY <2>2
    <3> QED BY <1>5, <1>8, <3>1
  <2> HIDE DEF T
  <2>3. 0 .. n \subseteq T
    BY <2>1, <2>2, InductionTo
  <2> QED BY <2>3 DEF T
<1>10. w \in [0 .. n -> S]
  BY <1>4, <1>7, <1>9
<1> QED BY <1>8, <1>10 DEF w, S

(* A turn keeps the end in order, and takes the highest entry one further. *)
LEMMA OneTurnCarries ==
  ASSUME NEW E, NEW b \in Seq(E), \A e \in E : e.time \in Nat,
         NEW n \in Nat, n < Len(b), NEW j \in 1 .. n, TailSorted(b, n + 1), HighestAt(b, j)
  PROVE  TailSorted(InOrder(b, j), n + 1) /\ HighestAt(InOrder(b, j), j + 1)
<1> DEFINE c == InOrder(b, j)
<1>1. Len(b) \in Nat /\ DOMAIN b = 1 .. Len(b) /\ j \in 1 .. Len(b) - 1
      /\ j \in DOMAIN b /\ j + 1 \in DOMAIN b /\ \A p \in DOMAIN b : b[p].time \in Nat
  OBVIOUS
<1>2. /\ DOMAIN c = DOMAIN b
      /\ \A p \in DOMAIN b : p # j /\ p # j + 1 => c[p] = b[p]
      /\ \/ b[j].time <= b[j + 1].time /\ c = b
         \/ b[j].time > b[j + 1].time /\ c[j] = b[j + 1] /\ c[j + 1] = b[j]
  <2>1. j \in 1 .. Len(b) - 1 /\ c = InOrder(b, j)
    BY <1>1
  <2> HIDE DEF c
  <2> QED BY ONLY b \in Seq(E), \A e \in E : e.time \in Nat, <2>1, OneTurnSorts
<1> HIDE DEF c
<1>3. HighestAt(c, j + 1)
  <2> SUFFICES ASSUME NEW p \in DOMAIN c, p <= j + 1 PROVE c[p].time <= c[j + 1].time
    BY DEF HighestAt
  <2>1. b[p].time \in Nat /\ b[j].time \in Nat /\ b[j + 1].time \in Nat
    BY <1>1, <1>2
  <2>2. p <= j => b[p].time <= b[j].time
    BY <1>2 DEF HighestAt
  <2>3. p < j \/ p = j \/ p = j + 1
    BY <1>1, <1>2
  <2>4. \A x \in DOMAIN b : x # j /\ x # j + 1 => c[x] = b[x]
    BY <1>2
  <2>5. \/ b[j].time <= b[j + 1].time /\ c = b
        \/ b[j].time > b[j + 1].time /\ c[j] = b[j + 1] /\ c[j + 1] = b[j]
    BY <1>2
  <2>6. p \in DOMAIN b /\ p \in Nat /\ j \in Nat
    BY <1>1, <1>2
  <2> QED BY ONLY <2>1, <2>2, <2>3, <2>4, <2>5, <2>6
<1>4. TailSorted(c, n + 1)
  <2> SUFFICES ASSUME NEW p \in DOMAIN c, NEW q \in DOMAIN c, p < q, q > n + 1
               PROVE  c[p].time <= c[q].time
    BY DEF TailSorted
  <2>1. c[q] = b[q] /\ j < q /\ j + 1 < q
    <3>1. q \in DOMAIN b /\ q \in Int /\ j \in Int /\ j <= n
      BY <1>1, <1>2
    <3>2. j < q /\ j + 1 < q /\ q # j /\ q # j + 1
      BY ONLY <3>1, n \in Nat, q > n + 1
    <3> QED BY ONLY <1>2, <3>1, <3>2
  <2>2. \A o \in DOMAIN b : o < q => b[o].time <= b[q].time
    BY <1>2 DEF TailSorted
  <2> QED BY <1>1, <1>2, <2>1, <2>2
<1> QED BY <1>3, <1>4 DEF c

LEMMA PassSorts ==
  ASSUME NEW E, NEW a, Sortable(a, E), NEW b \in Seq(E), Rearranged(a, b),
         NEW n \in Nat, n < Len(b), TailSorted(b, n + 1)
  PROVE  /\ Pass(b, n) \in Seq(E) /\ Len(Pass(b, n)) = Len(b)
         /\ Rearranged(a, Pass(b, n)) /\ TailSorted(Pass(b, n), n)
<1> DEFINE w == Passes(b, n)
           T == {j \in 0 .. n : /\ Rearranged(a, w[j]) /\ TailSorted(w[j], n + 1)
                                /\ HighestAt(w[j], j + 1)}
<1>1. Pass(b, n) = w[n]
  BY DEF Pass, Passes
<1>2. \A e \in E : e.time \in Nat
  BY DEF Sortable
<1>3. /\ w \in [0 .. n -> {c \in Seq(E) : Len(c) = Len(b)}] /\ w[0] = b
      /\ \A j \in 1 .. n : w[j] = InOrder(w[j - 1], j)
  BY <1>2, PassesDef
<1> HIDE DEF w
<1>4. \A j \in 0 .. n : w[j] \in Seq(E) /\ Len(w[j]) = Len(b)
  BY <1>3
<1>5. 0 \in T
  <2>1. HighestAt(b, 0 + 1)
    <3> SUFFICES ASSUME NEW p \in DOMAIN b, p <= 0 + 1 PROVE b[p].time <= b[0 + 1].time
      BY DEF HighestAt
    <3>1. p = 0 + 1 /\ b[p].time \in Nat
      BY <1>2
    <3> QED BY <3>1
  <2> QED BY <1>3, <2>1
<1>6. ASSUME NEW j \in 0 .. n - 1, j \in T PROVE j + 1 \in T
  <2>1. /\ w[j] \in Seq(E) /\ Len(w[j]) = Len(b) /\ j + 1 \in 1 .. n
        /\ Rearranged(a, w[j]) /\ TailSorted(w[j], n + 1) /\ HighestAt(w[j], j + 1)
    BY <1>4, <1>6
  <2>2. w[j + 1] = InOrder(w[j], j + 1)
    <3>1. (j + 1) - 1 = j
      OBVIOUS
    <3> QED BY <1>3, <2>1, <3>1
  <2>3. j + 1 \in 1 .. Len(w[j]) - 1 /\ n < Len(w[j])
    BY <2>1
  <2> DEFINE jj == j + 1
  <2>4. jj \in 1 .. n /\ jj \in 1 .. Len(w[j]) - 1 /\ HighestAt(w[j], jj)
    BY <2>1, <2>3
  <2> HIDE DEF jj, T
  <2>5. Rearranged(a, InOrder(w[j], jj))
    BY <2>1, <2>4, OneTurnRearranges
  <2>6. TailSorted(InOrder(w[j], jj), n + 1) /\ HighestAt(InOrder(w[j], jj), jj + 1)
    BY <1>2, <2>1, <2>3, <2>4, OneTurnCarries
  <2> QED BY <2>1, <2>2, <2>5, <2>6 DEF T, jj
<1>7. n \in T
  <2> HIDE DEF T
  <2>1. n \in Nat
    OBVIOUS
  <2> QED BY ONLY <2>1, <1>5, <1>6, InductionTo
<1>8. w[n] \in Seq(E) /\ Len(w[n]) = Len(b)
  BY <1>4
<1>9. TailSorted(w[n], n)
  <2>1. TailSorted(w[n], n + 1) /\ HighestAt(w[n], n + 1)
    BY <1>7
  <2> SUFFICES ASSUME NEW p \in DOMAIN w[n], NEW q \in DOMAIN w[n], p < q, q > n
               PROVE  w[n][p].time <= w[n][q].time
    BY DEF TailSorted
  <2>2. p \in Nat /\ q \in Nat
    BY <1>8
  <2>3. CASE q = n + 1
    BY <2>1, <2>2, <2>3 DEF HighestAt
  <2>4. CASE q > n + 1
    BY <2>1, <2>4 DEF TailSorted
  <2> QED BY <2>2, <2>3, <2>4
<1> QED BY <1>1, <1>7, <1>8, <1>9

LEMMA BubbleSorts ==
  ASSUME NEW E, NEW a, Sortable(a, E)
  PROVE  /\ bubble_sort(a) \in Seq(E) /\ Len(bubble_sort(a)) = Len(a)
         /\ Rearranged(a, bubble_sort(a)) /\ TailSorted(bubble_sort(a), 0)
<1> DEFINE length == Len(a)
           S == {b \in Seq(E) : Len(b) = length /\ Rearranged(a, b)}
           Sorted(i) == {b \in S : TailSorted(b, length - i)}
           s == CHOOSE r : r = [i \in 0 .. length |->
                                  IF i = 0 THEN a ELSE Pass(r[i - 1], length - i)]
<1>1. a \in Seq(E) /\ length \in Nat /\ \A e \in E : e.time \in Nat
  BY DEF Sortable
<1>2. bubble_sort(a) = s[length]
  BY Zenon DEF bubble_sort
<1>3. a \in Sorted(0)
  <2>1. \A i \in DOMAIN a : Place(a, a[i]) = i
    <3> SUFFICES ASSUME NEW i \in DOMAIN a PROVE Place(a, a[i]) = i
      OBVIOUS
    <3>1. \A j \in DOMAIN a : a[j] = a[i] => j = i
      BY DEF Sortable
    <3> QED BY <3>1 DEF Place
  <2>2. Rearranged(a, a)
    BY <2>1 DEF Rearranged, Sortable
  <2>3. TailSorted(a, length - 0)
    BY <1>1 DEF TailSorted
  <2> QED BY <1>1, <2>2, <2>3
<1>4. ASSUME NEW i \in 1 .. length, NEW b \in Sorted(i - 1)
      PROVE  Pass(b, length - i) \in Sorted(i)
  <2> DEFINE n == length - i
  <2>1. /\ b \in Seq(E) /\ Len(b) = length /\ Rearranged(a, b) /\ n \in Nat /\ n < Len(b)
        /\ TailSorted(b, n + 1)
    <3>1. length - (i - 1) = n + 1
      BY <1>1
    <3> QED BY <1>1, <3>1
  <2> HIDE DEF n
  <2>2. /\ Pass(b, n) \in Seq(E) /\ Len(Pass(b, n)) = Len(b)
        /\ Rearranged(a, Pass(b, n)) /\ TailSorted(Pass(b, n), n)
    BY <2>1, PassSorts
  <2> QED BY <2>1, <2>2 DEF n
(* The passes exist, for values that need not be sorted: what is not is    *)
(* replaced by a.                                                          *)
<1> DEFINE step == [p \in S \X (1 .. length) |->
                      IF Pass(p[1], length - p[2]) \in S THEN Pass(p[1], length - p[2]) ELSE a]
<1>5. a \in S
  BY <1>3
<1>6. PICK h : Iterates(h, S, a, length, step)
  <2>1. IsStep(S, a, length, step)
    <3>1. \A p \in S \X (1 .. length) : step[p] \in S
      <4> HIDE DEF S
      <4> QED BY <1>5
    <3> HIDE DEF S
    <3> QED BY <1>1, <1>5, <3>1 DEF IsStep
  <2> HIDE DEF S, step
  <2> QED BY <2>1, Iteration, Zenon
<1>7. /\ h \in [0 .. length -> S] /\ h[0] = a
      /\ \A i \in 1 .. length : h[i] = step[<<h[i - 1], i>>]
  <2> HIDE DEF S, step
  <2> QED BY <1>6 DEF Iterates
<1> HIDE DEF s
<1>8. ASSUME NEW i \in 1 .. length, h[i - 1] \in Sorted(i - 1)
      PROVE  h[i] = Pass(h[i - 1], length - i) /\ h[i] \in Sorted(i)
  <2>1. Pass(h[i - 1], length - i) \in Sorted(i)
    BY <1>4, <1>8
  <2>2. h[i - 1] \in S /\ Pass(h[i - 1], length - i) \in S
    BY <1>8, <2>1
  <2>3. h[i] = step[<<h[i - 1], i>>]
    BY <1>7
  <2> HIDE DEF S
  <2>4. h[i] = Pass(h[i - 1], length - i)
    BY <2>2, <2>3
  <2> QED BY <2>1, <2>4
<1>9. \A i \in 0 .. length : h[i] \in Sorted(i)
  <2> DEFINE T == {i \in 0 .. length : h[i] \in Sorted(i)}
  <2>1. 0 \in T
    BY <1>1, <1>3, <1>7
  <2>2. ASSUME NEW i \in 0 .. length - 1, i \in T PROVE i + 1 \in T
    <3>1. i + 1 \in 1 .. length /\ (i + 1) - 1 = i
      BY <1>1
    <3> QED BY <1>8, <2>2, <3>1
  <2> HIDE DEF T
  <2>3. 0 .. length \subseteq T
    BY <1>1, <2>1, <2>2, InductionTo
  <2> QED BY <2>3 DEF T
<1>10. \A i \in 1 .. length : h[i] = Pass(h[i - 1], length - i)
  <2> SUFFICES ASSUME NEW i \in 1 .. length PROVE h[i] = Pass(h[i - 1], length - i)
    OBVIOUS
  <2>1. i - 1 \in 0 .. length
    BY <1>1
  <2> QED BY <1>8, <1>9, <2>1
<1> HIDE DEF S, step
<1>11. h = [i \in 0 .. length |-> IF i = 0 THEN a ELSE Pass(h[i - 1], length - i)]
  <2>1. \A i \in 0 .. length : h[i] = IF i = 0 THEN a ELSE Pass(h[i - 1], length - i)
    BY <1>1, <1>7, <1>10
  <2> QED BY <1>7, <2>1
<1>12. s = [i \in 0 .. length |-> IF i = 0 THEN a ELSE Pass(s[i - 1], length - i)]
  BY <1>11, Zenon DEF s
<1>13. \A i \in 0 .. length : s[i] = h[i]
  <2> DEFINE T == {i \in 0 .. length : s[i] = h[i]}
  <2>1. 0 \in T
    BY <1>1, <1>7, <1>12
  <2>2. ASSUME NEW i \in 0 .. length - 1, i \in T PROVE i + 1 \in T
    <3>1. i + 1 \in 1 .. length /\ i + 1 \in 0 .. length /\ (i + 1) - 1 = i /\ i + 1 # 0
      BY <1>1
    <3>2. s[i + 1] = Pass(s[i], length - (i + 1))
      BY <1>12, <3>1
    <3>3. h[i + 1] = Pass(h[i], length - (i + 1))
      BY <1>10, <3>1
    <3> QED BY <2>2, <3>1, <3>2, <3>3
  <2> HIDE DEF T
  <2>3. 0 .. length \subseteq T
    BY <1>1, <2>1, <2>2, InductionTo
  <2> QED BY <2>3 DEF T
<1>14. s[length] \in Sorted(length)
  BY <1>1, <1>9, <1>13
<1>15. length - length = 0
  BY <1>1
<1> QED BY <1>2, <1>14, <1>15 DEF S

-----------------------------------------------------------------------------
(* sort_files. *)

Entries == [way : Names, time : Nat]
SorterRecord == [at : SorterAts, todo : SUBSET Names, read : Seq(Entries),
                 order : Seq(Entries), printed : Seq(Nat), since : Nat]

SorterType ==
  /\ time \in [Objects -> 0 .. MaxTime] /\ sorter \in SorterRecord /\ sorter.since <= changes
  /\ sorter.at = "off" => sorter.read = <<>>
  /\ sorter.at \in {"off", "reading"} => sorter.printed = <<>>

(* Only the directory's own entry has its time, and that of the one above. *)
OwnEntries == \A name \in Names : entry[name] \in Dots => entry[name] = name

LinkMade == \E r \in Linkers : linker[r].at = "linked"

(* No entry is read twice; what is printed is the sorted list; and while   *)
(* no user has changed anything since the directory was opened, what was   *)
(* read is still so, and what was shown is what was read, but for the time *)
(* of the directory itself, which is later when a link was made.           *)
ReadOnce ==
  \A i, j \in DOMAIN sorter.read : sorter.read[i].way = sorter.read[j].way => i = j

PrintsTheSorted ==
  sorter.at \in {"printing", "done"} =>
    sorter.order = bubble_sort(sorter.read) /\ Len(sorter.printed) <= Len(sorter.order)

SameTime(e, now) == e.time = now \/ (e.way = Dot /\ e.time < now /\ LinkMade)

StillAsRead ==
  changes = sorter.since /\ sorter.at \in {"reading", "printing", "done"} =>
    \A i \in DOMAIN sorter.read :
      /\ entry[sorter.read[i].way] \in Objects
      /\ SameTime(sorter.read[i], time[entry[sorter.read[i].way]])

ShownAsRead ==
  changes = sorter.since /\ sorter.at \in {"printing", "done"} =>
    \A i \in DOMAIN sorter.printed : SameTime(sorter.order[i], sorter.printed[i])

SortInv == /\ SorterType /\ OwnEntries /\ ReadOnce /\ PrintsTheSorted /\ StillAsRead /\ ShownAsRead
           /\ CrashOnlyIfChanged

LEMMA LinkMadeKept == linker' = linker => (LinkMade' <=> LinkMade)
BY DEF LinkMade

LEMMA ReadIsSortable == SorterType /\ ReadOnce => Sortable(sorter.read, Entries)
BY DEF SorterType, SorterRecord, ReadOnce, Sortable, Entries

LEMMA SorterFields ==
  ASSUME sorter \in SorterRecord
  PROVE  /\ sorter = [at |-> sorter.at, todo |-> sorter.todo, read |-> sorter.read,
                      order |-> sorter.order, printed |-> sorter.printed, since |-> sorter.since]
         /\ sorter.at \in SorterAts /\ sorter.todo \in SUBSET Names
         /\ sorter.read \in Seq(Entries) /\ sorter.order \in Seq(Entries)
         /\ sorter.printed \in Seq(Nat) /\ sorter.since \in Nat
BY DEF SorterRecord

LEMMA MakesRecord ==
  ASSUME NEW at \in SorterAts, NEW todo \in SUBSET Names, NEW read \in Seq(Entries),
         NEW order \in Seq(Entries), NEW printed \in Seq(Nat), NEW since \in Nat
  PROVE  [at |-> at, todo |-> todo, read |-> read, order |-> order, printed |-> printed,
          since |-> since] \in SorterRecord
BY DEF SorterRecord

LEMMA EntriesHave ==
  ASSUME NEW s \in Seq(Entries), NEW i \in DOMAIN s
  PROVE  s[i] \in Entries /\ s[i].way \in Names /\ s[i].time \in Nat
<1>1. s[i] \in Entries
  OBVIOUS
<1>2. \A e \in Entries : e.way \in Names /\ e.time \in Nat
  BY DEF Entries
<1> QED BY <1>1, <1>2

LEMMA SortInit == DirInit => SortInv
<1> SUFFICES ASSUME DirInit PROVE SortInv
  OBVIOUS
<1>1. /\ sorter = [at |-> "off", todo |-> {}, read |-> <<>>, order |-> <<>>,
                   printed |-> <<>>, since |-> 0]
      /\ time \in [Objects -> 0 .. MaxTime] /\ changes = 0
  BY DirectoryAssumption DEF DirInit
<1>2. sorter \in SorterRecord
  BY <1>1 DEF SorterRecord, SorterAts
<1>3. sorter.at = "off" /\ sorter.read = <<>> /\ sorter.printed = <<>> /\ sorter.since = 0
  BY <1>1
<1>4. OwnEntries
  <2> SUFFICES ASSUME NEW name \in Names, entry[name] \in Dots, name \notin Objects PROVE FALSE
    BY DEF OwnEntries, DirInit
  <2>1. PICK f \in Files, n \in 1 .. MaxNumber : name = LinkName(f, n)
    BY DEF Names
  <2>2. name[1] = f
    BY <2>1, DirectoryAssumption, LinkNames
  <2>3. entry[name] \in {f, "none"}
    BY <2>2 DEF DirInit
  <2> QED BY <2>3, NamesAssumption DEF Objects
<1> QED
  BY <1>1, <1>2, <1>3, <1>4 DEF SortInv, SorterType, ReadOnce, PrintsTheSorted, StillAsRead,
       ShownAsRead,
                          CrashOnlyIfChanged

LEMMA SortOpen ==
  ASSUME LinkerType, SortInv, OpenDir PROVE SortInv'
<1>1. /\ sorter' = [sorter EXCEPT !.at = "reading", !.since = changes, !.todo = Present]
      /\ sorter.at = "off" /\ entry' = entry /\ time' = time /\ changes' = changes /\ linker' = linker
  BY DEF OpenDir
<1>2. /\ sorter'.at = "reading" /\ sorter'.since = changes /\ sorter'.read = sorter.read
      /\ sorter'.printed = sorter.printed
      /\ sorter' \in SorterRecord
  <2>1. Present \in SUBSET Names /\ changes \in Nat
    BY DEF Present, LinkerType
  <2>2. sorter \in SorterRecord
    BY DEF SortInv, SorterType
  <2> HIDE DEF SorterRecord
  <2>3. sorter' = [at |-> "reading", todo |-> Present, read |-> sorter.read,
                   order |-> sorter.order, printed |-> sorter.printed, since |-> changes]
    BY <1>1, <2>2, SorterFields
  <2> QED BY <2>1, <2>2, <2>3, SorterFields DEF SorterRecord, SorterAts
<1>3. sorter.read = <<>> /\ sorter.printed = <<>>
  BY <1>1 DEF SortInv, SorterType
<1>4. changes <= changes /\ DOMAIN sorter'.read = {}
  BY <1>2, <1>3 DEF LinkerType
<1> QED
  BY <1>1, <1>2, <1>3, <1>4 DEF SortInv, SorterType, OwnEntries, ReadOnce, PrintsTheSorted,
       StillAsRead,
                                ShownAsRead, CrashOnlyIfChanged

LEMMA SortRead ==
  ASSUME LinkerType, SortInv, ReadEntry PROVE SortInv'
<1>0. sorter.at = "reading" /\ entry' = entry /\ time' = time /\ changes' = changes /\ linker' = linker
      /\ sorter \in SorterRecord
  BY DEF ReadEntry, SortInv, SorterType
<1>1. PICK name \in sorter.todo \union Present :
        /\ \A i \in DOMAIN sorter.read : sorter.read[i].way # name
        /\ sorter' = IF entry[name] \in Objects
                     THEN [sorter EXCEPT
                             !.read = Append(@, [way |-> name, time |-> time[entry[name]]])]
                     ELSE [sorter EXCEPT !.at = "failed"]
  BY DEF ReadEntry
<1>2. name \in Names
  BY <1>0, SorterFields DEF Present
<1>3. CASE entry[name] \in Objects
  <2> DEFINE e   == [way |-> name, time |-> time[entry[name]]]
             new == Append(sorter.read, e)
  <2>1. e \in Entries /\ e.way = name /\ e.time = time[entry[name]]
    BY <1>2, <1>3 DEF Entries, SortInv, SorterType
  <2>2. /\ sorter' = [sorter EXCEPT !.read = new]
    BY <1>1, <1>3
  <2> HIDE DEF e
  <2>3. /\ new \in Seq(Entries) /\ Len(new) = Len(sorter.read) + 1
        /\ new[Len(sorter.read) + 1] = e
        /\ \A i \in DOMAIN sorter.read : new[i] = sorter.read[i]
        /\ \A i \in DOMAIN new : i \in DOMAIN sorter.read \/ i = Len(sorter.read) + 1
    BY <1>0, <2>1, SorterFields
  <2> HIDE DEF new
  <2>4. /\ sorter'.at = "reading" /\ sorter'.read = new /\ sorter'.printed = sorter.printed
        /\ sorter'.since = sorter.since /\ sorter' \in SorterRecord
    <3>1. sorter' = [at |-> sorter.at, todo |-> sorter.todo, read |-> new,
                     order |-> sorter.order, printed |-> sorter.printed, since |-> sorter.since]
      BY <1>0, <2>2, SorterFields
    <3> QED BY <1>0, <2>3, <3>1, SorterFields DEF SorterRecord
  <2>5. ReadOnce'
    <3>1. \A i, j \in DOMAIN new : new[i].way = new[j].way => i = j
      BY <1>1, <2>1, <2>3 DEF SortInv, ReadOnce
    <3> QED BY <2>4, <3>1 DEF ReadOnce
  <2>6. StillAsRead'
    <3> SUFFICES ASSUME changes = sorter.since, NEW i \in DOMAIN new
                 PROVE  /\ entry[new[i].way] \in Objects
                        /\ SameTime(new[i], time[entry[new[i].way]])
      BY <1>0, <2>4, LinkMadeKept DEF StillAsRead, SameTime
    <3>1. CASE i \in DOMAIN sorter.read
      BY <1>0, <2>3, <3>1 DEF SortInv, StillAsRead
    <3>2. CASE i = Len(sorter.read) + 1
      BY <1>3, <2>1, <2>3, <3>2 DEF SameTime
    <3> QED BY <2>3, <3>1, <3>2
  <2> QED BY <1>0, <2>4, <2>5, <2>6 DEF SortInv, SorterType, OwnEntries, PrintsTheSorted,
           ShownAsRead,
                                        CrashOnlyIfChanged
<1>4. CASE entry[name] \notin Objects
  <2>1. sorter' = [at |-> "failed", todo |-> sorter.todo, read |-> sorter.read,
                   order |-> sorter.order, printed |-> sorter.printed, since |-> sorter.since]
    BY <1>0, <1>1, <1>4, SorterFields
  <2>2. /\ sorter'.at = "failed" /\ sorter'.read = sorter.read /\ sorter'.since = sorter.since
        /\ sorter' \in SorterRecord
    BY <1>0, <2>1, SorterFields DEF SorterRecord, SorterAts
  <2> QED BY <1>0, <2>2 DEF SortInv, SorterType, OwnEntries, ReadOnce, PrintsTheSorted,
           StillAsRead, ShownAsRead,
                            CrashOnlyIfChanged
<1> QED BY <1>3, <1>4

LEMMA SortSort ==
  ASSUME LinkerType, SortInv, Sort PROVE SortInv'
<1>0. /\ sorter.at = "reading" /\ entry' = entry /\ time' = time /\ changes' = changes /\ linker' = linker
      /\ sorter \in SorterRecord /\ sorter.printed = <<>>
      /\ sorter' = [sorter EXCEPT !.at = "printing", !.todo = {}, !.order = bubble_sort(sorter.read)]
  BY DEF Sort, SortInv, SorterType
<1> DEFINE new == bubble_sort(sorter.read)
<1>1. new \in Seq(Entries)
  BY ReadIsSortable, BubbleSorts DEF SortInv
<1> HIDE DEF new
<1>2. sorter' = [at |-> "printing", todo |-> {}, read |-> sorter.read,
                 order |-> new, printed |-> sorter.printed, since |-> sorter.since]
  BY <1>0, SorterFields DEF new
<1>3. /\ sorter'.at = "printing" /\ sorter'.read = sorter.read /\ sorter'.since = sorter.since
      /\ sorter'.order = new /\ sorter'.printed = <<>> /\ sorter' \in SorterRecord
  <2>1. "printing" \in SorterAts /\ {} \in SUBSET Names
    BY DEF SorterAts
  <2>2. sorter' \in SorterRecord
    <3>1. sorter.read \in Seq(Entries) /\ sorter.printed \in Seq(Nat) /\ sorter.since \in Nat
      BY <1>0, SorterFields
    <3> QED BY ONLY <1>1, <1>2, <2>1, <3>1, MakesRecord
  <2>3. /\ sorter'.at = "printing" /\ sorter'.read = sorter.read /\ sorter'.since = sorter.since
        /\ sorter'.order = new /\ sorter'.printed = sorter.printed
    BY ONLY <1>2
  <2> QED BY ONLY <1>0, <2>2, <2>3
<1>4. Len(<<>>) <= Len(new) /\ DOMAIN <<>> = {}
  BY <1>1
<1>5. StillAsRead'
  BY <1>0, <1>3, LinkMadeKept DEF SortInv, StillAsRead, SameTime
<1> QED BY <1>0, <1>3, <1>4, <1>5 DEF SortInv, SorterType, OwnEntries, ReadOnce, PrintsTheSorted,
                                      ShownAsRead, CrashOnlyIfChanged, new

(* Each entry of the sorted list is one that was read.                     *)
LEMMA SortedWasRead ==
  ASSUME SorterType, ReadOnce, sorter.order = bubble_sort(sorter.read), NEW k \in DOMAIN sorter.order
  PROVE  \E i \in DOMAIN sorter.read : sorter.order[k] = sorter.read[i]
<1>1. Rearranged(sorter.read, sorter.order)
  BY ReadIsSortable, BubbleSorts
<1>2. ToSet(sorter.order) = ToSet(sorter.read)
  BY <1>1 DEF Rearranged
<1> QED BY <1>2 DEF ToSet

LEMMA SortShow ==
  ASSUME LinkerType, SortInv, ShowEntry PROVE SortInv'
<1> DEFINE k    == Len(sorter.printed) + 1
           name == sorter.order[k].way
           now  == time[entry[name]]
<1>0. /\ sorter.at = "printing" /\ k <= Len(sorter.order)
      /\ entry' = entry /\ time' = time /\ changes' = changes /\ linker' = linker
      /\ sorter' = IF entry[name] \in Objects THEN [sorter EXCEPT !.printed = Append(@, now)]
                   ELSE [sorter EXCEPT !.at = "crashed"]
  BY DEF ShowEntry
<1>1. sorter \in SorterRecord /\ sorter.order \in Seq(Entries) /\ sorter.printed \in Seq(Nat)
  BY SorterFields DEF SortInv, SorterType
<1>2. k \in DOMAIN sorter.order
  BY <1>0, <1>1
<1>3. changes = sorter.since => entry[name] \in Objects /\ SameTime(sorter.order[k], now)
  <2>1. PICK i \in DOMAIN sorter.read : sorter.order[k] = sorter.read[i]
    <3> HIDE DEF k
    <3> QED BY <1>0, <1>2, SortedWasRead DEF SortInv, PrintsTheSorted
  <2> HIDE DEF k
  <2> QED BY <1>0, <2>1 DEF SortInv, StillAsRead
<1>4. CASE entry[name] \in Objects
  <2> DEFINE new == Append(sorter.printed, now)
  <2>1. sorter' = [sorter EXCEPT !.printed = new]
    BY <1>0, <1>4
  <2>2. now \in Nat
    BY <1>4 DEF SortInv, SorterType
  <2> HIDE DEF now, name
  <2>3. /\ new \in Seq(Nat) /\ Len(new) = k /\ new[k] = now
        /\ \A i \in DOMAIN sorter.printed : new[i] = sorter.printed[i]
        /\ \A i \in DOMAIN new : i \in DOMAIN sorter.printed \/ i = k
    BY <1>1, <2>2
  <2> HIDE DEF new, k
  <2>4. sorter' = [at |-> sorter.at, todo |-> sorter.todo, read |-> sorter.read,
                   order |-> sorter.order, printed |-> new, since |-> sorter.since]
    BY <1>1, <2>1, SorterFields
  <2>5. /\ sorter'.at = "printing" /\ sorter'.read = sorter.read /\ sorter'.order = sorter.order
        /\ sorter'.printed = new /\ sorter'.since = sorter.since /\ sorter' \in SorterRecord
    <3>1. sorter' \in SorterRecord
      BY <1>1, <2>3, <2>4, SorterFields, MakesRecord
    <3> QED BY <1>0, <2>4, <3>1
  <2>6. ShownAsRead'
    <3> SUFFICES ASSUME changes = sorter.since, NEW i \in DOMAIN new
                 PROVE  SameTime(sorter.order[i], new[i])
      BY <1>0, <2>5, LinkMadeKept DEF ShownAsRead, SameTime
    <3> QED BY <1>0, <1>3, <2>3 DEF SortInv, ShownAsRead
  <2>7. StillAsRead'
    BY <1>0, <2>5, LinkMadeKept DEF SortInv, StillAsRead, SameTime
  <2> QED BY <1>0, <2>3, <2>5, <2>6, <2>7 DEF SortInv, SorterType, OwnEntries, ReadOnce,
                                              PrintsTheSorted, CrashOnlyIfChanged
<1>5. CASE entry[name] \notin Objects
  <2>1. sorter' = [sorter EXCEPT !.at = "crashed"]
    BY <1>0, <1>5
  <2>2. sorter.since < changes
    <3>1. changes # sorter.since
      BY <1>3, <1>5
    <3>2. sorter.since <= changes
      BY DEF SortInv, SorterType
    <3>3. changes \in Nat /\ sorter.since \in Nat
      BY <1>1, SorterFields DEF LinkerType
    <3> QED BY <3>1, <3>2, <3>3
  <2> HIDE DEF k, name, now
  <2>3. sorter' = [at |-> "crashed", todo |-> sorter.todo, read |-> sorter.read,
                   order |-> sorter.order, printed |-> sorter.printed, since |-> sorter.since]
    BY <1>1, <2>1, SorterFields
  <2>4. /\ sorter'.at = "crashed" /\ sorter'.read = sorter.read /\ sorter'.since = sorter.since
        /\ sorter' \in SorterRecord
    BY <1>1, <2>3, SorterFields DEF SorterRecord, SorterAts
  <2> QED BY <1>0, <1>1, <2>2, <2>4, SorterFields DEF SortInv, SorterType, OwnEntries, ReadOnce,
           PrintsTheSorted,
                                StillAsRead, ShownAsRead, CrashOnlyIfChanged
<1> QED BY <1>4, <1>5

LEMMA SortFinish ==
  ASSUME LinkerType, SortInv, Finish PROVE SortInv'
<1>0. /\ sorter.at = "printing" /\ sorter' = [sorter EXCEPT !.at = "done"]
      /\ entry' = entry /\ time' = time /\ changes' = changes /\ linker' = linker /\ sorter \in SorterRecord
  BY DEF Finish, SortInv, SorterType
<1>1. sorter' = [at |-> "done", todo |-> sorter.todo, read |-> sorter.read,
                 order |-> sorter.order, printed |-> sorter.printed, since |-> sorter.since]
  BY <1>0, SorterFields
<1>2. /\ sorter'.at = "done" /\ sorter'.read = sorter.read /\ sorter'.order = sorter.order
      /\ sorter'.printed = sorter.printed /\ sorter'.since = sorter.since
      /\ sorter' \in SorterRecord
  BY <1>0, <1>1, SorterFields DEF SorterRecord, SorterAts
<1>3. StillAsRead' /\ ShownAsRead'
  BY <1>0, <1>2, LinkMadeKept DEF SortInv, StillAsRead, ShownAsRead, SameTime
<1> QED BY <1>0, <1>2, <1>3 DEF SortInv, SorterType, OwnEntries, ReadOnce, PrintsTheSorted,
                                CrashOnlyIfChanged

(* A step in which the directory, or another object, gets a later time.    *)
LEMMA LaterTime ==
  ASSUME SorterType, NEW what \in Objects, Modifies(what)
  PROVE  /\ time' \in [Objects -> 0 .. MaxTime] /\ time[what] \in Nat
         /\ time'[what] \in Nat /\ time[what] <= time'[what]
         /\ \A o \in Objects \ {what} : time'[o] = time[o]
<1>1. PICK now \in time[what] .. MaxTime : time' = [time EXCEPT ![what] = now]
  BY DEF Modifies
<1>2. time \in [Objects -> 0 .. MaxTime] /\ MaxTime \in Nat
  BY DirectoryAssumption DEF SorterType
<1>3. now \in 0 .. MaxTime /\ time[what] <= now /\ time[what] \in Nat
  BY <1>1, <1>2
<1> QED BY <1>1, <1>2, <1>3

(* A run of HardLinkNumber makes a name that was not there; what was read  *)
(* stays as it is, but for the time of the directory.                      *)
LEMMA LinksKeepEntries ==
  ASSUME LinkerType, OwnEntries, NEW r \in Linkers, Open(r) \/ Search(r) \/ Link(r)
  PROVE  /\ OwnEntries' /\ (LinkMade => LinkMade')
         /\ \A name \in Names : entry[name] \in Objects => entry'[name] = entry[name]
         /\ time' = time \/ (Modifies(Dot) /\ LinkMade')
<1>1. LinkMade => LinkMade'
  <2> SUFFICES ASSUME NEW q \in Linkers, linker[q].at = "linked" PROVE LinkMade'
    BY DEF LinkMade
  <2>1. q # r
    BY DEF Open, Search, Link
  <2>2. linker'[q] = linker[q]
    BY <2>1 DEF Open, Search, Link, LinkerType
  <2> QED BY <2>2 DEF LinkMade
<1>2. CASE Open(r) \/ Search(r)
  BY <1>1, <1>2 DEF Open, Search, OwnEntries
<1>3. CASE Link(r)
  <2>1. CASE entry' = entry /\ time' = time
    BY <1>1, <2>1 DEF OwnEntries
  <2> DEFINE f   == linker[r].file
             new == LinkName(f, linker[r].number)
  <2>2. CASE /\ ~ Exists(new) /\ entry' = [entry EXCEPT ![new] = entry[f]] /\ Modifies(Dot)
             /\ linker' = [linker EXCEPT ![r].at = "linked"]
    <3>1. f \in Files /\ f \in Names /\ f \notin Dots /\ "none" \notin Objects
          /\ Dots \subseteq Objects
      BY <1>3, NamesAssumption DEF Link, LinkerType, Names, Objects
    <3> HIDE DEF f, new
    <3>2. entry[f] \notin Dots
      BY <3>1 DEF OwnEntries
    <3>3. \A name \in Names :
            /\ name # new => entry'[name] = entry[name]
            /\ name = new => entry'[name] = entry[f] /\ entry[name] = "none"
      BY <2>2 DEF LinkerType, Exists
    <3>4. linker'[r].at = "linked"
      BY <2>2 DEF LinkerType
    <3> QED BY <2>2, <3>1, <3>2, <3>3, <3>4 DEF OwnEntries, LinkMade
  <2> QED BY <1>3, <2>1, <2>2 DEF Link
<1> QED BY <1>2, <1>3

LEMMA SortLinkers ==
  ASSUME LinkerType, SortInv, NEW r \in Linkers, Open(r) \/ Search(r) \/ Link(r)
  PROVE  SortInv'
<1>1. UNCHANGED <<sorter, changes>>
  BY DEF Open, Search, Link
<1>2. /\ OwnEntries' /\ (LinkMade => LinkMade')
      /\ \A name \in Names : entry[name] \in Objects => entry'[name] = entry[name]
      /\ time' = time \/ (Modifies(Dot) /\ LinkMade')
  BY LinksKeepEntries DEF SortInv
<1>3. \A i \in DOMAIN sorter.read : sorter.read[i].way \in Names /\ sorter.read[i].time \in Nat
  BY SorterFields, EntriesHave DEF SortInv, SorterType
<1>4. Dot \in Objects /\ Dot \in Dots
  BY DEF Objects, Dots
<1>5. /\ time' \in [Objects -> 0 .. MaxTime] /\ time[Dot] \in Nat /\ time'[Dot] \in Nat
      /\ \A o \in Objects \ {Dot} : time'[o] = time[o]
      /\ time'[Dot] = time[Dot] \/ (time[Dot] < time'[Dot] /\ LinkMade')
  <2>1. CASE time' = time
    BY <1>4, <2>1 DEF SortInv, SorterType
  <2>2. CASE Modifies(Dot) /\ LinkMade'
    BY <1>4, <2>2, LaterTime DEF SortInv
  <2> QED BY <1>2, <2>1, <2>2
<1>6. StillAsRead'
  <2> SUFFICES ASSUME changes = sorter.since, sorter.at \in {"reading", "printing", "done"},
                      NEW i \in DOMAIN sorter.read
               PROVE  /\ entry'[sorter.read[i].way] \in Objects
                      /\ SameTime(sorter.read[i], time[entry[sorter.read[i].way]])'
    BY <1>1 DEF StillAsRead
  <2> DEFINE e == sorter.read[i]
             o == entry[e.way]
  <2>1. o \in Objects /\ SameTime(e, time[o])
    BY DEF SortInv, StillAsRead
  <2>2. entry'[e.way] = o /\ sorter'.read[i] = e /\ e.time \in Nat /\ e.way \in Names
    BY <1>1, <1>2, <1>3, <2>1
  <2>3. o = Dot => e.way = Dot
    BY <1>4, <2>2 DEF SortInv, OwnEntries
  <2>4. \/ e.time = time'[o]
        \/ e.way = Dot /\ e.time < time'[o] /\ LinkMade'
    <3> HIDE DEF e, o
    <3>1. CASE o # Dot
      BY <1>2, <1>5, <2>1, <3>1 DEF SameTime
    <3>2. CASE o = Dot
      BY <1>2, <1>5, <2>1, <2>2, <2>3, <3>2 DEF SameTime
    <3> QED BY <3>1, <3>2
  <2> QED BY <2>1, <2>2, <2>4 DEF SameTime
<1>7. ShownAsRead'
  BY <1>1, <1>2 DEF SortInv, ShownAsRead, SameTime
<1> QED BY <1>1, <1>2, <1>5, <1>6, <1>7 DEF SortInv, SorterType, ReadOnce, PrintsTheSorted,
                                            CrashOnlyIfChanged

LEMMA SortUsers ==
  ASSUME LinkerType, SortInv, Unlink \/ Write \/ Symlink PROVE SortInv'
<1>1. sorter' = sorter /\ changes' = changes + 1 /\ changes \in Nat
  BY DEF Unlink, Write, Symlink, Change, LinkerType
<1>2. time' \in [Objects -> 0 .. MaxTime]
  <2>1. PICK what \in Objects : Modifies(what)
    BY DEF Unlink, Write, Symlink, Objects, Dots
  <2> QED BY <2>1, LaterTime DEF SortInv
<1>5. OwnEntries'
  <2>1. \A name \in Names : entry'[name] = entry[name] \/ entry'[name] \in {"none", "symlink"}
    BY DEF Unlink, Write, Symlink, LinkerType
  <2>2. \A x \in Dots : x \notin {"none", "symlink"}
    BY NamesAssumption DEF Objects
  <2> QED BY <2>1, <2>2 DEF SortInv, OwnEntries
<1>3. sorter'.since < changes'
  BY <1>1, SorterFields DEF SortInv, SorterType
<1>4. sorter.since \in Nat /\ changes' \in Nat /\ sorter'.since <= changes' /\ changes' # sorter'.since
      /\ changes' > sorter'.since
  BY <1>1, <1>3, SorterFields DEF SortInv, SorterType
<1> QED BY <1>1, <1>2, <1>4, <1>5 DEF SortInv, SorterType, ReadOnce, PrintsTheSorted, StillAsRead,
                                ShownAsRead, CrashOnlyIfChanged

LEMMA DirInvariant == DirSpec => [](LinkInv /\ SortInv)
<1>1. LinkInv /\ SortInv /\ [DirNext]_dirVars => SortInv'
  <2> SUFFICES ASSUME LinkerType, SortInv, [DirNext]_dirVars PROVE SortInv'
    BY DEF LinkInv
  <2>1. ASSUME NEW r \in Linkers, Open(r) \/ Search(r) \/ Link(r) PROVE SortInv'
    BY <2>1, SortLinkers
  <2>2. CASE OpenDir \/ ReadEntry \/ Sort \/ ShowEntry \/ Finish
    BY <2>2, SortOpen, SortRead, SortSort, SortShow, SortFinish
  <2>3. CASE Unlink \/ Write \/ Symlink
    BY <2>3, SortUsers
  <2>4. CASE UNCHANGED dirVars
    BY <2>4, LinkMadeKept DEF dirVars, SortInv, SorterType, OwnEntries, ReadOnce, PrintsTheSorted,
                              StillAsRead, ShownAsRead, SameTime, CrashOnlyIfChanged
  <2> QED BY <2>1, <2>2, <2>3, <2>4 DEF DirNext
<1> QED BY SortInit, LinkInvariant, <1>1, PTL DEF DirSpec

LEMMA ListIsInOrder == SortInv => Listed
<1> SUFFICES ASSUME SortInv, sorter.at \in {"printing", "done"} PROVE ListedInOrder
  BY DEF Listed, SortInv, ListedInOrder
<1> DEFINE read  == sorter.read
           order == sorter.order
           shown == sorter.printed
           Before(e, d) == e.time < d.time \/ (e.time = d.time /\ Place(read, e) < Place(read, d))
           Modified(i) == /\ order[i].way = Dot /\ order[i].time < shown[i]
                          /\ \E r \in Linkers : linker[r].at = "linked"
<1>1. /\ order \in Seq(Entries) /\ Len(order) = Len(read) /\ Rearranged(read, order)
      /\ TailSorted(order, 0) /\ shown \in Seq(Nat) /\ Len(shown) <= Len(order)
  BY ReadIsSortable, BubbleSorts, SorterFields DEF SortInv, PrintsTheSorted, SorterType
<1>2. changes = sorter.since =>
        \A i \in DOMAIN shown : shown[i] = order[i].time \/ Modified(i)
  BY DEF SortInv, ShownAsRead, SameTime, LinkMade
<1> HIDE DEF read, order, shown
<1>3. ToSet(order) = ToSet(read)
  BY <1>1 DEF Rearranged
<1>4. ASSUME NEW i \in 1 .. Len(order) - 1
      PROVE  i \in DOMAIN order /\ i + 1 \in DOMAIN order /\ order[i].time <= order[i + 1].time
             /\ Before(order[i], order[i + 1])
  <2>1. i \in DOMAIN order /\ i + 1 \in DOMAIN order /\ i < i + 1 /\ i + 1 > 0
    BY <1>1
  <2>2. order[i].time \in Nat /\ order[i + 1].time \in Nat
    BY <1>1, <2>1, EntriesHave
  <2>3. order[i].time <= order[i + 1].time
    BY <1>1, <2>1 DEF TailSorted
  <2>4. order[i].time = order[i + 1].time => Place(read, order[i]) < Place(read, order[i + 1])
    BY <1>1, <2>1 DEF Rearranged
  <2> QED BY <2>1, <2>2, <2>3, <2>4
<1>5. changes = sorter.since => \A i, j \in DOMAIN shown :
        i < j => shown[i] <= shown[j] \/ Modified(i)
  <2> SUFFICES ASSUME changes = sorter.since, NEW i \in DOMAIN shown, NEW j \in DOMAIN shown,
                      i < j, ~ Modified(i)
               PROVE  shown[i] <= shown[j]
    OBVIOUS
  <2>1. /\ i \in DOMAIN order /\ j \in DOMAIN order /\ i \in Nat /\ j \in Nat /\ j > 0
        /\ shown[i] \in Nat /\ shown[j] \in Nat
    BY <1>1
  <2>2. order[i].time \in Nat /\ order[j].time \in Nat
    BY <1>1, <2>1, EntriesHave
  <2>3. order[i].time <= order[j].time
    BY <1>1, <2>1 DEF TailSorted
  <2>4. shown[i] = order[i].time /\ order[j].time <= shown[j]
    BY <1>2, <2>1, <2>2
  <2> HIDE DEF Modified
  <2> QED BY <2>1, <2>2, <2>3, <2>4
<1> HIDE DEF Before, Modified
<1>6. /\ ToSet(order) = ToSet(read) /\ Len(order) = Len(read)
      /\ \A i \in 1 .. Len(order) - 1 : Before(order[i], order[i + 1])
      /\ changes = sorter.since => \A i, j \in DOMAIN shown :
           i < j => shown[i] <= shown[j] \/ Modified(i)
  BY <1>1, <1>3, <1>4, <1>5
<1> QED BY <1>6, Zenon DEF ListedInOrder, Before, Modified, Place, read, order, shown

(* sort_files shows every entry that it read once, by the time of          *)
(* modification that was read, and those of one time as they were read.    *)
(* Unless a user changes something meanwhile, it does not crash and the    *)
(* times that it shows are in order too, but that of the directory itself, *)
(* which is later when a link was made.                                    *)
THEOREM DirectoryListed == DirSpec => []Listed
BY DirInvariant, ListIsInOrder, PTL

(* The types of the variables of Directory; the numbers of the links are   *)
(* never beyond MaxNumber, as there are no more runs than numbers.         *)
THEOREM DirectoryTypeOK == DirSpec => []DirTypeOK
<1>1. LinkInv /\ SortInv => DirTypeOK
  <2> SUFFICES ASSUME LinkInv, SortInv PROVE DirTypeOK
    OBVIOUS
  <2>1. PICK k \in OldLinks : PassedAreTaken(k)
    BY DEF LinkInv, NumbersOK
  <2>2. LinkerType /\ SorterType /\ MaxNumber \in Nat
    BY DirectoryAssumption DEF LinkInv, SortInv
  <2>3. \A r \in Linkers : linker[r].at \in LinkerAts
                           /\ linker[r].file \in Files \union {"none"} /\ linker[r].number \in Nat
    BY <2>2 DEF LinkerType
  <2>4. \A r \in Linkers : linker[r].number <= MaxNumber
    BY <2>1, <2>2 DEF LinkerType, PassedAreTaken
  <2>5. sorter.at \in SorterAts
    BY <2>2, SorterFields DEF SorterType
  <2> QED BY <2>2, <2>3, <2>4, <2>5 DEF DirTypeOK, LinkerType, SorterType, LinkerAts, SorterAts
<1> QED BY <1>1, DirInvariant, PTL

-----------------------------------------------------------------------------
(* Both. *)

(* Each program goes through its own steps only.                           *)
LEMMA FileSpecs == Spec => EqSpec /\ DirSpec /\ StatSpec
<1>1. Init => EqInit /\ DirInit /\ StatInit
  BY DEF Init
<1>2. [Next]_vars => [EqNext]_eqVars /\ [DirNext]_dirVars /\ [get_full_stat]_listed
  BY DEF Next, vars, Equations, Dir, Stat
<1> QED BY <1>1, <1>2, PTL DEF Spec, EqSpec, DirSpec, StatSpec

(* Every variable of every program has its type in every behaviour.        *)
THEOREM FilesTypeOK == Spec => []TypeOK
<1>1. EqTypeOK /\ DirTypeOK => TypeOK
  BY DEF TypeOK
<1> QED BY FileSpecs, EquationsTypeOK, DirectoryTypeOK, <1>1, PTL
=============================================================================
