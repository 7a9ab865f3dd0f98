---------------------------- MODULE TextProofs ------------------------------
(***************************************************************************)
(* Proofs about the chat, the word counter, and the solver of equations.   *)
(*                                                                         *)
(* For any number of users, letters, runs and faults, and any size of the  *)
(* sockets: the two processes of a user of the chat end together unless a  *)
(* call failed or one of them was killed, and letters are shown in order.  *)
(* For any texts and clients, what a client of the word counter is shown   *)
(* is the number of words.  For lines and arguments of any length, an      *)
(* equation gets its answer, whatever the buffer held before.              *)
(*                                                                         *)
(* What a user's sender is doing while the receiver is not forked yet, or  *)
(* what made one of them go on alone, is not said by EndTogether: Inv adds *)
(* both.  ShownInOrder says nothing of a user that has typed nothing yet   *)
(* in this run, nor how far the numbers of the letters are from those of   *)
(* the next one: OrderInv does.                                            *)
(*                                                                         *)
(* Counting, stripping and reading digits are recursive functions over the *)
(* positions of a string, and what all users typed is a fold over the set  *)
(* of them.  The lemmas of the first part say that such functions exist    *)
(* and are used to follow them from one position, or element, to the next. *)
(***************************************************************************)
EXTENDS MCTexts, TLAPS, FiniteSetTheorems, SequenceTheorems, WellFoundedInduction

(* Numbers, and functions that are defined from one number to the next. *)

(* A non-empty set of naturals has a least element. *)
LEMMA LeastNatural ==
  ASSUME NEW I \in SUBSET Nat, I # {}
  PROVE  \E i \in I : \A k \in I : i <= k
<1>1. PICK i \in I : \A k \in I : ~ (<<k, i>> \in OpToRel(<, Nat))
  BY WFMin, NatLessThanWellFounded
<1>2. \A k \in I : ~ (k < i)
  BY <1>1 DEF OpToRel
<1>3. \A k \in I : i <= k
  BY <1>2
<1> QED BY <1>3

(* Induction over the numbers up to n, for a set of them. *)
LEMMA InductionTo ==
  ASSUME NEW n \in Nat, NEW T, 0 \in T, \A i \in 0 .. n - 1 : i \in T => i + 1 \in T
  PROVE  0 .. n \subseteq T /\ n \in T
<1> SUFFICES ASSUME NEW m \in 0 .. n, m \notin T PROVE FALSE
  OBVIOUS
<1> DEFINE I == (0 .. n) \ T
<1>1. PICK i \in I : \A k \in I : i <= k
  <2>1. I \in SUBSET Nat /\ I # {}
    OBVIOUS
  <2> HIDE DEF I
  <2> QED BY <2>1, LeastNatural
<1>2. i # 0 /\ i - 1 \in 0 .. n - 1 /\ i - 1 \in T
  BY <1>1
<1> QED BY <1>1, <1>2

(* step makes a value of S from one of S and a number up to n; h has the    *)
(* values that it makes one after another, from base.                      *)
IsStep(S, base, n, step) == base \in S /\ n \in Nat /\ step \in [S \X (1 .. n) -> S]
Iterates(h, S, base, n, step) ==
  h \in [0 .. n -> S] /\ h[0] = base /\ \A i \in 1 .. n : h[i] = step[<<h[i - 1], i>>]

(* There is such a function h.                                             *)
LEMMA Iteration ==
  ASSUME NEW S, NEW base, NEW n, NEW step, IsStep(S, base, n, step)
  PROVE  \E h : Iterates(h, S, base, n, step)
<1> SUFFICES ASSUME base \in S, n \in Nat, step \in [S \X (1 .. n) -> S]
             PROVE  \E h \in [0 .. n -> S] :
                      h[0] = base /\ \A i \in 1 .. n : h[i] = step[<<h[i - 1], i>>]
  BY DEF IsStep, Iterates
<1> DEFINE Goes(h, m) == h[0] = base /\ \A i \in 1 .. m : h[i] = step[<<h[i - 1], i>>]
           T == {m \in 0 .. n : \E h \in [0 .. m -> S] : Goes(h, m)}
<1>1. 0 \in T
  <2> DEFINE h == [i \in 0 .. 0 |-> base]
  <2>1. h \in [0 .. 0 -> S] /\ h[0] = base /\ 1 .. 0 = {}
    OBVIOUS
  <2> HIDE DEF h
  <2>2. Goes(h, 0)
    BY <2>1
  <2> QED BY <2>1, <2>2
<1>2. ASSUME NEW m \in 0 .. n - 1, m \in T PROVE m + 1 \in T
  <2>1. PICK h \in [0 .. m -> S] : Goes(h, m)
    BY <1>2
  <2> DEFINE g == [i \in 0 .. m + 1 |-> IF i = m + 1 THEN step[<<h[m], m + 1>>] ELSE h[i]]
  <2>2. step[<<h[m], m + 1>>] \in S
    OBVIOUS
  <2>3. g \in [0 .. m + 1 -> S]
    BY <2>2
  <2>4. g[m + 1] = step[<<h[m], m + 1>>] /\ \A i \in 0 .. m : g[i] = h[i]
    OBVIOUS
  <2> HIDE DEF g
  <2>5. g[0] = base
    BY <2>1, <2>4
  <2>6. ASSUME NEW i \in 1 .. m + 1 PROVE g[i] = step[<<g[i - 1], i>>]
    <3>1. CASE i = m + 1
      <4>1. i - 1 = m /\ m \in 0 .. m
        BY <3>1
      <4> QED BY ONLY <2>4, <3>1, <4>1
    <3>2. CASE i # m + 1
      <4>1. i \in 1 .. m /\ i \in 0 .. m /\ i - 1 \in 0 .. m
        BY <3>2
      <4> QED BY <2>1, <2>4, <4>1
    <3> QED BY <3>1, <3>2
  <2> QED BY <2>3, <2>5, <2>6
<1>3. n \in T
  <2> HIDE DEF T
  <2> QED BY <1>1, <1>2, InductionTo
<1> QED BY <1>3

-----------------------------------------------------------------------------
(* The chat: what goes together, and in order. *)

Types ==
  /\ receiver \in [Users -> {"off", "asking", "on"}]
  /\ sender \in [Users -> {"off", "on", "leaving", "endless"}]
  /\ alone \in [Users -> {"none", "killed", "failed"}]

(* Before fork there is one process; later there are two, or one that is   *)
(* alone for a reason, which goes with it.                                 *)
Together(u) ==
  /\ receiver[u] = "off" /\ sender[u] = "off" => alone[u] = "none"
  /\ receiver[u] = "asking" => sender[u] = "off" /\ alone[u] = "none"
  /\ receiver[u] = "on" /\ sender[u] = "off" => alone[u] # "none"
  /\ receiver[u] = "off" /\ sender[u] # "off" => alone[u] = "killed"

Inv == Types /\ \A u \in Users : Together(u)

LEMMA InitInv == ChatInit => Inv
  BY DEF ChatInit, Inv, Types, Together

(* Fork and its failure, and what starts a program. *)
LEMMA StartInv ==
  ASSUME Inv, NEW u \in Users, Start(u) \/ Fork(u) \/ ForkFails(u)
  PROVE  Inv'
<1>1. CASE Start(u)
  BY <1>1 DEF Start, Inv, Types, Together, HasPort
<1>2. CASE Fork(u)
  BY <1>2 DEF Fork, Inv, Types, Together
<1>3. CASE ForkFails(u)
  BY <1>3 DEF ForkFails, Inv, Types, Together
<1> QED BY <1>1, <1>2, <1>3

(* A letter is typed, or shown: nobody ends. *)
LEMMA LetterInv ==
  ASSUME Inv, NEW u \in Users,
         Type(u) \/ InputEnds(u) \/ SendEmpty(u) \/ Receive(u)
  PROVE  Inv'
<1>1. CASE Type(u)
  BY <1>1 DEF Type, Inv, Types, Together
<1>2. CASE InputEnds(u)
  BY <1>2 DEF InputEnds, Inv, Types, Together
<1>3. CASE SendEmpty(u) \/ Receive(u)
  BY <1>3 DEF SendEmpty, Receive, Inv, Types, Together
<1> QED BY <1>1, <1>2, <1>3

(* What is left of u when one of its processes, or both, end.   *)
LEMMA RemainInv ==
  ASSUME Inv, NEW u \in Users,
         NEW r \in {"off", "on"},
         NEW s \in {"off", "on", "leaving", "endless"},
         NEW why \in {"none", "killed", "failed"},
         Remain(u, r, s, why),
         r = "on" /\ s = "off" => why # "none",
         r = "off" /\ s # "off" => why = "killed"
  PROVE  Inv'
<1>1. /\ receiver' = [receiver EXCEPT ![u] = r]
      /\ sender' = [sender EXCEPT ![u] = s]
      /\ alone' = [alone EXCEPT ![u] = IF r = "off" /\ s = "off" THEN "none" ELSE why]
  BY DEF Remain
<1>2. Types'
  BY <1>1 DEF Inv, Types
<1>3. Together(u)'
  BY <1>1 DEF Inv, Types, Together
<1>4. ASSUME NEW w \in Users \ {u} PROVE Together(w)'
  BY <1>1, <1>4 DEF Inv, Types, Together
<1> QED BY <1>2, <1>3, <1>4 DEF Inv

LEMMA LeaveInv == ASSUME Inv, NEW u \in Users, Leave(u) PROVE Inv'
  BY RemainInv DEF Leave, Inv, Types

LEMMA InterruptInv == ASSUME Inv, NEW u \in Users, Interrupt(u) PROVE Inv'
  BY RemainInv DEF Interrupt, Inv, Types

(* Only the child notices that sendto failed. *)
LEMMA SendFailsInv == ASSUME Inv, NEW u \in Users, SendFails(u) PROVE Inv'
<1>1. receiver[u] \in {"off", "on"}
  BY DEF SendFails, Inv, Types, Together
<1> QED BY <1>1, RemainInv DEF SendFails

LEMMA KillOneInv == ASSUME Inv, NEW u \in Users, KillOne(u) PROVE Inv'
<1>1. receiver[u] = "on" /\ sender[u] \in {"on", "leaving", "endless"}
  BY DEF KillOne, Inv, Types
<1>2. CASE Remain(u, "off", sender[u], "killed")
  BY <1>1, <1>2, RemainInv
<1>3. CASE Remain(u, receiver[u], "off", "killed")
  BY <1>1, <1>3, RemainInv
<1> QED BY <1>2, <1>3 DEF KillOne

LEMMA NextInv == Inv /\ [ChatNext]_chatVars => Inv'
<1> SUFFICES ASSUME Inv, [ChatNext]_chatVars PROVE Inv'
  OBVIOUS
<1>1. CASE UNCHANGED chatVars
  BY <1>1 DEF chatVars, Inv, Types, Together
<1> QED BY <1>1, StartInv, LetterInv, SendFailsInv, LeaveInv, InterruptInv,
           KillOneInv DEF ChatNext

(* One process of a user goes on without the other only when a call        *)
(* failed, which only one of them noticed, or one of them was killed; and  *)
(* a child signals a process in its parent's place only if that was killed.*)
THEOREM ChatEndTogether == ChatSpec => []EndTogether
<1>1. Inv => EndTogether
  BY DEF Inv, Types, Together, EndTogether
<1> QED BY <1>1, InitInv, NextInv, PTL DEF ChatSpec

-----------------------------------------------------------------------------
(* The letters.  A sequence s of letters stands for what a user was shown  *)
(* and then what is in its socket.                                         *)

Msgs == [from : Users, n : Nat, run : Nat, mes : {"text", "farewell", "empty"}]

LetterTypes ==
  /\ friend \in [Users -> Users]
  /\ typed \in [Users -> Nat] /\ runs \in [Users -> Nat]
  /\ inbox \in [Users -> Seq(Msgs)] /\ shown \in [Users -> Seq(Msgs)]
  /\ lost \in [Users -> BOOLEAN]

Mine(s, w) == {i \in DOMAIN s : s[i].from = w /\ s[i].mes # "empty"}

Ordered(s, w) ==
  \A i, k \in Mine(s, w) :
    i < k => /\ s[i].n < s[k].n
             /\ s[i].mes = "farewell" => s[i].run < s[k].run

(* What is typed next has a greater number, and after a farewell, or while *)
(* the program asks for the port, nothing is typed in the same run.        *)
Before(s, w) ==
  \A i \in Mine(s, w) :
    /\ s[i].n <= typed[w] /\ s[i].run <= runs[w]
    /\ sender[w] = "on" /\ s[i].mes = "farewell" => s[i].run < runs[w]
    /\ receiver[w] = "asking" => s[i].run < runs[w]

Numbers(s, w, r) == {s[i].n : i \in {k \in Mine(s, w) : s[k].run = r}}

NoGap(u, w) ==
  sender[w] # "off" /\ friend[w] = u /\ ~ lost[w] =>
    \A n \in Numbers(Arrived(u), w, runs[w]) :
      n <= typed[w] /\ n .. typed[w] \subseteq Numbers(Arrived(u), w, runs[w])

Kept(u, w) == Ordered(Arrived(u), w) /\ Before(Arrived(u), w) /\ NoGap(u, w)

OrderInv == Inv /\ LetterTypes /\ \A u, w \in Users : Kept(u, w)

LEMMA Joined ==
  ASSUME NEW a \in Seq(Msgs), NEW b \in Seq(Msgs)
  PROVE  /\ a \o b \in Seq(Msgs)
         /\ DOMAIN (a \o b) = 1 .. Len(a) + Len(b)
         /\ \A i \in 1 .. Len(a) : (a \o b)[i] = a[i]
         /\ \A i \in 1 .. Len(b) : (a \o b)[Len(a) + i] = b[i]
<1>1. Len(a) \in Nat /\ Len(b) \in Nat /\ Len(a \o b) = Len(a) + Len(b)
  OBVIOUS
<1>2. a \o b \in Seq(Msgs) /\ DOMAIN (a \o b) = 1 .. Len(a \o b)
  OBVIOUS
<1>3. \A i \in 1 .. Len(a) : (a \o b)[i] = a[i]
  BY <1>1
<1>4. \A i \in 1 .. Len(b) : (a \o b)[Len(a) + i] = b[i]
  BY <1>1
<1> QED BY <1>1, <1>2, <1>3, <1>4

LEMMA ArrivedType ==
  ASSUME LetterTypes, NEW u \in Users
  PROVE  /\ Arrived(u) \in Seq(Msgs) /\ shown[u] \in Seq(Msgs) /\ inbox[u] \in Seq(Msgs)
         /\ DOMAIN Arrived(u) = 1 .. Len(shown[u]) + Len(inbox[u])
         /\ \A i \in 1 .. Len(shown[u]) : Arrived(u)[i] = shown[u][i]
         /\ \A i \in 1 .. Len(inbox[u]) : Arrived(u)[Len(shown[u]) + i] = inbox[u][i]
<1>1. shown[u] \in Seq(Msgs) /\ inbox[u] \in Seq(Msgs)
  BY DEF LetterTypes
<1> DEFINE a == shown[u]
           b == inbox[u]
<1>2. Arrived(u) = a \o b
  BY DEF Arrived
<1> HIDE DEF Arrived, a, b
<1>3. a \in Seq(Msgs) /\ b \in Seq(Msgs)
  BY <1>1 DEF a, b
<1>4. /\ a \o b \in Seq(Msgs)
      /\ DOMAIN (a \o b) = 1 .. Len(a) + Len(b)
      /\ \A i \in 1 .. Len(a) : (a \o b)[i] = a[i]
      /\ \A i \in 1 .. Len(b) : (a \o b)[Len(a) + i] = b[i]
  BY <1>3, Joined
<1>5. /\ Arrived(u) \in Seq(Msgs)
      /\ DOMAIN Arrived(u) = 1 .. Len(a) + Len(b)
      /\ \A i \in 1 .. Len(a) : Arrived(u)[i] = a[i]
      /\ \A i \in 1 .. Len(b) : Arrived(u)[Len(a) + i] = b[i]
  BY <1>2, <1>4, Zenon
<1> QED BY <1>1, <1>5 DEF a, b

(* The letters of w stay where they are. *)
LEMMA SameLetters ==
  ASSUME LetterTypes, NEW u \in Users, NEW w \in Users, Kept(u, w),
         Mine(Arrived(u), w)' = Mine(Arrived(u), w),
         \A i \in Mine(Arrived(u), w) : Arrived(u)'[i] = Arrived(u)[i],
         runs'[w] = runs[w] \/ runs'[w] = runs[w] + 1,
         runs'[w] = runs[w] + 1 => sender'[w] = "off",
         typed'[w] \in Nat, typed[w] <= typed'[w],
         sender'[w] = "on" => sender[w] = "on" \/ receiver[w] = "asking",
         receiver'[w] = "asking" => receiver[w] = "asking" \/ runs'[w] = runs[w] + 1,
         sender'[w] # "off" /\ friend'[w] = u /\ ~ lost'[w] =>
           \/ receiver[w] = "asking"
           \/ /\ sender[w] # "off" /\ friend[w] = u /\ ~ lost[w]
              /\ typed'[w] = typed[w]
  PROVE  Kept(u, w)'
<1> DEFINE s == Arrived(u)
           M == Mine(s, w)
<1>1. /\ typed[w] \in Nat /\ runs[w] \in Nat
      /\ \A i \in M : s[i].n \in Nat /\ s[i].run \in Nat
  <2>1. s \in Seq(Msgs)
    BY ArrivedType
  <2>2. \A i \in DOMAIN s : s[i] \in Msgs
    BY <2>1
  <2> QED BY <2>2 DEF LetterTypes, Mine, Msgs
<1>2. Ordered(s, w)'
  BY DEF Kept, Ordered
<1>3. Before(s, w)'
  <2> SUFFICES ASSUME NEW i \in M
               PROVE  /\ s[i].n <= typed'[w] /\ s[i].run <= runs'[w]
                      /\ sender'[w] = "on" /\ s[i].mes = "farewell" => s[i].run < runs'[w]
                      /\ receiver'[w] = "asking" => s[i].run < runs'[w]
    BY DEF Before
  <2>1. /\ s[i].n <= typed[w] /\ s[i].run <= runs[w]
        /\ sender[w] = "on" /\ s[i].mes = "farewell" => s[i].run < runs[w]
        /\ receiver[w] = "asking" => s[i].run < runs[w]
    BY DEF Kept, Before
  <2> HIDE DEF s, M
  <2>2. s[i].n \in Nat /\ s[i].run \in Nat
    BY <1>1
  <2> QED BY <1>1, <2>1, <2>2
<1>4. NoGap(u, w)'
  <2> SUFFICES ASSUME sender'[w] # "off", friend'[w] = u, ~ lost'[w]
               PROVE  \A n \in Numbers(s, w, runs[w])' :
                        n <= typed'[w] /\ n .. typed'[w] \subseteq Numbers(s, w, runs[w])'
    BY DEF NoGap
  <2>1. runs'[w] = runs[w]
    OBVIOUS
  <2>2. Numbers(s, w, runs[w])' = Numbers(s, w, runs[w])
    BY <2>1 DEF Numbers
  <2>3. CASE receiver[w] = "asking"
    <3>1. Numbers(s, w, runs[w]) = {}
      <4>1. \A i \in M : s[i].run < runs[w]
        BY <2>3 DEF Kept, Before
      <4> QED BY <1>1, <4>1 DEF Numbers
    <3> QED BY <2>2, <3>1
  <2>4. CASE sender[w] # "off" /\ friend[w] = u /\ ~ lost[w] /\ typed'[w] = typed[w]
    BY <2>2, <2>4 DEF Kept, NoGap
  <2> QED BY <2>3, <2>4
<1> QED BY <1>2, <1>3, <1>4 DEF Kept

(* The letter m of another user, or an empty one, arrives. *)
LEMMA OtherLetter ==
  ASSUME LetterTypes, NEW u \in Users, NEW w \in Users, NEW m \in Msgs,
         Arrived(u)' = Append(Arrived(u), m), m.from # w \/ m.mes = "empty"
  PROVE  /\ Mine(Arrived(u), w)' = Mine(Arrived(u), w)
         /\ \A i \in Mine(Arrived(u), w) : Arrived(u)'[i] = Arrived(u)[i]
<1> DEFINE s == Arrived(u)
           t == Append(s, m)
<1>1. s \in Seq(Msgs)
  BY ArrivedType
<1> HIDE DEF s
<1>2. /\ DOMAIN t = DOMAIN s \union {Len(s) + 1} /\ t[Len(s) + 1] = m
      /\ \A i \in DOMAIN s : t[i] = s[i]
  BY <1>1
<1> HIDE DEF t
<1>3. Mine(t, w) = Mine(s, w) /\ \A i \in Mine(s, w) : t[i] = s[i]
  BY <1>2 DEF Mine
<1> QED BY <1>3 DEF s, t, Mine

(* A letter that w types arrives. *)
LEMMA OwnLetter ==
  ASSUME LetterTypes, NEW u \in Users, NEW w \in Users, Kept(u, w), NEW m \in Msgs,
         Arrived(u)' = Append(Arrived(u), m),
         m.from = w, m.mes # "empty", m.n = typed[w] + 1, m.run = runs[w],
         sender[w] = "on", receiver'[w] # "asking",
         sender'[w] = IF m.mes = "farewell" THEN "leaving" ELSE "on",
         typed'[w] = typed[w] + 1, UNCHANGED <<friend, runs, lost>>
  PROVE  Kept(u, w)'
<1> DEFINE s == Arrived(u)
           t == Append(s, m)
           l == Len(s) + 1
           N == Numbers(s, w, runs[w])
<1>1. s \in Seq(Msgs) /\ typed[w] \in Nat /\ runs[w] \in Nat /\ t = Arrived(u)'
  BY ArrivedType DEF LetterTypes
<1>2. Ordered(s, w) /\ Before(s, w)
  BY DEF Kept
<1>3. friend[w] = u /\ ~ lost[w] =>
        \A n \in N : n <= typed[w] /\ n .. typed[w] \subseteq N
  BY DEF Kept, NoGap
<1> HIDE DEF s
<1>4. /\ DOMAIN t = DOMAIN s \union {l} /\ t[l] = m /\ l \notin DOMAIN s
      /\ \A i \in DOMAIN s : t[i] = s[i] /\ i < l /\ i \in Nat
      /\ \A i \in DOMAIN s : s[i] \in Msgs
      /\ l \in Nat
  BY <1>1
<1> HIDE DEF t, l
<1>5. Mine(t, w) = Mine(s, w) \union {l} /\ \A i \in Mine(s, w) : t[i] = s[i]
  BY <1>4 DEF Mine
<1>6. \A i \in Mine(s, w) :
        /\ s[i].n \in Nat /\ s[i].run \in Nat /\ i \in Nat /\ i < l
        /\ s[i].n <= typed[w] /\ s[i].run <= runs[w]
        /\ s[i].mes = "farewell" => s[i].run < runs[w]
  BY <1>2, <1>4 DEF Before, Mine, Msgs
<1>7. Ordered(t, w)
  <2> SUFFICES ASSUME NEW i \in Mine(t, w), NEW k \in Mine(t, w), i < k
               PROVE  /\ t[i].n < t[k].n
                      /\ t[i].mes = "farewell" => t[i].run < t[k].run
    BY DEF Ordered
  <2>1. i # l
    BY <1>4, <1>5, <1>6
  <2>2. CASE k = l
    <3>1. i \in Mine(s, w) /\ t[i] = s[i] /\ t[k] = m
      BY <1>4, <1>5, <2>1, <2>2
    <3>2. /\ s[i].n \in Nat /\ s[i].n <= typed[w]
          /\ s[i].mes = "farewell" => s[i].run < runs[w]
      BY <1>6, <3>1
    <3>3. s[i].n < typed[w] + 1
      BY <1>1, <3>2
    <3> QED BY <3>1, <3>2, <3>3
  <2>3. CASE k # l
    BY <1>2, <1>5, <2>1, <2>3 DEF Ordered
  <2> QED BY <2>2, <2>3
<1>8. \A i \in Mine(t, w) :
        /\ t[i].n <= typed'[w] /\ t[i].run <= runs'[w]
        /\ sender'[w] = "on" /\ t[i].mes = "farewell" => t[i].run < runs'[w]
  <2> SUFFICES ASSUME NEW i \in Mine(t, w)
               PROVE  /\ t[i].n <= typed'[w] /\ t[i].run <= runs'[w]
                      /\ sender'[w] = "on" /\ t[i].mes = "farewell" => t[i].run < runs'[w]
    OBVIOUS
  <2>1. CASE i = l
    BY <1>1, <1>4, <2>1
  <2>2. CASE i # l
    <3>1. t[i] = s[i] /\ i \in Mine(s, w)
      BY <1>5, <2>2
    <3>2. /\ s[i].n \in Nat /\ s[i].n <= typed[w] /\ s[i].run <= runs[w]
          /\ s[i].mes = "farewell" => s[i].run < runs[w]
      BY <1>6, <3>1
    <3>3. s[i].n <= typed[w] + 1
      BY <1>1, <3>2
    <3> QED BY <3>1, <3>2, <3>3
  <2> QED BY <2>1, <2>2
<1>9. Numbers(t, w, runs[w]) = N \union {typed[w] + 1}
  BY <1>4, <1>5 DEF Numbers
<1> HIDE DEF N
<1>10. friend[w] = u /\ ~ lost[w] =>
         \A n \in Numbers(t, w, runs[w]) :
           n <= typed'[w] /\ n .. typed'[w] \subseteq Numbers(t, w, runs[w])
  <2> SUFFICES ASSUME friend[w] = u, ~ lost[w], NEW n \in N \union {typed[w] + 1}
               PROVE  /\ n <= typed[w] + 1
                      /\ n .. typed[w] + 1 \subseteq N \union {typed[w] + 1}
    BY <1>9
  <2>1. N \subseteq Nat
    BY <1>6 DEF N, Numbers
  <2>2. CASE n \in N
    <3>1. n \in Nat /\ n <= typed[w] /\ n .. typed[w] \subseteq N
      BY <1>3, <2>1, <2>2
    <3>2. n <= typed[w] + 1
      BY <1>1, <3>1
    <3>3. ASSUME NEW x \in n .. typed[w] + 1 PROVE x \in N \union {typed[w] + 1}
      <4>1. x = typed[w] + 1 \/ x \in n .. typed[w]
        BY <1>1, <3>1
      <4> QED BY <3>1, <4>1
    <3> QED BY <3>2, <3>3
  <2>3. CASE n = typed[w] + 1
    BY <1>1, <2>3
  <2> QED BY <2>2, <2>3
<1>11. Ordered(Arrived(u), w)' /\ Before(Arrived(u), w)'
  BY <1>1, <1>7, <1>8 DEF Ordered, Before, Mine
<1>12. NoGap(u, w)'
  <2>1. /\ Numbers(Arrived(u), w, runs[w])' = Numbers(t, w, runs[w])
        /\ friend' = friend /\ lost' = lost
    BY <1>1 DEF Numbers, Mine
  <2> QED BY <1>10, <2>1 DEF NoGap
<1> QED BY <1>11, <1>12 DEF Kept

(* One letter of no interest goes, or, when a user ends, all in its socket. *)
LEMMA FewerLetters ==
  ASSUME LetterTypes, NEW u \in Users, NEW w \in Users, Kept(u, w),
         NEW h \in [DOMAIN Arrived(u)' -> DOMAIN Arrived(u)],
         \A i \in DOMAIN Arrived(u)' : Arrived(u)'[i] = Arrived(u)[h[i]],
         \A i, k \in DOMAIN Arrived(u)' : i < k => h[i] < h[k],
         UNCHANGED <<typed, runs>>,
         sender'[w] = "on" => sender[w] = "on",
         receiver'[w] = "asking" => receiver[w] = "asking",
         \/ sender'[w] = "off" \/ friend'[w] # u \/ lost'[w]
         \/ /\ sender'[w] = sender[w] /\ friend'[w] = friend[w] /\ lost'[w] = lost[w]
            /\ \A k \in Mine(Arrived(u), w) : \E i \in DOMAIN Arrived(u)' : h[i] = k
  PROVE  Kept(u, w)'
<1> DEFINE s == Arrived(u)
           M == Mine(s, w)
<1>1. /\ typed[w] \in Nat /\ runs[w] \in Nat
      /\ \A i \in M : s[i].n \in Nat
  <2>1. s \in Seq(Msgs)
    BY ArrivedType
  <2>2. \A i \in DOMAIN s : s[i] \in Msgs
    BY <2>1
  <2> QED BY <2>2 DEF LetterTypes, Mine, Msgs
<1>2. \A i \in Mine(s, w)' : /\ h[i] \in M /\ s'[i] = s[h[i]]
                             /\ i \in DOMAIN Arrived(u)'
  BY DEF Mine
<1>3. Ordered(s, w)'
  BY <1>2 DEF Kept, Ordered
<1>4. Before(s, w)'
  BY <1>2 DEF Kept, Before
<1>5. NoGap(u, w)'
  <2> SUFFICES ASSUME sender'[w] # "off", friend'[w] = u, ~ lost'[w]
               PROVE  \A n \in Numbers(s, w, runs[w])' :
                        n <= typed'[w] /\ n .. typed'[w] \subseteq Numbers(s, w, runs[w])'
    BY DEF NoGap
  <2>1. \A k \in M : \E i \in DOMAIN Arrived(u)' : h[i] = k
    OBVIOUS
  <2>2. \A k \in M : \E i \in Mine(s, w)' : h[i] = k
    BY <2>1 DEF Mine
  <2>3. Numbers(s, w, runs[w])' = Numbers(s, w, runs[w])
    <3>1. Numbers(s, w, runs[w])' \subseteq Numbers(s, w, runs[w])
      BY <1>2 DEF Numbers
    <3>2. Numbers(s, w, runs[w]) \subseteq Numbers(s, w, runs[w])'
      BY <1>2, <2>2 DEF Numbers
    <3> QED BY <3>1, <3>2
  <2> QED BY <2>3 DEF Kept, NoGap
<1> QED BY <1>3, <1>4, <1>5 DEF Kept

(* The steps. *)

LEMMA SentTo ==
  ASSUME LetterTypes, NEW x \in Users, NEW m \in Msgs,
         inbox' = inbox \/ inbox' = [inbox EXCEPT ![x] = Append(@, m)]
  PROVE  inbox' \in [Users -> Seq(Msgs)]
<1>1. inbox \in [Users -> Seq(Msgs)] /\ inbox[x] \in Seq(Msgs)
  BY DEF LetterTypes
<1>2. Append(inbox[x], m) \in Seq(Msgs)
  BY <1>1
<1> QED BY <1>1, <1>2

LEMMA SameOf ==
  ASSUME NEW u \in Users, shown'[u] = shown[u], inbox'[u] = inbox[u]
  PROVE  Arrived(u)' = Arrived(u)
  BY DEF Arrived

LEMMA SentOf ==
  ASSUME LetterTypes, NEW u \in Users, NEW m \in Msgs,
         shown'[u] = shown[u], inbox'[u] = Append(inbox[u], m)
  PROVE  Arrived(u)' = Append(Arrived(u), m)
<1> DEFINE a == shown[u]
           b == inbox[u]
<1>1. a \in Seq(Msgs) /\ b \in Seq(Msgs)
  BY DEF LetterTypes
<1>2. Arrived(u)' = a \o Append(b, m) /\ Arrived(u) = a \o b
  BY DEF Arrived
<1> HIDE DEF a, b
<1>3. a \o Append(b, m) = Append(a \o b, m)
  BY <1>1
<1> QED BY <1>2, <1>3

LEMMA StartsOrdered ==
  ASSUME OrderInv, NEW u \in Users, Start(u) \/ Fork(u) \/ ForkFails(u)
  PROVE  LetterTypes' /\ \A v, w \in Users : Kept(v, w)'
<1>1. /\ LetterTypes /\ receiver \in [Users -> {"off", "asking", "on"}]
      /\ sender \in [Users -> {"off", "on", "leaving", "endless"}]
      /\ \A w \in Users : Together(w)
  BY DEF OrderInv, Inv, Types
<1>2. /\ UNCHANGED <<inbox, typed, shown, lost>>
      /\ \/ Start(u) /\ runs' = [runs EXCEPT ![u] = @ + 1] /\ UNCHANGED <<sender, friend>>
            /\ receiver' = [receiver EXCEPT ![u] = "asking"] /\ sender[u] = "off"
         \/ /\ receiver[u] = "asking" /\ runs' = runs
            /\ receiver' = [receiver EXCEPT ![u] = "on"]
            /\ \/ UNCHANGED <<sender, friend>>
               \/ /\ sender' = [sender EXCEPT ![u] = "on"]
                  /\ \E w \in Users : friend' = [friend EXCEPT ![u] = w]
  BY <1>1 DEF Start, Fork, ForkFails, HasPort
<1>3. LetterTypes'
  <2>1. friend \in [Users -> Users] /\ runs \in [Users -> Nat]
    BY <1>1 DEF LetterTypes
  <2>2. friend' \in [Users -> Users]
    BY <1>2, <2>1
  <2>3. runs' \in [Users -> Nat]
    <3>1. runs' = runs \/ runs' = [runs EXCEPT ![u] = @ + 1]
      BY <1>2
    <3> QED BY <2>1, <3>1
  <2> QED BY <1>1, <1>2, <2>2, <2>3 DEF LetterTypes
<1>4. ASSUME NEW v \in Users, NEW w \in Users PROVE Kept(v, w)'
  <2>1. Arrived(v)' = Arrived(v) /\ Kept(v, w)
    BY <1>2, SameOf DEF OrderInv
  <2>2. Mine(Arrived(v), w)' = Mine(Arrived(v), w)
    BY <2>1 DEF Mine
  <2>3. typed'[w] = typed[w] /\ typed[w] \in Nat /\ runs[w] \in Nat
    BY <1>1, <1>2 DEF LetterTypes
  <2>4. CASE w # u
    <3>1. /\ receiver'[w] = receiver[w] /\ sender'[w] = sender[w] /\ runs'[w] = runs[w]
          /\ friend'[w] = friend[w] /\ lost'[w] = lost[w]
      <4>1. \/ runs' = [runs EXCEPT ![u] = @ + 1] /\ UNCHANGED <<sender, friend>>
               /\ receiver' = [receiver EXCEPT ![u] = "asking"]
            \/ /\ runs' = runs /\ receiver' = [receiver EXCEPT ![u] = "on"]
               /\ \/ UNCHANGED <<sender, friend>>
                  \/ /\ sender' = [sender EXCEPT ![u] = "on"]
                     /\ \E x \in Users : friend' = [friend EXCEPT ![u] = x]
        BY <1>2
      <4>2. /\ friend \in [Users -> Users] /\ runs \in [Users -> Nat]
        BY <1>1 DEF LetterTypes
      <4>3. lost'[w] = lost[w]
        BY <1>2
      <4> QED BY ONLY <1>1, <2>4, <4>1, <4>2, <4>3, w \in Users, u \in Users
    <3> QED BY <1>1, <2>1, <2>2, <2>3, <3>1, SameLetters
  <2>5. CASE w = u /\ receiver[u] = "asking" /\ runs' = runs
    <3>1. runs'[w] = runs[w] /\ runs[w] # runs[w] + 1 /\ receiver[w] = "asking"
      BY <2>3, <2>5
    <3> QED BY <1>1, <2>1, <2>2, <2>3, <3>1, SameLetters
  <2>6. CASE w = u /\ ~ (receiver[u] = "asking" /\ runs' = runs)
    <3>1. /\ runs'[w] = runs[w] + 1 /\ sender'[w] = "off" /\ receiver'[w] = "asking"
      BY <1>1, <1>2, <2>6 DEF LetterTypes
    <3> QED BY <1>1, <2>1, <2>2, <2>3, <3>1, SameLetters
  <2> QED BY <2>4, <2>5, <2>6
<1> QED BY <1>3, <1>4
(* A letter is typed; it arrives, or the user has lost one. *)
LEMMA TypeOrdered ==
  ASSUME OrderInv, NEW u \in Users, Type(u)
  PROVE  LetterTypes' /\ \A v, w \in Users : Kept(v, w)'
<1>1. /\ LetterTypes /\ receiver \in [Users -> {"off", "asking", "on"}]
      /\ sender \in [Users -> {"off", "on", "leaving", "endless"}]
      /\ Together(u)
  BY DEF OrderInv, Inv, Types
<1>2. PICK mes \in {"text", "farewell"} :
        /\ Deliver(u, Letter(u, typed[u] + 1, mes))
        /\ sender' = IF mes = "text" THEN sender ELSE [sender EXCEPT ![u] = "leaving"]
  BY DEF Type
<1> DEFINE m == Letter(u, typed[u] + 1, mes)
           x == friend[u]
<1>3. /\ m \in Msgs /\ m.from = u /\ m.n = typed[u] + 1 /\ m.run = runs[u]
      /\ m.mes = mes /\ x \in Users
  BY <1>1 DEF LetterTypes, Letter, Msgs
<1>4. \/ inbox' = [inbox EXCEPT ![x] = Append(@, m)] /\ lost' = lost
      \/ inbox' = inbox /\ lost' = [lost EXCEPT ![u] = TRUE]
  BY <1>2 DEF Deliver
<1> HIDE DEF m, x
<1>5. /\ UNCHANGED <<receiver, friend, runs, shown>> /\ sender[u] = "on"
      /\ typed' = [typed EXCEPT ![u] = @ + 1]
      /\ sender'[u] = IF mes = "farewell" THEN "leaving" ELSE "on"
      /\ \A w \in Users \ {u} : sender'[w] = sender[w]
  BY <1>1, <1>2 DEF Type
<1>6. LetterTypes'
  <2>1. /\ friend \in [Users -> Users] /\ typed \in [Users -> Nat] /\ runs \in [Users -> Nat]
        /\ inbox \in [Users -> Seq(Msgs)] /\ shown \in [Users -> Seq(Msgs)]
        /\ lost \in [Users -> BOOLEAN]
    BY <1>1 DEF LetterTypes
  <2>2. inbox' \in [Users -> Seq(Msgs)]
    BY <1>1, <1>3, <1>4, SentTo
  <2>3. lost' \in [Users -> BOOLEAN]
    BY <1>4, <2>1
  <2>4. typed' \in [Users -> Nat]
    BY <1>5, <2>1
  <2> QED BY <1>5, <2>1, <2>2, <2>3, <2>4 DEF LetterTypes
<1>7. /\ typed'[u] = typed[u] + 1 /\ receiver[u] # "asking" /\ lost'[u] \in BOOLEAN
      /\ \A w \in Users : typed[w] \in Nat /\ runs[w] \in Nat
      /\ \A w \in Users \ {u} : typed'[w] = typed[w] /\ lost'[w] = lost[w]
  BY <1>1, <1>4, <1>5, <1>6 DEF LetterTypes, Together
<1>8. ASSUME NEW v \in Users
      PROVE  \/ Arrived(v)' = Arrived(v) /\ (v = x => lost'[u])
             \/ v = x /\ Arrived(v)' = Append(Arrived(v), m) /\ lost' = lost
  <2>1. shown'[v] = shown[v]
    BY <1>5
  <2>2. \/ inbox'[v] = inbox[v] /\ (v = x => lost'[u])
        \/ v = x /\ inbox'[v] = Append(inbox[v], m) /\ lost' = lost
    <3>1. inbox \in [Users -> Seq(Msgs)] /\ lost \in [Users -> BOOLEAN]
      BY <1>1 DEF LetterTypes
    <3>2. CASE inbox' = inbox /\ lost' = [lost EXCEPT ![u] = TRUE]
      BY <3>1, <3>2
    <3>3. CASE inbox' = [inbox EXCEPT ![x] = Append(@, m)] /\ lost' = lost
      <4>1. v # x => inbox'[v] = inbox[v]
        BY <3>1, <3>3
      <4>2. v = x => inbox'[v] = Append(inbox[v], m)
        BY <3>1, <3>3
      <4> QED BY <3>3, <4>1, <4>2
    <3> QED BY <1>4, <3>2, <3>3
  <2> QED BY <1>1, <1>3, <2>1, <2>2, SameOf, SentOf
<1>9. ASSUME NEW v \in Users, NEW w \in Users PROVE Kept(v, w)'
  <2>1. Kept(v, w)
    BY DEF OrderInv
  <2>2. CASE Arrived(v)' = Append(Arrived(v), m) /\ v = x /\ lost' = lost /\ w = u
    <3>1. friend[w] = v
      BY <2>2 DEF x
    <3>2. /\ m.from = w /\ m.mes # "empty" /\ m.n = typed[w] + 1 /\ m.run = runs[w]
          /\ sender[w] = "on" /\ receiver'[w] # "asking" /\ typed'[w] = typed[w] + 1
          /\ sender'[w] = IF m.mes = "farewell" THEN "leaving" ELSE "on"
          /\ UNCHANGED <<friend, runs, lost>> /\ Arrived(v)' = Append(Arrived(v), m)
      BY <1>2, <1>3, <1>5, <1>7, <2>2
    <3> QED BY <1>1, <1>3, <2>1, <3>2, OwnLetter
  <2>3. CASE ~ (Arrived(v)' = Append(Arrived(v), m) /\ v = x /\ lost' = lost /\ w = u)
    <3>1. /\ Mine(Arrived(v), w)' = Mine(Arrived(v), w)
          /\ \A i \in Mine(Arrived(v), w) : Arrived(v)'[i] = Arrived(v)[i]
      <4>1. CASE Arrived(v)' = Arrived(v)
        BY <4>1 DEF Mine
      <4>2. CASE Arrived(v)' = Append(Arrived(v), m) /\ w # u
        BY <1>1, <1>3, <4>2, OtherLetter
      <4> QED BY <1>8, <2>3, <4>1, <4>2
    <3>2. /\ runs'[w] = runs[w] /\ runs[w] # runs[w] + 1 /\ typed'[w] \in Nat
          /\ typed[w] <= typed'[w] /\ receiver'[w] = receiver[w] /\ friend'[w] = friend[w]
          /\ sender'[w] = "on" => sender[w] = "on"
      <4>1. typed[w] \in Nat /\ runs[w] \in Nat /\ typed'[w] \in {typed[w], typed[w] + 1}
        BY <1>7
      <4>2. runs[w] # runs[w] + 1 /\ typed'[w] \in Nat /\ typed[w] <= typed'[w]
        BY <4>1
      <4> QED BY <1>5, <4>2
    <3>3. friend'[w] = v /\ ~ lost'[w] /\ sender'[w] # "off" =>
            sender[w] # "off" /\ friend[w] = v /\ ~ lost[w] /\ typed'[w] = typed[w]
      <4>1. CASE w # u
        BY <1>5, <1>7, <4>1
      <4>2. CASE w = u
        BY <1>5, <1>8, <2>3, <4>2 DEF x
      <4> QED BY <4>1, <4>2
    <3> QED BY <1>1, <2>1, <3>1, <3>2, <3>3, SameLetters
  <2> QED BY <2>2, <2>3
<1> QED BY <1>6, <1>9

(* Without input, empty letters are sent, which belong to no history. *)
LEMMA EndlessOrdered ==
  ASSUME OrderInv, NEW u \in Users, InputEnds(u) \/ SendEmpty(u)
  PROVE  LetterTypes' /\ \A v, w \in Users : Kept(v, w)'
<1>1. /\ LetterTypes /\ receiver \in [Users -> {"off", "asking", "on"}]
      /\ sender \in [Users -> {"off", "on", "leaving", "endless"}]
  BY DEF OrderInv, Inv, Types
<1> DEFINE m == Letter(u, typed[u], "empty")
           x == friend[u]
<1>2. m \in Msgs /\ m.mes = "empty" /\ x \in Users
  BY <1>1 DEF LetterTypes, Letter, Msgs
<1>3. /\ \/ inbox' = inbox
         \/ inbox' = [inbox EXCEPT ![x] = Append(@, m)]
      /\ lost' = lost \/ lost' = [lost EXCEPT ![u] = TRUE]
  BY DEF InputEnds, SendEmpty, Deliver
<1> HIDE DEF m, x
<1>4. /\ UNCHANGED <<receiver, friend, runs, shown, typed>>
      /\ \/ sender' = sender
         \/ sender[u] = "on" /\ sender' = [sender EXCEPT ![u] = "endless"]
  <2>1. CASE InputEnds(u)
    BY <2>1 DEF InputEnds
  <2>2. CASE SendEmpty(u)
    BY <2>2 DEF SendEmpty
  <2> QED BY <2>1, <2>2
<1>5. LetterTypes'
  <2>1. inbox' \in [Users -> Seq(Msgs)]
    BY <1>1, <1>2, <1>3, SentTo
  <2>2. lost' \in [Users -> BOOLEAN]
    BY <1>1, <1>3 DEF LetterTypes
  <2> QED BY <1>1, <1>4, <2>1, <2>2 DEF LetterTypes
<1>6. ASSUME NEW v \in Users, NEW w \in Users PROVE Kept(v, w)'
  <2>1. Kept(v, w)
    BY DEF OrderInv
  <2>2. Arrived(v)' = Arrived(v) \/ Arrived(v)' = Append(Arrived(v), m)
    <3>1. shown'[v] = shown[v]
      BY <1>4
    <3>2. inbox'[v] = inbox[v] \/ inbox'[v] = Append(inbox[v], m)
      <4>1. inbox \in [Users -> Seq(Msgs)]
        BY <1>1 DEF LetterTypes
      <4>2. CASE inbox' = inbox
        BY <4>2
      <4>3. CASE inbox' = [inbox EXCEPT ![x] = Append(@, m)]
        BY ONLY <4>1, <4>3
      <4> QED BY <1>3, <4>2, <4>3
    <3> QED BY <1>1, <1>2, <3>1, <3>2, SameOf, SentOf
  <2>3. /\ Mine(Arrived(v), w)' = Mine(Arrived(v), w)
        /\ \A i \in Mine(Arrived(v), w) : Arrived(v)'[i] = Arrived(v)[i]
    <3>1. CASE Arrived(v)' = Arrived(v)
      BY <3>1 DEF Mine
    <3>2. CASE Arrived(v)' = Append(Arrived(v), m)
      BY <1>1, <1>2, <3>2, OtherLetter
    <3> QED BY <2>2, <3>1, <3>2
  <2>4. /\ runs'[w] = runs[w] /\ runs[w] # runs[w] + 1
        /\ typed'[w] = typed[w] /\ typed'[w] \in Nat /\ typed[w] <= typed'[w]
        /\ receiver'[w] = receiver[w] /\ friend'[w] = friend[w]
    <3>1. typed[w] \in Nat /\ runs[w] \in Nat
      BY <1>1 DEF LetterTypes
    <3> QED BY <1>4, <3>1
  <2>5. /\ sender'[w] = "on" => sender[w] = "on"
        /\ sender'[w] # "off" => sender[w] # "off"
    BY <1>1, <1>4
  <2>6. ~ lost'[w] => ~ lost[w]
    BY <1>1, <1>3 DEF LetterTypes
  <2> QED BY <1>1, <2>1, <2>3, <2>4, <2>5, <2>6, SameLetters
<1> QED BY <1>5, <1>6

(* A letter is shown, or an empty one is dropped. *)
LEMMA ReceiveOrdered ==
  ASSUME OrderInv, NEW u \in Users, Receive(u)
  PROVE  LetterTypes' /\ \A v, w \in Users : Kept(v, w)'
<1>1. /\ LetterTypes /\ receiver \in [Users -> {"off", "asking", "on"}]
  BY DEF OrderInv, Inv, Types
<1> DEFINE a == shown[u]
           b == inbox[u]
<1>2. /\ a \in Seq(Msgs) /\ b \in Seq(Msgs) /\ b # <<>>
      /\ inbox' = [inbox EXCEPT ![u] = Tail(b)]
      /\ shown' = IF Head(b).mes = "empty" THEN shown
                  ELSE [shown EXCEPT ![u] = Append(a, Head(b))]
      /\ UNCHANGED <<receiver, sender, friend, typed, runs, lost>>
  BY <1>1 DEF Receive, LetterTypes
<1>3. Arrived(u) = a \o b
  BY DEF Arrived
<1> HIDE DEF a, b
<1>4. Head(b) \in Msgs /\ Tail(b) \in Seq(Msgs)
  BY <1>2
<1>5. LetterTypes'
  <2>1. inbox' \in [Users -> Seq(Msgs)]
    BY <1>1, <1>2, <1>4 DEF LetterTypes
  <2>2. shown' \in [Users -> Seq(Msgs)]
    <3>1. Append(a, Head(b)) \in Seq(Msgs)
      BY <1>2, <1>4
    <3> QED BY <1>1, <1>2, <3>1 DEF LetterTypes
  <2> QED BY <1>1, <1>2, <2>1, <2>2 DEF LetterTypes
<1>6. ASSUME NEW v \in Users, NEW w \in Users PROVE Kept(v, w)'
  <2>1. /\ Kept(v, w) /\ typed[w] \in Nat /\ runs[w] \in Nat
        /\ runs'[w] = runs[w] /\ runs[w] # runs[w] + 1 /\ typed'[w] = typed[w]
        /\ typed[w] <= typed'[w]
    <3>1. typed[w] \in Nat /\ runs[w] \in Nat
      BY <1>1 DEF LetterTypes
    <3> QED BY <1>2, <3>1 DEF OrderInv
  <2>2. /\ receiver'[w] = receiver[w] /\ sender'[w] = sender[w] /\ friend'[w] = friend[w]
        /\ lost'[w] = lost[w]
    BY <1>2
  <2>3. CASE Arrived(v)' = Arrived(v)
    <3>1. Mine(Arrived(v), w)' = Mine(Arrived(v), w)
      BY <2>3 DEF Mine
    <3> QED BY <1>1, <2>1, <2>2, <2>3, <3>1, SameLetters
  <2>4. CASE v # u
    <3>1. shown'[v] = shown[v] /\ inbox'[v] = inbox[v]
      BY <1>1, <1>2, <2>4 DEF LetterTypes
    <3> QED BY <2>3, <3>1, SameOf
  <2>5. CASE v = u /\ Head(b).mes # "empty"
    <3>1. shown'[u] = Append(a, Head(b)) /\ inbox'[u] = Tail(b)
      BY <1>1, <1>2, <2>5 DEF LetterTypes
    <3>2. Append(a, Head(b)) \o Tail(b) = a \o b
      BY <1>2
    <3>3. Arrived(u)' = Arrived(u)
      BY <1>3, <3>1, <3>2 DEF Arrived
    <3> QED BY <2>3, <2>5, <3>3
  <2>6. CASE v = u /\ Head(b).mes = "empty"
    <3> DEFINE s == a \o b
               t == a \o Tail(b)
               h == [i \in DOMAIN t |-> IF i <= Len(a) THEN i ELSE i + 1]
    <3>1. Arrived(v)' = t /\ Arrived(v) = s
      <4>1. shown'[u] = a /\ inbox'[u] = Tail(b)
        BY <1>1, <1>2, <2>6 DEF LetterTypes, a
      <4> QED BY <1>3, <2>6, <4>1 DEF Arrived
    <3>2. /\ DOMAIN s = 1 .. Len(a) + Len(b)
          /\ DOMAIN t = 1 .. Len(a) + Len(b) - 1
          /\ Len(a) \in Nat /\ Len(b) \in Nat \ {0}
          /\ \A i \in 1 .. Len(a) : s[i] = a[i] /\ t[i] = a[i]
          /\ s[Len(a) + 1] = Head(b)
          /\ \A i \in Len(a) + 1 .. Len(a) + Len(b) - 1 : t[i] = s[i + 1]
      <4>1. /\ Len(a) \in Nat /\ Len(b) \in Nat \ {0} /\ Len(Tail(b)) = Len(b) - 1
            /\ Head(b) = b[1] /\ \A i \in 1 .. Len(b) - 1 : Tail(b)[i] = b[i + 1]
        BY <1>2
      <4>2. /\ DOMAIN s = 1 .. Len(a) + Len(b)
            /\ \A i \in 1 .. Len(a) : s[i] = a[i]
            /\ \A i \in 1 .. Len(b) : s[Len(a) + i] = b[i]
        BY <1>2, Joined
      <4>3. /\ DOMAIN t = 1 .. Len(a) + Len(Tail(b))
            /\ \A i \in 1 .. Len(a) : t[i] = a[i]
            /\ \A i \in 1 .. Len(Tail(b)) : t[Len(a) + i] = Tail(b)[i]
        BY <1>2, <1>4, Joined
      <4> HIDE DEF s, t
      <4>4. DOMAIN t = 1 .. Len(a) + Len(b) - 1
        BY <4>1, <4>3
      <4>5. s[Len(a) + 1] = Head(b)
        BY <4>1, <4>2
      <4>6. ASSUME NEW i \in Len(a) + 1 .. Len(a) + Len(b) - 1 PROVE t[i] = s[i + 1]
        <5> DEFINE j == i - Len(a)
        <5>1. /\ j \in 1 .. Len(b) - 1 /\ j + 1 \in 1 .. Len(b) /\ i = Len(a) + j
              /\ i + 1 = Len(a) + (j + 1)
          BY <4>1
        <5> HIDE DEF j
        <5>2. t[i] = Tail(b)[j] /\ s[i + 1] = b[j + 1]
          BY <4>1, <4>2, <4>3, <5>1
        <5> QED BY <4>1, <5>1, <5>2
      <4> QED BY <4>1, <4>2, <4>3, <4>4, <4>5, <4>6
    <3> HIDE DEF s, t
    <3>3. /\ h \in [DOMAIN t -> DOMAIN s]
          /\ \A i \in DOMAIN t : t[i] = s[h[i]]
          /\ \A i, k \in DOMAIN t : i < k => h[i] < h[k]
      <4>1. \A i \in DOMAIN t : h[i] \in DOMAIN s
        BY <3>2
      <4>2. \A i \in DOMAIN t : t[i] = s[h[i]]
        BY <3>2
      <4>3. \A i, k \in DOMAIN t : i < k => h[i] < h[k]
        BY <3>2
      <4> QED BY <4>1, <4>2, <4>3
    <3>4. ASSUME NEW k \in Mine(s, w) PROVE \E i \in DOMAIN t : h[i] = k
      <4>1. k \in DOMAIN s /\ k # Len(a) + 1
        BY <2>6, <3>2 DEF Mine
      <4>2. CASE k <= Len(a)
        <5>1. k \in DOMAIN t /\ h[k] = k
          BY <3>2, <4>1, <4>2
        <5> QED BY <5>1
      <4>3. CASE ~ (k <= Len(a))
        <5>1. k - 1 \in DOMAIN t /\ h[k - 1] = k
          BY <3>2, <4>1, <4>3
        <5> QED BY <5>1
      <4> QED BY <4>2, <4>3
    <3> HIDE DEF h
    <3>5. UNCHANGED <<typed, runs>>
      BY <1>2
    <3> QED BY <1>1, <2>1, <2>2, <3>1, <3>3, <3>4, <3>5, FewerLetters
  <2> QED BY <2>4, <2>5, <2>6
<1> QED BY <1>5, <1>6

(* What is left of u when a process of it ends: when none is, what was in  *)
(* its socket is gone.                                                     *)
LEMMA RemainOrdered ==
  ASSUME OrderInv, NEW u \in Users, NEW r, NEW s, NEW why,
         Remain(u, r, s, why), s \in {"off", sender[u]}, r # "asking",
         UNCHANGED <<typed, runs, shown>>
  PROVE  LetterTypes' /\ \A v, w \in Users : Kept(v, w)'
<1>1. /\ LetterTypes /\ receiver \in [Users -> {"off", "asking", "on"}]
      /\ sender \in [Users -> {"off", "on", "leaving", "endless"}]
  BY DEF OrderInv, Inv, Types
<1>2. /\ receiver' = [receiver EXCEPT ![u] = r] /\ sender' = [sender EXCEPT ![u] = s]
      /\ \/ UNCHANGED <<friend, inbox, lost>>
         \/ /\ s = "off"
            /\ friend' = [friend EXCEPT ![u] = u] /\ inbox' = [inbox EXCEPT ![u] = <<>>]
            /\ lost' = [w \in Users |-> w # u /\ (lost[w] \/ friend[w] = u)]
  BY DEF Remain
<1>3. LetterTypes'
  <2>0. friend \in [Users -> Users] /\ inbox \in [Users -> Seq(Msgs)]
    BY <1>1 DEF LetterTypes
  <2>1. friend' \in [Users -> Users]
    <3>1. friend' = friend \/ friend' = [friend EXCEPT ![u] = u]
      BY <1>2
    <3> QED BY <2>0, <3>1
  <2>2. inbox' \in [Users -> Seq(Msgs)]
    <3>1. <<>> \in Seq(Msgs)
      OBVIOUS
    <3>2. inbox' = inbox \/ inbox' = [inbox EXCEPT ![u] = <<>>]
      BY <1>2
    <3> QED BY <2>0, <3>1, <3>2
  <2>3. lost' \in [Users -> BOOLEAN]
    BY <1>1, <1>2 DEF LetterTypes
  <2> QED BY <1>1, <2>1, <2>2, <2>3 DEF LetterTypes
<1>4. ASSUME NEW v \in Users, NEW w \in Users PROVE Kept(v, w)'
  <2>1. /\ Kept(v, w) /\ typed[w] \in Nat /\ runs[w] \in Nat
        /\ runs'[w] = runs[w] /\ runs[w] # runs[w] + 1 /\ typed'[w] = typed[w]
        /\ typed[w] <= typed'[w] /\ shown'[v] = shown[v]
    <3>1. typed[w] \in Nat /\ runs[w] \in Nat
      BY <1>1 DEF LetterTypes
    <3> QED BY <3>1 DEF OrderInv
  <2>2. /\ sender'[w] = "off" \/ sender'[w] = sender[w]
        /\ receiver'[w] = "asking" => receiver[w] = "asking"
    BY <1>1, <1>2
  <2>3. CASE inbox'[v] = inbox[v]
    <3>1. Arrived(v)' = Arrived(v)
      BY <2>1, <2>3, SameOf
    <3>2. Mine(Arrived(v), w)' = Mine(Arrived(v), w)
      BY <3>1 DEF Mine
    <3>3. sender'[w] # "off" =>
            friend'[w] = friend[w] /\ (~ lost'[w] => ~ lost[w])
      <4>1. CASE UNCHANGED <<friend, inbox, lost>>
        BY <4>1
      <4>2. CASE /\ s = "off" /\ friend' = [friend EXCEPT ![u] = u]
                 /\ lost' = [y \in Users |-> y # u /\ (lost[y] \/ friend[y] = u)]
        BY <1>1, <1>2, <4>2 DEF LetterTypes
      <4> QED BY <1>2, <4>1, <4>2
    <3> QED BY <1>1, <2>1, <2>2, <3>1, <3>2, <3>3, SameLetters
  <2>4. CASE v = u /\ inbox'[v] = <<>> /\ s = "off"
             /\ friend' = [friend EXCEPT ![u] = u]
             /\ lost' = [y \in Users |-> y # u /\ (lost[y] \/ friend[y] = u)]
    <3> DEFINE h == [i \in DOMAIN shown[v] |-> i]
    <3>1. /\ Arrived(v)' = shown[v] /\ shown[v] \in Seq(Msgs)
          /\ DOMAIN Arrived(v) = 1 .. Len(shown[v]) + Len(inbox[v])
          /\ Len(inbox[v]) \in Nat /\ Len(shown[v]) \in Nat
          /\ DOMAIN shown[v] = 1 .. Len(shown[v])
          /\ \A i \in 1 .. Len(shown[v]) : Arrived(v)[i] = shown[v][i]
      <4>1. shown[v] \in Seq(Msgs) /\ inbox[v] \in Seq(Msgs)
        BY <1>1, ArrivedType
      <4>2. Arrived(v)' = shown[v] \o <<>>
        BY <2>1, <2>4 DEF Arrived
      <4>3. shown[v] \o <<>> = shown[v]
        BY <4>1
      <4>4. /\ DOMAIN Arrived(v) = 1 .. Len(shown[v]) + Len(inbox[v])
            /\ \A i \in 1 .. Len(shown[v]) : Arrived(v)[i] = shown[v][i]
        BY <1>1, ArrivedType
      <4>5. /\ Len(inbox[v]) \in Nat /\ Len(shown[v]) \in Nat
            /\ DOMAIN shown[v] = 1 .. Len(shown[v])
        BY <4>1
      <4>6. Arrived(v)' = shown[v]
        BY <4>2, <4>3
      <4> HIDE DEF h
      <4> QED BY <4>1, <4>4, <4>5, <4>6
    <3>2. /\ h \in [DOMAIN Arrived(v)' -> DOMAIN Arrived(v)]
          /\ \A i \in DOMAIN Arrived(v)' : Arrived(v)'[i] = Arrived(v)[h[i]]
          /\ \A i, k \in DOMAIN Arrived(v)' : i < k => h[i] < h[k]
      <4> DEFINE l == Len(shown[v])
      <4>1. h = [i \in 1 .. l |-> i] /\ DOMAIN Arrived(v)' = 1 .. l
        BY <3>1
      <4>2. ASSUME NEW i \in 1 .. l
            PROVE  i \in DOMAIN Arrived(v) /\ Arrived(v)'[i] = Arrived(v)[i]
        <5> DEFINE m == Len(inbox[v])
        <5>1. l \in Nat /\ m \in Nat /\ DOMAIN Arrived(v) = 1 .. l + m
          BY <3>1
        <5>2. i \in DOMAIN Arrived(v)
          <6> HIDE DEF l, m
          <6> QED BY <5>1
        <5>3. Arrived(v)'[i] = shown[v][i] /\ Arrived(v)[i] = shown[v][i]
          BY <3>1
        <5> QED BY <5>2, <5>3
      <4>3. l \in Nat
        BY <3>1
      <4> HIDE DEF h, l
      <4>4. \A i \in 1 .. l : h[i] = i
        BY <4>1
      <4> QED BY <4>1, <4>2, <4>3, <4>4
    <3>3. sender'[w] = "off" \/ friend'[w] # v \/ lost'[w]
      BY <1>1, <1>2, <2>4 DEF LetterTypes
    <3> HIDE DEF h
    <3> QED BY <1>1, <2>1, <2>2, <3>2, <3>3, FewerLetters
  <2> QED BY <1>1, <1>2, <2>3, <2>4 DEF LetterTypes
<1> QED BY <1>3, <1>4

LEMMA EndsOrdered ==
  ASSUME OrderInv, NEW u \in Users,
         SendFails(u) \/ Leave(u) \/ Interrupt(u) \/ KillOne(u)
  PROVE  LetterTypes' /\ \A v, w \in Users : Kept(v, w)'
<1>1. CASE SendFails(u)
  <2>1. receiver[u] # "asking"
    BY <1>1 DEF SendFails, OrderInv, Inv, Together
  <2> QED BY <1>1, <2>1, RemainOrdered DEF SendFails
<1>2. CASE Leave(u)
  BY <1>2, RemainOrdered DEF Leave
<1>3. CASE Interrupt(u)
  BY <1>3, RemainOrdered DEF Interrupt
<1>4. CASE KillOne(u)
  BY <1>4, RemainOrdered DEF KillOne
<1> QED BY <1>1, <1>2, <1>3, <1>4

LEMMA NextOrdered == OrderInv /\ [ChatNext]_chatVars => OrderInv'
<1> SUFFICES ASSUME OrderInv, [ChatNext]_chatVars PROVE OrderInv'
  OBVIOUS
<1>1. Inv'
  BY NextInv DEF OrderInv
<1>2. CASE UNCHANGED chatVars
  <2>1. LetterTypes'
    BY <1>2 DEF chatVars, OrderInv, LetterTypes
  <2>2. ASSUME NEW u \in Users, NEW w \in Users PROVE Kept(u, w)'
    <3>1. Kept(u, w) /\ Arrived(u)' = Arrived(u)
      BY <1>2, SameOf DEF chatVars, OrderInv
    <3>2. Mine(Arrived(u), w)' = Mine(Arrived(u), w)
      BY <3>1 DEF Mine
    <3>3. UNCHANGED <<runs, typed, sender, receiver, friend, lost>>
      BY <1>2 DEF chatVars
    <3>4. runs[w] \in Nat /\ typed[w] \in Nat
      BY DEF OrderInv, LetterTypes
    <3>5. runs[w] # runs[w] + 1 /\ typed[w] <= typed[w]
      BY <3>4
    <3> QED BY <3>1, <3>2, <3>3, <3>4, <3>5, SameLetters DEF OrderInv
  <2> QED BY <1>1, <2>1, <2>2 DEF OrderInv
<1>3. ASSUME NEW u \in Users,
             \/ Start(u) \/ Fork(u) \/ ForkFails(u)
             \/ Type(u) \/ InputEnds(u) \/ SendEmpty(u) \/ SendFails(u) \/ Leave(u)
             \/ Receive(u) \/ Interrupt(u) \/ KillOne(u)
      PROVE  LetterTypes' /\ \A v, w \in Users : Kept(v, w)'
  BY <1>3, StartsOrdered, TypeOrdered, EndlessOrdered, ReceiveOrdered, EndsOrdered
<1>4. CASE ChatNext
  BY <1>1, <1>3, <1>4 DEF ChatNext, OrderInv
<1> QED BY <1>2, <1>4

LEMMA InitOrdered == ChatInit => OrderInv
<1> SUFFICES ASSUME ChatInit PROVE OrderInv
  OBVIOUS
<1>1. Inv
  BY InitInv
<1>2. LetterTypes
  BY DEF ChatInit, LetterTypes
<1>3. ASSUME NEW u \in Users, NEW w \in Users PROVE Kept(u, w)
  <2>1. DOMAIN Arrived(u) = {}
    BY DEF ChatInit, Arrived
  <2>2. Mine(Arrived(u), w) = {}
    BY <2>1 DEF Mine
  <2> QED BY <2>2 DEF Kept, Ordered, Before, NoGap, Numbers
<1> QED BY <1>1, <1>2, <1>3 DEF OrderInv

(* The letters of a user are shown in the order they were typed, nothing   *)
(* follows a farewell in the same run, and as long as none of them was     *)
(* lost there is no gap, from the first one of its run to the last typed.  *)
THEOREM ChatShownInOrder == ChatSpec => []ShownInOrder
<1>1. OrderInv => ShownInOrder
  <2>1. \A u, w : From(u, w) = Mine(Arrived(u), w)
    BY DEF From, Mine
  <2>2. \A u, w : Current(u, w) = Numbers(Arrived(u), w, runs[w])
    BY <2>1 DEF Current, Numbers
  <2> QED BY <2>1, <2>2 DEF OrderInv, Kept, Ordered, NoGap, ShownInOrder
<1> QED BY <1>1, InitOrdered, NextOrdered, PTL DEF ChatSpec

-----------------------------------------------------------------------------
(* The sum of what all users typed, or of their runs. *)

(* A set of some m + 1 elements has m without the one that is chosen.      *)
LEMMA OneChosen ==
  ASSUME NEW D, IsFiniteSet(D), NEW s \in SUBSET D, s # {}, NEW m \in Nat,
         Cardinality(s) <= m + 1, NEW x, x = CHOOSE y \in s : TRUE
  PROVE  x \in s /\ s \ {x} \in SUBSET D /\ Cardinality(s \ {x}) <= m
<1>1. x \in s
  OBVIOUS
<1>2. IsFiniteSet(s)
  BY FS_Subset
<1>3. Cardinality(s) \in Nat /\ Cardinality(s \ {x}) = Cardinality(s) - 1
  BY <1>1, <1>2, FS_CardinalityType, FS_RemoveElement
<1> QED BY <1>1, <1>3

(* The sum over s, if h has that of every smaller set.                     *)
Added(f, h, s) ==
  IF s = {} THEN 0 ELSE LET x == CHOOSE x \in s : TRUE IN f[x] + h[s \ {x}]

IsSum(h, f, D) == h = [s \in SUBSET D |-> Added(f, h, s)]

LEMMA SumExists ==
  ASSUME NEW D, IsFiniteSet(D), NEW f PROVE \E h : IsSum(h, f, D)
<1> DEFINE n == Cardinality(D)
           Small(m) == {s \in SUBSET D : Cardinality(s) <= m}
           Sums(h, m) == h = [s \in Small(m) |-> Added(f, h, s)]
           T == {m \in 0 .. n : \E h : Sums(h, m)}
<1>1. n \in Nat
  BY FS_CardinalityType
<1>2. \A s \in SUBSET D : /\ IsFiniteSet(s) /\ Cardinality(s) \in Nat
                          /\ Cardinality(s) <= n
  BY FS_Subset, FS_CardinalityType
<1>3. 0 \in T
  <2> DEFINE h == [s \in Small(0) |-> 0]
  <2>1. \A s \in Small(0) : s = {}
    BY <1>2, FS_EmptySet
  <2>2. \A s \in Small(0) : Added(f, h, s) = 0
    BY <2>1 DEF Added
  <2>3. Sums(h, 0)
    BY <2>2
  <2> HIDE DEF h, Sums
  <2> QED BY <1>1, <2>3
<1>4. ASSUME NEW m \in 0 .. n - 1, m \in T PROVE m + 1 \in T
  <2>1. PICK h : Sums(h, m)
    BY <1>4
  <2> DEFINE g == [s \in Small(m + 1) |-> Added(f, h, s)]
  <2>2. \A s \in Small(m) : s \in Small(m + 1) /\ g[s] = h[s]
    <3>1. ASSUME NEW s \in Small(m) PROVE s \in Small(m + 1)
      BY <1>1, <1>2
    <3>2. \A s \in Small(m) : h[s] = Added(f, h, s)
      BY <2>1
    <3> HIDE DEF Small
    <3> QED BY <3>1, <3>2
  <2>3. ASSUME NEW s \in Small(m + 1) PROVE Added(f, h, s) = Added(f, g, s)
    <3>1. CASE s = {}
      BY <3>1 DEF Added
    <3>2. CASE s # {}
      <4> DEFINE x == CHOOSE x \in s : TRUE
      <4>1. m \in Nat
        BY <1>1
      <4>2. s \ {x} \in Small(m)
        BY <3>2, <4>1, OneChosen
      <4> HIDE DEF Small, g
      <4>3. g[s \ {x}] = h[s \ {x}]
        BY <2>2, <4>2
      <4> QED BY <3>2, <4>3 DEF Added
    <3> QED BY <3>1, <3>2
  <2>4. Sums(g, m + 1)
    <3> HIDE DEF Small
    <3>1. g = [s \in Small(m + 1) |-> Added(f, g, s)]
      BY <2>3
    <3> QED BY <3>1
  <2>5. m + 1 \in 0 .. n
    BY <1>1
  <2> HIDE DEF Sums, g
  <2> QED BY <2>4, <2>5
<1>5. n \in T
  <2> HIDE DEF T, n
  <2> QED BY <1>1, <1>3, <1>4, InductionTo
<1>6. PICK h : Sums(h, n)
  BY <1>5
<1>7. Small(n) = SUBSET D
  BY <1>2
<1>8. IsSum(h, f, D)
  BY <1>6, <1>7 DEF IsSum
<1> QED BY <1>8

(* A sum is a number, and none of what is added is greater.                *)
LEMMA SumBounds ==
  ASSUME NEW D, IsFiniteSet(D), NEW f \in [D -> Nat], NEW h, IsSum(h, f, D)
  PROVE  h[D] \in Nat /\ \A x \in D : f[x] <= h[D]
<1> DEFINE n == Cardinality(D)
           Good(s) == h[s] \in Nat /\ \A x \in s : f[x] <= h[s]
           T == {m \in 0 .. n : \A s \in SUBSET D : Cardinality(s) <= m => Good(s)}
<1>1. n \in Nat
  BY FS_CardinalityType
<1>2. \A s \in SUBSET D : IsFiniteSet(s) /\ Cardinality(s) \in Nat
  BY FS_Subset, FS_CardinalityType
<1>3. \A s \in SUBSET D : h[s] = Added(f, h, s)
  BY DEF IsSum
<1>4. Good({})
  BY <1>3 DEF Added
<1>5. 0 \in T
  <2>1. \A s \in SUBSET D : Cardinality(s) <= 0 => s = {}
    BY <1>2, FS_EmptySet
  <2> HIDE DEF Good
  <2> QED BY <1>1, <1>4, <2>1
<1>6. ASSUME NEW m \in 0 .. n - 1, m \in T PROVE m + 1 \in T
  <2> SUFFICES ASSUME NEW s \in SUBSET D, Cardinality(s) <= m + 1 PROVE Good(s)
    BY <1>1
  <2>1. CASE s # {}
    <3> DEFINE x == CHOOSE x \in s : TRUE
    <3>1. m \in Nat
      BY <1>1
    <3>2. x \in s /\ s \ {x} \in SUBSET D /\ Cardinality(s \ {x}) <= m
      BY <2>1, <3>1, OneChosen
    <3>3. Good(s \ {x})
      BY <1>6, <3>2
    <3>4. h[s] = f[x] + h[s \ {x}]
      BY <1>3, <2>1 DEF Added
    <3> HIDE DEF x
    <3>5. f[x] \in Nat /\ \A y \in s : f[y] \in Nat
      BY <3>2
    <3>6. ASSUME NEW y \in s PROVE f[y] <= h[s]
      <4>1. CASE y = x
        BY <3>3, <3>4, <3>5, <4>1
      <4>2. CASE y # x
        <5>1. f[y] <= h[s \ {x}]
          BY <3>3, <4>2
        <5> QED BY <3>3, <3>4, <3>5, <5>1
      <4> QED BY <4>1, <4>2
    <3>7. h[s] \in Nat
      BY <3>3, <3>4, <3>5
    <3> QED BY <3>6, <3>7
  <2> QED BY <1>4, <2>1
<1>7. n \in T
  <2> HIDE DEF T, n
  <2> QED BY <1>1, <1>5, <1>6, InductionTo
<1> QED BY <1>1, <1>7

(* Nobody has typed more letters than all together, or made more runs.     *)
LEMMA TotalBounds ==
  ASSUME NEW f \in [Users -> Nat]
  PROVE  Total(f) \in Nat /\ \A u \in Users : f[u] <= Total(f)
<1>1. IsFiniteSet(Users) /\ DOMAIN f = Users
  BY ChatAssumption
<1> DEFINE h == CHOOSE h : IsSum(h, f, Users)
<1>2. IsSum(h, f, Users)
  BY <1>1, SumExists
<1>3. Total(f) = h[Users]
  <2>1. Total(f) = LET iter[s \in SUBSET DOMAIN f] ==
                         IF s = {} THEN 0
                         ELSE LET x == CHOOSE x \in s : TRUE IN f[x] + iter[s \ {x}]
                   IN  iter[DOMAIN f]
    BY DEF Total, FoldFunction, FoldFunctionOnSet, MapThenFoldSet
  <2> QED BY <1>1, <2>1 DEF IsSum, Added
<1> HIDE DEF h
<1> QED BY <1>1, <1>2, <1>3, SumBounds

-----------------------------------------------------------------------------
(* The types of all variables.  A letter has the number of a run, as its   *)
(* user has started the program.                                           *)
TypedInv ==
  /\ ChatTypeOK
  /\ DOMAIN inbox = Users /\ DOMAIN shown = Users
  /\ \A u \in Users : HasPort(u) => runs[u] >= 1

(* At most one more failure. *)
Faulty ==
  \/ faults' = faults
  \/ faults' = faults + 1 /\ faults < MaxFaults

LEMMA FaultsType == ASSUME faults \in 0 .. MaxFaults, Faulty PROVE faults' \in 0 .. MaxFaults
  BY ChatAssumption DEF Faulty

(* One more for u, while there are less than the bound together.           *)
LEMMA OneMore ==
  ASSUME NEW m \in Nat, NEW f \in [Users -> 0 .. m], NEW u \in Users, Total(f) < m
  PROVE  [f EXCEPT ![u] = @ + 1] \in [Users -> 0 .. m] /\ f[u] + 1 \in 1 .. m
<1>1. f \in [Users -> Nat]
  OBVIOUS
<1>2. Total(f) \in Nat /\ f[u] <= Total(f)
  BY <1>1, TotalBounds
<1>3. f[u] \in Nat /\ f[u] + 1 \in 1 .. m
  BY <1>2
<1> QED BY <1>3

LEMMA StartTyped ==
  ASSUME TypedInv, NEW u \in Users, Start(u) \/ Fork(u) \/ ForkFails(u)
  PROVE  TypedInv'
<1>1. /\ receiver \in [Users -> {"off", "asking", "on"}]
      /\ sender \in [Users -> {"off", "on", "leaving", "endless"}]
      /\ friend \in [Users -> Users] /\ runs \in [Users -> 0 .. Runs]
      /\ alone \in [Users -> {"none", "killed", "failed"}] /\ faults \in 0 .. MaxFaults
      /\ \A w \in Users : HasPort(w) => runs[w] >= 1
  BY DEF TypedInv, ChatTypeOK
<1>2. CASE Start(u)
  <2>1. runs' \in [Users -> 0 .. Runs] /\ runs[u] + 1 \in 1 .. Runs
    BY <1>1, <1>2, ChatAssumption, OneMore DEF Start
  <2>2. /\ receiver' \in [Users -> {"off", "asking", "on"}]
        /\ runs'[u] = runs[u] + 1 /\ \A w \in Users \ {u} : runs'[w] = runs[w]
        /\ \A w \in Users \ {u} : HasPort(w)' => HasPort(w)
    BY <1>1, <1>2 DEF Start, HasPort
  <2>3. \A w \in Users : HasPort(w)' => runs'[w] >= 1
    BY <1>1, <2>1, <2>2
  <2> QED BY <1>2, <2>1, <2>2, <2>3 DEF Start, TypedInv, ChatTypeOK
<1>3. CASE Fork(u) \/ ForkFails(u)
  <2>1. /\ receiver[u] = "asking" /\ receiver' = [receiver EXCEPT ![u] = "on"] /\ Faulty
        /\ UNCHANGED <<inbox, typed, runs, shown, lost>>
        /\ \/ UNCHANGED <<sender, friend>> /\ alone' = [alone EXCEPT ![u] = "failed"]
           \/ /\ sender' = [sender EXCEPT ![u] = "on"] /\ UNCHANGED alone
              /\ \E w \in Users : friend' = [friend EXCEPT ![u] = w]
    <3>1. CASE Fork(u)
      <4>1. \E w \in Users : friend' = [friend EXCEPT ![u] = w]
        BY <3>1, Zenon DEF Fork
      <4>2. /\ receiver[u] = "asking" /\ receiver' = [receiver EXCEPT ![u] = "on"]
            /\ sender' = [sender EXCEPT ![u] = "on"]
            /\ UNCHANGED <<inbox, typed, runs, shown, lost, alone, faults>>
        BY <3>1, Zenon DEF Fork
      <4> QED BY <4>1, <4>2 DEF Faulty
    <3>2. CASE ForkFails(u)
      BY <3>2 DEF ForkFails, Fault, Faulty
    <3> QED BY <1>3, <3>1, <3>2
  <2>2. /\ receiver' \in [Users -> {"off", "asking", "on"}]
        /\ sender' \in [Users -> {"off", "on", "leaving", "endless"}]
        /\ friend' \in [Users -> Users] /\ faults' \in 0 .. MaxFaults
        /\ alone' \in [Users -> {"none", "killed", "failed"}]
    BY <1>1, <2>1, FaultsType
  <2>3. \A w \in Users : HasPort(w)' => HasPort(w)
    BY <1>1, <2>1 DEF HasPort
  <2> QED BY <1>1, <2>1, <2>2, <2>3 DEF TypedInv, ChatTypeOK
<1> QED BY <1>2, <1>3

(* A letter is sent.                                                       *)
LEMMA DeliverTyped ==
  ASSUME TypedInv, NEW u \in Users, HasPort(u), NEW n \in 0 .. MaxLetters,
         NEW mes \in {"text", "farewell", "empty"}, Deliver(u, Letter(u, n, mes))
  PROVE  /\ \A w \in Users : inbox'[w] \in Seq(Letters) /\ Len(inbox'[w]) <= BufferSize
         /\ DOMAIN inbox' = Users
         /\ lost' \in [Users -> BOOLEAN]
<1> DEFINE m == Letter(u, n, mes)
           x == friend[u]
<1>1. /\ \A w \in Users : inbox[w] \in Seq(Letters) /\ Len(inbox[w]) <= BufferSize
      /\ lost \in [Users -> BOOLEAN] /\ x \in Users /\ runs[u] \in 0 .. Runs /\ runs[u] >= 1
  BY DEF TypedInv, ChatTypeOK
<1>2. m \in Letters
  BY <1>1 DEF Letter, Letters
<1>3. \/ inbox' = inbox /\ lost' = [lost EXCEPT ![u] = TRUE]
      \/ inbox' = [inbox EXCEPT ![x] = Append(@, m)] /\ Len(inbox[x]) < BufferSize /\ lost' = lost
  BY DEF Deliver
<1> HIDE DEF m, x
<1>4. ASSUME NEW w \in Users
      PROVE  inbox'[w] \in Seq(Letters) /\ Len(inbox'[w]) <= BufferSize
  <2>1. \/ inbox'[w] = inbox[w]
        \/ w = x /\ Len(inbox[x]) < BufferSize /\ inbox'[w] = Append(inbox[w], m)
        \/ w = x /\ inbox'[w] = inbox[w]
    <3>1. CASE inbox' = inbox
      BY <3>1
    <3>2. CASE inbox' = [inbox EXCEPT ![x] = Append(@, m)] /\ Len(inbox[x]) < BufferSize
      <4>1. w \in DOMAIN inbox
        BY DEF TypedInv
      <4> QED BY <3>2, <4>1
    <3> QED BY <1>3, <3>1, <3>2
  <2>2. inbox[w] \in Seq(Letters) /\ Len(inbox[w]) <= BufferSize
    BY <1>1
  <2>3. CASE w = x /\ Len(inbox[x]) < BufferSize /\ inbox'[w] = Append(inbox[w], m)
    <3>1. Len(inbox[w]) \in Nat /\ Len(inbox'[w]) = Len(inbox[w]) + 1
          /\ inbox'[w] \in Seq(Letters)
      BY <1>2, <2>2, <2>3
    <3> QED BY <2>3, <3>1, ChatAssumption
  <2> QED BY <2>1, <2>2, <2>3
<1>5. lost' \in [Users -> BOOLEAN]
  BY <1>1, <1>3
<1>6. DOMAIN inbox' = Users
  BY <1>3 DEF TypedInv
<1> QED BY <1>4, <1>5, <1>6

LEMMA TypeTyped == ASSUME TypedInv, NEW u \in Users, Type(u) PROVE TypedInv'
<1>1. /\ sender \in [Users -> {"off", "on", "leaving", "endless"}]
      /\ sender[u] = "on" /\ typed \in [Users -> 0 .. MaxLetters]
      /\ UNCHANGED <<receiver, friend, runs, shown, alone, faults>>
      /\ typed' = [typed EXCEPT ![u] = @ + 1] /\ Total(typed) < MaxLetters
  BY DEF Type, TypedInv, ChatTypeOK
<1>2. PICK mes \in {"text", "farewell"} :
        /\ Deliver(u, Letter(u, typed[u] + 1, mes))
        /\ sender' = IF mes = "text" THEN sender ELSE [sender EXCEPT ![u] = "leaving"]
  BY DEF Type
<1>3. typed' \in [Users -> 0 .. MaxLetters] /\ typed[u] + 1 \in 0 .. MaxLetters
  <2>1. MaxLetters \in Nat
    BY ChatAssumption
  <2>2. typed' \in [Users -> 0 .. MaxLetters] /\ typed[u] + 1 \in 1 .. MaxLetters
    BY <1>1, <2>1, OneMore
  <2> QED BY <2>2
<1>4. sender' \in [Users -> {"off", "on", "leaving", "endless"}]
  BY <1>1, <1>2
<1>5. HasPort(u)
  BY <1>1 DEF HasPort
<1>6. /\ \A w \in Users : inbox'[w] \in Seq(Letters) /\ Len(inbox'[w]) <= BufferSize
      /\ DOMAIN inbox' = Users /\ lost' \in [Users -> BOOLEAN]
  BY <1>2, <1>3, <1>5, DeliverTyped
<1>7. \A w \in Users : HasPort(w)' => HasPort(w)
  BY <1>1, <1>2, <1>5 DEF HasPort
<1> QED BY <1>1, <1>3, <1>4, <1>6, <1>7 DEF TypedInv, ChatTypeOK

LEMMA EndlessTyped ==
  ASSUME TypedInv, NEW u \in Users, InputEnds(u) \/ SendEmpty(u) PROVE TypedInv'
<1>1. /\ sender \in [Users -> {"off", "on", "leaving", "endless"}]
      /\ typed \in [Users -> 0 .. MaxLetters] /\ faults \in 0 .. MaxFaults
  BY DEF TypedInv, ChatTypeOK
<1>2. CASE InputEnds(u)
  <2>1. /\ sender[u] = "on" /\ sender' = [sender EXCEPT ![u] = "endless"] /\ Faulty
        /\ UNCHANGED <<receiver, friend, inbox, typed, runs, shown, lost, alone>>
    BY <1>2 DEF InputEnds, Fault, Faulty
  <2>2. /\ sender' \in [Users -> {"off", "on", "leaving", "endless"}]
        /\ faults' \in 0 .. MaxFaults
        /\ \A w \in Users : HasPort(w)' => HasPort(w)
    BY <1>1, <2>1, FaultsType DEF HasPort
  <2> QED BY <2>1, <2>2 DEF TypedInv, ChatTypeOK
<1>3. CASE SendEmpty(u)
  <2>1. /\ sender[u] = "endless" /\ Deliver(u, Letter(u, typed[u], "empty"))
        /\ UNCHANGED <<receiver, sender, friend, typed, runs, shown, alone, faults>>
    BY <1>3 DEF SendEmpty
  <2>2. HasPort(u) /\ typed[u] \in 0 .. MaxLetters
    BY <1>1, <2>1 DEF HasPort
  <2>3. /\ \A w \in Users : inbox'[w] \in Seq(Letters) /\ Len(inbox'[w]) <= BufferSize
        /\ DOMAIN inbox' = Users /\ lost' \in [Users -> BOOLEAN]
    BY <2>1, <2>2, DeliverTyped
  <2>4. \A w \in Users : HasPort(w)' => HasPort(w)
    BY <2>1 DEF HasPort
  <2> QED BY <2>1, <2>3, <2>4 DEF TypedInv, ChatTypeOK
<1> QED BY <1>2, <1>3

LEMMA ReceiveTyped == ASSUME TypedInv, NEW u \in Users, Receive(u) PROVE TypedInv'
<1>1. /\ \A w \in Users : /\ inbox[w] \in Seq(Letters) /\ Len(inbox[w]) <= BufferSize
                          /\ shown[w] \in Seq(Letters)
      /\ DOMAIN inbox = Users /\ DOMAIN shown = Users
  BY DEF TypedInv, ChatTypeOK
<1> DEFINE b == inbox[u]
           a == shown[u]
<1>2. /\ b # <<>> /\ inbox' = [inbox EXCEPT ![u] = Tail(b)]
      /\ shown' = shown \/ shown' = [shown EXCEPT ![u] = Append(a, Head(b))]
      /\ UNCHANGED <<receiver, sender, friend, typed, runs, lost, alone, faults>>
  BY DEF Receive
<1>3. b \in Seq(Letters) /\ Len(b) <= BufferSize /\ a \in Seq(Letters)
  BY <1>1
<1> HIDE DEF a, b
<1>4. /\ Tail(b) \in Seq(Letters) /\ Len(Tail(b)) <= BufferSize
      /\ Append(a, Head(b)) \in Seq(Letters)
  <2>1. /\ Tail(b) \in Seq(Letters) /\ Len(Tail(b)) = Len(b) - 1 /\ Head(b) \in Letters
        /\ Len(b) \in Nat
    BY <1>2, <1>3
  <2> QED BY <1>3, <2>1, ChatAssumption
<1>5. /\ \A w \in Users : /\ inbox'[w] \in Seq(Letters) /\ Len(inbox'[w]) <= BufferSize
                          /\ shown'[w] \in Seq(Letters)
      /\ DOMAIN inbox' = Users /\ DOMAIN shown' = Users
  BY <1>1, <1>2, <1>4
<1>6. \A w \in Users : HasPort(w)' => HasPort(w)
  BY <1>2 DEF HasPort
<1> QED BY <1>2, <1>5, <1>6 DEF TypedInv, ChatTypeOK

(* Some processes of a user end.                                           *)
LEMMA RemainTyped ==
  ASSUME TypedInv, NEW u \in Users, HasPort(u),
         NEW r \in {"off", "asking", "on"}, NEW s \in {"off", "on", "leaving", "endless"},
         NEW why \in {"none", "killed", "failed"}, Remain(u, r, s, why),
         UNCHANGED <<typed, runs, shown>>, Faulty
  PROVE  TypedInv'
<1>1. /\ receiver \in [Users -> {"off", "asking", "on"}]
      /\ sender \in [Users -> {"off", "on", "leaving", "endless"}]
      /\ friend \in [Users -> Users] /\ lost \in [Users -> BOOLEAN]
      /\ alone \in [Users -> {"none", "killed", "failed"}] /\ faults \in 0 .. MaxFaults
      /\ \A w \in Users : inbox[w] \in Seq(Letters) /\ Len(inbox[w]) <= BufferSize
      /\ DOMAIN inbox = Users
      /\ \A w \in Users : HasPort(w) => runs[w] >= 1
  BY DEF TypedInv, ChatTypeOK
<1>2. /\ receiver' = [receiver EXCEPT ![u] = r] /\ sender' = [sender EXCEPT ![u] = s]
      /\ \E v \in {"none", "killed", "failed"} : alone' = [alone EXCEPT ![u] = v]
      /\ friend' = friend \/ friend' = [friend EXCEPT ![u] = u]
      /\ inbox' = inbox \/ inbox' = [inbox EXCEPT ![u] = <<>>]
      /\ \/ lost' = lost
         \/ lost' = [w \in Users |-> w # u /\ (lost[w] \/ friend[w] = u)]
  BY DEF Remain
<1>3. /\ receiver' \in [Users -> {"off", "asking", "on"}]
      /\ sender' \in [Users -> {"off", "on", "leaving", "endless"}]
      /\ friend' \in [Users -> Users]
      /\ alone' \in [Users -> {"none", "killed", "failed"}]
  <2>1. receiver' \in [Users -> {"off", "asking", "on"}]
    BY <1>1, <1>2
  <2>2. sender' \in [Users -> {"off", "on", "leaving", "endless"}]
    BY <1>1, <1>2
  <2>3. friend' \in [Users -> Users]
    <3>1. friend \in [Users -> Users]
      BY <1>1
    <3>2. friend' = friend \/ friend' = [friend EXCEPT ![u] = u]
      BY <1>2
    <3> QED BY <3>1, <3>2
  <2>4. alone' \in [Users -> {"none", "killed", "failed"}]
    <3>1. PICK v \in {"none", "killed", "failed"} : alone' = [alone EXCEPT ![u] = v]
      BY <1>2
    <3>2. alone \in [Users -> {"none", "killed", "failed"}]
      BY <1>1
    <3> QED BY <3>1, <3>2
  <2> QED BY <2>1, <2>2, <2>3, <2>4
<1>4. lost' \in [Users -> BOOLEAN]
  <2>1. CASE lost' = [w \in Users |-> w # u /\ (lost[w] \/ friend[w] = u)]
    BY <2>1, Zenon
  <2> QED BY <1>1, <1>2, <2>1
<1>5. /\ \A w \in Users : inbox'[w] \in Seq(Letters) /\ Len(inbox'[w]) <= BufferSize
      /\ DOMAIN inbox' = Users
  <2>1. <<>> \in Seq(Letters) /\ Len(<<>>) <= BufferSize
    BY ChatAssumption
  <2> QED BY <1>1, <1>2, <2>1
<1>6. \A w \in Users : HasPort(w)' => HasPort(w)
  BY <1>1, <1>2 DEF HasPort
<1>7. faults' \in 0 .. MaxFaults
  BY <1>1, FaultsType
<1> QED BY <1>1, <1>3, <1>4, <1>5, <1>6, <1>7 DEF TypedInv, ChatTypeOK

LEMMA EndsTyped ==
  ASSUME TypedInv, NEW u \in Users,
         SendFails(u) \/ Leave(u) \/ Interrupt(u) \/ KillOne(u)
  PROVE  TypedInv'
<1>1. /\ receiver[u] \in {"off", "asking", "on"}
      /\ sender[u] \in {"off", "on", "leaving", "endless"}
      /\ alone[u] \in {"none", "killed", "failed"}
  BY DEF TypedInv, ChatTypeOK
<1>2. HasPort(u) /\ Faulty /\ UNCHANGED <<typed, runs, shown>>
  <2>1. CASE SendFails(u)
    BY <2>1 DEF SendFails, HasPort, Fault, Faulty
  <2>2. CASE Leave(u)
    BY <2>2 DEF Leave, HasPort, Faulty
  <2>3. CASE Interrupt(u)
    BY <2>3 DEF Interrupt, Faulty
  <2>4. CASE KillOne(u)
    BY <2>4 DEF KillOne, HasPort, Fault, Faulty
  <2> QED BY <2>1, <2>2, <2>3, <2>4
<1>3. \E r \in {"off", "asking", "on"}, s \in {"off", "on", "leaving", "endless"},
         why \in {"none", "killed", "failed"} : Remain(u, r, s, why)
  <2>1. CASE SendFails(u)
    BY <1>1, <2>1 DEF SendFails
  <2>2. CASE Leave(u)
    BY <1>1, <2>2 DEF Leave
  <2>3. CASE Interrupt(u)
    BY <1>1, <2>3 DEF Interrupt
  <2>4. CASE KillOne(u)
    BY <1>1, <2>4 DEF KillOne
  <2> QED BY <2>1, <2>2, <2>3, <2>4
<1> QED BY <1>2, <1>3, RemainTyped

LEMMA NextTyped == TypedInv /\ [ChatNext]_chatVars => TypedInv'
<1> SUFFICES ASSUME TypedInv, [ChatNext]_chatVars PROVE TypedInv'
  OBVIOUS
<1>1. CASE UNCHANGED chatVars
  BY <1>1 DEF chatVars, TypedInv, ChatTypeOK, HasPort
<1>2. ASSUME NEW u \in Users,
             \/ Start(u) \/ Fork(u) \/ ForkFails(u)
             \/ Type(u) \/ InputEnds(u) \/ SendEmpty(u) \/ SendFails(u) \/ Leave(u)
             \/ Receive(u) \/ Interrupt(u) \/ KillOne(u)
      PROVE  TypedInv'
  BY <1>2, StartTyped, TypeTyped, EndlessTyped, ReceiveTyped, EndsTyped
<1> QED BY <1>1, <1>2 DEF ChatNext

LEMMA InitTyped == ChatInit => TypedInv
<1> SUFFICES ASSUME ChatInit PROVE TypedInv
  OBVIOUS
<1>1. <<>> \in Seq(Letters) /\ Len(<<>>) <= BufferSize
  BY ChatAssumption
<1>2. 0 \in 0 .. MaxLetters /\ 0 \in 0 .. Runs /\ 0 \in 0 .. MaxFaults
  BY ChatAssumption
<1> QED BY <1>1, <1>2 DEF ChatInit, TypedInv, ChatTypeOK, HasPort

(* Every variable of the chat has its type: what all type together, and    *)
(* all runs, keep their bounds, so each user keeps them too, and no socket *)
(* holds more datagrams than its size.                                     *)
THEOREM ChatTypesAreOK == ChatSpec => []ChatTypeOK
<1>1. TypedInv => ChatTypeOK
  BY DEF TypedInv
<1> QED BY <1>1, InitTyped, NextTyped, PTL DEF ChatSpec

-----------------------------------------------------------------------------
(* The word counter. *)

USE WordsAssumption

(* A string that has an end has a first one. *)
LEMMA EndIsFirst ==
  ASSUME NEW s \in Texts, Terminated(s)
  PROVE  /\ End(s) \in 1 .. SIZE /\ s[End(s)] = "0"
         /\ \A k \in 1 .. End(s) - 1 : s[k] \in {"a", "."}
<1> DEFINE I == {i \in 1 .. SIZE : s[i] = "0"}
<1>1. I \in SUBSET Nat /\ I # {}
  BY DEF Terminated
<1>2. PICK i \in I : \A k \in I : i <= k
  BY <1>1, LeastNatural
<1>3. i \in 1 .. SIZE /\ s[i] = "0" /\ \A k \in 1 .. i - 1 : s[k] # "0"
  BY <1>2
<1>4. End(s) \in 1 .. SIZE /\ s[End(s)] = "0" /\ \A k \in 1 .. End(s) - 1 : s[k] # "0"
  BY <1>3, Zenon DEF End
<1>5. \A k \in 1 .. End(s) - 1 : s[k] \in {"a", ".", "0"}
  BY <1>4 DEF Texts
<1> QED BY <1>4, <1>5

(* After stops before the end, or at it. *)
LEMMA AfterStops ==
  ASSUME NEW s \in Texts, Terminated(s), NEW i \in 1 .. End(s), NEW char \in {"a", "."}
  PROVE  /\ After(s, i, char) \in i .. End(s) /\ s[After(s, i, char)] # char
         /\ \A k \in i .. After(s, i, char) - 1 : s[k] = char
<1> DEFINE I == {j \in i .. End(s) : s[j] # char}
<1>1. End(s) \in 1 .. SIZE /\ s[End(s)] = "0"
  BY EndIsFirst
<1>2. I \in SUBSET Nat /\ I # {}
  BY <1>1
<1>3. PICK j \in I : \A k \in I : j <= k
  BY <1>2, LeastNatural
<1>4. j \in i .. End(s) /\ s[j] # char /\ \A k \in i .. j - 1 : s[k] = char
  BY <1>1, <1>3
<1> QED BY <1>4, Zenon DEF After

(* Where words start, from position i on. *)
Starts(s, i) == {m \in i .. End(s) : s[m] = "a" /\ (m > i => s[m - 1] # "a")}

(* One turn of the loop counts the word that starts at i, if there is one. *)
LEMMA OneTurn ==
  ASSUME NEW s \in Texts, Terminated(s), NEW i \in 1 .. End(s),
         NEW j, j = After(s, i, "a"), NEW k, k = After(s, j, ".")
  PROVE  /\ j \in i .. End(s) /\ k \in j .. End(s)
         /\ s[k] # "0" => k > i
         /\ Starts(s, i) = (IF j > i THEN {i} ELSE {})
                             \union (IF s[k] = "0" THEN {} ELSE Starts(s, k))
<1>1. /\ End(s) \in 1 .. SIZE /\ s[End(s)] = "0"
      /\ \A m \in 1 .. End(s) - 1 : s[m] \in {"a", "."}
  BY EndIsFirst
<1>2. j \in i .. End(s) /\ s[j] # "a" /\ \A m \in i .. j - 1 : s[m] = "a"
  BY AfterStops
<1>3. k \in j .. End(s) /\ s[k] # "." /\ \A m \in j .. k - 1 : s[m] = "."
  BY <1>1, <1>2, AfterStops
<1>4. s[k] = "0" => k = End(s)
  BY <1>1, <1>2, <1>3
<1>5. s[k] # "0" => s[k] = "a" /\ k > j /\ s[k - 1] = "."
  <2> SUFFICES ASSUME s[k] # "0" PROVE s[k] = "a" /\ k > j /\ s[k - 1] = "."
    OBVIOUS
  <2>1. k \in 1 .. End(s) - 1
    BY <1>1, <1>2, <1>3
  <2>2. s[k] = "a" /\ k # j
    BY <1>1, <1>2, <1>3, <2>1
  <2>3. k - 1 \in j .. k - 1
    BY <1>2, <1>3, <2>2
  <2> QED BY <1>2, <1>3, <2>2, <2>3
<1>6. ASSUME NEW m \in i .. End(s)
      PROVE  m \in Starts(s, i) <=>
               m \in (IF j > i THEN {i} ELSE {})
                       \union (IF s[k] = "0" THEN {} ELSE Starts(s, k))
  <2>1. CASE m < j
    <3>1. s[m] = "a" /\ m < k /\ j > i /\ (m > i => m - 1 \in i .. j - 1)
      BY <1>2, <1>3, <2>1
    <3>2. m > i => s[m - 1] = "a"
      BY <1>2, <3>1
    <3>3. m \in Starts(s, i) <=> m = i
      BY <3>1, <3>2 DEF Starts
    <3>4. m \notin Starts(s, k)
      BY <1>3, <3>1 DEF Starts
    <3> QED BY <3>1, <3>3, <3>4
  <2>2. CASE m >= j /\ m < k
    <3>1. s[m] = "." /\ m \in j .. k - 1
      BY <1>2, <1>3, <2>2
    <3>2. m \notin Starts(s, i) /\ m \notin Starts(s, k)
      BY <1>3, <2>2, <3>1 DEF Starts
    <3>3. j > i => m # i
      BY <1>2, <2>2
    <3> QED BY <3>2, <3>3
  <2>3. CASE m >= k /\ s[k] = "0"
    <3>1. m = k /\ s[m] = "0" /\ (j > i => m # i)
      BY <1>2, <1>3, <1>4, <2>3
    <3>2. m \notin Starts(s, i)
      BY <3>1 DEF Starts
    <3> QED BY <2>3, <3>1, <3>2
  <2>4. CASE m >= k /\ s[k] # "0"
    <3>1. k > i /\ (j > i => m # i) /\ k \in Int /\ i \in Int /\ s[k - 1] # "a"
      BY <1>2, <1>3, <1>5, <2>4
    <3>2. m \in Starts(s, i) <=> m \in Starts(s, k)
      BY <2>4, <3>1 DEF Starts
    <3> QED BY <2>4, <3>1, <3>2
  <2> QED BY <1>2, <1>3, <2>1, <2>2, <2>3, <2>4
<1>7. \A m : m \in Starts(s, i) => m \in i .. End(s)
  BY DEF Starts
<1>8. s[k] # "0" => Starts(s, k) \subseteq i .. End(s)
  BY <1>2, <1>3 DEF Starts
<1>9. j > i => i \in i .. End(s)
  BY <1>1, <1>2
<1> QED BY <1>2, <1>3, <1>5, <1>6, <1>7, <1>8, <1>9

(* The starts are counted. *)
LEMMA StartsCounted ==
  ASSUME NEW s \in Texts, Terminated(s), NEW i \in 1 .. End(s)
  PROVE  /\ IsFiniteSet(Starts(s, i)) /\ Cardinality(Starts(s, i)) \in Nat
         /\ Cardinality(Starts(s, i)) <= SIZE
<1>1. End(s) \in 1 .. SIZE
  BY EndIsFirst
<1>2. Starts(s, i) \subseteq 1 .. SIZE
  BY <1>1 DEF Starts
<1>3. IsFiniteSet(1 .. SIZE) /\ Cardinality(1 .. SIZE) = SIZE
  BY FS_Interval
<1> QED BY <1>2, <1>3, FS_Subset, FS_CardinalityType

(* word_counter counts the starts: they satisfy the equation of its loop,  *)
(* and nothing else does, since every turn begins farther on.              *)
LEMMA CountsStarts ==
  ASSUME NEW s \in Texts, Terminated(s)
  PROVE  \A i \in 1 .. End(s) : WordsFrom(s)[i] = Cardinality(Starts(s, i))
<1> DEFINE J(i) == After(s, i, "a")
           K(i) == After(s, J(i), ".")
           e    == End(s)
           h    == [i \in 1 .. e |-> Cardinality(Starts(s, i))]
           w    == WordsFrom(s)
<1>1. e \in 1 .. SIZE
  BY EndIsFirst
<1>2. ASSUME NEW i \in 1 .. e
      PROVE  /\ s[K(i)] # "0" => K(i) \in 1 .. e /\ K(i) > i
             /\ Cardinality(Starts(s, i)) =
                  (IF J(i) > i THEN 1 ELSE 0)
                    + (IF s[K(i)] = "0" THEN 0 ELSE Cardinality(Starts(s, K(i))))
  <2>1. /\ J(i) \in i .. e /\ K(i) \in J(i) .. e /\ (s[K(i)] # "0" => K(i) > i)
        /\ Starts(s, i) = (IF J(i) > i THEN {i} ELSE {})
                            \union (IF s[K(i)] = "0" THEN {} ELSE Starts(s, K(i)))
    BY OneTurn
  <2> HIDE DEF J, K
  <2>2. K(i) \in 1 .. e
    BY <1>1, <2>1
  <2>3. CASE s[K(i)] = "0"
    <3>1. CASE J(i) > i
      BY <2>1, <2>3, <3>1, FS_Singleton
    <3>2. CASE ~ (J(i) > i)
      BY <2>1, <2>3, <3>2, FS_EmptySet
    <3> QED BY <2>3, <3>1, <3>2
  <2>4. CASE s[K(i)] # "0"
    <3> DEFINE R == Starts(s, K(i))
    <3>1. IsFiniteSet(R) /\ Cardinality(R) \in Nat /\ i \notin R
      <4>1. i \notin R
        BY <1>1, <2>1, <2>2, <2>4 DEF Starts
      <4> QED BY <2>2, <4>1, StartsCounted
    <3>2. CASE J(i) > i
      <4> HIDE DEF R
      <4>1. Starts(s, i) = R \union {i}
        BY <2>1, <2>4, <3>2 DEF R
      <4>2. Cardinality(R \union {i}) = Cardinality(R) + 1
        BY <3>1, FS_AddElement
      <4> QED BY <2>2, <2>4, <3>1, <3>2, <2>1, <4>1, <4>2 DEF R
    <3>3. CASE ~ (J(i) > i)
      BY <2>1, <2>4, <3>1, <3>3
    <3> QED BY <2>1, <2>2, <2>4, <3>2, <3>3
  <2> QED BY <2>1, <2>2, <2>3, <2>4
<1>3. h = [i \in 1 .. e |-> (IF J(i) > i THEN 1 ELSE 0)
                              + (IF s[K(i)] = "0" THEN 0 ELSE h[K(i)])]
  <2> HIDE DEF J, K
  <2> QED BY <1>2
<1>4. w = [i \in 1 .. e |-> (IF J(i) > i THEN 1 ELSE 0)
                              + (IF s[K(i)] = "0" THEN 0 ELSE w[K(i)])]
  <2> HIDE DEF h
  <2> QED BY <1>3, Zenon DEF WordsFrom
<1> HIDE DEF w, J, K
<1>5. ASSUME NEW i \in 1 .. e, w[i] # h[i] PROVE FALSE
  <2> DEFINE I == {n \in Nat : n \in 0 .. e /\ e - n \in 1 .. e /\ w[e - n] # h[e - n]}
  <2>1. e - i \in I
    BY <1>1, <1>5
  <2>2. PICK n \in I : \A m \in I : n <= m
    BY <2>1, LeastNatural
  <2> DEFINE p == e - n
  <2>3. p \in 1 .. e /\ w[p] # h[p]
    BY <2>2
  <2>4. s[K(p)] # "0" => w[K(p)] = h[K(p)]
    <3> SUFFICES ASSUME s[K(p)] # "0" PROVE w[K(p)] = h[K(p)]
      OBVIOUS
    <3>1. K(p) \in 1 .. e /\ K(p) > p
      BY <1>2, <2>3
    <3>2. e - K(p) \in Nat /\ e - K(p) < n /\ e - (e - K(p)) = K(p) /\ e - K(p) \in 0 .. e
      BY <1>1, <2>2, <3>1
    <3> QED BY <2>2, <3>1, <3>2
  <2>5. w[p] = h[p]
    <3> HIDE DEF p, h
    <3>1. w[p] = (IF J(p) > p THEN 1 ELSE 0) + (IF s[K(p)] = "0" THEN 0 ELSE w[K(p)])
      BY <1>4, <2>3
    <3>2. h[p] = (IF J(p) > p THEN 1 ELSE 0) + (IF s[K(p)] = "0" THEN 0 ELSE h[K(p)])
      BY <1>3, <2>3
    <3> QED BY <2>4, <3>1, <3>2
  <2> QED BY <2>3, <2>5
<1> QED BY <1>5 DEF w

(* The words of a text that has an end are counted. *)
LEMMA WordsAreCounted ==
  ASSUME NEW s \in Texts, Terminated(s)
  PROVE  word_counter(s) = WordsIn(s) /\ word_counter(s) \in 0 .. SIZE
<1> DEFINE e == End(s)
<1>1. /\ e \in 1 .. SIZE /\ s[e] = "0" /\ \A k \in 1 .. e - 1 : s[k] \in {"a", "."}
  BY EndIsFirst
<1> HIDE DEF e
<1>2. {i \in 1 .. SIZE : /\ s[i] = "a" /\ (i > 1 => s[i - 1] # "a")
                         /\ \A k \in 1 .. i : s[k] # "0"} = Starts(s, 1)
  <2>1. ASSUME NEW i \in 1 .. SIZE PROVE (\A k \in 1 .. i : s[k] # "0") <=> i < e
    BY <1>1
  <2>2. ASSUME NEW i \in 1 .. SIZE, s[i] = "a" PROVE i < e <=> i \in 1 .. e
    BY <1>1, <2>2
  <2> QED BY <1>1, <2>1, <2>2 DEF Starts, e
<1>3. WordsIn(s) = Cardinality(Starts(s, 1))
  BY <1>2 DEF WordsIn
<1>4. 1 \in 1 .. End(s)
  BY <1>1 DEF e
<1> QED BY <1>3, <1>4, CountsStarts, StartsCounted DEF word_counter
-----------------------------------------------------------------------------
(* The programs. *)

(* Who did not send has no answer.  An answer that is whole is the count   *)
(* of the text that was sent, and so is a value that did not come from the *)
(* client's own struct.                                                    *)
Answers(c) ==
  /\ at[c] \in {"off", "input"} => reply[c].bytes = 0 /\ value[c] = None
  /\ conn[c] \in {"none", "backlog", "accepted"} /\ at[c] = "sent" => reply[c].bytes = 0
  /\ reply[c].bytes = Bytes => reply[c].count = Count(text[c])
  /\ value[c] \in {None, AnyCount, Count(text[c])}

WordInv == WordTypeOK /\ \A c \in WordClients : Answers(c)

LEMMA CountType ==
  ASSUME NEW s \in Texts PROVE Count(s) \in 0 .. AnyCount
<1>1. CASE Terminated(s)
  BY <1>1, WordsAreCounted DEF Count, AnyCount
<1>2. CASE ~ Terminated(s)
  BY <1>2 DEF Count, AnyCount
<1> QED BY <1>1, <1>2

LEMMA WordInitInv == WordInit => WordInv
<1> SUFFICES ASSUME WordInit PROVE WordInv
  OBVIOUS
<1>1. [i \in 1 .. SIZE |-> "0"] \in Texts
  BY DEF Texts
<1>2. WordTypeOK
  <2>1. None \in None .. AnyCount /\ 0 \in 0 .. Bytes /\ 0 \in 0 .. AnyCount
        /\ 0 \in 0 .. ServerStarts
    BY DEF None, AnyCount, Bytes
  <2>2. reply \in [WordClients -> [bytes : 0 .. Bytes, count : 0 .. AnyCount]]
    BY <2>1 DEF WordInit
  <2>3. value \in [WordClients -> None .. AnyCount]
    BY <2>1 DEF WordInit
  <2> QED BY <1>1, <2>1, <2>2, <2>3 DEF WordInit, WordTypeOK
<1>3. \A c \in WordClients : Answers(c)
  BY DEF WordInit, Answers, None, AnyCount, Bytes
<1> QED BY <1>2, <1>3 DEF WordInv

(* Other clients keep what they have. *)
LEMMA OthersAnswers ==
  ASSUME NEW c \in WordClients, Answers(c),
         at'[c] = at[c], text'[c] = text[c], reply'[c] = reply[c], value'[c] = value[c],
         at[c] = "sent" /\ conn'[c] \in {"none", "backlog", "accepted"} =>
           conn[c] \in {"none", "backlog", "accepted"}
  PROVE  Answers(c)'
BY DEF Answers

LEMMA ServeInv ==
  ASSUME WordInv, NEW c \in WordClients, Serve(c) PROVE WordInv'
<1>1. PICK got \in 1 .. Bytes, garbage \in Inputs :
        reply' = [reply EXCEPT ![c] =
          [bytes |-> got,
           count |-> Count([i \in 1 .. SIZE |-> IF i <= got THEN text[c][i] ELSE garbage[i]])]]
  BY DEF Serve
<1> DEFINE mes == [i \in 1 .. SIZE |-> IF i <= got THEN text[c][i] ELSE garbage[i]]
<1>2. text[c] \in Texts /\ garbage \in Texts
  BY DEF WordInv, WordTypeOK
<1>3. mes \in Texts /\ (got = Bytes => mes = text[c])
  BY <1>2 DEF Texts, Bytes
<1>4. reply'[c] = [bytes |-> got, count |-> Count(mes)] /\ Count(mes) \in 0 .. AnyCount
  BY <1>1, <1>3, CountType DEF WordInv, WordTypeOK
<1> HIDE DEF mes
<1>5. /\ at[c] = "sent" /\ conn' = [conn EXCEPT ![c] = "answered"]
      /\ UNCHANGED <<listening, starts, at, text, value>>
      /\ \A d \in WordClients \ {c} : reply'[d] = reply[d]
      /\ reply' \in [WordClients -> [bytes : 0 .. Bytes, count : 0 .. AnyCount]]
  BY <1>1, <1>4 DEF Serve, WordInv, WordTypeOK, mes
<1>6. WordTypeOK'
  BY <1>5 DEF WordInv, WordTypeOK
<1>7. Answers(c)'
  BY <1>3, <1>4, <1>5 DEF WordInv, WordTypeOK, Answers
<1>8. ASSUME NEW d \in WordClients \ {c} PROVE Answers(d)'
  BY <1>5, OthersAnswers DEF WordInv, WordTypeOK
<1> QED BY <1>6, <1>7, <1>8 DEF WordInv

LEMMA ShowValueInv ==
  ASSUME WordInv, NEW c \in WordClients, ShowValue(c) PROVE WordInv'
<1>1. PICK got \in IF conn[c] = "broken" THEN {0} ELSE 1 .. reply[c].bytes :
        value' = [value EXCEPT ![c] = IF got = Bytes THEN reply[c].count ELSE AnyCount]
  BY DEF ShowValue
<1>2. reply[c].bytes \in 0 .. Bytes /\ reply[c].count \in 0 .. AnyCount
  BY DEF WordInv, WordTypeOK
<1>3. got = Bytes => reply[c].bytes = Bytes
  BY <1>1, <1>2
<1>4. value'[c] \in {AnyCount, Count(text[c])} /\ value'[c] \in None .. AnyCount
  BY <1>1, <1>2, <1>3 DEF WordInv, WordTypeOK, Answers, None, AnyCount
<1>5. /\ at' = [at EXCEPT ![c] = "done"] /\ conn' = [conn EXCEPT ![c] = "none"]
      /\ UNCHANGED <<listening, starts, text, reply>>
      /\ \A d \in WordClients \ {c} : value'[d] = value[d]
      /\ value' \in [WordClients -> None .. AnyCount]
  BY <1>1, <1>4 DEF ShowValue, WordInv, WordTypeOK
<1>6. WordTypeOK'
  BY <1>5 DEF WordInv, WordTypeOK
<1>7. Answers(c)'
  BY <1>4, <1>5 DEF WordInv, WordTypeOK, Answers
<1>8. ASSUME NEW d \in WordClients \ {c} PROVE Answers(d)'
  BY <1>5, OthersAnswers DEF WordInv, WordTypeOK
<1> QED BY <1>6, <1>7, <1>8 DEF WordInv

LEMMA SendInv ==
  ASSUME WordInv, NEW c \in WordClients, Send(c) PROVE WordInv'
<1>1. PICK s \in Inputs : text' = [text EXCEPT ![c] = s]
  BY DEF Send
<1>2. /\ at[c] = "input" /\ at' = [at EXCEPT ![c] = "sent"]
      /\ UNCHANGED <<listening, starts, conn, reply, value>>
      /\ text' \in [WordClients -> Texts] /\ \A d \in WordClients \ {c} : text'[d] = text[d]
  BY <1>1 DEF Send, WordInv, WordTypeOK
<1>3. WordTypeOK'
  BY <1>2 DEF WordInv, WordTypeOK
<1>4. Answers(c)'
  BY <1>2 DEF WordInv, WordTypeOK, Answers, Bytes
<1>5. ASSUME NEW d \in WordClients \ {c} PROVE Answers(d)'
  BY <1>2, OthersAnswers DEF WordInv, WordTypeOK
<1> QED BY <1>3, <1>4, <1>5 DEF WordInv

LEMMA WordNextInv ==
  ASSUME WordInv, [WordNext]_wordVars PROVE WordInv'
<1>1. CASE StartServer \/ StopServer
  <2>1. WordTypeOK'
    <3>1. CASE StartServer
      BY <3>1 DEF WordInv, WordTypeOK, StartServer
    <3>2. CASE StopServer
      BY <3>2 DEF WordInv, WordTypeOK, StopServer
    <3> QED BY <1>1, <3>1, <3>2
  <2>2. ASSUME NEW c \in WordClients PROVE Answers(c)'
    <3>1. /\ UNCHANGED <<at, text, reply, value>>
          /\ conn'[c] = conn[c] \/ conn'[c] = "broken"
      BY <1>1 DEF StartServer, StopServer
    <3> QED BY <3>1, OthersAnswers DEF WordInv
  <2> QED BY <2>1, <2>2 DEF WordInv
<1>2. ASSUME NEW c \in WordClients, Connect(c) \/ Accept(c) \/ KillClient(c) PROVE WordInv'
  <2>1. WordTypeOK'
    BY <1>2 DEF WordInv, WordTypeOK, Connect, Accept, KillClient
  <2>2. Answers(c)'
    BY <1>2 DEF WordInv, WordTypeOK, Answers, Connect, Accept, KillClient
  <2>3. ASSUME NEW d \in WordClients \ {c} PROVE Answers(d)'
    <3>1. /\ UNCHANGED <<text, reply, value>> /\ at'[d] = at[d] /\ conn'[d] = conn[d]
      BY <1>2 DEF WordInv, WordTypeOK, Connect, Accept, KillClient
    <3> QED BY <3>1, OthersAnswers DEF WordInv
  <2> QED BY <2>1, <2>2, <2>3 DEF WordInv
<1>3. CASE UNCHANGED wordVars
  BY <1>3 DEF wordVars, WordInv, WordTypeOK, Answers
<1> QED BY <1>1, <1>2, <1>3, ServeInv, ShowValueInv, SendInv DEF WordNext

(* Every variable of the word counter has its type, whatever is counted.   *)
THEOREM WordCounterTypeOK == WordSpec => []WordTypeOK
<1>1. WordInv => WordTypeOK
  BY DEF WordInv
<1> QED BY <1>1, WordInitInv, WordNextInv, PTL DEF WordSpec

(* The value a client shows is the number of words in the text it sent, or *)
(* is made of what its struct held before: the server answers with as many *)
(* bytes as came (line 111), so an answer that is whole is one to a whole  *)
(* text.                                                                   *)
THEOREM WordCounterShownIsTheCount == WordSpec => []ShownIsTheCount
<1>1. WordInv => ShownIsTheCount
  <2> SUFFICES ASSUME WordInv, NEW c \in WordClients, value[c] \notin {None, AnyCount}
               PROVE  value[c] = WordsIn(text[c])
    BY DEF ShownIsTheCount
  <2>1. text[c] \in Texts /\ value[c] = Count(text[c])
    BY DEF WordInv, WordTypeOK, Answers
  <2> QED BY <2>1, WordsAreCounted DEF Count
<1> QED BY <1>1, WordInitInv, WordNextInv, PTL DEF WordSpec

-----------------------------------------------------------------------------
(* The scan of a string. *)

LEMMA PastIs ==
  ASSUME NEW X, NEW b \in Seq(X), NEW i \in 1 .. Len(b) + 1, NEW S, "?" \notin S
  PROVE  /\ Past(b, i, S) \in i .. Len(b) + 1
         /\ Char(b, Past(b, i, S)) \notin S
         /\ \A k \in i .. Past(b, i, S) - 1 : Char(b, k) \in S
<1> DEFINE I == {j \in Nat : j \in i .. Len(b) + 1 /\ Char(b, j) \notin S}
<1>0. Len(b) \in Nat /\ i \in Nat
  OBVIOUS
<1>1. Len(b) + 1 \in I
  BY <1>0 DEF Char
<1>2. PICK j \in I : \A k \in I : j <= k
  <2>1. I \in SUBSET Nat /\ I # {}
    BY <1>1
  <2> HIDE DEF I
  <2> QED BY <2>1, LeastNatural
<1>3. j \in i .. Len(b) + 1 /\ Char(b, j) \notin S
  OBVIOUS
<1>4. \A k \in i .. j - 1 : Char(b, k) \in S
  <2> SUFFICES ASSUME NEW k \in i .. j - 1, Char(b, k) \notin S PROVE FALSE
    OBVIOUS
  <2>1. k \in Nat /\ k \in i .. Len(b) + 1 /\ ~ (j <= k)
    BY <1>0, <1>3
  <2>2. k \in I
    BY <2>1
  <2> HIDE DEF I
  <2> QED BY <1>2, <2>1, <2>2
<1> HIDE DEF I
<1>5. \E m \in i .. Len(b) + 1 : Char(b, m) \notin S /\ \A k \in i .. m - 1 : Char(b, k) \in S
  BY <1>3, <1>4
<1> QED BY <1>5 DEF Past

LEMMA PastEquals ==
  ASSUME NEW b, Len(b) \in Nat, NEW i \in Nat, NEW S, NEW p \in i .. Len(b) + 1,
         Char(b, p) \notin S, \A k \in i .. p - 1 : Char(b, k) \in S
  PROVE  Past(b, i, S) = p
<1> DEFINE q == Past(b, i, S)
<1>1. /\ q \in i .. Len(b) + 1 /\ Char(b, q) \notin S
      /\ \A k \in i .. q - 1 : Char(b, k) \in S
  BY DEF Past
<1> HIDE DEF q
<1>2. ~ (q < p)
  <2>1. q < p => q \in i .. p - 1
    BY <1>1
  <2> QED BY <1>1, <2>1
<1>3. ~ (p < q)
  <2>1. p < q => p \in i .. q - 1
    BY <1>1
  <2> QED BY <1>1, <2>1
<1> QED BY <1>1, <1>2, <1>3 DEF q

(* The number that digits make. *)
LEMMA NumberType ==
  ASSUME NEW X, NEW s \in Seq(X) PROVE Number(s) \in Nat
<1> DEFINE n    == Len(s)
           one(k) == IF s[k] = "1" THEN 1 ELSE 0
           step == [p \in Nat \X (1 .. n) |-> 10 * p[1] + one(p[2])]
           w == CHOOSE f : f = [k \in 0 .. n |-> IF k = 0 THEN 0 ELSE 10 * f[k - 1] + one(k)]
<1>1. n \in Nat /\ \A k \in 1 .. n : one(k) \in Nat
  OBVIOUS
<1>2. Number(s) = w[n]
  BY Zenon DEF Number
<1> HIDE DEF w, one, n
<1>3. IsStep(Nat, 0, n, step)
  <2>1. step \in [Nat \X (1 .. n) -> Nat]
    <3> SUFFICES ASSUME NEW p \in Nat \X (1 .. n) PROVE 10 * p[1] + one(p[2]) \in Nat
      OBVIOUS
    <3>1. p[1] \in Nat /\ one(p[2]) \in Nat
      BY <1>1
    <3> QED BY <3>1
  <2> QED BY <1>1, <2>1 DEF IsStep
<1>4. PICK h : Iterates(h, Nat, 0, n, step)
  <2> HIDE DEF step
  <2> QED BY <1>3, Iteration, Zenon
<1>5. /\ h \in [0 .. n -> Nat] /\ h[0] = 0
      /\ \A k \in 1 .. n : h[k] = step[<<h[k - 1], k>>]
  <2> HIDE DEF step
  <2> QED BY <1>4 DEF Iterates
<1>6. \A k \in 1 .. n : h[k] = 10 * h[k - 1] + one(k)
  <2> SUFFICES ASSUME NEW k \in 1 .. n PROVE h[k] = 10 * h[k - 1] + one(k)
    OBVIOUS
  <2>1. k - 1 \in 0 .. n
    BY <1>1
  <2>2. h[k - 1] \in Nat
    BY ONLY <1>5, <2>1
  <2>3. h[k] = step[<<h[k - 1], k>>]
    BY <1>5
  <2> QED BY ONLY <2>2, <2>3, k \in 1 .. n
<1>7. h = [k \in 0 .. n |-> IF k = 0 THEN 0 ELSE 10 * h[k - 1] + one(k)]
  <2>1. \A k \in 0 .. n : k # 0 => k \in 1 .. n
    BY <1>1
  <2> QED BY ONLY <1>5, <1>6, <2>1
<1>8. w = [k \in 0 .. n |-> IF k = 0 THEN 0 ELSE 10 * w[k - 1] + one(k)]
  BY <1>7, Zenon DEF w
<1>9. \A k \in 0 .. n : w[k] \in Nat
  <2> DEFINE T == {k \in 0 .. n : w[k] \in Nat}
  <2>1. 0 \in T
    BY <1>1, <1>8
  <2>2. ASSUME NEW k \in 0 .. n - 1, k \in T PROVE k + 1 \in T
    <3>1. k + 1 \in 1 .. n /\ k + 1 \in 0 .. n /\ k + 1 # 0 /\ (k + 1) - 1 = k
          /\ w[k] \in Nat /\ one(k + 1) \in Nat
      BY <1>1, <2>2
    <3>2. w[k + 1] = 10 * w[k] + one(k + 1)
      BY ONLY <1>8, <3>1
    <3> QED BY <3>1, <3>2
  <2> HIDE DEF T
  <2>3. 0 .. n \subseteq T
    BY <1>1, <2>1, <2>2, InductionTo
  <2> QED BY <2>3 DEF T
<1> QED BY <1>1, <1>2, <1>9

-----------------------------------------------------------------------------
(* What is left of a string without the characters of S. *)

Stripping(s, S) ==
  LET kept[k \in 0 .. Len(s)] ==
        IF k = 0 THEN <<>>
        ELSE IF s[k] \in S THEN kept[k - 1] ELSE Append(kept[k - 1], s[k])
  IN  kept

LEMMA StrippingDef ==
  ASSUME NEW X, NEW s \in Seq(X), NEW S
  PROVE  /\ Without(s, S) = Stripping(s, S)[Len(s)]
         /\ Stripping(s, S) \in [0 .. Len(s) -> Seq(X)] /\ Stripping(s, S)[0] = <<>>
         /\ \A k \in 1 .. Len(s) :
              Stripping(s, S)[k] = IF s[k] \in S THEN Stripping(s, S)[k - 1]
                              ELSE Append(Stripping(s, S)[k - 1], s[k])
<1> DEFINE n == Len(s)
           next(t, k) == IF s[k] \in S THEN t ELSE Append(t, s[k])
           step == [p \in Seq(X) \X (1 .. n) |-> next(p[1], p[2])]
           w == Stripping(s, S)
<1>1. n \in Nat /\ \A k \in 1 .. n : s[k] \in X
  OBVIOUS
<1>2. \A t \in Seq(X), k \in 1 .. n : next(t, k) \in Seq(X)
  BY <1>1
<1>3. Without(s, S) = w[n]
  BY Zenon DEF Without, Stripping
<1>4. IsStep(Seq(X), <<>>, n, step)
  <2>1. <<>> \in Seq(X)
    OBVIOUS
  <2> HIDE DEF next, n
  <2>2. step \in [Seq(X) \X (1 .. n) -> Seq(X)]
    BY <1>2
  <2> HIDE DEF step
  <2> QED BY <1>1, <2>1, <2>2 DEF IsStep
<1>5. PICK h : Iterates(h, Seq(X), <<>>, n, step)
  <2> HIDE DEF step, n
  <2> QED BY <1>4, Iteration, Zenon
<1>6. /\ h \in [0 .. n -> Seq(X)] /\ h[0] = <<>>
      /\ \A k \in 1 .. n : h[k] = step[<<h[k - 1], k>>]
  <2> HIDE DEF step, n
  <2> QED BY <1>5 DEF Iterates
<1>7. \A k \in 1 .. n : h[k] = next(h[k - 1], k)
  <2> HIDE DEF next, n
  <2> SUFFICES ASSUME NEW k \in 1 .. n PROVE h[k] = next(h[k - 1], k)
    OBVIOUS
  <2>1. k - 1 \in 0 .. n
    BY <1>1
  <2>2. h[k - 1] \in Seq(X)
    BY ONLY <1>6, <2>1
  <2>3. h[k] = step[<<h[k - 1], k>>]
    BY ONLY <1>6, k \in 1 .. n
  <2> QED BY ONLY <2>2, <2>3, k \in 1 .. n
<1>8. h = [k \in 0 .. n |-> IF k = 0 THEN <<>> ELSE next(h[k - 1], k)]
  <2> HIDE DEF next, n
  <2>1. \A k \in 0 .. n : k # 0 => k \in 1 .. n
    BY <1>1
  <2> QED BY ONLY <1>6, <1>7, <2>1
<1>9. w = [k \in 0 .. n |-> IF k = 0 THEN <<>> ELSE next(w[k - 1], k)]
  BY <1>8, Zenon DEF Stripping
<1> HIDE DEF w, n
<1>10. w[0] = <<>> /\ \A k \in 1 .. n : w[k] = next(w[k - 1], k)
  <2> HIDE DEF next
  <2>1. 0 \in 0 .. n /\ \A k \in 1 .. n : k \in 0 .. n /\ k # 0
    BY <1>1
  <2> QED BY ONLY <1>9, <2>1
<1>11. \A k \in 0 .. n : w[k] \in Seq(X)
  <2> DEFINE T == {k \in 0 .. n : w[k] \in Seq(X)}
  <2>1. 0 \in T
    <3>1. <<>> \in Seq(X) /\ 0 \in 0 .. n
      BY <1>1
    <3> QED BY ONLY <1>10, <3>1
  <2>2. ASSUME NEW k \in 0 .. n - 1, k \in T PROVE k + 1 \in T
    <3>1. k + 1 \in 1 .. n /\ k + 1 \in 0 .. n /\ (k + 1) - 1 = k /\ w[k] \in Seq(X)
      BY <1>1, <2>2
    <3> HIDE DEF next
    <3>2. w[k + 1] = next(w[k], k + 1)
      BY ONLY <1>10, <3>1
    <3> QED BY <1>2, <3>1, <3>2
  <2> HIDE DEF T
  <2>3. 0 .. n \subseteq T
    BY <1>1, <2>1, <2>2, InductionTo
  <2> QED BY <2>3 DEF T
<1>12. w \in [0 .. n -> Seq(X)]
  <2> HIDE DEF next
  <2> QED BY <1>9, <1>11
<1> QED BY <1>3, <1>10, <1>12 DEF w, n

LEMMA WithoutIs ==
  ASSUME NEW X, NEW s \in Seq(X), NEW S
  PROVE  /\ Without(s, S) \in Seq(X) /\ Len(Without(s, S)) <= Len(s)
         /\ \A k \in DOMAIN s :
              s[k] \notin S => \E m \in DOMAIN Without(s, S) : Without(s, S)[m] = s[k]
<1> DEFINE n == Len(s)
           w == Stripping(s, S)
           HasAll(k) == \A j \in 1 .. k : s[j] \notin S => \E m \in DOMAIN w[k] : w[k][m] = s[j]
           T == {k \in 0 .. n : Len(w[k]) <= k /\ HasAll(k)}
<1>1. /\ n \in Nat /\ Without(s, S) = w[n] /\ w \in [0 .. n -> Seq(X)] /\ w[0] = <<>>
      /\ \A k \in 1 .. n : w[k] = IF s[k] \in S THEN w[k - 1] ELSE Append(w[k - 1], s[k])
  BY StrippingDef
<1>2. \A k \in 1 .. n : s[k] \in X
  OBVIOUS
<1>3. DOMAIN s = 1 .. n
  OBVIOUS
<1> HIDE DEF w, n
<1>4. 0 \in T
  BY <1>1
<1>5. ASSUME NEW k \in 0 .. n - 1, k \in T PROVE k + 1 \in T
  <2>1. k + 1 \in 1 .. n /\ k + 1 \in 0 .. n /\ (k + 1) - 1 = k /\ k \in 0 .. n
    BY <1>1
  <2>2. w[k] \in Seq(X) /\ Len(w[k]) <= k /\ HasAll(k) /\ s[k + 1] \in X
    BY <1>1, <1>2, <1>5, <2>1
  <2>3. w[k + 1] = IF s[k + 1] \in S THEN w[k] ELSE Append(w[k], s[k + 1])
    BY ONLY <1>1, <2>1
  <2>4. \A j \in 1 .. k + 1 : j \in 1 .. k \/ j = k + 1
    BY <2>1
  <2>5. CASE s[k + 1] \in S
    <3>1. w[k + 1] = w[k]
      BY <2>3, <2>5
    <3>2. Len(w[k]) <= k + 1
      BY <2>1, <2>2
    <3>3. HasAll(k + 1)
      BY ONLY <2>2, <2>4, <2>5, <3>1
    <3> QED BY <2>1, <3>1, <3>2, <3>3
  <2>6. CASE s[k + 1] \notin S
    <3> DEFINE new == Append(w[k], s[k + 1])
    <3>1. Len(new) = Len(w[k]) + 1 /\ new[Len(new)] = s[k + 1] /\ Len(new) \in DOMAIN new
          /\ \A m \in DOMAIN w[k] : m \in DOMAIN new /\ new[m] = w[k][m]
      BY <2>2
    <3>2. w[k + 1] = new
      BY <2>3, <2>6
    <3> HIDE DEF new
    <3>3. Len(new) <= k + 1
      BY <2>1, <2>2, <3>1
    <3>4. HasAll(k + 1)
      BY <2>2, <2>4, <3>1, <3>2
    <3> QED BY <2>1, <3>2, <3>3, <3>4
  <2> QED BY <2>5, <2>6
<1>6. n \in T
  <2> HIDE DEF T
  <2>1. n \in Nat
    BY <1>1
  <2> QED BY ONLY <2>1, <1>4, <1>5, InductionTo
<1> QED BY <1>1, <1>3, <1>6 DEF n

LEMMA WithoutSame ==
  ASSUME NEW X, NEW s \in Seq(X), NEW S, NEW R, \A k \in DOMAIN s : s[k] \in S <=> s[k] \in R
  PROVE  Without(s, S) = Without(s, R)
<1> DEFINE n == Len(s)
           v == Stripping(s, S)
           w == Stripping(s, R)
           T == {k \in 0 .. n : v[k] = w[k]}
<1>1. /\ n \in Nat /\ Without(s, S) = v[n] /\ v[0] = <<>>
      /\ \A k \in 1 .. n : v[k] = IF s[k] \in S THEN v[k - 1] ELSE Append(v[k - 1], s[k])
  BY StrippingDef
<1>2. /\ Without(s, R) = w[n] /\ w[0] = <<>>
      /\ \A k \in 1 .. n : w[k] = IF s[k] \in R THEN w[k - 1] ELSE Append(w[k - 1], s[k])
  BY StrippingDef
<1>3. DOMAIN s = 1 .. n
  OBVIOUS
<1> HIDE DEF v, w, n
<1>4. 0 \in T
  BY <1>1, <1>2
<1>5. ASSUME NEW k \in 0 .. n - 1, k \in T PROVE k + 1 \in T
  <2>1. k + 1 \in 1 .. n /\ k + 1 \in 0 .. n /\ (k + 1) - 1 = k /\ v[k] = w[k]
    BY <1>1, <1>5
  <2>2. s[k + 1] \in S <=> s[k + 1] \in R
    BY <1>3, <2>1
  <2>3. v[k + 1] = IF s[k + 1] \in S THEN v[k] ELSE Append(v[k], s[k + 1])
    BY ONLY <1>1, <2>1
  <2>4. w[k + 1] = IF s[k + 1] \in R THEN w[k] ELSE Append(w[k], s[k + 1])
    BY ONLY <1>2, <2>1
  <2> QED BY <2>1, <2>2, <2>3, <2>4
<1>6. n \in T
  <2> HIDE DEF T
  <2>1. n \in Nat
    BY <1>1
  <2> QED BY ONLY <2>1, <1>4, <1>5, InductionTo
<1> QED BY <1>1, <1>2, <1>6

LEMMA AppendToJoined ==
  \A X : \A c \in X : \A s \in Seq(X) : \A t \in Seq(X) : Append(s \o t, c) = s \o Append(t, c)
<1> SUFFICES ASSUME NEW X, NEW c \in X, NEW s \in Seq(X), NEW t \in Seq(X)
             PROVE  Append(s \o t, c) = s \o Append(t, c)
  OBVIOUS
<1> DEFINE u == Append(s \o t, c)
           v == s \o Append(t, c)
<1>1. u \in Seq(X) /\ v \in Seq(X) /\ Len(u) = Len(v) /\ \A i \in 1 .. Len(u) : u[i] = v[i]
  OBVIOUS
<1> HIDE DEF u, v
<1>2. u = v
  BY ONLY <1>1, SeqEqual
<1> QED BY <1>2 DEF u, v

(* The parts of a string are cleaned one by one.                           *)
LEMMA WithoutJoined ==
  ASSUME NEW X, NEW s \in Seq(X), NEW t \in Seq(X), NEW S
  PROVE  Without(s \o t, S) = Without(s, S) \o Without(t, S)
<1> DEFINE u == s \o t
           n == Len(s)
           m == Len(t)
           a == Stripping(u, S)
           b == Stripping(s, S)
           c == Stripping(t, S)
<1>1. /\ u \in Seq(X) /\ n \in Nat /\ m \in Nat /\ Len(u) = n + m
      /\ \A k \in 1 .. n : u[k] = s[k]
      /\ \A k \in 1 .. m : u[n + k] = t[k] /\ t[k] \in X
  OBVIOUS
<1> HIDE DEF u
<1>2. /\ Without(u, S) = a[n + m] /\ a[0] = <<>>
      /\ \A k \in 1 .. n + m : a[k] = IF u[k] \in S THEN a[k - 1] ELSE Append(a[k - 1], u[k])
  <2>1. u \in Seq(X) /\ Len(u) = n + m
    BY <1>1
  <2> HIDE DEF n, m
  <2> QED BY ONLY <2>1, StrippingDef
<1>3. /\ Without(s, S) = b[n] /\ b[0] = <<>> /\ b \in [0 .. n -> Seq(X)]
      /\ \A k \in 1 .. n : b[k] = IF s[k] \in S THEN b[k - 1] ELSE Append(b[k - 1], s[k])
  BY StrippingDef
<1>4. /\ Without(t, S) = c[m] /\ c[0] = <<>> /\ c \in [0 .. m -> Seq(X)]
      /\ \A k \in 1 .. m : c[k] = IF t[k] \in S THEN c[k - 1] ELSE Append(c[k - 1], t[k])
  BY StrippingDef
<1> HIDE DEF a, b, c, n, m
<1>5. a[n] = b[n]
  <2> DEFINE T == {k \in 0 .. n : a[k] = b[k]}
  <2>1. 0 \in T
    BY <1>1, <1>2, <1>3
  <2>2. ASSUME NEW k \in 0 .. n - 1, k \in T PROVE k + 1 \in T
    <3>1. /\ k + 1 \in 1 .. n /\ k + 1 \in 0 .. n /\ k + 1 \in 1 .. n + m /\ (k + 1) - 1 = k
          /\ a[k] = b[k]
      BY <1>1, <2>2
    <3>2. u[k + 1] = s[k + 1]
      BY <1>1, <3>1
    <3>3. a[k + 1] = IF u[k + 1] \in S THEN a[k] ELSE Append(a[k], u[k + 1])
      BY ONLY <1>2, <3>1
    <3>4. b[k + 1] = IF s[k + 1] \in S THEN b[k] ELSE Append(b[k], s[k + 1])
      BY ONLY <1>3, <3>1
    <3> QED BY <3>1, <3>2, <3>3, <3>4
  <2> HIDE DEF T
  <2>3. n \in Nat
    BY <1>1
  <2>4. n \in T
    BY ONLY <2>1, <2>2, <2>3, InductionTo
  <2> QED BY <2>4 DEF T
<1>6. a[n + m] = b[n] \o c[m]
  <2> DEFINE T == {k \in 0 .. m : a[n + k] = b[n] \o c[k]}
  <2>0. b[n] \in Seq(X)
    BY <1>1, <1>3
  <2>1. 0 \in T
    <3>1. b[n] \o <<>> = b[n] /\ n + 0 = n
      BY <1>1, <2>0
    <3>2. 0 \in 0 .. m
      BY <1>1
    <3>3. a[n + 0] = b[n] \o c[0]
      BY ONLY <1>4, <1>5, <3>1
    <3> QED BY <3>2, <3>3
  <2>2. ASSUME NEW k \in 0 .. m - 1, k \in T PROVE k + 1 \in T
    <3>0. n \in Nat /\ m \in Nat /\ k \in 0 .. m - 1
      BY <1>1
    <3>1. /\ k + 1 \in 1 .. m /\ k + 1 \in 0 .. m /\ (k + 1) - 1 = k /\ k \in 0 .. m
          /\ n + (k + 1) \in 1 .. n + m /\ (n + (k + 1)) - 1 = n + k
          /\ a[n + k] = b[n] \o c[k]
      <4>1. a[n + k] = b[n] \o c[k]
        BY <2>2
      <4>2. /\ k + 1 \in 1 .. m /\ k + 1 \in 0 .. m /\ (k + 1) - 1 = k /\ k \in 0 .. m
            /\ n + (k + 1) \in 1 .. n + m /\ (n + (k + 1)) - 1 = n + k
        BY ONLY <3>0
      <4> QED BY <4>1, <4>2
    <3>2. u[n + (k + 1)] = t[k + 1] /\ t[k + 1] \in X
      BY <1>1, <3>1
    <3>3. a[n + (k + 1)] = IF u[n + (k + 1)] \in S THEN a[n + k] ELSE Append(a[n + k], u[n + (k + 1)])
      BY ONLY <1>2, <3>1
    <3>4. c[k + 1] = IF t[k + 1] \in S THEN c[k] ELSE Append(c[k], t[k + 1])
      BY ONLY <1>4, <3>1
    <3>5. c[k] \in Seq(X)
      BY <1>4, <3>1
    <3>6. Append(b[n] \o c[k], t[k + 1]) = b[n] \o Append(c[k], t[k + 1])
      BY ONLY <2>0, <3>2, <3>5, AppendToJoined, Zenon
    <3>7. a[n + (k + 1)] = b[n] \o c[k + 1]
      BY ONLY <3>1, <3>2, <3>3, <3>4, <3>6
    <3> QED BY <3>1, <3>7
  <2> HIDE DEF T
  <2>3. m \in Nat
    BY <1>1
  <2>4. m \in T
    BY ONLY <2>1, <2>2, <2>3, InductionTo
  <2> QED BY <2>4 DEF T
<1> QED BY <1>2, <1>3, <1>4, <1>6 DEF u

-----------------------------------------------------------------------------
(* strtod and find_answer. *)

LEMMA StrtodType ==
  ASSUME NEW X, NEW b \in Seq(X), NEW i \in 1 .. Len(b) + 1
  PROVE  /\ strtod(b, i).value \in Int /\ strtod(b, i).end \in 1 .. Len(b) + 1
         /\ strtod(b, i).known \in BOOLEAN
<1> DEFINE s == Past(b, i, Blanks)
           d == IF Char(b, s) \in Signs THEN s + 1 ELSE s
           e == Past(b, d, Digits)
           n == Number(SubSeq(b, d, e - 1))
<1>0. Len(b) \in Nat /\ "?" \notin Blanks /\ "?" \notin Digits /\ "?" \notin Signs
  BY DEF Blanks, Digits, Signs
<1>1. s \in i .. Len(b) + 1
  BY <1>0, PastIs
<1>2. d \in 1 .. Len(b) + 1
  <2>1. Char(b, s) \in Signs => s <= Len(b)
    BY <1>0 DEF Char
  <2> HIDE DEF s
  <2> QED BY <1>0, <1>1, <2>1
<1> HIDE DEF d
<1>3. e \in d .. Len(b) + 1
  BY <1>0, <1>2, PastIs
<1> HIDE DEF e
<1>4. n \in Nat
  <2>1. \A k \in d .. e - 1 : b[k] \in X
    <3>1. \A k \in d .. e - 1 : k \in 1 .. Len(b)
      BY <1>0, <1>2, <1>3
    <3> QED BY <3>1, ElementOfSeq
  <2>2. d \in Int /\ e - 1 \in Int
    BY <1>2, <1>3
  <2>3. SubSeq(b, d, e - 1) \in Seq(X)
    BY ONLY <2>1, <2>2, SubSeqProperties
  <2> QED BY <2>3, NumberType
<1> HIDE DEF n
<1>5. strtod(b, i) = IF Char(b, e) = "?" THEN [known |-> FALSE, value |-> 0, end |-> e]
                     ELSE IF e = d THEN [known |-> TRUE, value |-> 0, end |-> i]
                     ELSE [known |-> TRUE, value |-> IF d > s THEN 0 - n ELSE n, end |-> e]
  BY DEF strtod, n, e, d
<1>6. e \in 1 .. Len(b) + 1 /\ (IF d > s THEN 0 - n ELSE n) \in Int
  BY <1>0, <1>2, <1>3, <1>4
<1> DEFINE v == IF d > s THEN 0 - n ELSE n
<1> HIDE DEF s, v
<1> QED BY <1>5, <1>6 DEF v

(* m stands at p in b; b has only blanks from i to j. *)
At(b, p, m)    == \A k \in 1 .. Len(m) : b[p + k - 1] = m[k]
Blank(b, i, j) == \A k \in i .. j : b[k] = " "

(* strtod reads a numeral that stands at p, behind blanks, when what       *)
(* follows it is known and no digit.                                       *)
LEMMA StrtodReads ==
  ASSUME NEW X, NEW b \in Seq(X), NEW i \in 1 .. Len(b) + 1, NEW m \in Seq(X), Numeral(m),
         NEW p \in i .. Len(b) + 1, p + Len(m) <= Len(b),
         Blank(b, i, p - 1), At(b, p, m),
         Char(b, p + Len(m)) \notin Digits \union {"?"}
  PROVE  strtod(b, i) = [known |-> TRUE, value |-> Value(m), end |-> p + Len(m)]
<1> DEFINE q == p + Len(m)
           s == Past(b, i, Blanks)
           d == IF Char(b, s) \in Signs THEN s + 1 ELSE s
           e == Past(b, d, Digits)
           sign == m[1] \in Signs
           digits == IF sign THEN Tail(m) ELSE m
<1>0. Len(b) \in Nat /\ Len(m) \in Nat \ {0} /\ p \in Nat /\ i \in Nat
      /\ p >= i /\ i > 0 /\ q \in Nat /\ p < q /\ q <= Len(b)
  BY EmptySeq DEF Numeral
<1>1. m # <<>> /\ digits # <<>> /\ ToSet(digits) \subseteq Digits
  BY DEF Numeral
<1>2. \A k \in 1 .. Len(m) : p + k - 1 \in 1 .. Len(b) /\ Char(b, p + k - 1) = m[k]
  <2>1. \A k \in 1 .. Len(m) : p + k - 1 \in 1 .. Len(b)
    BY <1>0
  <2> QED BY <1>0, <2>1 DEF Char, At
<1>3. /\ \A k \in 1 .. Len(m) : k > 1 \/ ~ sign => m[k] \in Digits
      /\ sign => Len(m) > 1 /\ Len(digits) = Len(m) - 1
                 /\ \A k \in 1 .. Len(m) - 1 : digits[k] = m[k + 1]
      /\ digits \in Seq(X)
  <2>1. CASE ~ sign
    <3>1. \A k \in 1 .. Len(m) : m[k] \in ToSet(m)
      BY DEF ToSet
    <3> QED BY <1>1, <2>1, <3>1
  <2>2. CASE sign
    <3>1. digits = Tail(m)
      BY <2>2
    <3>2. Tail(m) \in Seq(X) /\ Len(Tail(m)) = Len(m) - 1
          /\ \A k \in 1 .. Len(m) - 1 : Tail(m)[k] = m[k + 1] /\ k \in DOMAIN Tail(m)
      BY <1>1
    <3>3. Len(m) > 1
      <4>1. Tail(m) # <<>>
        BY <1>1, <3>1
      <4>2. \A t \in Seq(X) : t # <<>> => Len(t) # 0
        BY EmptySeq
      <4>3. Len(Tail(m)) # 0
        BY <3>2, <4>1, <4>2
      <4> QED BY <1>0, <3>2, <4>3
    <3>4. \A k \in 1 .. Len(m) : k > 1 => m[k] \in Digits
      <4> SUFFICES ASSUME NEW k \in 1 .. Len(m), k > 1 PROVE m[k] \in Digits
        OBVIOUS
      <4>1. k - 1 \in 1 .. Len(m) - 1 /\ (k - 1) + 1 = k
        BY <1>0
      <4>2. Tail(m)[k - 1] \in ToSet(Tail(m)) /\ Tail(m)[k - 1] = m[k]
        BY <3>2, <4>1 DEF ToSet
      <4> QED BY <1>1, <3>1, <4>2
    <3> QED BY <2>2, <3>1, <3>2, <3>3, <3>4
  <2> QED BY <2>1, <2>2
<1> HIDE DEF digits
<1>4. s = p
  <2>1. Char(b, p) = m[1]
    <3>1. 1 \in 1 .. Len(m) /\ p + 1 - 1 = p
      BY <1>0
    <3> QED BY <1>2, <3>1
  <2>2. m[1] \in Signs \union Digits
    BY <1>0, <1>3
  <2>3. Char(b, p) \notin Blanks
    BY <2>1, <2>2 DEF Signs, Digits, Blanks
  <2>4. \A k \in i .. p - 1 : Char(b, k) \in Blanks
    <3>1. \A k \in i .. p - 1 : k <= Len(b)
      BY <1>0
    <3> QED BY <3>1 DEF Char, Blank, Blanks
  <2> QED BY <1>0, <2>3, <2>4, PastEquals
<1>5. Char(b, p) = m[1]
  <2>1. 1 \in 1 .. Len(m) /\ p + 1 - 1 = p
    BY <1>0
  <2> QED BY <1>2, <2>1
<1>6. d = IF sign THEN p + 1 ELSE p
  <2> HIDE DEF s
  <2> QED BY <1>4, <1>5
<1> HIDE DEF d
<1>7. e = q
  <2>1. d \in Nat /\ q \in d .. Len(b) + 1
    BY <1>0, <1>3, <1>6
  <2>2. Char(b, q) \notin Digits
    OBVIOUS
  <2>3. \A k \in d .. q - 1 : Char(b, k) \in Digits
    <3> SUFFICES ASSUME NEW k \in d .. q - 1 PROVE Char(b, k) \in Digits
      OBVIOUS
    <3>1. (k - p) + 1 \in 1 .. Len(m) /\ p + ((k - p) + 1) - 1 = k /\ (k > p \/ ~ sign)
          /\ (k > p => (k - p) + 1 > 1)
      BY <1>0, <1>6, <2>1
    <3> QED BY <1>2, <1>3, <3>1
  <2> QED BY <1>0, <2>1, <2>2, <2>3, PastEquals
<1> HIDE DEF e, q
<1>8. SubSeq(b, d, e - 1) = digits
  <2> DEFINE t == SubSeq(b, d, e - 1)
  <2>1. d \in 1 .. Len(b) /\ e - 1 \in Int /\ e - 1 <= Len(b) /\ d <= e - 1 /\ d \in Int
        /\ Len(digits) = (e - 1) - d + 1
    <3>1. Len(digits) = IF sign THEN Len(m) - 1 ELSE Len(m)
      BY <1>3 DEF digits
    <3> HIDE DEF sign
    <3> QED BY <1>0, <1>3, <1>6, <1>7, <3>1 DEF q
  <2>2. \A k \in d .. e - 1 : b[k] \in X
    <3>1. \A k \in d .. e - 1 : k \in 1 .. Len(b)
      BY <1>0, <2>1
    <3> QED BY <3>1, ElementOfSeq
  <2>3. /\ t \in Seq(X) /\ Len(t) = (e - 1) - d + 1
        /\ \A k \in 1 .. (e - 1) - d + 1 : t[k] = b[d + k - 1]
    <3>1. /\ t \in Seq(X) /\ Len(t) = IF d <= e - 1 THEN (e - 1) - d + 1 ELSE 0
          /\ \A k \in 1 .. (e - 1) - d + 1 : t[k] = b[d + k - 1]
      <4>1. d \in Int /\ e - 1 \in Int
        BY ONLY <2>1
      <4> QED BY ONLY <2>2, <4>1, SubSeqProperties
    <3> QED BY ONLY <2>1, <3>1
  <2>4. \A k \in 1 .. Len(digits) : t[k] = digits[k]
    <3> SUFFICES ASSUME NEW k \in 1 .. Len(digits) PROVE b[d + k - 1] = digits[k]
      BY <2>1, <2>3
    <3>1. CASE sign
      <4>1. digits[k] = m[k + 1] /\ k + 1 \in 1 .. Len(m) /\ d + k - 1 = p + (k + 1) - 1
        BY <1>0, <1>3, <1>6, <3>1
      <4> QED BY <4>1 DEF At
    <3>2. CASE ~ sign
      BY <1>6, <3>2 DEF digits, At
    <3> QED BY <3>1, <3>2
  <2> HIDE DEF t
  <2>5. t = digits
    BY ONLY <1>3, <2>1, <2>3, <2>4, SeqEqual
  <2> QED BY <2>5 DEF t
<1>9. Value(m) = IF sign THEN 0 - Number(digits) ELSE Number(digits)
  BY DEF Value, digits
<1>10. strtod(b, i) = IF Char(b, e) = "?" THEN [known |-> FALSE, value |-> 0, end |-> e]
                      ELSE IF e = d THEN [known |-> TRUE, value |-> 0, end |-> i]
                      ELSE [known |-> TRUE,
                            value |-> IF d > s THEN 0 - Number(SubSeq(b, d, e - 1))
                                      ELSE Number(SubSeq(b, d, e - 1)),
                            end |-> e]
  BY DEF strtod, e, d
<1>11. Char(b, e) # "?" /\ e # d /\ (d > s <=> sign)
  <2>1. Char(b, q) # "?"
    BY DEF q
  <2> HIDE DEF s
  <2> QED BY <1>0, <1>3, <1>4, <1>6, <1>7, <2>1 DEF q
<1> HIDE DEF s, sign
<1> QED BY <1>7, <1>8, <1>9, <1>10, <1>11 DEF q

(* A numeral begins with a sign or a digit. *)
LEMMA NumeralBegins ==
  ASSUME NEW X, NEW m \in Seq(X), Numeral(m)
  PROVE  Len(m) \in Nat \ {0} /\ m[1] \in Signs \union Digits
<1>1. m # <<>> /\ Len(m) \in Nat \ {0}
  BY EmptySeq DEF Numeral
<1>2. CASE m[1] \in Signs
  BY <1>1, <1>2
<1>3. CASE m[1] \notin Signs
  <2>1. ToSet(m) \subseteq Digits
    BY <1>3 DEF Numeral
  <2>2. m[1] \in ToSet(m)
    <3>1. 1 \in DOMAIN m
      BY <1>1
    <3> QED BY <3>1 DEF ToSet
  <2> QED BY <1>1, <2>1, <2>2
<1> QED BY <1>2, <1>3

(* What find_answer makes of two numerals with an operation and blanks     *)
(* between them.                                                           *)
Equation(b, p1, m1, o, p2, m2) ==
  /\ p1 \in Nat /\ o \in Nat /\ p2 \in Nat
  /\ p1 > 0 /\ p1 + Len(m1) <= o /\ o < p2 /\ p2 + Len(m2) <= Len(b)
  /\ Blank(b, 1, p1 - 1) /\ At(b, p1, m1) /\ Blank(b, p1 + Len(m1), o - 1)
  /\ b[o] \in Ops
  /\ Blank(b, o + 1, p2 - 1) /\ At(b, p2, m2) /\ b[p2 + Len(m2)] \in {" ", "nul"}

LEMMA AnswerIs ==
  ASSUME NEW X, NEW b \in Seq(X), NEW m1 \in Seq(X), NEW m2 \in Seq(X), Numeral(m1), Numeral(m2),
         NEW p1, NEW o, NEW p2, Equation(b, p1, m1, o, p2, m2)
  PROVE  find_answer(b) = Apply(b[o], Value(m1), Value(m2))
<1> SUFFICES
      ASSUME p1 \in Nat, o \in Nat, p2 \in Nat,
             p1 > 0, p1 + Len(m1) <= o, o < p2, p2 + Len(m2) <= Len(b),
             Blank(b, 1, p1 - 1), At(b, p1, m1), Blank(b, p1 + Len(m1), o - 1), b[o] \in Ops,
             Blank(b, o + 1, p2 - 1), At(b, p2, m2), b[p2 + Len(m2)] \in {" ", "nul"}
      PROVE  find_answer(b) = Apply(b[o], Value(m1), Value(m2))
  BY DEF Equation
<1> DEFINE nulls == {"nul", " "}
<1>1. Len(m1) \in Nat \ {0} /\ m1[1] \in Signs \union Digits
  BY ONLY m1 \in Seq(X), Numeral(m1), NumeralBegins
<1>2. Len(m2) \in Nat \ {0} /\ m2[1] \in Signs \union Digits
  BY ONLY m2 \in Seq(X), Numeral(m2), NumeralBegins
<1>3. PICK n \in Nat : n = Len(b)
  BY ONLY b \in Seq(X), LenProperties
<1>4. PICK e1 \in Nat : e1 = p1 + Len(m1)
  BY ONLY <1>1, p1 \in Nat
<1>5. PICK e2 \in Nat : e2 = p2 + Len(m2)
  BY ONLY <1>2, p2 \in Nat
<1>6. /\ n \in Nat /\ e1 \in Nat /\ e2 \in Nat /\ p1 \in Nat /\ o \in Nat /\ p2 \in Nat
      /\ p1 > 0 /\ p1 < e1 /\ e1 <= o /\ o < p2 /\ p2 < e2 /\ e2 <= n
  <2>1. p1 < e1
    BY ONLY <1>1, <1>4, p1 \in Nat
  <2>2. p2 < e2
    BY ONLY <1>2, <1>5, p2 \in Nat
  <2> QED BY <1>3, <1>4, <1>5, <2>1, <2>2
<1>7. \A k \in 1 .. n : Char(b, k) = b[k]
  <2> SUFFICES ASSUME NEW k \in 1 .. n PROVE Char(b, k) = b[k]
    OBVIOUS
  <2>1. k <= Len(b)
    BY ONLY <1>3, k \in 1 .. n
  <2> QED BY ONLY <2>1 DEF Char
<1>8. /\ nulls \intersect (Digits \union {"?"}) = {}
      /\ Ops \intersect (Digits \union {"?", "nul", " "}) = {}
      /\ (Signs \union Digits) \intersect nulls = {}
  BY DEF Digits, Ops, Signs
<1>9. strtod(b, 1) = [known |-> TRUE, value |-> Value(m1), end |-> e1]
  <2>1. p1 \in 1 .. n + 1 /\ e1 \in 1 .. n /\ 1 \in 1 .. n + 1
    BY ONLY <1>6
  <2>2. Char(b, e1) \notin Digits \union {"?"}
    <3>1. e1 = o \/ e1 \in e1 .. o - 1
      BY ONLY <1>6
    <3>2. b[e1] \in nulls \/ b[e1] \in Ops
      BY <1>4, <3>1 DEF Blank
    <3>3. Char(b, e1) = b[e1]
      BY ONLY <1>7, <2>1
    <3> HIDE DEF nulls
    <3> QED BY ONLY <1>8, <3>2, <3>3
  <2>3. e1 <= Len(b) /\ 1 \in 1 .. Len(b) + 1 /\ p1 \in 1 .. Len(b) + 1
    BY ONLY <1>3, <1>6, <2>1
  <2>4. p1 + Len(m1) <= Len(b) /\ Char(b, p1 + Len(m1)) \notin Digits \union {"?"}
    BY ONLY <1>4, <2>2, <2>3
  <2>5. strtod(b, 1) = [known |-> TRUE, value |-> Value(m1), end |-> p1 + Len(m1)]
    BY ONLY <2>3, <2>4, b \in Seq(X), m1 \in Seq(X), Numeral(m1), Blank(b, 1, p1 - 1),
            At(b, p1, m1), StrtodReads
  <2> QED BY ONLY <1>4, <2>5
<1>10. Past(b, e1, nulls) = o
  <2>1. o \in e1 .. n + 1 /\ o \in 1 .. n
    BY ONLY <1>6
  <2>2. Char(b, o) \notin nulls
    <3>1. Char(b, o) = b[o]
      BY ONLY <1>7, <2>1
    <3> QED BY ONLY <1>8, <3>1, b[o] \in Ops
  <2>3. \A k \in e1 .. o - 1 : Char(b, k) \in nulls
    <3> SUFFICES ASSUME NEW k \in e1 .. o - 1 PROVE Char(b, k) \in nulls
      OBVIOUS
    <3>1. k \in 1 .. n
      BY ONLY <1>6, k \in e1 .. o - 1
    <3>2. b[k] = " "
      BY <1>4 DEF Blank
    <3> QED BY ONLY <1>7, <3>1, <3>2
  <2> HIDE DEF nulls
  <2>4. Len(b) \in Nat /\ o \in e1 .. Len(b) + 1
    BY ONLY <1>3, <2>1
  <2> QED BY ONLY <2>2, <2>3, <2>4, e1 \in Nat, PastEquals
<1>11. Past(b, o + 1, nulls) = p2
  <2>0. PICK a \in Nat : a = o + 1
    BY ONLY o \in Nat
  <2>1. p2 \in a .. n + 1 /\ p2 \in 1 .. n
    BY ONLY <1>6, <2>0
  <2>2. Char(b, p2) \notin nulls
    <3>1. 1 \in 1 .. Len(m2) /\ p2 + 1 - 1 = p2
      BY ONLY <1>2, p2 \in Nat
    <3>2. b[p2] = m2[1]
      BY ONLY <3>1, At(b, p2, m2) DEF At
    <3>3. Char(b, p2) = b[p2]
      BY ONLY <1>7, <2>1
    <3> HIDE DEF nulls
    <3> QED BY ONLY <1>2, <1>8, <3>2, <3>3
  <2>3. \A k \in a .. p2 - 1 : Char(b, k) \in nulls
    <3> SUFFICES ASSUME NEW k \in a .. p2 - 1 PROVE Char(b, k) \in nulls
      OBVIOUS
    <3>1. k \in 1 .. n
      BY ONLY <1>6, <2>0, k \in a .. p2 - 1
    <3>2. b[k] = " "
      BY <2>0 DEF Blank
    <3> QED BY ONLY <1>7, <3>1, <3>2
  <2> HIDE DEF nulls
  <2>4. Len(b) \in Nat /\ p2 \in a .. Len(b) + 1
    BY ONLY <1>3, <2>1
  <2>5. Past(b, a, nulls) = p2
    BY ONLY <2>2, <2>3, <2>4, a \in Nat, PastEquals
  <2> QED BY ONLY <2>0, <2>5
<1>12. strtod(b, p2) = [known |-> TRUE, value |-> Value(m2), end |-> e2]
  <2>1. p2 \in 1 .. n + 1 /\ e2 \in 1 .. n /\ p2 \in p2 .. n + 1 /\ p2 .. p2 - 1 = {}
    BY ONLY <1>6
  <2>2. Blank(b, p2, p2 - 1)
    BY ONLY <2>1 DEF Blank
  <2>3. Char(b, e2) \notin Digits \union {"?"}
    <3>1. Char(b, e2) = b[e2] /\ b[e2] \in nulls
      BY ONLY <1>5, <1>7, <2>1, b[p2 + Len(m2)] \in {" ", "nul"}
    <3> HIDE DEF nulls
    <3> QED BY ONLY <1>8, <3>1
  <2>4. p2 \in 1 .. Len(b) + 1 /\ p2 \in p2 .. Len(b) + 1 /\ p2 + Len(m2) <= Len(b)
        /\ Char(b, p2 + Len(m2)) \notin Digits \union {"?"}
    BY ONLY <1>3, <1>5, <1>6, <2>1, <2>3
  <2>5. strtod(b, p2) = [known |-> TRUE, value |-> Value(m2), end |-> p2 + Len(m2)]
    BY ONLY <2>2, <2>4, b \in Seq(X), m2 \in Seq(X), Numeral(m2), At(b, p2, m2), StrtodReads
  <2> QED BY ONLY <1>5, <2>5
<1>13. Char(b, o) = b[o] /\ b[o] # "?"
  <2>1. o \in 1 .. n
    BY ONLY <1>6
  <2> QED BY ONLY <1>7, <1>8, <2>1, b[o] \in Ops
<1> DEFINE first  == strtod(b, 1)
           oo     == Past(b, first.end, nulls)
           second == strtod(b, Past(b, oo + 1, nulls))
<1>14. first.known /\ first.value = Value(m1) /\ first.end = e1
  BY ONLY <1>9
<1>15. oo = o
  <2> HIDE DEF first
  <2> QED BY ONLY <1>10, <1>14
<1>16. second.known /\ second.value = Value(m2)
  <2> HIDE DEF oo, nulls
  <2> QED BY ONLY <1>11, <1>12, <1>15
<1>17. find_answer(b) = IF ~ first.known \/ Char(b, oo) = "?" THEN Unknown
                        ELSE IF Char(b, oo) \in Ops /\ ~ second.known THEN Unknown
                        ELSE Apply(Char(b, oo), first.value, second.value)
  BY ONLY DEF find_answer
<1> HIDE DEF first, oo, second, nulls
<1> QED BY ONLY <1>13, <1>14, <1>15, <1>16, <1>17

LEMMA AnswerType ==
  ASSUME NEW X, NEW b \in Seq(X)
  PROVE  find_answer(b) \in {Zero, Unknown} \union (Ops \X Int \X Int)
<1> DEFINE first == strtod(b, 1)
           o  == Past(b, first.end, {"nul", " "})
           p2 == Past(b, o + 1, {"nul", " "})
           second == strtod(b, p2)
<1>0. Len(b) \in Nat /\ 1 \in 1 .. Len(b) + 1 /\ "?" \notin {"nul", " "}
  OBVIOUS
<1>1. first.value \in Int /\ first.end \in 1 .. Len(b) + 1
  BY <1>0, StrtodType
<1>2. o \in 1 .. Len(b) + 1
  <2> DEFINE e == first.end
  <2>1. e \in 1 .. Len(b) + 1
    BY <1>1
  <2> HIDE DEF e
  <2>2. PICK t : t = Past(b, e, {"nul", " "})
    OBVIOUS
  <2>3. t \in e .. Len(b) + 1
    BY <1>0, <2>1, <2>2, PastIs
  <2>4. t \in 1 .. Len(b) + 1
    <3>1. PICK n \in Nat : n = Len(b)
      BY ONLY <1>0
    <3> QED BY ONLY <2>1, <2>3, <3>1
  <2> QED BY <2>2, <2>4 DEF e
<1> HIDE DEF o
<1>3. ASSUME Char(b, o) # "?" PROVE second.value \in Int
  <2>1. o + 1 \in 1 .. Len(b) + 1
    <3>1. o <= Len(b)
      BY <1>3 DEF Char
    <3> QED BY <1>0, <1>2, <3>1
  <2>2. p2 \in 1 .. Len(b) + 1
    <3> DEFINE a == o + 1
    <3>1. a \in 1 .. Len(b) + 1
      BY <2>1
    <3> HIDE DEF a
    <3>2. PICK t : t = Past(b, a, {"nul", " "})
      OBVIOUS
    <3>3. t \in a .. Len(b) + 1
      BY <1>0, <3>1, <3>2, PastIs
    <3>4. t \in 1 .. Len(b) + 1
      <4>1. PICK n \in Nat : n = Len(b)
        BY ONLY <1>0
      <4> QED BY ONLY <3>1, <3>3, <4>1
    <3> QED BY <3>2, <3>4 DEF a
  <2> HIDE DEF p2
  <2> QED BY <2>2, StrtodType
<1> HIDE DEF first, second
<1>4. find_answer(b) = IF ~ first.known \/ Char(b, o) = "?" THEN Unknown
                       ELSE IF Char(b, o) \in Ops /\ ~ second.known THEN Unknown
                       ELSE Apply(Char(b, o), first.value, second.value)
  BY DEF find_answer, first, second, o
<1>5. CASE ~ first.known \/ Char(b, o) = "?" \/ (Char(b, o) \in Ops /\ ~ second.known)
  <2>1. find_answer(b) = Unknown
    BY <1>4, <1>5
  <2> QED BY <2>1
<1>6. CASE ~ (~ first.known \/ Char(b, o) = "?" \/ (Char(b, o) \in Ops /\ ~ second.known))
  <2>1. find_answer(b) = Apply(Char(b, o), first.value, second.value)
    BY <1>4, <1>6
  <2>2. first.value \in Int /\ second.value \in Int
    BY <1>1, <1>3, <1>6
  <2>3. \A op, v, w : v \in Int /\ w \in Int => Apply(op, v, w) \in {Zero} \union (Ops \X Int \X Int)
    BY DEF Apply
  <2> QED BY <2>1, <2>2, <2>3
<1> QED BY <1>5, <1>6

(* Every character of a numeral is a sign or a digit. *)
LEMMA NumeralChars ==
  ASSUME NEW X, NEW m \in Seq(X), Numeral(m), NEW k \in DOMAIN m
  PROVE  m[k] \in Signs \union Digits
<1>1. m # <<>> /\ Len(m) \in Nat \ {0} /\ k \in 1 .. Len(m)
  BY NumeralBegins
<1>2. CASE k = 1
  BY <1>2, NumeralBegins
<1>3. CASE k # 1
  <2>1. CASE m[1] \in Signs
    <3>1. k - 1 \in DOMAIN Tail(m) /\ Tail(m)[k - 1] = m[k]
      BY <1>1, <1>3
    <3>2. Tail(m)[k - 1] \in ToSet(Tail(m))
      BY <3>1 DEF ToSet
    <3>3. ToSet(Tail(m)) \subseteq Digits
      BY <2>1 DEF Numeral
    <3> QED BY <3>1, <3>2, <3>3
  <2>2. CASE m[1] \notin Signs
    <3>1. ToSet(m) \subseteq Digits
      BY <2>2 DEF Numeral
    <3>2. m[k] \in ToSet(m)
      BY DEF ToSet
    <3> QED BY <3>1, <3>2
  <2> QED BY <2>1, <2>2
<1> QED BY <1>2, <1>3

(* A set of positions that is not empty has a first and a last one.        *)
LEMMA FirstAndLast ==
  ASSUME NEW n \in Nat, NEW I \in SUBSET (1 .. n), I # {}
  PROVE  /\ Min(I) \in I /\ \A k \in I : Min(I) <= k
         /\ Max(I) \in I /\ \A k \in I : k <= Max(I)
<1>1. \E i \in I : \A k \in I : i <= k
  <2>1. I \in SUBSET Nat
    OBVIOUS
  <2> QED BY ONLY <2>1, I # {}, LeastNatural
<1>2. \E i \in I : \A k \in I : i >= k
  <2> DEFINE J == {n - i : i \in I}
  <2>1. J \in SUBSET Nat /\ J # {}
    <3>1. \A i \in 1 .. n : n - i \in Nat
      OBVIOUS
    <3> QED BY <3>1
  <2>2. PICK j \in J : \A k \in J : j <= k
    <3> HIDE DEF J
    <3> QED BY ONLY <2>1, LeastNatural
  <2>3. PICK i \in I : j = n - i
    OBVIOUS
  <2>4. \A k \in I : n - k \in J
    OBVIOUS
  <2>5. ASSUME NEW k \in I PROVE i >= k
    <3>1. n - i <= n - k
      BY <2>2, <2>3, <2>4
    <3>2. i \in Nat /\ k \in Nat
      OBVIOUS
    <3> QED BY ONLY <3>1, <3>2, n \in Nat
  <2> QED BY <2>5
<1>3. Min(I) \in I /\ \A k \in I : Min(I) <= k
  BY <1>1 DEF Min
<1>4. Max(I) \in I /\ \A k \in I : Max(I) >= k
  BY <1>2 DEF Max
<1>5. \A j, k \in 1 .. n : j >= k => k <= j
  OBVIOUS
<1> QED BY <1>3, <1>4, <1>5

(* Where what is left of a string without the blanks around it stands.     *)
LEMMA TrimmedIs ==
  ASSUME NEW X, NEW s \in Seq(X), NEW t, t = Trimmed(s), t # <<>>
  PROVE  \E p \in 1 .. Len(s) :
           /\ t \in Seq(X) /\ p + Len(t) <= Len(s) + 1
           /\ Blank(s, 1, p - 1) /\ At(s, p, t) /\ Blank(s, p + Len(t), Len(s))
<1> DEFINE solid == {i \in DOMAIN s : s[i] # " "}
<1>1. PICK n \in Nat : n = Len(s)
  BY ONLY s \in Seq(X), LenProperties
<1>2. solid # {}
  BY DEF Trimmed
<1>3. t = SubSeq(s, Min(solid), Max(solid))
  BY <1>2 DEF Trimmed
<1>4. solid \in SUBSET (1 .. n) /\ \A k \in 1 .. n : k \notin solid => s[k] = " "
  <2>1. DOMAIN s = 1 .. n
    BY ONLY <1>1, s \in Seq(X), LenProperties
  <2> QED BY <2>1
<1> HIDE DEF solid
<1>5. PICK p \in 1 .. n, q \in 1 .. n :
        p = Min(solid) /\ q = Max(solid) /\ p \in solid /\ q \in solid
        /\ \A k \in solid : p <= k /\ k <= q
  BY <1>2, <1>4, FirstAndLast
<1>6. t = SubSeq(s, p, q) /\ p <= q
  BY <1>3, <1>5
<1>7. \A k \in p .. q : s[k] \in X
  <2>1. \A k \in p .. q : k \in 1 .. Len(s)
    BY ONLY <1>1, p \in 1 .. n, q \in 1 .. n
  <2> QED BY <2>1, ElementOfSeq
<1>8. /\ t \in Seq(X) /\ Len(t) = (q - p) + 1
      /\ \A k \in 1 .. (q - p) + 1 : t[k] = s[p + k - 1]
  <2>1. p \in Int /\ q \in Int
    OBVIOUS
  <2> QED BY ONLY <1>6, <1>7, <2>1, SubSeqProperties
<1>9. p + Len(t) <= Len(s) + 1 /\ p + Len(t) = q + 1
  BY ONLY <1>1, <1>8, p \in 1 .. n, q \in 1 .. n
<1>10. Blank(s, 1, p - 1)
  <2>1. \A k \in 1 .. p - 1 : k \in 1 .. n /\ ~ (p <= k)
    BY ONLY p \in 1 .. n
  <2> QED BY ONLY <1>4, <1>5, <2>1 DEF Blank
<1>11. Blank(s, p + Len(t), Len(s))
  <2>1. \A k \in q + 1 .. n : k \in 1 .. n /\ ~ (k <= q)
    BY ONLY q \in 1 .. n
  <2> QED BY ONLY <1>1, <1>4, <1>5, <1>9, <2>1 DEF Blank
<1>12. At(s, p, t)
  BY ONLY <1>8 DEF At
<1> QED BY <1>1, <1>8, <1>9, <1>10, <1>11, <1>12

(* The two parts of a string around its i-th character.                    *)
LEMMA Parts ==
  ASSUME NEW X, NEW s \in Seq(X), NEW i \in 1 .. Len(s),
         NEW u, u = SubSeq(s, 1, i - 1), NEW v, v = SubSeq(s, i + 1, Len(s))
  PROVE  /\ u \in Seq(X) /\ Len(u) = i - 1 /\ \A k \in 1 .. i - 1 : u[k] = s[k]
         /\ v \in Seq(X) /\ Len(v) = Len(s) - i /\ \A k \in 1 .. Len(s) - i : v[k] = s[i + k]
<1>1. PICK n \in Nat : n = Len(s)
  BY ONLY s \in Seq(X), LenProperties
<1>2. \A k \in 1 .. n : s[k] \in X
  BY <1>1, ElementOfSeq
<1>3. i \in 1 .. n
  BY <1>1
<1>4. /\ u \in Seq(X) /\ Len(u) = IF 1 <= i - 1 THEN (i - 1) - 1 + 1 ELSE 0
      /\ \A k \in 1 .. (i - 1) - 1 + 1 : u[k] = s[1 + k - 1]
  <2>1. i - 1 \in Int /\ 1 \in Int /\ \A k \in 1 .. i - 1 : k \in 1 .. n
    BY ONLY <1>3, n \in Nat
  <2>2. \A k \in 1 .. i - 1 : s[k] \in X
    BY ONLY <1>2, <2>1
  <2> QED BY ONLY <2>1, <2>2, u = SubSeq(s, 1, i - 1), SubSeqProperties
<1>5. /\ v \in Seq(X) /\ Len(v) = IF i + 1 <= n THEN n - (i + 1) + 1 ELSE 0
      /\ \A k \in 1 .. n - (i + 1) + 1 : v[k] = s[(i + 1) + k - 1]
  <2>1. i + 1 \in Int /\ n \in Int /\ \A k \in i + 1 .. n : k \in 1 .. n
    BY ONLY <1>3, n \in Nat
  <2>2. \A k \in i + 1 .. n : s[k] \in X
    BY ONLY <1>2, <2>1
  <2>3. v = SubSeq(s, i + 1, n)
    BY <1>1
  <2> QED BY ONLY <2>1, <2>2, <2>3, SubSeqProperties
<1>6. Len(u) = i - 1 /\ \A k \in 1 .. i - 1 : u[k] = s[k]
  <2>1. (i - 1) - 1 + 1 = i - 1 /\ \A k \in 1 .. i - 1 : 1 + k - 1 = k
    BY ONLY <1>3, n \in Nat
  <2>2. Len(u) = i - 1
    BY ONLY <1>3, <1>4, n \in Nat
  <2> QED BY ONLY <1>4, <2>1, <2>2
<1>7. Len(v) = n - i /\ \A k \in 1 .. n - i : v[k] = s[i + k]
  <2>1. n - (i + 1) + 1 = n - i /\ \A k \in 1 .. n - i : (i + 1) + k - 1 = i + k
    BY ONLY <1>3, n \in Nat
  <2>2. Len(v) = n - i
    BY ONLY <1>3, <1>5, n \in Nat
  <2> QED BY ONLY <1>5, <2>1, <2>2
<1> QED BY <1>1, <1>4, <1>5, <1>6, <1>7

(* What an equation comes to.                                              *)
Result(op, u, v) == IF op = "/" /\ Value(v) = 0 THEN Zero ELSE <<op, Value(u), Value(v)>>

LEMMA ApplyIs ==
  ASSUME NEW op \in Ops, NEW u, NEW v
  PROVE  Apply(op, Value(u), Value(v)) = Result(op, u, v)
BY DEF Apply, Result

Chars == Typed \union {"\n", "nul", "?"}

LEMMA ArgumentSolved ==
  ASSUME NEW line \in Seq(Typed), NEW i \in 1 .. Len(line), line[i] \in Ops,
         NEW u, u = Trimmed(SubSeq(line, 1, i - 1)), Numeral(u),
         NEW v, v = Trimmed(SubSeq(line, i + 1, Len(line))), Numeral(v)
  PROVE  find_answer(Append(line, "nul")) = Result(line[i], u, v)
<1> DEFINE b  == Append(line, "nul")
           s1 == SubSeq(line, 1, i - 1)
           s2 == SubSeq(line, i + 1, Len(line))
<1>1. PICK n \in Nat : n = Len(line)
  BY ONLY line \in Seq(Typed), LenProperties
<1>2. i \in 1 .. n /\ line \in Seq(Chars)
  BY <1>1 DEF Chars
<1>3. /\ b \in Seq(Chars) /\ Len(b) = n + 1 /\ b[n + 1] = "nul"
      /\ \A k \in 1 .. n : b[k] = line[k]
  BY <1>1, <1>2 DEF Chars
<1> HIDE DEF b
<1>4. /\ s1 \in Seq(Chars) /\ Len(s1) = i - 1 /\ \A k \in 1 .. i - 1 : s1[k] = line[k]
      /\ s2 \in Seq(Chars) /\ Len(s2) = n - i /\ \A k \in 1 .. n - i : s2[k] = line[i + k]
  BY <1>1, <1>2, Parts
<1>5. u # <<>> /\ v # <<>>
  BY DEF Numeral
<1>6. u = Trimmed(s1) /\ v = Trimmed(s2)
  OBVIOUS
<1> HIDE DEF s1, s2
<1>7. PICK p \in 1 .. Len(s1) :
        /\ u \in Seq(Chars) /\ p + Len(u) <= Len(s1) + 1
        /\ Blank(s1, 1, p - 1) /\ At(s1, p, u) /\ Blank(s1, p + Len(u), Len(s1))
  BY ONLY <1>4, <1>5, <1>6, TrimmedIs
<1>8. PICK q \in 1 .. Len(s2) :
        /\ v \in Seq(Chars) /\ q + Len(v) <= Len(s2) + 1
        /\ Blank(s2, 1, q - 1) /\ At(s2, q, v) /\ Blank(s2, q + Len(v), Len(s2))
  BY ONLY <1>4, <1>5, <1>6, TrimmedIs
<1>9. PICK l1 \in Nat, l2 \in Nat : l1 = Len(u) /\ l2 = Len(v)
  BY ONLY <1>7, <1>8, LenProperties
<1>10. PICK p2 \in Nat : p2 = i + q
  BY <1>2
<1>11. /\ p \in Nat /\ i \in Nat /\ q \in Nat /\ n \in Nat /\ l1 \in Nat /\ l2 \in Nat /\ p2 \in Nat
       /\ 1 <= p /\ p + l1 <= i /\ 1 <= q /\ (i + q) + l2 <= n + 1
       /\ p < i /\ 1 <= i /\ i + q <= n /\ p2 = i + q
  <2>1. p \in 1 .. i - 1 /\ q \in 1 .. n - i
    BY ONLY <1>4, p \in 1 .. Len(s1), q \in 1 .. Len(s2)
  <2>2. p + l1 <= (i - 1) + 1 /\ (q + l2) <= (n - i) + 1
    BY ONLY <1>4, <1>7, <1>8, <1>9
  <2>3. p + l1 <= i
    BY ONLY <1>2, <1>9, <2>1, <2>2
  <2>4. /\ p \in Nat /\ i \in Nat /\ q \in Nat /\ 1 <= p /\ p < i /\ 1 <= i /\ 1 <= q
        /\ i + q <= n /\ (i + q) + l2 <= n + 1
    BY ONLY <1>1, <1>2, <1>9, <2>1, <2>2
  <2> QED BY ONLY <1>1, <1>9, <1>10, <2>3, <2>4
<1>12. \A k \in 1 .. i - 1 : b[k] = s1[k]
  <2>1. \A k \in 1 .. i - 1 : k \in 1 .. n
    BY ONLY <1>11
  <2> QED BY ONLY <1>3, <1>4, <2>1
<1>13. \A k \in 1 .. n - i : b[i + k] = s2[k]
  <2>1. \A k \in 1 .. n - i : i + k \in 1 .. n
    BY ONLY <1>11
  <2> QED BY ONLY <1>3, <1>4, <2>1
<1>14. Blank(b, 1, p - 1) /\ At(b, p, u) /\ Blank(b, p + Len(u), i - 1)
  <2>1. \A k \in 1 .. p - 1 : k \in 1 .. i - 1
    BY ONLY <1>11
  <2>2. \A k \in 1 .. l1 : p + k - 1 \in 1 .. i - 1
    BY ONLY <1>11
  <2>3. \A k \in p + l1 .. i - 1 : k \in 1 .. i - 1
    BY ONLY <1>11
  <2>4. Blank(b, 1, p - 1)
    BY ONLY <1>7, <1>12, <2>1 DEF Blank
  <2>5. At(b, p, u)
    BY ONLY <1>7, <1>9, <1>12, <2>2 DEF At
  <2>6. Blank(b, p + Len(u), i - 1)
    BY ONLY <1>4, <1>7, <1>9, <1>12, <2>3 DEF Blank
  <2> QED BY <2>4, <2>5, <2>6
<1>15. Blank(b, i + 1, p2 - 1)
  <2> SUFFICES ASSUME NEW k \in i + 1 .. p2 - 1 PROVE b[k] = " "
    BY DEF Blank
  <2>1. PICK j \in 1 .. q - 1 : k = i + j /\ j \in 1 .. n - i
    <3>1. k - i \in 1 .. q - 1 /\ k = i + (k - i) /\ k - i \in 1 .. n - i
      BY ONLY <1>11, k \in i + 1 .. p2 - 1
    <3> QED BY ONLY <3>1
  <2>2. s2[j] = " "
    BY ONLY <1>8, j \in 1 .. q - 1 DEF Blank
  <2> QED BY ONLY <1>13, <2>1, <2>2
<1>16. At(b, p2, v)
  <2> SUFFICES ASSUME NEW k \in 1 .. l2 PROVE b[p2 + k - 1] = v[k]
    BY <1>9 DEF At
  <2>1. q + k - 1 \in 1 .. n - i /\ p2 + k - 1 = i + (q + k - 1)
    BY ONLY <1>11, k \in 1 .. l2
  <2>2. s2[q + k - 1] = v[k]
    BY ONLY <1>8, <1>9, k \in 1 .. l2 DEF At
  <2>3. b[i + (q + k - 1)] = s2[q + k - 1]
    BY ONLY <1>13, <2>1
  <2> QED BY ONLY <2>1, <2>2, <2>3
<1>17. b[p2 + Len(v)] \in {" ", "nul"}
  <2>1. p2 + l2 = n + 1 \/ (q + l2 \in q + l2 .. n - i /\ q + l2 \in 1 .. n - i /\ p2 + l2 = i + (q + l2))
    BY ONLY <1>11
  <2>2. CASE p2 + l2 = n + 1
    BY <1>3, <1>9, <2>2
  <2>3. CASE q + l2 \in q + l2 .. n - i /\ q + l2 \in 1 .. n - i /\ p2 + l2 = i + (q + l2)
    <3>1. s2[q + l2] = " "
      BY ONLY <1>4, <1>8, <1>9, <2>3 DEF Blank
    <3>2. b[i + (q + l2)] = s2[q + l2]
      BY ONLY <1>13, <2>3
    <3> QED BY ONLY <1>9, <2>3, <3>1, <3>2
  <2> QED BY <2>1, <2>2, <2>3
<1>18. b[i] \in Ops /\ b[i] = line[i]
  BY <1>3, <1>11
<1>19. /\ p \in Nat /\ i \in Nat /\ p > 0 /\ p + Len(u) <= i /\ i < p2
       /\ p2 + Len(v) <= Len(b)
  <2>1. p \in Nat /\ i \in Nat /\ p > 0 /\ p + l1 <= i /\ i < p2 /\ p2 + l2 <= n + 1
    BY ONLY <1>11
  <2> QED BY ONLY <1>3, <1>9, <2>1
<1>20. find_answer(b) = Apply(b[i], Value(u), Value(v))
  <2>1. b \in Seq(Chars) /\ u \in Seq(Chars) /\ v \in Seq(Chars)
    BY ONLY <1>3, <1>7, <1>8
  <2>2. Equation(b, p, u, i, p2, v)
    BY ONLY <1>14, <1>15, <1>16, <1>17, <1>18, <1>19, p2 \in Nat DEF Equation
  <2> QED BY ONLY <2>1, <2>2, Numeral(u), Numeral(v), AnswerIs
<1> QED BY <1>18, <1>20, ApplyIs DEF b

(* A string laid over the start of a buffer.                               *)
LEMMA OverlayIs ==
  ASSUME NEW X, NEW b \in Seq(X), NEW s \in Seq(X), Len(s) <= Len(b), NEW r, r = Overlay(b, s)
  PROVE  /\ r \in Seq(X) /\ Len(r) = Len(b)
         /\ \A k \in 1 .. Len(s) : r[k] = s[k]
<1> DEFINE t == SubSeq(b, Len(s) + 1, Len(b))
<1>1. PICK n \in Nat, m \in Nat : n = Len(b) /\ m = Len(s)
  BY LenProperties
<1>2. m <= n
  BY <1>1
<1>3. t \in Seq(X) /\ Len(t) = IF m + 1 <= n THEN n - (m + 1) + 1 ELSE 0
  <2>1. m + 1 \in Int /\ n \in Int /\ \A k \in m + 1 .. n : k \in 1 .. n
    BY ONLY m \in Nat, n \in Nat
  <2>2. \A k \in m + 1 .. n : b[k] \in X
    BY ONLY <1>1, <2>1, b \in Seq(X), ElementOfSeq
  <2>3. t = SubSeq(b, m + 1, n)
    BY ONLY <1>1
  <2> QED BY ONLY <2>1, <2>2, <2>3, SubSeqProperties
<1>4. r = s \o t
  BY DEF Overlay
<1> HIDE DEF t
<1>5. Len(t) = n - m
  BY ONLY <1>2, <1>3, m \in Nat, n \in Nat
<1>6. /\ r \in Seq(X) /\ Len(r) = m + (n - m)
      /\ \A k \in 1 .. m + (n - m) : r[k] = IF k <= m THEN s[k] ELSE t[k - m]
  BY ONLY <1>1, <1>3, <1>4, <1>5, s \in Seq(X), ConcatProperties
<1>7. m + (n - m) = n /\ \A k \in 1 .. m : k <= m /\ k \in 1 .. m + (n - m)
  BY ONLY <1>2, m \in Nat, n \in Nat
<1>8. \A k \in 1 .. m : r[k] = s[k]
  BY ONLY <1>6, <1>7
<1> QED BY ONLY <1>1, <1>6, <1>7, <1>8

(* The characters of a line that are not symbols, its end aside.           *)
Solvable == Digits \union Ops \union {" "}

(* The buffer keeps its length, when a character ends the line within it.  *)
LEMMA ParsedType ==
  ASSUME NEW b \in Seq(Chars), NEW n \in 1 .. Len(b), b[n] \notin Solvable
  PROVE  parse_equation_str(b) \in Seq(Chars) /\ Len(parse_equation_str(b)) = Len(b)
<1> DEFINE stop == Past(b, 1, Solvable)
           line == SubSeq(b, 1, stop - 1)
           kept == Without(line, Blanks)
<1>1. PICK l \in Nat : l = Len(b)
  BY ONLY b \in Seq(Chars), LenProperties
<1>2. stop \in 1 .. l /\ stop <= n
  <2>0. 1 \in 1 .. l + 1 /\ n \in 1 .. l
    BY ONLY <1>1, n \in 1 .. Len(b)
  <2>1. "?" \notin Solvable
    BY DEF Solvable, Digits, Ops
  <2> HIDE DEF stop
  <2>2. stop \in 1 .. l + 1 /\ \A k \in 1 .. stop - 1 : Char(b, k) \in Solvable
    BY ONLY <1>1, <2>0, <2>1, b \in Seq(Chars), PastIs DEF stop
  <2>3. Char(b, n) = b[n]
    BY ONLY <1>1, <2>0 DEF Char
  <2>4. ~ (n < stop)
    <3>1. n < stop => n \in 1 .. stop - 1
      BY ONLY <2>0, <2>2, l \in Nat
    <3> QED BY ONLY <2>2, <2>3, <3>1, b[n] \notin Solvable
  <2> QED BY ONLY <2>0, <2>2, <2>4, l \in Nat
<1>3. line \in Seq(Chars) /\ Len(line) = stop - 1
  <2> HIDE DEF stop
  <2>1. stop \in 1 .. Len(b)
    BY <1>1, <1>2
  <2> QED BY ONLY <2>1, b \in Seq(Chars), Parts
<1>4. kept \in Seq(Chars) /\ Len(kept) <= Len(line)
  <2> HIDE DEF line
  <2> QED BY ONLY <1>3, WithoutIs
<1>5. parse_equation_str(b) = IF b[1] = "nul" THEN b
                              ELSE Overlay(b, IF b[stop] = "x" THEN kept ELSE Append(kept, "nul"))
  BY ONLY DEF parse_equation_str, Solvable
<1> HIDE DEF kept, line, stop
<1>6. /\ Append(kept, "nul") \in Seq(Chars) /\ Len(Append(kept, "nul")) = Len(kept) + 1
      /\ Len(kept) \in Nat
  <2>1. "nul" \in Chars
    BY DEF Chars
  <2> QED BY ONLY <1>4, <2>1
<1>7. Len(kept) <= Len(b) /\ Len(Append(kept, "nul")) <= Len(b)
  BY ONLY <1>1, <1>2, <1>3, <1>4, <1>6
<1>8. CASE b[1] = "nul"
  BY <1>5, <1>8
<1>9. CASE b[1] # "nul" /\ b[stop] = "x"
  <2>1. parse_equation_str(b) = Overlay(b, kept)
    BY <1>5, <1>9
  <2> QED BY ONLY <1>4, <1>7, <2>1, b \in Seq(Chars), OverlayIs
<1>10. CASE b[1] # "nul" /\ b[stop] # "x"
  <2>1. parse_equation_str(b) = Overlay(b, Append(kept, "nul"))
    BY <1>5, <1>10
  <2> DEFINE new == Append(kept, "nul")
  <2>2. new \in Seq(Chars) /\ Len(new) <= Len(b) /\ parse_equation_str(b) = Overlay(b, new)
    BY <1>6, <1>7, <2>1
  <2> HIDE DEF new
  <2> QED BY ONLY <2>2, b \in Seq(Chars), OverlayIs
<1> QED BY <1>8, <1>9, <1>10

(* A character that is not in S stays.                                     *)
LEMMA WithoutOne ==
  ASSUME NEW X, NEW c \in X, NEW S, c \notin S
  PROVE  Without(<<c>>, S) = <<c>>
<1> DEFINE s == <<c>>
           w == Stripping(s, S)
<1>1. s \in Seq(X) /\ Len(s) = 1 /\ s[1] = c /\ Append(<<>>, c) = s
  OBVIOUS
<1> HIDE DEF s
<1>0. s \in Seq(X)
  BY <1>1
<1>2. /\ Without(s, S) = w[Len(s)] /\ w[0] = <<>>
      /\ \A k \in 1 .. Len(s) : w[k] = IF s[k] \in S THEN w[k - 1] ELSE Append(w[k - 1], s[k])
  BY <1>0, StrippingDef
<1> HIDE DEF w
<1>3. 1 \in 1 .. Len(s) /\ 1 - 1 = 0
  BY <1>1
<1>4. w[1] = IF s[1] \in S THEN w[1 - 1] ELSE Append(w[1 - 1], s[1])
  BY <1>2, <1>3
<1>5. Without(s, S) = s
  BY ONLY <1>1, <1>2, <1>3, <1>4, c \notin S
<1> QED BY <1>5 DEF s

(* A string is its part up to a character, this character, and the rest.   *)
LEMMA PartsJoined ==
  ASSUME NEW X, NEW s \in Seq(X), NEW i \in 1 .. Len(s)
  PROVE  s = (SubSeq(s, 1, i - 1) \o <<s[i]>>) \o SubSeq(s, i + 1, Len(s))
<1> DEFINE c == <<s[i]>>
           u == SubSeq(s, 1, i - 1)
           v == SubSeq(s, i + 1, Len(s))
<1>1. PICK n \in Nat : n = Len(s)
  BY ONLY s \in Seq(X), LenProperties
<1>2. i \in 1 .. n
  BY ONLY <1>1, i \in 1 .. Len(s)
<1>3. /\ u \in Seq(X) /\ Len(u) = i - 1 /\ \A k \in 1 .. i - 1 : u[k] = s[k]
      /\ v \in Seq(X) /\ Len(v) = n - i /\ \A k \in 1 .. n - i : v[k] = s[i + k]
  BY <1>1, Parts
<1> HIDE DEF u, v
<1>4. c \in Seq(X) /\ Len(c) = 1 /\ c[1] = s[i]
  BY ElementOfSeq
<1> HIDE DEF c
<1>5. /\ u \o c \in Seq(X) /\ Len(u \o c) = (i - 1) + 1
      /\ \A k \in 1 .. (i - 1) + 1 : (u \o c)[k] = IF k <= i - 1 THEN u[k] ELSE c[k - (i - 1)]
  <2>1. /\ u \o c \in Seq(X) /\ Len(u \o c) = Len(u) + Len(c)
        /\ \A k \in 1 .. Len(u) + Len(c) : (u \o c)[k] = IF k <= Len(u) THEN u[k] ELSE c[k - Len(u)]
    BY ONLY <1>3, <1>4, ConcatProperties
  <2> QED BY ONLY <1>3, <1>4, <2>1
<1>6. /\ u \o c \in Seq(X) /\ Len(u \o c) = i /\ (u \o c)[i] = s[i]
      /\ \A k \in 1 .. i - 1 : (u \o c)[k] = s[k]
  <2>1. (i - 1) + 1 = i /\ i \in 1 .. i /\ ~ (i <= i - 1) /\ i - (i - 1) = 1
        /\ \A k \in 1 .. i - 1 : k \in 1 .. i /\ k <= i - 1
    BY ONLY <1>2, n \in Nat
  <2> QED BY ONLY <1>3, <1>4, <1>5, <2>1
<1> DEFINE w == u \o c
           t == w \o v
<1> HIDE DEF w
<1>7. /\ t \in Seq(X) /\ Len(t) = i + (n - i)
      /\ \A k \in 1 .. i + (n - i) : t[k] = IF k <= i THEN w[k] ELSE v[k - i]
  <2>1. w \in Seq(X) /\ Len(w) = i
    BY ONLY <1>6 DEF w
  <2>2. /\ t \in Seq(X) /\ Len(t) = Len(w) + Len(v)
        /\ \A k \in 1 .. Len(w) + Len(v) : t[k] = IF k <= Len(w) THEN w[k] ELSE v[k - Len(w)]
    <3>1. v \in Seq(X) /\ w \in Seq(X)
      BY ONLY <1>3, <2>1
    <3> HIDE DEF v
    <3> QED BY ONLY <3>1, ConcatProperties
  <2> QED BY ONLY <1>3, <2>1, <2>2
<1>8. \A k \in 1 .. n : t[k] = s[k]
  <2> HIDE DEF t
  <2> SUFFICES ASSUME NEW k \in 1 .. n PROVE t[k] = s[k]
    OBVIOUS
  <2>1. k \in 1 .. i + (n - i)
    BY ONLY <1>2, n \in Nat, k \in 1 .. n
  <2>2. CASE k \in 1 .. i - 1
    <3>1. k <= i
      BY ONLY <1>2, <2>2, n \in Nat
    <3> QED BY ONLY <1>6, <1>7, <2>1, <2>2, <3>1 DEF w
  <2>3. CASE k = i
    <3>1. k <= i
      BY ONLY <1>2, <2>3, n \in Nat
    <3> QED BY ONLY <1>6, <1>7, <2>1, <2>3, <3>1 DEF w
  <2>4. CASE k > i
    <3>1. ~ (k <= i) /\ k - i \in 1 .. n - i /\ i + (k - i) = k
      BY ONLY <1>2, <2>4, n \in Nat, k \in 1 .. n
    <3> QED BY ONLY <1>3, <1>7, <2>1, <3>1
  <2>5. k \in 1 .. i - 1 \/ k = i \/ k > i
    BY ONLY <1>2, n \in Nat, k \in 1 .. n
  <2> QED BY <2>2, <2>3, <2>4, <2>5
<1>9. Len(t) = Len(s) /\ \A k \in 1 .. Len(t) : t[k] = s[k]
  <2>1. i + (n - i) = n
    BY ONLY <1>2, n \in Nat
  <2> QED BY ONLY <1>1, <1>7, <1>8, <2>1
<1>10. t = s
  <2> HIDE DEF t
  <2> QED BY ONLY <1>7, <1>9, s \in Seq(X), SeqEqual
<1> QED BY <1>10 DEF w, c, u, v

(* An equation has digits, operations and spaces only.                     *)
LEMMA EquationChars ==
  ASSUME NEW line \in Seq(Typed), NEW i \in 1 .. Len(line), line[i] \in Ops,
         Numeral(Stripped(SubSeq(line, 1, i - 1))),
         Numeral(Stripped(SubSeq(line, i + 1, Len(line))))
  PROVE  \A k \in 1 .. Len(line) : line[k] \in Solvable
<1> DEFINE s1 == SubSeq(line, 1, i - 1)
           s2 == SubSeq(line, i + 1, Len(line))
<1>1. PICK n \in Nat : n = Len(line)
  BY ONLY line \in Seq(Typed), LenProperties
<1>2. i \in 1 .. n
  BY <1>1
<1>3. /\ s1 \in Seq(Typed) /\ Len(s1) = i - 1 /\ \A k \in 1 .. i - 1 : s1[k] = line[k]
      /\ s2 \in Seq(Typed) /\ Len(s2) = n - i /\ \A k \in 1 .. n - i : s2[k] = line[i + k]
  BY <1>1, Parts
<1>4. Numeral(Stripped(s1)) /\ Numeral(Stripped(s2))
  OBVIOUS
<1> HIDE DEF s1, s2
<1>5. ASSUME NEW s \in Seq(Typed), Numeral(Stripped(s)), NEW k \in 1 .. Len(s)
      PROVE  s[k] \in Solvable
  <2> DEFINE space == {" "}
             m == Without(s, space)
  <2>1. m \in Seq(Typed) /\ Numeral(m)
    <3>1. m = Stripped(s)
      BY DEF Stripped
    <3> HIDE DEF space
    <3>2. m \in Seq(Typed)
      BY WithoutIs
    <3> QED BY <1>5, <3>1, <3>2
  <2>2. k \in DOMAIN s
    OBVIOUS
  <2>3. s[k] # " " => \E j \in DOMAIN m : m[j] = s[k]
    <3>1. s[k] # " " => s[k] \notin space
      OBVIOUS
    <3> HIDE DEF space
    <3>2. s[k] \notin space => \E j \in DOMAIN m : m[j] = s[k]
      BY ONLY s \in Seq(Typed), <2>2, WithoutIs
    <3> QED BY ONLY <3>1, <3>2
  <2> HIDE DEF m
  <2>4. \A j \in DOMAIN m : m[j] \in Signs \union Digits
    BY ONLY <2>1, NumeralChars
  <2>5. Signs \union Digits \subseteq Solvable /\ " " \in Solvable
    BY DEF Signs, Digits, Ops, Solvable
  <2> QED BY ONLY <2>3, <2>4, <2>5
<1>6. ASSUME NEW k \in 1 .. n PROVE line[k] \in Solvable
  <2>1. k \in 1 .. i - 1 \/ k = i \/ (k - i \in 1 .. n - i /\ i + (k - i) = k)
    BY ONLY <1>2, n \in Nat, k \in 1 .. n
  <2>2. CASE k \in 1 .. i - 1
    BY ONLY <1>3, <1>4, <1>5, <2>2
  <2>3. CASE k = i
    BY <2>3 DEF Solvable
  <2>4. CASE k - i \in 1 .. n - i /\ i + (k - i) = k
    <3>1. PICK j \in 1 .. Len(s2) : i + j = k
      BY ONLY <1>3, <2>4
    <3>2. s2[j] = line[k]
      BY ONLY <1>3, <3>1
    <3>3. s2[j] \in Solvable
      BY ONLY <1>3, <1>4, <1>5
    <3> QED BY <3>2, <3>3
  <2> QED BY <2>1, <2>2, <2>3, <2>4
<1> QED BY <1>1, <1>6

(* A line as strcpy leaves it in the buffer.                               *)
LEMMA CopiedIs ==
  ASSUME NEW b \in Seq(Chars), NEW line \in Seq(Typed), Len(line) + 2 <= Len(b),
         NEW c, c = Overlay(b, line \o <<"\n", "nul">>)
  PROVE  /\ c \in Seq(Chars) /\ Len(c) = Len(b) /\ Len(line) + 1 \in 1 .. Len(c)
         /\ c[Len(line) + 1] = "\n" /\ \A k \in 1 .. Len(line) : c[k] = line[k]
<1> DEFINE end == <<"\n", "nul">>
           w   == line \o end
<1>1. PICK n \in Nat, l \in Nat : n = Len(line) /\ l = Len(b)
  BY LenProperties
<1>2. line \in Seq(Chars)
  BY DEF Chars
<1>3. end \in Seq(Chars) /\ Len(end) = 2 /\ end[1] = "\n"
  BY DEF Chars
<1> HIDE DEF end
<1>4. /\ w \in Seq(Chars) /\ Len(w) = n + 2
      /\ \A k \in 1 .. n + 2 : w[k] = IF k <= n THEN line[k] ELSE end[k - n]
  <2>1. /\ w \in Seq(Chars) /\ Len(w) = Len(line) + Len(end)
        /\ \A k \in 1 .. Len(line) + Len(end) :
             w[k] = IF k <= Len(line) THEN line[k] ELSE end[k - Len(line)]
    BY ONLY <1>2, <1>3, ConcatProperties
  <2> QED BY ONLY <1>1, <1>3, <2>1
<1>5. w[n + 1] = "\n" /\ \A k \in 1 .. n : w[k] = line[k]
  <2>1. n + 1 \in 1 .. n + 2 /\ ~ (n + 1 <= n) /\ (n + 1) - n = 1
        /\ \A k \in 1 .. n : k \in 1 .. n + 2 /\ k <= n
    BY ONLY n \in Nat
  <2> QED BY ONLY <1>3, <1>4, <2>1
<1>6. c = Overlay(b, w)
  BY DEF end
<1> HIDE DEF w
<1>7. n + 2 <= l
  BY <1>1
<1>8. /\ c \in Seq(Chars) /\ Len(c) = l /\ \A k \in 1 .. n + 2 : c[k] = w[k]
  <2>1. Len(w) <= Len(b)
    BY ONLY <1>1, <1>4, <1>7
  <2>2. c \in Seq(Chars) /\ Len(c) = Len(b) /\ \A k \in 1 .. Len(w) : c[k] = w[k]
    BY ONLY <1>4, <1>6, <2>1, b \in Seq(Chars), OverlayIs, SMTT(20)
  <2> QED BY ONLY <1>1, <1>4, <2>2
<1>9. n + 1 \in 1 .. n + 2 /\ n + 1 \in 1 .. l /\ \A k \in 1 .. n : k \in 1 .. n + 2
  BY ONLY <1>7, n \in Nat, l \in Nat
<1> QED BY ONLY <1>1, <1>5, <1>8, <1>9

(* The server's answer to an equation.                                     *)
LEMMA LineSolved ==
  ASSUME NEW b \in Seq(Chars), NEW line \in Seq(Typed), Len(line) + 2 <= Len(b),
         NEW c, c = Overlay(b, line \o <<"\n", "nul">>),
         NEW i \in 1 .. Len(line), line[i] \in Ops,
         NEW u, u = Stripped(SubSeq(line, 1, i - 1)), Numeral(u),
         NEW v, v = Stripped(SubSeq(line, i + 1, Len(line))), Numeral(v)
  PROVE  find_answer(parse_equation_str(c)) = Result(line[i], u, v)
<1> DEFINE op   == line[i]
           stop == Past(c, 1, Solvable)
           kept == Without(SubSeq(c, 1, stop - 1), Blanks)
           space == {" "}
           r    == parse_equation_str(c)
<1>1. PICK n \in Nat, l \in Nat : n = Len(line) /\ l = Len(b)
  BY LenProperties
<1>2. i \in 1 .. n /\ n + 2 <= l
  BY <1>1
<1>3. /\ c \in Seq(Chars) /\ Len(c) = l /\ n + 1 \in 1 .. l
      /\ c[n + 1] = "\n" /\ \A k \in 1 .. n : c[k] = line[k]
  <2>1. /\ c \in Seq(Chars) /\ Len(c) = Len(b) /\ Len(line) + 1 \in 1 .. Len(c)
        /\ c[Len(line) + 1] = "\n" /\ \A k \in 1 .. Len(line) : c[k] = line[k]
    BY ONLY b \in Seq(Chars), line \in Seq(Typed), Len(line) + 2 <= Len(b),
            c = Overlay(b, line \o <<"\n", "nul">>), CopiedIs
  <2> QED BY ONLY <1>1, <2>1
<1>4. \A k \in 1 .. n : line[k] \in Solvable /\ line[k] \in Typed
  <2>1. \A k \in 1 .. Len(line) : line[k] \in Solvable
    BY EquationChars
  <2>2. \A k \in 1 .. Len(line) : line[k] \in Typed
    BY ElementOfSeq
  <2> QED BY <1>1, <2>1, <2>2
<1>5. stop = n + 1
  <2>1. PICK e \in Nat : e = n + 1
    BY ONLY n \in Nat
  <2>2. Char(c, e) = "\n" /\ "\n" \notin Solvable
    <3>1. e <= Len(c)
      BY ONLY <1>3, <2>1
    <3> QED BY ONLY <1>3, <2>1, <3>1 DEF Char, Solvable, Digits, Ops
  <2>3. \A k \in 1 .. e - 1 : Char(c, k) \in Solvable
    <3>1. \A k \in 1 .. e - 1 : k \in 1 .. n /\ k <= l
      BY ONLY <1>2, <2>1, n \in Nat, l \in Nat
    <3> QED BY ONLY <1>3, <1>4, <3>1 DEF Char
  <2>4. Len(c) \in Nat /\ 1 \in Nat /\ e \in 1 .. Len(c) + 1
    BY ONLY <1>3, <2>1, l \in Nat
  <2>5. Past(c, 1, Solvable) = e
    BY ONLY <2>2, <2>3, <2>4, PastEquals
  <2> QED BY <2>1, <2>5
<1>6. SubSeq(c, 1, stop - 1) = line
  <2> DEFINE s == SubSeq(c, 1, (n + 1) - 1)
  <2>1. PICK e \in 1 .. Len(c) : e = n + 1
    BY <1>3
  <2>2. s = SubSeq(c, 1, e - 1)
    BY <2>1
  <2> HIDE DEF s
  <2>3. s \in Seq(Chars) /\ Len(s) = e - 1 /\ \A k \in 1 .. e - 1 : s[k] = c[k]
    BY ONLY <1>3, <2>2, e \in 1 .. Len(c), Parts
  <2>4. e - 1 = n
    BY ONLY <2>1, n \in Nat
  <2>5. line \in Seq(Chars)
    BY DEF Chars
  <2>6. Len(s) = Len(line) /\ \A k \in 1 .. Len(s) : s[k] = line[k]
    BY ONLY <1>1, <1>3, <2>3, <2>4
  <2>7. s = line
    BY ONLY <2>3, <2>5, <2>6, SeqEqual
  <2> HIDE DEF stop
  <2> QED BY <1>5, <2>7 DEF s
<1>7. r = IF c[1] = "nul" THEN c
          ELSE Overlay(c, IF c[stop] = "x" THEN kept ELSE Append(kept, "nul"))
  BY ONLY DEF parse_equation_str, Solvable
<1> HIDE DEF stop, r
<1>8. kept = Without(line, Blanks)
  BY ONLY <1>6
<1> HIDE DEF kept
<1>9. r = Overlay(c, Append(kept, "nul"))
  <2>1. c[1] # "nul"
    <3>1. 1 \in 1 .. n
      BY ONLY <1>2, n \in Nat
    <3>2. c[1] = line[1] /\ line[1] \in Typed
      BY ONLY <1>3, <1>4, <3>1
    <3> QED BY ONLY <3>2 DEF Typed
  <2>2. c[stop] = "\n"
    BY ONLY <1>3, <1>5
  <2> QED BY ONLY <1>7, <2>1, <2>2
<1>10. kept = Without(line, space)
  <2>1. \A k \in 1 .. n : line[k] \in Blanks <=> line[k] \in space
    BY ONLY <1>4 DEF Blanks, Typed
  <2>2. DOMAIN line = 1 .. n
    BY ONLY <1>1, line \in Seq(Typed), LenProperties
  <2>3. \A k \in DOMAIN line : line[k] \in Blanks <=> line[k] \in space
    BY ONLY <2>1, <2>2
  <2> HIDE DEF space
  <2>4. Without(line, Blanks) = Without(line, space)
    BY ONLY <2>3, line \in Seq(Typed), WithoutSame
  <2> QED BY ONLY <1>8, <2>4
<1> DEFINE s1 == SubSeq(line, 1, i - 1)
           s2 == SubSeq(line, i + 1, Len(line))
<1>11. u = Without(s1, space) /\ v = Without(s2, space)
  BY DEF Stripped
<1>12. op \in Ops /\ op \notin space /\ op \in Typed
  BY DEF Ops, Typed
<1>13. s1 \in Seq(Typed) /\ s2 \in Seq(Typed)
  BY ONLY line \in Seq(Typed), i \in 1 .. Len(line), Parts
<1>14. line = (s1 \o <<op>>) \o s2
  BY ONLY line \in Seq(Typed), i \in 1 .. Len(line), PartsJoined
<1> HIDE DEF s1, s2, op, space
<1>15. kept = (u \o <<op>>) \o v
  <2> DEFINE one  == <<op>>
             left == s1 \o one
  <2>1. one \in Seq(Typed) /\ left \in Seq(Typed)
    BY ONLY <1>12, <1>13
  <2>2. Without(one, space) = one
    BY ONLY <1>12, WithoutOne
  <2>3. line = left \o s2
    BY ONLY <1>14
  <2> HIDE DEF one
  <2>0. \A x, y \in Seq(Typed) : Without(x \o y, space) = Without(x, space) \o Without(y, space)
    BY ONLY WithoutJoined
  <2>4. Without(left, space) = Without(s1, space) \o Without(one, space)
    BY ONLY <1>13, <2>0, <2>1, Zenon
  <2> HIDE DEF left
  <2>5. Without(left \o s2, space) = Without(left, space) \o Without(s2, space)
    BY ONLY <1>13, <2>0, <2>1, Zenon
  <2>6. kept = (u \o one) \o v
    BY ONLY <1>10, <1>11, <2>2, <2>3, <2>4, <2>5
  <2> QED BY ONLY <2>6 DEF one
<1>16. u \in Seq(Typed) /\ v \in Seq(Typed) /\ kept \in Seq(Typed) /\ Len(kept) <= n
  <2>1. Without(line, space) \in Seq(Typed) /\ Len(Without(line, space)) <= Len(line)
    BY ONLY line \in Seq(Typed), WithoutIs
  <2>2. Without(s1, space) \in Seq(Typed) /\ Without(s2, space) \in Seq(Typed)
    BY ONLY <1>13, WithoutIs
  <2> QED BY ONLY <1>1, <1>10, <1>11, <2>1, <2>2
<1>17. PICK l1 \in Nat, l2 \in Nat : l1 = Len(u) /\ l2 = Len(v)
  BY ONLY <1>16, LenProperties
<1>18. /\ Len(kept) = (l1 + 1) + l2 /\ kept[l1 + 1] = op
       /\ \A k \in 1 .. l1 : kept[k] = u[k]
       /\ \A k \in 1 .. l2 : kept[(l1 + 1) + k] = v[k]
  <2> DEFINE one == <<op>>
             w   == u \o one
  <2>1. one \in Seq(Typed) /\ Len(one) = 1 /\ one[1] = op
    BY ONLY <1>12
  <2>2. kept = w \o v
    BY ONLY <1>15
  <2> HIDE DEF one
  <2>3. /\ w \in Seq(Typed) /\ Len(w) = l1 + 1
        /\ \A k \in 1 .. l1 + 1 : w[k] = IF k <= l1 THEN u[k] ELSE one[k - l1]
    <3>1. /\ w \in Seq(Typed) /\ Len(w) = Len(u) + Len(one)
          /\ \A k \in 1 .. Len(u) + Len(one) : w[k] = IF k <= Len(u) THEN u[k] ELSE one[k - Len(u)]
      BY ONLY <1>16, <2>1, ConcatProperties
    <3> QED BY ONLY <1>17, <2>1, <3>1
  <2> HIDE DEF w
  <2>4. /\ Len(kept) = (l1 + 1) + l2
        /\ \A k \in 1 .. (l1 + 1) + l2 : kept[k] = IF k <= l1 + 1 THEN w[k] ELSE v[k - (l1 + 1)]
    <3>1. /\ Len(kept) = Len(w) + Len(v)
          /\ \A k \in 1 .. Len(w) + Len(v) : kept[k] = IF k <= Len(w) THEN w[k] ELSE v[k - Len(w)]
      BY ONLY <1>16, <2>2, <2>3, ConcatProperties
    <3> QED BY ONLY <1>17, <2>3, <3>1
  <2>5. /\ l1 + 1 \in 1 .. l1 + 1 /\ ~ (l1 + 1 <= l1) /\ (l1 + 1) - l1 = 1
        /\ l1 + 1 <= l1 + 1 /\ l1 + 1 \in 1 .. (l1 + 1) + l2
    BY ONLY l1 \in Nat, l2 \in Nat
  <2>6. \A k \in 1 .. l1 : k <= l1 /\ k <= l1 + 1 /\ k \in 1 .. l1 + 1 /\ k \in 1 .. (l1 + 1) + l2
    BY ONLY l1 \in Nat, l2 \in Nat
  <2>7. \A k \in 1 .. l2 : /\ (l1 + 1) + k \in 1 .. (l1 + 1) + l2 /\ ~ ((l1 + 1) + k <= l1 + 1)
                           /\ ((l1 + 1) + k) - (l1 + 1) = k
    BY ONLY l1 \in Nat, l2 \in Nat
  <2>8. kept[l1 + 1] = op
    BY ONLY <2>1, <2>3, <2>4, <2>5
  <2>9. \A k \in 1 .. l1 : kept[k] = u[k]
    BY ONLY <2>3, <2>4, <2>6
  <2>10. \A k \in 1 .. l2 : kept[(l1 + 1) + k] = v[k]
    BY ONLY <2>4, <2>7
  <2> QED BY ONLY <2>4, <2>8, <2>9, <2>10
<1> DEFINE new == Append(kept, "nul")
           m   == (l1 + 1) + l2
<1>19. /\ new \in Seq(Chars) /\ Len(new) = m + 1 /\ new[m + 1] = "nul"
       /\ \A k \in 1 .. m : new[k] = kept[k]
  <2>1. kept \in Seq(Chars) /\ "nul" \in Chars
    BY <1>16 DEF Chars
  <2>2. Len(kept) = m /\ m \in Nat
    BY ONLY <1>18, l1 \in Nat, l2 \in Nat
  <2> HIDE DEF m
  <2> QED BY ONLY <2>1, <2>2
<1>20. r = Overlay(c, new)
  BY ONLY <1>9
<1> HIDE DEF new
<1>21. /\ r \in Seq(Chars) /\ Len(r) = l /\ m + 1 <= l
       /\ \A k \in 1 .. m + 1 : r[k] = new[k]
  <2>1. m + 1 <= l
    BY ONLY <1>2, <1>16, <1>18, l1 \in Nat, l2 \in Nat, n \in Nat, l \in Nat
  <2> HIDE DEF m
  <2>2. Len(new) <= Len(c)
    BY ONLY <1>3, <1>19, <2>1
  <2>3. r \in Seq(Chars) /\ Len(r) = Len(c) /\ \A k \in 1 .. Len(new) : r[k] = new[k]
    BY ONLY <1>3, <1>19, <1>20, <2>2, OverlayIs
  <2> QED BY ONLY <1>3, <1>19, <2>1, <2>3
<1>22. /\ r[l1 + 1] = op /\ r[m + 1] = "nul"
       /\ \A k \in 1 .. l1 : r[k] = u[k]
       /\ \A k \in 1 .. l2 : r[(l1 + 1) + k] = v[k]
  <2>1. /\ l1 + 1 \in 1 .. m /\ l1 + 1 \in 1 .. m + 1 /\ m + 1 \in 1 .. m + 1
        /\ \A k \in 1 .. l1 : k \in 1 .. m /\ k \in 1 .. m + 1
        /\ \A k \in 1 .. l2 : (l1 + 1) + k \in 1 .. m /\ (l1 + 1) + k \in 1 .. m + 1
    BY ONLY l1 \in Nat, l2 \in Nat
  <2> HIDE DEF m
  <2>2. \A k \in 1 .. m : k \in 1 .. m + 1 => r[k] = kept[k]
    BY ONLY <1>19, <1>21
  <2>3. r[l1 + 1] = op
    BY ONLY <1>18, <2>1, <2>2
  <2>4. \A k \in 1 .. l1 : r[k] = u[k]
    BY ONLY <1>18, <2>1, <2>2
  <2>5. \A k \in 1 .. l2 : r[(l1 + 1) + k] = v[k]
    BY ONLY <1>18, <2>1, <2>2
  <2>6. r[m + 1] = "nul"
    BY ONLY <1>19, <1>21, <2>1
  <2> QED BY ONLY <2>3, <2>4, <2>5, <2>6
<1>23. PICK o \in Nat, p2 \in Nat : o = l1 + 1 /\ p2 = l1 + 2
  BY ONLY l1 \in Nat
<1>24. Equation(r, 1, u, o, p2, v)
  <2>1. /\ 1 \in Nat /\ 1 > 0 /\ 1 + l1 <= o /\ o < p2 /\ p2 + l2 <= l
    BY ONLY <1>21, <1>23, l1 \in Nat, l2 \in Nat, l \in Nat
  <2>2. 1 .. 1 - 1 = {} /\ 1 + l1 .. o - 1 = {} /\ o + 1 .. p2 - 1 = {}
    BY ONLY <1>23, l1 \in Nat
  <2>3. Blank(r, 1, 1 - 1) /\ Blank(r, 1 + Len(u), o - 1) /\ Blank(r, o + 1, p2 - 1)
    BY ONLY <1>17, <2>2 DEF Blank
  <2>4. At(r, 1, u)
    <3>1. \A k \in 1 .. l1 : 1 + k - 1 = k
      BY ONLY l1 \in Nat
    <3> QED BY ONLY <1>17, <1>22, <3>1 DEF At
  <2>5. At(r, p2, v)
    <3>1. \A k \in 1 .. l2 : p2 + k - 1 = (l1 + 1) + k
      BY ONLY <1>23, l1 \in Nat, l2 \in Nat
    <3> QED BY ONLY <1>17, <1>22, <3>1 DEF At
  <2>6. p2 + l2 = m + 1
    BY ONLY <1>23, l1 \in Nat, l2 \in Nat
  <2>7. r[p2 + Len(v)] \in {" ", "nul"}
    <3> HIDE DEF m
    <3> QED BY ONLY <1>17, <1>22, <2>6
  <2>8. r[o] \in Ops
    BY ONLY <1>12, <1>22, <1>23
  <2>9. 1 + Len(u) <= o /\ p2 + Len(v) <= Len(r)
    BY ONLY <1>17, <1>21, <2>1
  <2> QED BY ONLY <2>1, <2>3, <2>4, <2>5, <2>7, <2>8, <2>9, o \in Nat, p2 \in Nat DEF Equation
<1>25. u \in Seq(Chars) /\ v \in Seq(Chars)
  BY <1>16 DEF Chars
<1>26. find_answer(r) = Apply(r[o], Value(u), Value(v))
  <2>1. r \in Seq(Chars)
    BY ONLY <1>21
  <2> QED BY ONLY <2>1, <1>24, <1>25, Numeral(u), Numeral(v), AnswerIs
<1>27. r[o] = op
  BY ONLY <1>22, <1>23
<1>28. find_answer(r) = Result(op, u, v)
  BY ONLY <1>12, <1>26, <1>27, ApplyIs
<1> QED BY <1>28 DEF r, op

-----------------------------------------------------------------------------
(* The server and solve_equation.                                          *)

(* What the buffer holds is a string of its length, whatever came before.  *)
SolverInv == buffer \in Seq(Chars) /\ SolverTypeOK /\ EquationsAreSolved

LEMMA SolverInitInv == SolverInit => SolverInv
<1> SUFFICES ASSUME SolverInit PROVE SolverInv
  OBVIOUS
<1>1. BufferLength \in Nat \ {0} /\ Lines \in Seq(SUBSET Seq(Typed))
  BY SolverAssumption DEF SolverAssumption
<1>2. buffer \in [1 .. BufferLength -> Chars]
  BY <1>1 DEF SolverInit, Chars
<1>3. buffer \in Seq(Chars) /\ Len(buffer) = BufferLength
  <2> DEFINE n == BufferLength
  <2>1. n \in Nat
    BY <1>1
  <2>2. buffer \in [1 .. n -> Chars]
    BY <1>2
  <2> HIDE DEF n
  <2>3. buffer \in Seq(Chars) /\ Len(buffer) = n
    BY ONLY <2>1, <2>2
  <2> QED BY <2>3 DEF n
<1>4. served \in 0 .. Len(Lines)
  <2>1. Len(Lines) \in Nat
    BY ONLY <1>1, LenProperties
  <2> QED BY <2>1 DEF SolverInit
<1>5. result \in {Zero, Unknown} \union (Ops \X Int \X Int)
  BY DEF SolverInit
<1>6. EquationsAreSolved
  BY DEF SolverInit, EquationsAreSolved, LinesAreSolved, ArgumentsAreSolved
<1> QED BY <1>3, <1>4, <1>5, <1>6 DEF SolverInv, SolverTypeOK

(* A step of the server: what it copies, strips and solves.                *)
LEMMA ServeLineInv ==
  ASSUME SolverInv, ServeLine
  PROVE  SolverInv'
<1>1. PICK line \in Lines[served + 1] :
        LET copied == Overlay(buffer, line \o <<"\n", "nul">>)
            parsed == parse_equation_str(copied)
        IN  /\ asked' = <<"server", line>>
            /\ result' = IF line = <<>> THEN result ELSE find_answer(parsed)
            /\ buffer' = [IF line = <<>> THEN copied ELSE parsed EXCEPT ![1] = "nul"]
  BY DEF ServeLine
<1> DEFINE copied == Overlay(buffer, line \o <<"\n", "nul">>)
           parsed == parse_equation_str(copied)
           kept   == IF line = <<>> THEN copied ELSE parsed
<1>2. /\ asked' = <<"server", line>>
      /\ result' = IF line = <<>> THEN result ELSE find_answer(parsed)
      /\ buffer' = [kept EXCEPT ![1] = "nul"]
  BY <1>1
<1>3. PICK n \in Nat : n = BufferLength /\ n > 0
  BY SolverAssumption DEF SolverAssumption
<1>4. PICK l \in Nat : l = Len(Lines)
  BY SolverAssumption, LenProperties DEF SolverAssumption
<1>5. served \in 0 .. l /\ served + 1 \in 1 .. l /\ served' = served + 1
  BY <1>4 DEF SolverInv, SolverTypeOK, ServeLine
<1>6. line \in Seq(Typed) /\ Len(line) + 2 <= n
  <2>1. served + 1 \in DOMAIN Lines
    BY ONLY <1>4, <1>5, SolverAssumption, LenProperties DEF SolverAssumption
  <2>2. Lines[served + 1] \in SUBSET Seq(Typed)
    BY ONLY <1>4, <1>5, SolverAssumption, ElementOfSeq DEF SolverAssumption
  <2>3. \A k \in DOMAIN Lines : \A s \in Lines[k] : Len(s) + 2 <= BufferLength
    BY SolverAssumption DEF SolverAssumption
  <2> QED BY <1>3, <2>1, <2>2, <2>3
<1>7. buffer \in Seq(Chars) /\ Len(buffer) = n
  BY <1>3 DEF SolverInv, SolverTypeOK
<1>8. /\ copied \in Seq(Chars) /\ Len(copied) = n /\ Len(line) + 1 \in 1 .. Len(copied)
      /\ copied[Len(line) + 1] = "\n"
  <2>1. Len(line) + 2 <= Len(buffer)
    BY <1>6, <1>7
  <2> QED BY ONLY <1>6, <1>7, <2>1, CopiedIs
<1>9. parsed \in Seq(Chars) /\ Len(parsed) = n
  <2>1. "\n" \notin Solvable
    BY DEF Solvable, Digits, Ops
  <2>2. PICK e \in 1 .. Len(copied) : copied[e] \notin Solvable
    BY <1>8, <2>1
  <2> HIDE DEF copied
  <2> QED BY ONLY <1>8, <2>2, ParsedType
<1>10. result' \in {Zero, Unknown} \union (Ops \X Int \X Int)
  <2> HIDE DEF parsed, copied
  <2>1. find_answer(parsed) \in {Zero, Unknown} \union (Ops \X Int \X Int)
    BY ONLY <1>9, AnswerType
  <2>2. result \in {Zero, Unknown} \union (Ops \X Int \X Int)
    BY DEF SolverInv, SolverTypeOK
  <2> QED BY <1>2, <2>1, <2>2
<1>11. buffer' \in Seq(Chars) /\ Len(buffer') = n
  <2> HIDE DEF parsed, copied
  <2>1. kept \in Seq(Chars) /\ Len(kept) = n
    BY <1>8, <1>9
  <2>2. "nul" \in Chars /\ 1 \in 1 .. Len(kept)
    BY <1>3, <2>1 DEF Chars
  <2> HIDE DEF kept
  <2>3. [kept EXCEPT ![1] = "nul"] \in Seq(Chars) /\ Len([kept EXCEPT ![1] = "nul"]) = Len(kept)
    BY ONLY <2>1, <2>2, ExceptSeq
  <2> QED BY <1>2, <2>1, <2>3
<1>12. SolverTypeOK'
  <2>1. served' \in 0 .. l
    BY <1>5
  <2>2. Lines' = Lines /\ BufferLength' = BufferLength
    OBVIOUS
  <2> QED BY <1>3, <1>4, <1>10, <1>11, <2>1 DEF SolverTypeOK
<1>13. ASSUME NEW i \in DOMAIN line, NEW u, NEW v,
              u = Stripped(SubSeq(line, 1, i - 1)), v = Stripped(SubSeq(line, i + 1, Len(line))),
              line[i] \in Ops, Numeral(u), Numeral(v)
       PROVE  result' = Result(line[i], u, v)
  <2>1. i \in 1 .. Len(line) /\ line # <<>>
    BY <1>6, <1>13, LenProperties
  <2>2. result' = find_answer(parsed)
    BY <1>2, <2>1
  <2>3. Len(line) + 2 <= Len(buffer)
    BY <1>6, <1>7
  <2>4. find_answer(parse_equation_str(copied)) = Result(line[i], u, v)
    BY ONLY <1>6, <1>7, <1>13, <2>1, <2>3, LineSolved
  <2> QED BY <2>2, <2>4
<1>14. EquationsAreSolved'
  <2>1. LinesAreSolved'
    <3>1. Means(line, Stripped, result')
      BY <1>13 DEF Means, Result
    <3> QED BY <1>2, <3>1 DEF LinesAreSolved, Means
  <2>2. ArgumentsAreSolved'
    BY <1>2 DEF ArgumentsAreSolved
  <2> QED BY <2>1, <2>2 DEF EquationsAreSolved
<1> QED BY <1>11, <1>12, <1>14 DEF SolverInv

LEMMA SolveArgumentInv ==
  ASSUME SolverInv, SolveArgument
  PROVE  SolverInv'
<1>1. PICK line \in Arguments :
        asked' = <<"solve_equation", line>> /\ result' = find_answer(Append(line, "nul"))
  BY DEF SolveArgument
<1>2. line \in Seq(Typed) /\ buffer' = buffer /\ served' = served
  BY SolverAssumption DEF SolverAssumption, SolveArgument
<1>3. result' \in {Zero, Unknown} \union (Ops \X Int \X Int)
  <2> DEFINE b == Append(line, "nul")
  <2>1. b \in Seq(Chars)
    BY <1>2 DEF Chars
  <2> HIDE DEF b
  <2>2. find_answer(b) \in {Zero, Unknown} \union (Ops \X Int \X Int)
    BY ONLY <2>1, AnswerType
  <2> QED BY <1>1, <2>2 DEF b
<1>4. ASSUME NEW i \in DOMAIN line, NEW u, NEW v,
             u = Trimmed(SubSeq(line, 1, i - 1)), v = Trimmed(SubSeq(line, i + 1, Len(line))),
             line[i] \in Ops, Numeral(u), Numeral(v)
      PROVE  result' = Result(line[i], u, v)
  <2>1. i \in 1 .. Len(line)
    BY <1>2, <1>4, LenProperties
  <2>2. find_answer(Append(line, "nul")) = Result(line[i], u, v)
    BY ONLY <1>2, <1>4, <2>1, ArgumentSolved
  <2> QED BY <1>1, <2>2
<1>5. EquationsAreSolved'
  <2>1. ArgumentsAreSolved'
    <3>1. Means(line, Trimmed, result')
      BY <1>4 DEF Means, Result
    <3> QED BY <1>1, <3>1 DEF ArgumentsAreSolved, Means
  <2>2. LinesAreSolved'
    BY <1>1 DEF LinesAreSolved
  <2> QED BY <2>1, <2>2 DEF EquationsAreSolved
<1> QED BY <1>2, <1>3, <1>5 DEF SolverInv, SolverTypeOK

LEMMA SolverNextInv == SolverInv /\ [SolverNext]_solverVars => SolverInv'
<1> SUFFICES ASSUME SolverInv, [SolverNext]_solverVars PROVE SolverInv'
  OBVIOUS
<1>1. CASE ServeLine
  BY <1>1, ServeLineInv
<1>2. CASE SolveArgument
  BY <1>2, SolveArgumentInv
<1>3. CASE UNCHANGED solverVars
  BY <1>3 DEF solverVars, SolverInv, SolverTypeOK, EquationsAreSolved, LinesAreSolved,
              ArgumentsAreSolved, Means
<1> QED BY <1>1, <1>2, <1>3 DEF SolverNext

(* The buffer keeps its length, and result is what find_answer may return. *)
THEOREM SolverTypeIsOK == SolverSpec => []SolverTypeOK
<1>1. SolverInv => SolverTypeOK
  BY DEF SolverInv
<1> QED BY SolverInitInv, SolverNextInv, <1>1, PTL DEF SolverSpec

(* Whatever lines came before, the server's answer to an equation is what  *)
(* it comes to, and so is the answer to an argument.                       *)
THEOREM SolverEquationsAreSolved == SolverSpec => []EquationsAreSolved
<1>1. SolverInv => EquationsAreSolved
  BY DEF SolverInv
<1> QED BY SolverInitInv, SolverNextInv, <1>1, PTL DEF SolverSpec

-----------------------------------------------------------------------------
(* All of them. *)

(* Each program goes through its own steps only.                           *)
LEMMA TextSpecs == Spec => WordSpec /\ ChatSpec /\ SolverSpec
<1>1. Init => WordInit /\ ChatInit /\ SolverInit
  BY DEF Init
<1>2. [Next]_vars => [WordNext]_wordVars /\ [ChatNext]_chatVars /\ [SolverNext]_solverVars
  BY DEF Next, vars, Word, Talk, Solver
<1> QED BY <1>1, <1>2, PTL DEF Spec, WordSpec, ChatSpec, SolverSpec

(* Every variable of every program has its type in every behaviour.        *)
THEOREM TextsTypeOK == Spec => []TypeOK
<1>1. WordTypeOK /\ ChatTypeOK /\ SolverTypeOK => TypeOK
  BY DEF TypeOK
<1> QED BY TextSpecs, WordCounterTypeOK, ChatTypesAreOK, SolverTypeIsOK, <1>1, PTL
=============================================================================
