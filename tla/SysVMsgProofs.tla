--------------------------- MODULE SysVMsgProofs ---------------------------
(***************************************************************************)
(* What msgsnd and msgrcv do to the messages of a queue: where each of     *)
(* them was, and that they never hold more than QBytes bytes.  The proofs  *)
(* about both message queues rest on these facts, whatever messages M the  *)
(* programs send.                                                          *)
(***************************************************************************)
EXTENDS SysVMsg, TLAPS, FiniteSetTheorems, WellFoundedInduction

(* Sequences. *)

(* A non-empty set of naturals has a least element. *)
LEMMA LeastNatural ==
  ASSUME NEW I \in SUBSET Nat, I # {}
  PROVE  \E i \in I : \A k \in I : i <= k
<1>1. PICK i \in I : \A k \in I : ~ (<<k, i>> \in OpToRel(<, Nat))
  BY WFMin, NatLessThanWellFounded
<1>2. \A k \in I : ~ (k < i)
  BY <1>1 DEF OpToRel
<1>3. \A k \in I : i <= k
  BY <1>2
<1> QED BY <1>3

LEMMA Appended ==
  ASSUME NEW S, NEW s \in Seq(S), NEW m \in S
  PROVE  /\ Append(s, m) \in Seq(S)
         /\ Len(s) + 1 \notin DOMAIN s
         /\ DOMAIN Append(s, m) = DOMAIN s \union {Len(s) + 1}
         /\ Append(s, m)[Len(s) + 1] = m
         /\ \A i \in DOMAIN s : Append(s, m)[i] = s[i]
  OBVIOUS

(* The place in s of what is at place k when the one at i is gone, and     *)
(* back.                                                                   *)
Before(i, k) == IF k < i THEN k ELSE k + 1
After(i, k)  == IF k < i THEN k ELSE k - 1

(* What is behind the end of the first of two sequences is in the second. *)
LEMMA Joined ==
  ASSUME NEW S, NEW a \in Seq(S), NEW b \in Seq(S),
         NEW k \in 1 .. Len(a) + Len(b), ~ (k <= Len(a))
  PROVE  (a \o b)[k] = b[k - Len(a)]
OBVIOUS

LEMMA Removed ==
  ASSUME NEW S, NEW s \in Seq(S), NEW i \in DOMAIN s
  PROVE  /\ RemoveAt(s, i) \in Seq(S)
         /\ Len(RemoveAt(s, i)) = Len(s) - 1
         /\ \A k \in DOMAIN RemoveAt(s, i) :
              /\ Before(i, k) \in DOMAIN s \ {i}
              /\ RemoveAt(s, i)[k] = s[Before(i, k)]
         /\ \A k \in DOMAIN s \ {i} :
              /\ After(i, k) \in DOMAIN RemoveAt(s, i)
              /\ RemoveAt(s, i)[After(i, k)] = s[k]
<1> DEFINE a == SubSeq(s, 1, i - 1)
           b == SubSeq(s, i + 1, Len(s))
           r == RemoveAt(s, i)
<1>1. i \in 1 .. Len(s) /\ Len(s) \in Nat /\ DOMAIN s = 1 .. Len(s)
  OBVIOUS
<1>2. /\ a \in Seq(S) /\ Len(a) = i - 1
      /\ \A k \in 1 .. i - 1 : a[k] = s[k]
  BY <1>1
<1>3. /\ b \in Seq(S) /\ Len(b) = Len(s) - i
      /\ \A k \in 1 .. Len(s) - i : b[k] = s[i + k]
  BY <1>1
<1>4. r = a \o b
  BY DEF RemoveAt
<1>5. r \in Seq(S) /\ Len(r) = Len(s) - 1 /\ DOMAIN r = 1 .. Len(s) - 1
  <2>1. Len(a) + Len(b) = Len(s) - 1
    BY <1>1, <1>2, <1>3
  <2>2. a \o b \in Seq(S) /\ Len(a \o b) = Len(a) + Len(b)
        /\ DOMAIN (a \o b) = 1 .. Len(a) + Len(b)
    BY ONLY <1>2, <1>3
  <2> QED BY ONLY <1>4, <2>1, <2>2
<1>6. \A k \in 1 .. Len(s) - 1 : r[k] = s[Before(i, k)]
  <2> SUFFICES ASSUME NEW k \in 1 .. Len(s) - 1 PROVE r[k] = s[Before(i, k)]
    OBVIOUS
  <2>1. CASE k < i
    <3>1. r[k] = a[k]
      BY <1>1, <1>2, <1>3, <1>4, <2>1
    <3> QED BY <1>1, <1>2, <2>1, <3>1 DEF Before
  <2>2. CASE ~ (k < i)
    <3>1. r[k] = b[k - (i - 1)]
      <4>1. k \in 1 .. Len(a) + Len(b) /\ ~ (k <= Len(a))
        BY <1>1, <1>2, <1>3, <2>2
      <4>2. (a \o b)[k] = b[k - Len(a)]
        BY ONLY <1>2, <1>3, <4>1, Joined
      <4> QED BY <1>2, <1>4, <4>2
    <3>2. k - (i - 1) \in 1 .. Len(s) - i /\ i + (k - (i - 1)) = k + 1
      BY <1>1, <2>2
    <3> QED BY <1>3, <2>2, <3>1, <3>2 DEF Before
  <2> QED BY <2>1, <2>2
<1>7. \A k \in 1 .. Len(s) - 1 : Before(i, k) \in DOMAIN s \ {i}
  BY <1>1 DEF Before
<1>8. \A k \in DOMAIN s \ {i} :
        After(i, k) \in 1 .. Len(s) - 1 /\ Before(i, After(i, k)) = k
  BY <1>1 DEF Before, After
<1> QED BY <1>5, <1>6, <1>7, <1>8

(* How many elements of s are in Good: I are the places of these. *)
LEMMA CountFinite ==
  ASSUME NEW S, NEW s \in Seq(S), NEW I \in SUBSET DOMAIN s
  PROVE  IsFiniteSet(I) /\ Cardinality(I) \in Nat
<1>1. IsFiniteSet(1 .. Len(s))
  BY FS_Interval
<1>2. I \subseteq 1 .. Len(s)
  OBVIOUS
<1> QED BY <1>1, <1>2, FS_Subset, FS_CardinalityType

LEMMA CountAppended ==
  ASSUME NEW S, NEW s \in Seq(S), NEW m \in S, NEW Good,
         NEW I \in SUBSET DOMAIN s, \A i \in DOMAIN s : i \in I <=> s[i] \in Good,
         NEW J \in SUBSET DOMAIN Append(s, m),
         \A i \in DOMAIN Append(s, m) : i \in J <=> Append(s, m)[i] \in Good
  PROVE  Cardinality(J) = Cardinality(I) + (IF m \in Good THEN 1 ELSE 0)
<1>1. IsFiniteSet(I) /\ Cardinality(I) \in Nat
  BY CountFinite
<1>2. Len(s) + 1 \notin I
  BY Appended
<1>3. CASE m \in Good
  <2>1. J = I \union {Len(s) + 1}
    BY <1>3, Appended
  <2>2. Cardinality(J) = Cardinality(I) + 1
    BY <1>1, <1>2, <2>1, FS_AddElement
  <2> QED BY <1>3, <2>2
<1>4. CASE m \notin Good
  <2>1. J \subseteq I /\ I \subseteq J
    BY <1>4, Appended
  <2>2. J = I
    BY <2>1
  <2> QED BY <1>1, <1>4, <2>2
<1> QED BY <1>3, <1>4

LEMMA CountRemoved ==
  ASSUME NEW S, NEW s \in Seq(S), NEW i \in DOMAIN s, NEW Good,
         NEW I \in SUBSET DOMAIN s, \A k \in DOMAIN s : k \in I <=> s[k] \in Good,
         NEW J \in SUBSET DOMAIN RemoveAt(s, i),
         \A k \in DOMAIN RemoveAt(s, i) : k \in J <=> RemoveAt(s, i)[k] \in Good
  PROVE  Cardinality(J) \in Nat /\ Cardinality(J) <= Cardinality(I)
<1> DEFINE f == [k \in J |-> Before(i, k)]
<1>1. IsFiniteSet(I)
  BY CountFinite
<1>2. \A k \in J : Before(i, k) \in I
  BY Removed
<1>3. \A k, l \in J : Before(i, k) = Before(i, l) => k = l
  <2>1. J \subseteq Int /\ i \in Int
    BY Removed
  <2> QED BY <2>1 DEF Before
<1>4. f \in Injection(J, I)
  BY <1>2, <1>3 DEF Injection, IsInjective
<1>5. Cardinality(J) <= Cardinality(I)
  BY <1>1, <1>4, FS_Injection
<1>6. RemoveAt(s, i) \in Seq(S)
  BY Removed
<1>7. Cardinality(J) \in Nat
  BY <1>6, CountFinite
<1> QED BY <1>5, <1>7

-----------------------------------------------------------------------------
(* The queue. *)

USE SysVMsgAssumption

(* What programs send: requests of clients, and replies to them. *)
Sendable(M) ==
  \A m \in M : /\ m # NoMsg /\ m.type \in Clients
               /\ m.kind \in {"request", "reply"}

(* The queue's part of the state. *)
QueueTypes(M) ==
  /\ queue \in Seq(M) /\ BytesQueued <= QBytes
  /\ asleep \subseteq Procs
  /\ buf \in [Procs -> M \union {NoMsg}]
  /\ buf[Server] # NoMsg => buf[Server].kind = "request"

(* Where a message of client c can be in the queue. *)
QueuedFor(c) == {i \in DOMAIN queue : queue[i].type = c}

OfKind(M, kind) == {m \in M : m.kind = kind}

LEMMA QueuedOfKind ==
  ASSUME NEW M, queue \in Seq(M), NEW kind
  PROVE  /\ Queued(kind) \in SUBSET DOMAIN queue
         /\ \A i \in DOMAIN queue : i \in Queued(kind) <=> queue[i] \in OfKind(M, kind)
<1>1. \A i \in DOMAIN queue : queue[i] \in M
  OBVIOUS
<1> QED BY <1>1 DEF Queued, OfKind

LEMMA QueuedOfKindPrime ==
  ASSUME NEW M, queue' \in Seq(M), NEW kind
  PROVE  /\ Queued(kind)' \in SUBSET DOMAIN queue'
         /\ \A i \in DOMAIN queue' : i \in Queued(kind)' <=> queue'[i] \in OfKind(M, kind)
<1>1. \A i \in DOMAIN queue' : queue'[i] \in M
  OBVIOUS
<1> QED BY <1>1 DEF Queued, OfKind

LEMMA Less ==
  ASSUME NEW a \in Nat, NEW m \in Nat, NEW n \in Nat, m <= n
  PROVE  a * m <= a * n /\ a * m \in Nat
  BY SMT

(* A message that is sent fits. *)
LEMMA RoomForOne ==
  ASSUME NEW M, Sendable(M), queue \in Seq(M), NEW m \in M, HasRoom(m),
         queue' = Append(queue, m)
  PROVE  BytesQueued' <= QBytes
<1>1. queue' \in Seq(M)
  BY Appended
<1> DEFINE a  == Cardinality(Queued("request"))
           b  == Cardinality(Queued("reply"))
           na == Cardinality(Queued("request")')
           nb == Cardinality(Queued("reply")')
<1>3. ASSUME NEW kind
      PROVE  /\ Cardinality(Queued(kind)) \in Nat
             /\ Cardinality(Queued(kind)') =
                  Cardinality(Queued(kind)) + (IF m \in OfKind(M, kind) THEN 1 ELSE 0)
  <2>1. Cardinality(Queued(kind)) \in Nat
    BY QueuedOfKind, CountFinite
  <2>2. Cardinality(Queued(kind)') =
          Cardinality(Queued(kind)) + (IF m \in OfKind(M, kind) THEN 1 ELSE 0)
    BY <1>1, QueuedOfKind, QueuedOfKindPrime, CountAppended
  <2> QED BY <2>1, <2>2
<1>4. /\ a \in Nat /\ b \in Nat
      /\ na = a + (IF m.kind = "request" THEN 1 ELSE 0)
      /\ nb = b + (IF m.kind = "reply" THEN 1 ELSE 0)
  BY <1>3 DEF OfKind
<1>5. /\ BytesQueued = ReqSize * a + RpySize * b
      /\ BytesQueued' = ReqSize * na + RpySize * nb
  BY DEF BytesQueued
<1>6. ReqSize * a + RpySize * b + Size(m) <= QBytes
  BY <1>5 DEF HasRoom
<1>7. CASE m.kind = "request"
  <2>1. na = a + 1 /\ nb = b /\ Size(m) = ReqSize
    BY <1>4, <1>7 DEF Size
  <2> HIDE DEF a, b, na, nb
  <2>2. ReqSize * (a + 1) = ReqSize * a + ReqSize /\ ReqSize * a \in Nat /\ RpySize * b \in Nat
    BY <1>4
  <2> QED BY <1>5, <1>6, <2>1, <2>2
<1>8. CASE m.kind = "reply"
  <2>1. na = a /\ nb = b + 1 /\ Size(m) = RpySize
    BY <1>4, <1>8 DEF Size
  <2> HIDE DEF a, b, na, nb
  <2>2. RpySize * (b + 1) = RpySize * b + RpySize /\ ReqSize * a \in Nat /\ RpySize * b \in Nat
    BY <1>4
  <2> QED BY <1>5, <1>6, <2>1, <2>2
<1> QED BY <1>7, <1>8 DEF Sendable

(* A message that is taken makes room. *)
LEMMA RoomMade ==
  ASSUME NEW M, queue \in Seq(M), BytesQueued <= QBytes,
         NEW i \in DOMAIN queue, queue' = RemoveAt(queue, i)
  PROVE  BytesQueued' <= QBytes
<1>1. queue' \in Seq(M)
  BY Removed
<1> DEFINE a  == Cardinality(Queued("request"))
           b  == Cardinality(Queued("reply"))
           na == Cardinality(Queued("request")')
           nb == Cardinality(Queued("reply")')
<1>3. ASSUME NEW kind
      PROVE  /\ Cardinality(Queued(kind)) \in Nat
             /\ Cardinality(Queued(kind)') \in Nat
             /\ Cardinality(Queued(kind)') <= Cardinality(Queued(kind))
  <2>1. Cardinality(Queued(kind)) \in Nat
    BY QueuedOfKind, CountFinite
  <2>2. /\ Queued(kind) \in SUBSET DOMAIN queue
        /\ \A k \in DOMAIN queue : k \in Queued(kind) <=> queue[k] \in OfKind(M, kind)
    BY QueuedOfKind
  <2>3. /\ Queued(kind)' \in SUBSET DOMAIN RemoveAt(queue, i)
        /\ \A k \in DOMAIN RemoveAt(queue, i) :
             k \in Queued(kind)' <=> RemoveAt(queue, i)[k] \in OfKind(M, kind)
    BY <1>1, QueuedOfKindPrime
  <2>4. /\ Cardinality(Queued(kind)') \in Nat
        /\ Cardinality(Queued(kind)') <= Cardinality(Queued(kind))
    BY <2>2, <2>3, CountRemoved
  <2> QED BY <2>1, <2>4
<1>4. a \in Nat /\ b \in Nat /\ na \in Nat /\ nb \in Nat /\ na <= a /\ nb <= b
  BY <1>3
<1>5. /\ BytesQueued = ReqSize * a + RpySize * b
      /\ BytesQueued' = ReqSize * na + RpySize * nb
  BY DEF BytesQueued
<1> HIDE DEF a, b, na, nb
<1>6. /\ ReqSize * na <= ReqSize * a /\ RpySize * nb <= RpySize * b
      /\ ReqSize * na \in Nat /\ RpySize * nb \in Nat
      /\ ReqSize * a \in Nat /\ RpySize * b \in Nat
  BY <1>4, Less
<1> QED BY <1>5, <1>6

(* The messages of c, when one is put into the queue, or taken from it.    *)
LEMMA SentFor ==
  ASSUME NEW M, queue \in Seq(M), NEW m \in M, queue' = Append(queue, m),
         NEW c \in Clients
  PROVE  /\ QueuedFor(c)' = IF m.type = c THEN QueuedFor(c) \union {Len(queue) + 1}
                            ELSE QueuedFor(c)
         /\ \A k \in DOMAIN queue' : queue'[k] = m \/ (k \in DOMAIN queue /\ queue'[k] = queue[k])
<1>1. /\ DOMAIN queue' = DOMAIN queue \union {Len(queue) + 1}
      /\ queue'[Len(queue) + 1] = m
      /\ \A i \in DOMAIN queue : queue'[i] = queue[i]
  BY Appended
<1> QED BY <1>1 DEF QueuedFor

LEMMA TakenFor ==
  ASSUME NEW M, queue \in Seq(M), NEW i \in DOMAIN queue, queue' = RemoveAt(queue, i),
         NEW c \in Clients
  PROVE  /\ \A k \in QueuedFor(c)' : Before(i, k) \in QueuedFor(c) \ {i}
         /\ \A k \in QueuedFor(c) \ {i} : After(i, k) \in QueuedFor(c)'
         /\ (\A k, l \in QueuedFor(c) : k = l) => \A k, l \in QueuedFor(c)' : k = l
         /\ \A k \in DOMAIN queue' : \E l \in DOMAIN queue : queue'[k] = queue[l]
<1>1. /\ \A k \in QueuedFor(c)' : Before(i, k) \in QueuedFor(c) \ {i}
      /\ \A k \in QueuedFor(c) \ {i} : After(i, k) \in QueuedFor(c)'
  <2>1. /\ \A k \in DOMAIN queue' :
             Before(i, k) \in DOMAIN queue \ {i} /\ queue'[k] = queue[Before(i, k)]
        /\ \A k \in DOMAIN queue \ {i} :
             After(i, k) \in DOMAIN queue' /\ queue'[After(i, k)] = queue[k]
    BY Removed
  <2> QED BY <2>1 DEF QueuedFor
<1>2. \A k, l \in QueuedFor(c)' : Before(i, k) = Before(i, l) => k = l
  <2>1. QueuedFor(c)' \subseteq Int /\ i \in Int
    BY Removed DEF QueuedFor
  <2> QED BY <2>1 DEF Before
<1>3. \A k \in DOMAIN queue' : \E l \in DOMAIN queue : queue'[k] = queue[l]
  BY Removed
<1> QED BY <1>1, <1>2, <1>3

LEMMA FitsServer ==
  ASSUME NEW M, Sendable(M), NEW m \in M, Fits(Server, m)
  PROVE  m.kind = "request"
  BY DEF Sendable, Fits, Size

(* A message is given to a sleeping process, or put into the queue. *)
LEMMA Sent ==
  ASSUME NEW M, Sendable(M), QueueTypes(M), NEW m \in M, msgsnd(m)
  PROVE  /\ QueueTypes(M)'
         /\ \/ \E p \in asleep : /\ p = Server \/ p = m.type
                                 /\ asleep' = asleep \ {p}
                                 /\ buf' = [buf EXCEPT ![p] = m]
                                 /\ queue' = queue
            \/ /\ queue' = Append(queue, m)
               /\ asleep' = asleep /\ buf' = buf
<1>1. HasRoom(m)
  BY DEF msgsnd
<1>2. CASE \E p \in asleep : /\ Wants(p, m) /\ Fits(p, m)
                             /\ asleep' = asleep \ {p}
                             /\ buf' = [buf EXCEPT ![p] = m]
                             /\ queue' = queue
  <2>1. PICK p \in asleep : /\ Wants(p, m) /\ Fits(p, m)
                            /\ asleep' = asleep \ {p}
                            /\ buf' = [buf EXCEPT ![p] = m]
                            /\ queue' = queue
    BY <1>2
  <2>2. p \in Procs /\ (p = Server \/ p = m.type)
    BY <2>1 DEF QueueTypes, Wants
  <2>3. buf' \in [Procs -> M \union {NoMsg}] /\ asleep' \subseteq Procs
    BY <2>1, <2>2 DEF QueueTypes
  <2>4. buf'[Server] # NoMsg => buf'[Server].kind = "request"
    BY <2>1, <2>2, FitsServer DEF QueueTypes, Procs
  <2>5. queue' \in Seq(M) /\ BytesQueued' <= QBytes
    BY <2>1 DEF QueueTypes, BytesQueued, Queued
  <2> QED BY <2>1, <2>2, <2>3, <2>4, <2>5 DEF QueueTypes
<1>3. CASE queue' = Append(queue, m) /\ asleep' = asleep /\ buf' = buf
  <2>1. queue' \in Seq(M)
    BY <1>3, Appended DEF QueueTypes
  <2>2. BytesQueued' <= QBytes
    BY <1>1, <1>3, RoomForOne DEF QueueTypes
  <2> QED BY <1>3, <2>1, <2>2 DEF QueueTypes
<1> QED BY <1>2, <1>3 DEF msgsnd

(* A process falls asleep, or gets a message that it wants. *)
LEMMA Received ==
  ASSUME NEW M, Sendable(M), QueueTypes(M), NEW p \in Procs, msgrcv(p)
  PROVE  /\ QueueTypes(M)'
         /\ \/ /\ asleep' = asleep \union {p} /\ UNCHANGED <<queue, buf>>
               /\ \A i \in DOMAIN queue : ~ Wants(p, queue[i])
            \/ \E i \in DOMAIN queue :
                 /\ p = Server \/ p = queue[i].type
                 /\ p = Server => queue[i].kind = "request"
                 /\ buf' = [buf EXCEPT ![p] = queue[i]]
                 /\ queue' = RemoveAt(queue, i)
                 /\ asleep' = asleep
<1>1. CASE Wanted(p) = {}
  <2>1. asleep' = asleep \union {p} /\ UNCHANGED <<queue, buf>>
    BY <1>1 DEF msgrcv
  <2>2. \A i \in DOMAIN queue : ~ Wants(p, queue[i])
    BY <1>1 DEF Wanted
  <2>3. QueueTypes(M)'
    BY <2>1 DEF QueueTypes, BytesQueued, Queued
  <2> QED BY <2>1, <2>2, <2>3
<1>2. CASE Wanted(p) # {}
  <2> DEFINE i == First(Wanted(p))
  <2>1. i \in Wanted(p)
    <3>1. Wanted(p) \in SUBSET Nat
      BY DEF Wanted, QueueTypes
    <3>2. \E k \in Wanted(p) : \A l \in Wanted(p) : k <= l
      BY <1>2, <3>1, LeastNatural
    <3> QED BY <3>2 DEF First
  <2>2. /\ Fits(p, queue[i])
        /\ buf' = [buf EXCEPT ![p] = queue[i]]
        /\ queue' = RemoveAt(queue, i)
        /\ asleep' = asleep
    BY <1>2 DEF msgrcv
  <2> HIDE DEF i
  <2>3. i \in DOMAIN queue /\ queue[i] \in M /\ (p = Server \/ p = queue[i].type)
    BY <2>1 DEF Wanted, Wants, QueueTypes
  <2>4. p = Server => queue[i].kind = "request"
    BY <2>2, <2>3, FitsServer
  <2>5. queue' \in Seq(M)
    BY <2>2, <2>3, Removed DEF QueueTypes
  <2>6. BytesQueued' <= QBytes
    BY <2>2, <2>3, RoomMade DEF QueueTypes
  <2>7. buf' \in [Procs -> M \union {NoMsg}] /\ asleep' \subseteq Procs
    BY <2>2, <2>3 DEF QueueTypes
  <2>8. buf'[Server] # NoMsg => buf'[Server].kind = "request"
    BY <2>2, <2>3, <2>4 DEF QueueTypes, Procs
  <2> QED BY <2>2, <2>3, <2>4, <2>5, <2>6, <2>7, <2>8 DEF QueueTypes
<1> QED BY <1>1, <1>2

LEMMA Exited ==
  ASSUME NEW M, Sendable(M), QueueTypes(M), NEW p \in Procs, msgexit(p)
  PROVE  QueueTypes(M)'
  BY DEF msgexit, QueueTypes, BytesQueued, Queued, Procs
=============================================================================
