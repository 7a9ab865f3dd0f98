# OSystems in TLA+

A verification project for the programs of this repository: operating-systems
exercises in C that fork, wait, and talk to one another through semaphores and
shared memory, message queues, and sockets.  Each is small; what is hard in
them is what happens *between* processes.

Contents: [the system](#1-the-system), [the modules](#2-the-modules),
[the checks](#3-the-checks), [the proofs](#4-the-proofs),
[disagreements found](#5-disagreements-found), [what is left out](#6-what-is-not-modelled),
[the plan](#7-plan).

## 1. The system

| Component | Sources | State | Operations | Interacts through |
|---|---|---|---|---|
| Semaphore exchange | `ThirdLab/Semafores/SemaServer.c`, `SemaClient.c` | two semaphores and each process's SEM_UNDO adjustments; the segment's `equation_str`, `result`; the server's `buffer_equation`, the client's `exit_str` | start (remove/open set and segment), reset, receive, solve, reply; client: open, input, get memory, write, send, receive, print, reset, exit | one semaphore set, one segment, key 1234 |
| Message queue exchange | `ThirdLab/MessageQueue/MessageQueueServer.c`, `MessageQueueClient.c` | one queue, bounded in bytes; each process's buffer | `msgget`, `msgsnd`, `msgrcv`, solve, print | one queue for both directions; the type is the client's pid |
| Central server | `CourseProject/CentralServer.c`, `.h` | accepted connections, children | accept, fork, recv, dispatch, send; ends when accept fails | TCP to clients; the two task servers below |
| TCP client | `CourseProject/Client.c` | its message | connect, choose, send, recv, print | TCP |
| SemaphorServer | `CourseProject/SemaphorServer.c`, `.h` | as the semaphore exchange, with flags the child leaves uninitialised | as there | set and segment, shared with the children of the central server |
| QueueServer | `CourseProject/QueueServer.c`, `.h` | as the message queue exchange | as there; removes a queue with identifier 0 | queue, shared with the children |
| Process tree | `FirstLab/TreeProcesses/TreeProcesses.c` (and an identical copy in `TreeProcessHistogram`) | the tree, the file of leaves, the table made of it | decide, fork, append, wait, read twice | fork/waitpid, one file |
| Equations by fork and exec | `FirstLab/ProcessEquations`, `SolveEquationsProcess` (identical) | the shared file position; each process's copies of the stdio buffers; answer file, log | read, fork, exec, wait, log, close | fork/exec/waitpid, files |
| Equation solver | `find_answer` and `parse_equation_str` of `SemaServer.c`; `solve_equation.c` | one buffer, reused for every line | copy, strip, scan, solve | called by the two above |
| Word counter | `FourthLab/WordCounter/Server.c`, `Client.c` | connections, the struct of each side | accept, fork, recv, count, send | TCP |
| Chat | `FourthLab/OnlineChat/ClientChat.c` | two processes per user, their socket | type, send, receive, quit, signal the parent | UDP, SIGTERM |
| Hard link with a number | `SecondLab/ThirdTaskHardLInkWithNumber` | the number it tries | open, access, link | the directory |
| Sort of files | `SecondLab/FifthTaskSort` | the array of names and times | readdir, stat, sort, stat again, show | the directory |
| Attributes by link | `SecondLab/FourthLabStatLink` | none between calls | symlink, lstat, show permissions | the directory |
| Directory listings | `SecondLab/FirstTaskAllDirsWrite`, `SecondTaskNotDirsPrint` | none | readdir, print | not modelled |

What makes each of them correct, and what is hard about it:

* **Exchanges through shared state** (semaphores, queues): each client gets the
  answer to its own request; nobody waits for ever; a server that is killed or
  started again does not lose or invent requests.  Hard: every interleaving of
  the calls, the kernel's bookkeeping (SEM_UNDO, bounds, message order), and the
  errors that are printed and then ignored.
* **Central server**: a client is shown what belongs to its choice, it ends, and
  clients that vanish cost the servers nothing.  Hard: three protocols meet in
  one child, and any participant may be missing or killed.
* **Process tree**: the reader of the file comes after all writers.  Hard: the
  waiting is a property of the whole tree, and a failing fork breaks it.
* **Equations by fork and exec**: every equation is answered once.  Hard: `fork`
  copies what the streams hold and shares the position in the file; a child whose
  `exec` fails becomes one more reader of that file.
* **Equation solver**: the result is that of this line.  Hard: it scans over the
  ends of strings, in a buffer that still holds what earlier lines left.
* **Word counter, chat**: what is shown was sent, whole and in order.  Hard: parts
  of messages, results of calls that nobody looks at, and two processes with one
  socket that must end together.
* **Programs on one directory**: names, order and permissions are right.  Hard: each
  looks first and acts later, while others change the directory.

The hazards, each at its line, are listed in `PROJECT.json`.

## 2. The modules

```
 RequestReply  <--- implemented by ---  SemaExchange   MessageQueue
                                             |               |
   kernel:                                SysVSem         SysVMsg
                                             |               |
 CourseProject  <-  SemaphorServer ----------+               |
              \--  QueueServer  -----------------------------+
                      \     /
                   CentralServer

 FirstLab:   TreeProcesses     ProcessEquations    EquationSolver
 SecondLab:  Directory         FourthLab:  WordCounter    Chat
```

| Module | Models | Correspondence |
|---|---|---|
| `SysVSem` | the kernel's semaphore set as `getsem` calls it | `s0`, `s1` are the values, `adj0`, `adj1` the adjustments of each process.  `sem_op0/1` are the switch of `getsem`.  `semop` waits, applies both operations or none, or fails with ERANGE; `exit_sem` is the end of a process. |
| `SysVMsg` | the kernel's message queue | `queue`, the processes `asleep` in `msgrcv`, the `buf`fer a message was delivered to.  `msgsnd` waits for room and hands the message to a sleeper first; `msgrcv` takes the first message wanted, sleeps, or fails with E2BIG. |
| `RequestReply` | what a client/server pair promises | a client asks, is served once, and shows the answer of its own line. |
| `SemaExchange` | `SemaServer.c`, `SemaClient.c` | one action per system call or access to the segment; `pc` names the call a process makes next.  Identifiers are modelled, since the code compares them with 0. |
| `MessageQueue` | `MessageQueueServer.c`, `MessageQueueClient.c` | one action per call; a client is named by its pid, which a later client may have again. |
| `CourseProject` | the constants and texts the four programs share | |
| `SemaphorServer` | `SemaphorServer.c` and the child's part in `SemaphorServer.h` | as `SemaExchange`, with the flags of each process in `sops`; `FlagsFound` are the contents the uninitialised array may have. |
| `QueueServer` | `QueueServer.c` and the child's part in `QueueServer.h` | as `MessageQueue`; the reply's `int` before the text makes a request read as a reply lose its first characters (`Shifted`). |
| `CentralServer` | `CentralServer.c`, `Client.c`; composes the two servers | `listening` says whether it runs, `backlog`, `link`, `up`, `down` are the TCP connections; `ChildStep` is the code of a child, from recv to exit. |
| `TreeProcesses` | `TreeProcesses.c` | processes are numbered in the order of their birth; `histo` is the file. |
| `ProcessEquations` | `processes_solve_equations.c` and the appending in `solve_equation.c` | every parent waits, so the processes are a `stack` of which the last one runs; each has the lines it read `ahead` and the log it `held` back, both copied by `Fork`.  `offset` is the shared position; `Close` may set it back, as the C library may, though never to before the file. |
| `EquationSolver` | `find_answer`, `parse_equation_str`, the loop of `SemaServer.c`, `solve_equation.c` | strings are sequences of characters with `"nul"` at their end; `"?"` is memory of which nothing is known.  A result stays symbolic: the operation and the two numbers. |
| `Directory` | `HardLinkNumber.c`, `sort_files.c`, `get_atrs_by_link.c` | `entry` is the directory, `linker` and `sorter` are the programs; `Search` is one call of `access`, `ReadEntry` and `ShowEntry` are the two `stat`s of an entry; `Dot` and `DotDot` are the entries `.` and `..`, which `readdir` returns and the program lists too; the rest is what users do. |
| `WordCounter` | `WordCounter/Server.c`, `Client.c` | `at` is where a client is, `conn` its connection and its child on the server's side; a message is cut in bytes, those of its counter included, of which one `recv` returns any number. |
| `Chat` | `ClientChat.c` | `receiver` and `sender` are parent and child of each user, `inbox` is their socket; `Remain` is what is left when one of them ends. |
| `MCSema`, `MCQueue`, `MCCentral` | instances for TLC | |
| `MCTexts`, `MCFiles` | unions for TLC | programs that have nothing to do with each other share a run; the first step decides which of them a behaviour is of, and the others stay as they began. |
| `SemaExchangeProofs`, `MessageQueueProofs`, `CentralProofs`, `CentralServingProofs`, `TreeProofs`, `TextProofs`, `FileProofs` | theorems | see [the proofs](#4-the-proofs) |
| `SysVMsgProofs` | lemmas on the kernel's queue | used by the proofs of both programs that have one |

Operators commented as "a slip" are mistakes a programmer could have made in
the definition that follows them.  No specification uses them; they were written
to see that each property notices one.

### Abstractions

* In the exchanges, what the server computes (`find_answer`,
  `third_degree_equation`) is a constant.  For `find_answer` it is a relation: on a
  string that is not two numbers and an operation the scan runs past the string's
  end (`SemaServer.c:28`), and the result depends on what the buffer held.
  `EquationSolver` models that scan, and its properties justify the relation.
* Lines, equations and texts are model values.  `Quit` is the line `"\n"`,
  `Blank` the empty string, which is also what a client sends at the end of its
  input.
* Kernel calls that cannot fail in the setting (`semctl(IPC_RMID)` by the owner,
  `bind`, `listen`) succeed.  `shmget`, `shmat`, `fork` and `fopen` may fail where
  the code has a path for it.
* In the central server, a `send` or `recv` on a TCP connection moves the whole
  message of 132 bytes, which fits in one segment of the connections the program
  makes.  The word counter's model does not assume that.
* UDP between two ports of one host keeps the order, and loses what finds no
  process at the port or a full socket; signals and `fork` are as in POSIX.
* A closed stream that is used (`processes_solve_equations.c:130`) either works
  like an open one that loses its data, writes what it still holds, or ends the
  process.

## 3. The checks

Specifications differ in what the environment may do; the state machine is the
same.

* `Serving`: the programs used as their author meant.  For the semaphores this
  excludes three things, each of which breaks the protocol: a client that ends
  after an exchange (allowed in `Lifetime`), a client killed once its request is
  taken, and a server stopped during an exchange (allowed in `Spec`).  For the
  queue it excludes killed clients and a server killed with a request in hand;
  for the central server it excludes that it, its children or task servers are killed.
* `SpecOneTask` (central server only): `Spec`, where all clients choose the same
  task; the two tasks meet in the children only, and `Serving` has both.
* `Lifetime` (semaphores only): clients end and come back.
* `Spec`: everything: signals anywhere, restarts, failing calls.  The process
  tree has only this one, with `fork` and `fopen` failing anywhere; the unions
  `MCTexts` and `MCFiles` have only one `Spec` as well, with all faults.
* A name with `Fair` adds the fairness described below.

| Run | Specification, instance | Shows |
|---|---|---|
| `sema_serving` | `FairServing`, 2 clients, SEMAEM 3, 2 starts | `MutualExclusion`, `ResultIsOwn`, `ResetDone`, and the invariant `IInv` they follow from; the exchange implements `RequestReply`; `AskedIsAnswered` |
| `sema_spec` | `Spec`, 2 clients, SEMAEM 2, 2 starts, identifiers 0 | `TypeOK`; `TakenRequestSurvivesCrash` |
| `queue_serving` | `FairServing`, 2 clients, 2 equations, room for one reply | `OneMessageEach`; the queue implements `RequestReply` (so that a client receives only its own); `Answered` |
| `queue_spec` | `FairSpec`, 2 clients, room for two replies | `TypeOK`, with the bound in bytes; `StaleOnlyToHeirs`: messages of a killed client reach only one that has its identifier; `AnsweredUnlessStopped` |
| `central_serving` | `FairServing`, 2 clients, 2 children, both tasks, SEMAEM 1, room for one reply, uninitialised flags that do no harm (none, or SEM_UNDO of the first operation) | `MutualExclusion`, `GotMeansAnswered`, `ShownFitsChoice`, `QuietAtRest`, `EveryClientEnds` |
| `central_spec` | `SpecOneTask`, the central server and children killed, 2 starts of SemaphorServer, 3 of QueueServer, flags found set or not | `TypeOK`, `TakenRequestSurvivesCrash`, `AtMostOneEach` |
| `tree` | `FairSpec`, at most 6 processes | `FileIsTheLeaves`, `OnlyOrphansLeft`, `EverythingEnds`, `TypeOK` |
| `texts` | `Spec`, word counter: 2 clients, structs of 4 characters, 2 starts; chat: 2 users, 3 runs, 2 letters, sockets of 2, 1 fault; solver: lines of up to 4 characters behind an earlier line, arguments of up to 5 | `ShownIsTheCount`, `SentIsEnded`; `ShownInOrder`, `EndTogether`, `ArrivedIsShown`; `EquationsAreSolved`; `TypeOK` |
| `files` | `Spec`, files of up to 4 lines with 3 failures; 2 files with 0 or 9 links, 2 linkers, or 1 and `sort_files`, 1 change of users; all modes | `AnsweredInOrder`, `AnsweredOnce`, `EquationsEnd`; `LinksNumbered`, `Listed`, `PermissionsTellTheMode`; `TypeOK` |
| `sema_exit_result`, `queue_roots`, `central_flags` | | violations, see [below](#5-disagreements-found) |

What the less obvious ones say:

* `AnsweredUnlessStopped`: a client that sends its request ends, or meets one of two
  cases on its way: its request was lost with a server, or the queue is stopped up by
  messages of dead clients at some moment (`Wedged`), which may pass when another client
  gets their identifier.  In those cases nothing is claimed.
* `EveryClientEnds`: in the end nobody who sent a choice still waits, except for
  SemaphorServer after it has dropped a reply (`ReplyDropped`): after SEMAEM replies its
  `semop` fails with ERANGE, the child waits on, and so do those behind it.  Each client
  asks once, so that "ends" is said of the end of the behaviour.
* `ShownFitsChoice`: a client to which nothing was sent back shows its own message; any
  other shows what was sent back to it, which for sorting is the answer of
  SemaphorServer and for a game that of QueueServer or the client's own message.
* `AtMostOneEach`: the messages of a child in the queue, in QueueServer's buffer, in the
  reply it is about to send and in the child's buffer are added up, equal ones too.
* `AnsweredOnce`: whatever fails, a line is answered twice, or though it comes after
  the end of the equations, only if `exec` failed for an earlier line, or more than
  once.  An equation that is left out is one for which `exec` or an `open` failed, or
  the reader ended there: `fork` failed for it or for one before it, in which case what
  follows is lost with that reader (`processes_solve_equations.c:95`), or the process crashed
  after an earlier line.  The first part holds although two readers share the position, because what one of them read ahead it reads itself.
  Two failures have to be excepted: each of the readers may take the shared position
  back by what it read ahead itself, and three of them together put it back to before
  the line of the first failure.
* `EquationsAreSolved`: the server's in-place stripping always ends the string where
  the line ends or where a symbol was met, so that what earlier lines left behind
  never reaches into an equation; an argument is solved with blanks around its
  numbers.  The reference is a definition by splitting the line.
* `ShownIsTheCount`: a client that gets the whole counter gets that of its whole text,
  though neither side looks at what `recv` returned: the server sends back as many
  bytes as it got, and those of the counter are the last of them.
* `ShownInOrder`: letters come in the order typed, nothing of the same run after a
  farewell, and without a gap unless one was lost.
* `EndTogether`: a user's receiver without a sender is left only by a failed `fork` or
  `sendto` or a signal; a sender without its parent, which
  would signal another process, only by a signal.
* `LinksNumbered`: while nobody else changes the directory the links are numbered
  without a gap and as many as the runs that succeeded; a run fails only because
  another took the same number between its `access` and its `link`.
* `Listed`: bubble sort over the times of the first `stat`, stable, with every entry;
  times shown by the second one in order, and no crash, unless users changed
  something after the directory was opened.  One entry may be out of order even then:
  a link that HardLinkNumber makes meanwhile modifies the directory, so that `.` is
  shown with a later time than the one it was sorted by.

### Bounds, and why they are enough

* *Clients*: two compete for everything there is one of.  The theorems of section 4
  hold for any number of clients, children and users, any sizes and any bounds.
* *SEMAEM* is 32767 in the kernel.  Here it is so small that the bound is reached after
  the first replies: 2 or 3 where clients ask again, 1 in `central_serving`, where
  there are two children with one request each, and the second reply fails with ERANGE.
  In `central_spec` it is 2; `central_flags`, which is about something else, has 4.
* *MaxStarts*, *SemStarts*, *QueStarts*: one restart finds the objects of the
  start before; the third start of QueueServer finds the queue that the second
  one removed gone.
* *ReqSize*, *RpySize* are 5 and 7, in the order (and nearly the ratio) of
  `sizeof(CLIENT_MES)` and `sizeof(SERVER_MES)`; *QBytes* 7 or 14 is one reply,
  or two.  A queue that holds everything would never block.
* *OneTask* (central server): see `SpecOneTask`.  *EndsEarly*: the central server ends
  during the first lives of the task servers or not at all; its end leaves nobody but
  the children and clients that are there, whom restarts meet in the same way.
* *MaxProcs*: 6 processes have room for a process with three children of which
  one has two; `planned` keeps the tree within the bound before it forks.

* *MaxLines* 4, *Block* 2: the file is longer than what is read ahead, so that
  readers share the position in the middle of it; every file of that size is an
  initial state.  *MaxFailures* 3: exec may fail in a reader that is there because
  exec failed.
* *BufferLength* 8, *Lines*: the first line is one of a few that leave long ends of
  every kind behind, the second every line of up to 4 characters over two digits,
  sign, operation, blank and symbol; *Arguments* are all of up to 5 characters that
  begin with a digit, as `processes_solve_equations.c:88` demands.
* *OldLinks* 0 or 9: with two runs the numbers pass from 9 to 10 and 11, *MaxNumber*.
  *OldTimes*: equal, or different.  *SymlinkNumbers* {1}, *MaxChanges* 1: one change of
  users at any moment.  *MaxTime* 1: the clock shows the same second or a later one.
  *MaxEntries* 5: the directory has `.`, `..`, two files and a link at most when it is
  opened, and one more link while it is read.  *RunsToSort* 1: one run of
  HardLinkNumber next to `sort_files`, which is enough to modify the directory between
  its two readings; two runs race with each other without it.  *Modes*: all 4096.
* *SIZE* 4, *Inputs*: a text of two words, one with letters behind its end, one without
  an end.  *ServerStarts* 2: children that outlive a server keep the port.
* *BufferSize* 2, *MaxLetters* 2, *Runs* 3, *MaxFaults* 1: a user comes back, to a friend
  that stayed; a socket is full with empty letters before the last letter comes.

Deadlock is checked in the runs of `MessageQueue`.  Elsewhere
`CHECK_DEADLOCK FALSE` is right because the system really stops: the tree ends,
each TCP client asks once, programs end, and semaphore processes block for ever when an
adjustment is full.

### Fairness

Weak fairness of a process's steps is what a scheduler gives.  Strong fairness
is assumed where a call waits for a condition others may make and unmake:
`CLIENT_GET_MEM` (the kernel keeps waiters on a set in a queue and serves the
older first), `msgsnd` on a full queue (senders are woken when there is room),
and `msgrcv` that fails with E2BIG and is retried at once (a poll is made again
and again, and one of them falls into each interval in which the head fits).
In `MCTexts` and `MCFiles` fairness is weak: of the processes of one user or one
connection, and of the running process of `ProcessEquations`.
Users are never obliged to type, connect or quit, and nobody is obliged to start
a server for the first time, except that a server that was *stopped* is started
again in `MessageQueue` and `SemaExchange`; without that no client could expect
an answer.

## 4. The proofs

All by TLAPS, for every value of the constants that the assumptions allow: any sets
of clients, children and users, any SEMAEM (of at least 2 for the semaphore exchange
of ThirdLab), any sizes of queues, sockets and files, any number of starts and of
failures, any answers.  Every inductive invariant below was model-checked on the
instance of its run, or on a smaller one, before it was proved.

### Semaphore exchange: `SemaExchangeProofs`

Over `Spec` (everything may happen):

* `SpecTypeOK`: `Spec => []TypeOK`.  That `s0`, `s1` stay in range rests on
  ERANGE, on the cut-off at the end of a process, and on waiting.
* `CrashKeepsRequest`: `Spec => TakenRequestSurvivesCrash`.  Needs more than
  types: `SpecInv` adds that between taking a request and replying, on a set that
  still exists, the server's adjustment of semaphore 0 is at least 1.

Over `Serving`:

* `ServingIInv`: `IInv` is invariant.  Mutual exclusion is not inductive, since it
  says nothing of the semaphores; nor is it with their values, since a process's
  end moves them by its adjustments.  `IInv` ties together where the one client
  in an exchange is, where the server is, the two values, the adjustments, and
  whose text and result the segment holds (`Free`, `Preparing`, `Waiting`,
  `Finishing`, `OneSet`, `Adjustments`).  The cases in which an operation failed
  with ERANGE are part of it.  The proof has one lemma per action.
* `ServingMutualExclusion`, `ServingResultIsOwn`: from `IInv`.
* `ServingResetDone`: a started server has 0 and 1, from `IInv` at the reset.
* `ServingRefinesRequestReply`: the exchange implements `RequestReply`.  Each
  action is a stutter or one step of one client: `ClientInput` is Ask,
  `ServerSolve` is Serve, `ClientPrint` is Take, a signal before the request is
  taken is Abandon.

### Message queue: `SysVMsgProofs`, `MessageQueueProofs`

`SysVMsgProofs` has what `msgsnd` and `msgrcv` do to a queue and to the sleepers,
once for both programs that use them: which messages of one client are in the queue
after `Append` and after `RemoveAt`, that a message goes to a sleeper, to the
buffer, or into the queue and never to two of them, and that the queue keeps within
its bytes.  The bytes are counted as so many requests and so many replies
(`BytesQueued`), which needs cardinalities only and no sum over a sequence.

Over `Spec` (clients and servers are killed anywhere):

* `SpecTypeOK`, with the bound in bytes.
* `SpecStaleOnlyToHeirs`: messages of a killed client reach only one that has its
  identifier.  The invariant `Inv` says of every client that is *not* an heir what
  `Own` says: nothing of it is about before it sends, and then at most one message,
  which is in the queue, at the server, or in its buffer.  `ByPc` ties calls and
  buffers together.

Over `Serving`, `IInv` adds that there are no heirs, that no message is missing
(`Held`) and what each says (`Said`):

* `ServingOneMessageEach`: a client has one message at most, and one just while it
  waits.
* `ServingRefinesRequestReply`: the exchange implements `RequestReply`.

### Central server: `CentralProofs`, `CentralServingProofs`

Over `Spec`, with any flags, signals to every process and failing forks, `Inv` has
one part for each of the things that meet in a child (`PcTypeOK`, `MesTypeOK`, `SemInv`,
`QueInv`, `TcpTypeOK`).  The queue's part is per child, since children are born while
the servers of both tasks may be down.

* `SpecTypeOK`: the types of all of it; the semaphores stay in the kernel's ranges.
* `SpecAtMostOneEach`: a child never has two messages or two copies of one about, also
  after QueueServer was killed with one of them or removed the queue.  The queue's
  share is a cardinality of positions; the buffers are added to it.
* `SpecTakenRequestSurvivesCrash`: as for the semaphore exchange.

Over `Serving`, under the hypothesis `HarmlessFlags`: of the flags that a child finds
uninitialised (`SemaphorServer.h:107`) only SEM_UNDO of the first operation may be
set.  It is part of the theorems because the code gives no such guarantee: SEM_UNDO of
the second operation, or IPC_NOWAIT in either, breaks `MutualExclusion` or
`GotMeansAnswered` (run `central_flags`).

* `ServingMutualExclusion`, `ServingGotMeansAnswered`: from `SemFit`, which lists
  what the exchange of the one child in it may have come to (`Exchange`), the
  one ending in which SERVER_SND_RPY failed with ERANGE included.
* `ServingShownFitsChoice`: from `Talk`, which follows a question from the client
  through the connection and the child into segment or queue and back, and `Wired`: a
  connection is waiting or one child's, and only that child sends on it.
* `ServingQuietAtRest`: from both.

### Process tree: `TreeProofs`

Over `Spec` (fork and fopen may fail anywhere):

* `SpecOnlyOrphansLeft`: whoever is left once the first process reads the file is
  below a process whose fork failed; so (`SpecNoneLeft`) nobody is when none failed.
  The invariant is local (a process that is not broken does not end before its
  children have; every process but the first is a child of an older one); the rest
  follows by taking the least process that is alive and not below a broken one, with
  the well-foundedness of < on the naturals.
* `SpecFileIsTheLeaves`: the lines read are lines of leaves, one each, and all of them
  when nothing failed.  `Lines` adds to the invariant
  that the file has one line for each process but the first that is done without a
  child (`Wrote`) and no other, and `Depths` that only the first process has depth 0,
  for which no line is written.  That no leaf is missing follows from `SpecNoneLeft`'s
  argument.
* `SpecTypeOK`: there are never more processes than planned.  A sum over the tree
  would say so, but so does the set of `Slots`, the children still to be forked: with
  the processes there are they are at most as many as planned (`Room`).  A process is
  less deep than its number (`Deep`), and the file has no more lines than there are
  processes, so that the table's size is bounded too.

### Equations by fork and exec: `FileProofs`

Over `EqSpec`, for any file, any number of failures, and any number of lines that one
read buffers:

* `EquationsTypeOK`: the position stays in the file, and so on.
* `EquationsAnsweredInOrder`, `EquationsAnsweredOnce`.  `Inv` says what a process on
  the stack read ahead (`Stacked`: the lines after its own), why it closes
  (`Stopped`), where every equation that is due is (`Tracked`: answered, failed for, lost
  where a reader ended, in a process, or not read yet), how the readers share the position (`Readers`) and
  how answers and log grow without failures (`Even`).  `Readers` has a clause for no
  failure of `exec` (`Alone`: one reader, whose last line read ahead is at the
  position) and one for a single failure, for line *m* (`Two`: neither reader takes the
  position back to *m*).

  The attempt to prove that extra answers come only after a failure for an *earlier* line
  showed that this is false: it holds in small instances, but with 8 lines, read ahead at
  once, and 4 failures TLC finds the counterexample described in section 3.  It also
  showed that closing must not put the position before the file.

### Programs on one directory: `FileProofs`

Over `DirSpec` (users unlink, write and make symbolic links at any time), for any files,
runs, times and bounds:

* `DirectoryLinksNumbered`.  `LinkInv` says for one *k*, the links every file had at
  first, which number belongs to whom: a link is one of the first *k* or one that a run
  made (`LinksAreTaken`), a run that looks for a number has passed only numbers that
  were taken (`PassedAreTaken`), and while no user changed anything all numbers taken
  are links and two runs never made the same one (`Undisturbed`).  That the numbers have no gap then is a
  matter of counting: as many numbers as runs, none beyond.  That two numbers never have
  the same name rests on what `from_int_to_str` makes: the decimal digits of its
  argument (`DigitsMakeTheNumber`).
* `DirectoryListed`.  `SortInv` says that no entry is read twice, that what is printed is
  `bubble_sort` of what was read, and, while no user changed anything, that every entry
  still has the time it was read with (`StillAsRead`) and was shown with it
  (`ShownAsRead`), but for that of `.`, which is later once a link was made.  That
  `bubble_sort` returns the same entries in the order of times, and of reading where
  these are equal, is proved turn by turn: after each turn of the inner loop the largest
  time so far is last (and the entries of equal times have kept their order), after
  each turn of the outer one the tail is sorted and above the rest.
* `StatPermissionsTell`: the nine letters tell the twelve bits of any mode.
* `DirectoryTypeOK`; in it, that no run searches past `MaxNumber`.

### Chat: `TextProofs`

Over `ChatSpec` (calls fail and signals come at any time):

* `ChatEndTogether`: of the two processes of a user one is left alone only by a failed
  `fork`, a failed call or a signal to one of them.  `Together` adds what is true
  before the fork, and that a sender is without its receiver only if that was killed.
* `ChatShownInOrder`: about the letters shown and those still in the socket, as one
  sequence.  The order alone is not inductive, for a new letter is in order only if all
  letters there have smaller numbers and no farewell of the same run is among them
  (`Before`); the absence of gaps only if the last letter typed is there (`NoGap`).
* `ChatTypesAreOK`: the bound on what all users typed is one on a fold over the set of
  users; a fold is followed as the sum it is, one element after another.

### Word counter: `TextProofs`

Over `WordSpec` (any part of a message may come, servers stop and start at any time):

* `WordCounterShownIsTheCount`: an answer that is whole (`Answers`) is one to a whole
  text, whether the client took part of it or all.
* `WordCounterTypeOK`.  That a count is at most the length of the text needs what
  `word_counter` counts: the positions at which a word starts (`WordsAreCounted`), by
  induction from the end of the text, since every turn begins farther on.

### Solver: `TextProofs`

Over `SolverSpec`, for lines, arguments and buffers of any length:

* `SolverEquationsAreSolved`.  `SolverInv` says almost nothing of the buffer, only that it
  is a string of its length: the proof shows that an answer cannot depend on the rest.
  `WithoutIs` and `WithoutJoined` say what stripping leaves, `StrtodReads` that `strtod`
  reads a numeral wherever it stands, `AnswerIs` what `find_answer` makes of two of
  them with an operation and blanks between; `LineSolved` and `ArgumentSolved` find
  them in the buffer of the server and in an argument.
* `SolverTypeIsOK`: `strcpy` and stripping stay inside the buffer for lines that fit.

`TextsTypeOK` and `FilesTypeOK` put the types of these programs together, as the runs
check them, from the fact that each program only goes through its own steps.

### Recursion and folds

A recursive function is a CHOOSE of a function that satisfies its equation; before
anything follows from the equation it must be shown that there is such a function.
`Iteration`, at the head of `TextProofs` and `FileProofs`, does so for functions that go from one
number to the next, from `InductionTo`, which is induction over the numbers up to *n*
for a *set* of them and comes from the least element of a set of naturals
(`LeastNatural`).  Each of `Number`, `Without`, `bubble_sort` and so on is an instance.
The digits of `from_int_to_str` and the turns of `word_counter` jump instead of going to the
next number; they are shown to satisfy the same equation as a function that is there
already, and to be the only one that does.  `SumExists` does the same for sums over
finite sets.

### Assumptions on the constants

`SolverAssumption`: lines are strings of what a user can type and fit into the buffer,
end of line and of string included: `fgets` reads 49 characters (`SemaClient.c:135`), the
buffer has 100 (`SemaServer.c:310`).
`NamesAssumption`: no link has the name of a file that was there before (the
model's names are pairs, so this says that files are not pairs), runs are finitely many,
and the numbers suffice for every run to find a free one.  `ChatAssumption`: users are
finitely many.  The others say only that bounds are numbers.  TLC evaluates all of
them in the runs.

### Checked by TLC only

All liveness (`AskedIsAnswered`, `Answered`, `AnsweredUnlessStopped`,
`EveryClientEnds`, `EverythingEnds`, `SentIsEnded`, `ArrivedIsShown`,
`EquationsEnd`), since it needs fairness and ENABLED, which the prover does not reach.
Every other property of the passing runs is stated by a theorem.

## 5. Disagreements found

Each is a run in which TLC violates what the program itself prints or comments.

| Run | The program says | What it does |
|---|---|---|
| `sema_exit_result` | `Result: %f` | SEM_UNDO gives back, when a client ends, permits that were given back already; two clients share the segment (`SemaClient.c:21`) |
| `queue_roots` | `X[0] = ...` | a client may take its own request for the reply (`MessageQueueClient.c:173`) |
| `central_flags` | `Got.` | `sem_flg` is uninitialised in the child (`SemaphorServer.h:107`) |

More are in the models, where properties take them into account:

* After SEMAEM replies the server's `semop` fails with ERANGE, the error is
  dropped, and it prints `Sent.` (`SemaServer.c:179`, `330`) of a reply nobody
  gets; `AskedIsAnswered` therefore excepts a worn-out server.
* Only a set with identifier 0 counts as an existing one (`SemaServer.c:207`): a
  server started again over another set waits or adds to what is there, so that
  `ResetDone` holds only because `Serving` stops the server at rest.
* A client does not tell the end of the connection from a message
  (`Client.c:100`) and shows its own message as the received one;
  `ShownFitsChoice` admits that text.
* A process whose fork fails does not wait for its children (`TreeProcesses.c:96`);
  one of them may append its line between the two readings of the file, and there
  are no cells for it in the table (`TreeProcesses.c:165`).  `OnlyOrphansLeft` admits
  such a child.
* Where `fork` fails in `processes_solve_equations.c:95`, the reader ends and, if it
  is the only one, no equation from there on is solved; `AnsweredOnce` admits that.
* A child whose `exec` fails says `Success!`, and reads and forks on
  (`processes_solve_equations.c:112`); `AnsweredOnce` admits what it doubles.
* The chat at the end of its input sends empty letters for ever
  (`ClientChat.c:116`); they fill the friend's socket, and `ShownInOrder` excepts letters
  that were lost.
* `sort_files` takes the name of a file that has gone from a null pointer
  (`sort_files.c:190`); `Listed` admits the crash after a change.
* `sort_files` lists `.` as well, by the time it had when it was read; a link made
  before it is read again (`HardLinkNumber.c:117`) puts the times shown out of order,
  though no file changed.  `Listed` admits that for `.` only.

## 6. What is not modelled

* The cubic solver: floating point, no state.
* Directory listings: `readdir` and `printf` in a loop.  Of file attributes all but the
  permissions: input and output only.
* What is undefined and has no outcome to enumerate: `hard_link_name[i++] =
  current_file_name[i]` (`HardLinkNumber.c:63`), a name without a dot (line 61), a
  permission string without an end (`sort_files.c:64`), more than BUFSIZ entries
  (line 154).  The stem of a name is abstract in `Directory`, entries are few.
* Paths without a final slash in `sort_files`, and directories other than `.` and `..`
  in the one that is listed.
* `strtod` beyond digits and a sign: fractions, exponents, `inf`, `nan`, overflow.
* The limit of 5 on connections not yet accepted, and the time a port stays in use
  after a connection has ended.
* The parsing of the chat's arguments, and names of users.
* Wording, menus, re-prompting, the drawing of the histogram.
* A child that waits on a removed queue, and clients of a killed task server, are
  *in* the models (`Spec`), but no liveness is claimed there: nothing in the code
  could make it true.
* The very first `fopen` of the process tree, which empties the file: when it
  fails nothing else happens; and those at the start of `ProcessEquations`.

## 7. Plan

Done: the exchanges over semaphores and queues with their abstract specification,
the central server with both task servers, the process tree, equations by fork and
exec, the solver, word counter, chat, and the programs on one directory; proofs of
all safety properties the passing runs check.

What could follow: the stem of the names in `HardLinkNumber.c`, once line 63 has a
defined meaning; an abstract specification of the central server's two tasks in one,
as `RequestReply` is for the exchanges.
