------------------------------ MODULE Directory ------------------------------
(***************************************************************************)
(* The programs of SecondLab at work in one directory: HardLinkNumber      *)
(* gives a file one more name, with the first free number; get_atrs_by_link*)
(* makes a symbolic link and shows its attributes; sort_files lists the    *)
(* directory by the time of modification.  None of them expects another.   *)
(*                                                                         *)
(* The file system is external: link and symlink fail on a name in use,    *)
(* readdir returns what is there all the time and may return the rest; the *)
(* directory itself and the one above it are among the entries.  A change  *)
(* of the entries modifies the directory.  A symbolic link here leads      *)
(* nowhere, as it does outside the directory of get_atrs_by_link.c.        *)
(***************************************************************************)
EXTENDS Integers, SequencesExt

CONSTANTS
  Files,
  Dot, DotDot,    \* the entries . and ..
  Linkers,        \* the runs of HardLinkNumber
  OldLinks,       \* bound: how many links every file has at first
  OldTimes,       \* bound: the times of modification at first
  MaxTime,        \* bound: these times, in seconds
  MaxNumber,      \* bound: the numbers of the links
  MaxChanges,     \* bound: what users change while the programs run
  SymlinkNumbers, \* bound: the numbers of a name that becomes a symbolic link
  MaxEntries,     \* bound: the entries of a directory that is sorted
  RunsToSort,     \* bound: the runs of HardLinkNumber when sort_files runs too
  Modes           \* bound: the permissions shown, each a set of bits

Dots    == {Dot, DotDot}
Objects == Files \union Dots

ASSUME DirectoryAssumption ==
  /\ OldLinks \subseteq Nat /\ MaxNumber \in Nat
  /\ MaxTime \in Nat /\ OldTimes \subseteq [Objects -> 0 .. MaxTime]
  /\ SymlinkNumbers \subseteq 1 .. MaxNumber /\ MaxChanges \in Nat /\ MaxEntries \in Nat
  /\ RunsToSort \in Nat
  /\ Modes \subseteq SUBSET (0 .. 11)

VARIABLES
  entry,          \* what each name is: a file, a directory, "symlink" or "none"
  time,           \* the time of modification of each file and directory
  linker,         \* a run of HardLinkNumber: at, file, number
  sorter,         \* sort_files: at, read, order, printed, since
  changes,        \* how many changes users made
  listed          \* the last permissions shown, with their mode

dirVars == <<entry, time, linker, sorter, changes>>

from_int_to_str_reversed(value) ==   \* a slip: the digits are not turned round
  LET reversed[n \in 0 .. value] ==
        IF n = 0 THEN <<>> ELSE <<n % 10>> \o reversed[n \div 10]
  IN  reversed[value]

from_int_to_str(value) ==
  LET reversed[n \in 0 .. value] ==
        IF n = 0 THEN <<>> ELSE <<n % 10>> \o reversed[n \div 10]
  IN  IF value = 0 THEN <<0>> ELSE Reverse(reversed[value])

LinkName(f, n) == <<f, from_int_to_str(n)>>
Names == Objects \union {LinkName(f, n) : f \in Files, n \in 1 .. MaxNumber}

(* No link has the name of an entry that was there; the numbers are enough *)
(* for every run to find a free one.                                       *)
ASSUME NamesAssumption ==
  /\ \A f \in Files, n \in 1 .. MaxNumber : LinkName(f, n) \notin Objects
  /\ {"none", "symlink"} \intersect Objects = {}
  /\ Dot # DotDot /\ Dots \intersect Files = {}
  /\ IsFiniteSet(Linkers) /\ \A k \in OldLinks : k + Cardinality(Linkers) <= MaxNumber

Exists(name) == entry[name] # "none"
Present      == {name \in Names : Exists(name)}

(* The clock is not put back, and may still show the same second. *)
Modifies(what) ==
  \E now \in time[what] .. MaxTime : time' = [time EXCEPT ![what] = now]

-----------------------------------------------------------------------------
(* HardLinkNumber. *)

Begun == {r \in Linkers : linker[r].at # "off"}

Open(r) ==
  /\ linker[r].at = "off"
  /\ sorter.at = "off" \/ Cardinality(Begun) < RunsToSort
  /\ \E f \in Files :
       /\ entry[f] \in Files
       /\ linker' = [linker EXCEPT ![r] = [at |-> "search", file |-> f, number |-> 1]]
  /\ UNCHANGED <<entry, time, sorter, changes>>

(* access: the number is free, or the next one is tried.  access follows a *)
(* symbolic link, and does not see one that leads nowhere.                 *)
Search_no_access(r) ==       \* a slip: the name is not looked for
  /\ linker[r].at = "search"
  /\ linker' = [linker EXCEPT ![r].at = "link"]
  /\ UNCHANGED <<entry, time, sorter, changes>>

Search(r) ==
  LET l == linker[r]
  IN  /\ l.at = "search"
      /\ linker' = [linker EXCEPT ![r] =
                      IF entry[LinkName(l.file, l.number)] \in Files
                      THEN [l EXCEPT !.number = @ + 1] ELSE [l EXCEPT !.at = "link"]]
      /\ UNCHANGED <<entry, time, sorter, changes>>

Link(r) ==
  LET l    == linker[r]
      name == LinkName(l.file, l.number)
      ok   == Exists(l.file) /\ ~ Exists(name)
  IN  /\ l.at = "link"
      /\ linker' = [linker EXCEPT ![r].at = IF ok THEN "linked" ELSE "failed"]
      /\ \/ ok /\ entry' = [entry EXCEPT ![name] = entry[l.file]] /\ Modifies(Dot)
         \/ ~ ok /\ UNCHANGED <<entry, time>>
      /\ UNCHANGED <<sorter, changes>>

-----------------------------------------------------------------------------
(* sort_files. *)

OpenDir ==
  /\ sorter.at = "off" /\ Cardinality(Present) <= MaxEntries
  /\ Cardinality(Begun) <= RunsToSort
  /\ sorter' = [sorter EXCEPT !.at = "reading", !.since = changes, !.todo = Present]
  /\ UNCHANGED <<entry, time, linker, changes>>

(* readdir and the first stat of an entry; a failure ends the program. *)
ReadEntry ==
  /\ sorter.at = "reading"
  /\ \E name \in sorter.todo \union Present :
       /\ \A i \in DOMAIN sorter.read : sorter.read[i].way # name
       /\ sorter' = IF entry[name] \in Objects
                    THEN [sorter EXCEPT
                            !.read = Append(@, [way |-> name, time |-> time[entry[name]]])]
                    ELSE [sorter EXCEPT !.at = "failed"]
  /\ UNCHANGED <<entry, time, linker, changes>>

(* A turn of the inner loop of bubble_sort, and n turns of it. *)
InOrder(a, j) ==
  IF a[j].time > a[j + 1].time THEN [a EXCEPT ![j] = a[j + 1], ![j + 1] = a[j]] ELSE a

Pass_short(a, n) ==                  \* a slip: the inner loop ends too early
  LET pass[j \in 0 .. n] == IF j = 0 THEN a ELSE InOrder(pass[j - 1], j)
  IN  pass[IF n = 0 THEN 0 ELSE n - 1]

Pass(a, n) ==
  LET pass[j \in 0 .. n] == IF j = 0 THEN a ELSE InOrder(pass[j - 1], j)
  IN  pass[n]

bubble_sort(array) ==
  LET length == Len(array)
      sorted[i \in 0 .. length] ==
        IF i = 0 THEN array ELSE Pass(sorted[i - 1], length - i)
  IN  sorted[length]

Sort_miscounted ==                   \* a slip: one entry too many is counted
  /\ sorter.at = "reading" /\ sorter.read # <<>>
  /\ sorter.todo \intersect Present \subseteq {e.way : e \in ToSet(sorter.read)}
  /\ sorter' = [sorter EXCEPT !.at = "crashed"]
  /\ UNCHANGED <<entry, time, linker, changes>>

(* The end of the directory: everything that stayed in it was read. *)
Sort ==
  /\ sorter.at = "reading"
  /\ sorter.todo \intersect Present \subseteq {e.way : e \in ToSet(sorter.read)}
  /\ sorter' = [sorter EXCEPT !.at = "printing", !.todo = {},
                              !.order = bubble_sort(sorter.read)]
  /\ UNCHANGED <<entry, time, linker, changes>>

(* The second stat of an entry, which is shown; when it fails, the message *)
(* takes the name from a null pointer.                                     *)
ShowEntry ==
  LET k == Len(sorter.printed) + 1
  IN  /\ sorter.at = "printing" /\ k <= Len(sorter.order)
      /\ LET name == sorter.order[k].way
         IN  sorter' = IF entry[name] \in Objects
                       THEN [sorter EXCEPT !.printed = Append(@, time[entry[name]])]
                       ELSE [sorter EXCEPT !.at = "crashed"]
      /\ UNCHANGED <<entry, time, linker, changes>>

Finish ==
  /\ sorter.at = "printing" /\ Len(sorter.printed) = Len(sorter.order)
  /\ sorter' = [sorter EXCEPT !.at = "done"]
  /\ UNCHANGED <<entry, time, linker, changes>>

-----------------------------------------------------------------------------
(* The permissions of a mode: bit 8 is the owner's r, bit 0 the others' x, *)
(* bits 11 to 9 are set-user-id, set-group-id and sticky.                  *)
perm_statuses == <<"r", "w", "x", "r", "w", "x", "r", "w", "x">>

get_permission_unmarked(mode) ==     \* a slip: the sticky bit is left out
  LET plain == [i \in 1 .. 9 |-> IF 9 - i \in mode THEN perm_statuses[i] ELSE "-"]
      Mark(p, bit, i, up, low) ==
        IF bit \in mode THEN [p EXCEPT ![i] = IF @ = "x" THEN up ELSE low] ELSE p
  IN  Mark(Mark(plain, 11, 3, "S", "s"), 10, 6, "G", "g")

get_permission(mode) ==
  LET plain == [i \in 1 .. 9 |-> IF 9 - i \in mode THEN perm_statuses[i] ELSE "-"]
      Mark(p, bit, i, up, low) ==
        IF bit \in mode THEN [p EXCEPT ![i] = IF @ = "x" THEN up ELSE low] ELSE p
  IN  Mark(Mark(Mark(plain, 11, 3, "S", "s"), 10, 6, "G", "g"), 9, 9, "T", "t")

get_full_stat == \E mode \in Modes : listed' = <<mode, get_permission(mode)>>

-----------------------------------------------------------------------------
(* What users do meanwhile, get_atrs_by_link among it. *)

Change == changes < MaxChanges /\ changes' = changes + 1

Unlink ==
  /\ Change
  /\ \E name \in Present \ Dots : entry' = [entry EXCEPT ![name] = "none"]
  /\ Modifies(Dot)
  /\ UNCHANGED <<linker, sorter>>

Write ==
  /\ Change
  /\ \E what \in Files \union {DotDot} : Modifies(what)
  /\ UNCHANGED <<entry, linker, sorter>>

(* symlink, which fails on a name in use, and lstat, which only shows. *)
Symlink ==
  /\ Change
  /\ \E f \in Files, n \in SymlinkNumbers :
       /\ ~ Exists(LinkName(f, n))
       /\ entry' = [entry EXCEPT ![LinkName(f, n)] = "symlink"]
  /\ Modifies(Dot)
  /\ UNCHANGED <<linker, sorter>>

-----------------------------------------------------------------------------
DirInit ==
  /\ \E k \in OldLinks :
       entry = [name \in Names |->
                  IF name \in Objects THEN name
                  ELSE IF name \in {LinkName(name[1], n) : n \in 1 .. k} THEN name[1]
                  ELSE "none"]
  /\ time \in OldTimes
  /\ linker = [r \in Linkers |-> [at |-> "off", file |-> "none", number |-> 0]]
  /\ sorter = [at |-> "off", todo |-> {}, read |-> <<>>, order |-> <<>>,
               printed |-> <<>>, since |-> 0]
  /\ changes = 0

StatInit == listed = <<>>

DirNext ==
  \/ \E r \in Linkers : Open(r) \/ Search(r) \/ Link(r)
  \/ OpenDir \/ ReadEntry \/ Sort \/ ShowEntry \/ Finish
  \/ Unlink \/ Write \/ Symlink

DirSpec == DirInit /\ [][DirNext]_dirVars

StatSpec == StatInit /\ [][get_full_stat]_listed

-----------------------------------------------------------------------------
(* Properties. *)

DirTypeOK ==
  /\ entry \in [Names -> Objects \union {"symlink", "none"}]
  /\ time \in [Objects -> 0 .. MaxTime]
  /\ \A r \in Linkers :
       /\ linker[r].at \in {"off", "search", "link", "linked", "failed"}
       /\ linker[r].file \in Files \union {"none"} /\ linker[r].number \in 0 .. MaxNumber
  /\ sorter.at \in {"off", "reading", "printing", "done", "failed", "crashed"}
  /\ changes \in 0 .. MaxChanges

(* The runs that gave f one more name. *)
Linked(f) == {r \in Linkers : linker[r].at = "linked" /\ linker[r].file = f}

Decimal(digits) ==
  LET value[k \in 0 .. Len(digits)] ==
        IF k = 0 THEN 0 ELSE 10 * value[k - 1] + digits[k]
  IN  value[Len(digits)]

(* As long as nobody else changes the directory, the links of a file are   *)
(* numbered without a gap, and every run that succeeded made one of them,  *)
(* even if several runs found the same number free.                        *)
NumberedWithoutGaps ==
  changes = 0 => \E k \in OldLinks : \A f \in Files :
    {Decimal(name[2]) : name \in {nm \in Present \ Objects : nm[1] = f}}
      = 1 .. k + Cardinality(Linked(f))

(* A run fails only because another one took its number in between, or     *)
(* because of a change a user made.                                        *)
FailsOnlyByOthers ==
  changes = 0 => \A r \in Linkers : linker[r].at = "failed" =>
    \E q \in Linked(linker[r].file) : linker[q].number = linker[r].number

(* Runs of HardLinkNumber disturb one another only where they say so. *)
LinksNumbered == NumberedWithoutGaps /\ FailsOnlyByOthers

(* The list has every entry that was read once, in the order of the times  *)
(* read, and in the order of reading where they are equal, as links of one *)
(* file are.  The times that are shown, which are read again, are in order *)
(* too unless a user changed something; only the directory itself may be   *)
(* shown with a later time than it was sorted by, when a link was made.    *)
ListedInOrder ==
  sorter.at \in {"printing", "done"} =>
    LET position(e) == CHOOSE i \in DOMAIN sorter.read : sorter.read[i] = e
        Before(e, d) == e.time < d.time \/ (e.time = d.time /\ position(e) < position(d))
        order == sorter.order  shown == sorter.printed
        Modified(i) == /\ order[i].way = Dot /\ order[i].time < shown[i]
                       /\ \E r \in Linkers : linker[r].at = "linked"
    IN  /\ ToSet(order) = ToSet(sorter.read) /\ Len(order) = Len(sorter.read)
        /\ \A i \in 1 .. Len(order) - 1 : Before(order[i], order[i + 1])
        /\ changes = sorter.since => \A i, j \in DOMAIN shown :
             i < j => shown[i] <= shown[j] \/ Modified(i)

(* sort_files crashes only if a user changed something after it had read   *)
(* the directory: no link that is made meanwhile makes it crash.           *)
CrashOnlyIfChanged == sorter.at = "crashed" => changes > sorter.since

(* sort_files shows the directory in order, but for its own entry, and to  *)
(* the end, unless users change it.                                        *)
Listed == ListedInOrder /\ CrashOnlyIfChanged

(* Although there are nine letters for twelve bits, what is shown tells    *)
(* every bit of the mode.                                                  *)
Tells(p) ==
  {i \in 0 .. 8 : p[9 - i] \in {"r", "w", "x", "S", "G", "T"}}
    \union (IF p[3] \in {"S", "s"} THEN {11} ELSE {})
    \union (IF p[6] \in {"G", "g"} THEN {10} ELSE {})
    \union (IF p[9] \in {"T", "t"} THEN {9} ELSE {})

PermissionsTellTheMode == listed # <<>> => Tells(listed[2]) = listed[1]
=============================================================================
