------------------------------ MODULE CphfFile ------------------------------
(***************************************************************************)
(* The entries cphf collects: ProcFile (one per process) and UnlinkedFile  *)
(* (one per unlinked file of a process), both subclasses of CPHFFile.      *)
(* This module holds their data and the operations on it, as operators     *)
(* that take an entry and return the changed entry; the readers            *)
(* (LsofReader, ProcReader) keep the entries in procMap_ and apply them.   *)
(*                                                                         *)
(* An attribute is a pair <<id, value>>.  Ids are the numbers of the       *)
(* source, because the readers sort by them.  A value is opaque here       *)
(* except for the process id, whose text ProcFile converts back with atoi. *)
(***************************************************************************)
EXTENDS Integers, Sequences, FiniteSets

CONSTANTS
  UINT,          \* number of values of an unsigned int (2^32 on Linux)
  ULL,           \* number of values of an unsigned long long (2^64)
  RlimMax,       \* rlim_max of RLIMIT_NOFILE, of the cphf process itself
  RlimitFails    \* TRUE when getrlimit fails

ASSUME WidthAssumption ==
  /\ UINT \in Nat \ {0}
  /\ ULL \in Nat \ {0}
  /\ RlimMax \in Nat
  /\ RlimitFails \in BOOLEAN

CPHF_ID_CMD      == 0
CPHF_ID_FILENAME == 2
CPHF_ID_PID      == 5
CPHF_ID_FLAGS    == 41

\* Mutant: the soft limit, here half the hard one.
ULF_TXT_FDSoft == RlimMax \div 2

(***************************************************************************)
(* The file descriptor number above which a number stands for "the text    *)
(* of the process" (its executable).  rlim_max + 1 is computed in 64 bits, *)
(* UINT_MAX + 1 in 32 bits: it is 0.                                       *)
(***************************************************************************)
ULF_TXT_FD == IF RlimitFails THEN ((UINT - 1) + 1) % UINT
                             ELSE (RlimMax + 1) % ULL

(***************************************************************************)
(* std::map: the empty map, and insert, which keeps the value a key has.   *)
(***************************************************************************)
EmptyMap == [k \in {} |-> k]

\* Mutant: operator[], which replaces the value.
MapAssign(m, k, v) == [x \in DOMAIN m \cup {k} |-> IF x = k THEN v ELSE m[x]]

MapInsert(m, k, v) ==
  IF k \in DOMAIN m
  THEN m
  ELSE [x \in DOMAIN m \cup {k} |-> IF x = k THEN v ELSE m[x]]

\* Mutant: in the order of a hash table, here the descending one.
Descending(s) ==
  [n \in 1..Cardinality(s) |-> CHOOSE x \in s : Cardinality({y \in s : y > x}) = n - 1]

\* The keys of a map are visited in ascending order.
Ascending(s) ==
  [n \in 1..Cardinality(s) |-> CHOOSE x \in s : Cardinality({y \in s : y < x}) = n - 1]

(***************************************************************************)
(* A path of /proc: the link /proc/<pid>/exe, or /proc/<pid>/fd/<fd>.      *)
(***************************************************************************)
ExePath(pid)    == [pid |-> pid, link |-> "exe", fd |-> 0]
FdPath(pid, fd) == [pid |-> pid, link |-> "fd",  fd |-> fd]

\* Mutant: the limit itself counts as an executable.
UlfPathInclusive(pid, fid) ==
  IF fid >= ULF_TXT_FD THEN ExePath(pid) ELSE FdPath(pid, fid)

\* The path the constructor of UnlinkedFile computes (and keeps).
UlfPath(pid, fid) == IF fid > ULF_TXT_FD THEN ExePath(pid) ELSE FdPath(pid, fid)

\* Mutant: as above, when the path is computed again.
formPathInclusive(pid, fid) == UlfPathInclusive(pid, fid)

\* The path FileStatReader computes again, from the key of the entry.
formPath(pid, fid) == IF fid > ULF_TXT_FD THEN ExePath(pid) ELSE FdPath(pid, fid)

UnlinkedFile(pid, fid) == [path |-> UlfPath(pid, fid), attributes |-> << >>]

(***************************************************************************)
(* addAttribute of both classes: each has one id that goes before the      *)
(* others, and puts the rest behind.                                       *)
(***************************************************************************)
AddAttribute(attributes, id, value, front) ==
  IF id = front
  THEN <<<<id, value>>>> \o attributes
  ELSE Append(attributes, <<id, value>>)

UlfAddAttribute(ulf, id, value) ==
  [ulf EXCEPT !.attributes = AddAttribute(@, id, value, CPHF_ID_FILENAME)]

ProcFile == [pid |-> 0, attributes |-> << >>, ulFiles |-> EmptyMap]

ProcAddAttribute(pf, id, value) ==
  [pf EXCEPT !.pid        = IF id = CPHF_ID_PID THEN value.num ELSE @,
             !.attributes = AddAttribute(@, id, value, CPHF_ID_CMD)]

(***************************************************************************)
(* The loop that adds every element of the map m as an attribute: `added'  *)
(* is what there is after n of them.                                       *)
(***************************************************************************)
AddAll(attributes, m, front) ==
  LET N   == Cardinality(DOMAIN m)
      ids == Ascending(DOMAIN m)
      added[n \in 0..N] ==
        IF n = 0 THEN attributes
                 ELSE AddAttribute(added[n - 1], ids[n], m[ids[n]], front)
  IN  added[N]

\* addFile takes a 64-bit number and keys the entry with an unsigned int.
UlfKey(fd) == fd % UINT

ProcAddFile(pf, fd, ulf) ==
  [pf EXCEPT !.ulFiles = MapInsert(@, UlfKey(fd), ulf)]

=============================================================================
