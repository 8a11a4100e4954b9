----------------------------- MODULE ProcReader -----------------------------
(***************************************************************************)
(* ProcReader: for every process lsof has reported, /proc/<pid>/stat is    *)
(* scanned and /proc/<pid>/exe is stat'ed into one struct proc_info, and   *)
(* each option turns a field of it into an attribute of the process.       *)
(*                                                                         *)
(* The same struct proc_info serves all processes, one after the other,    *)
(* and the processes go on living meanwhile: they exit, and their ids are  *)
(* given to new ones.  What matters of a field is therefore not its value  *)
(* but where it was read: a value is the process it comes from, and        *)
(* whether it is the field it should be, a part of the command name that   *)
(* was taken for it, or whatever was in memory.                            *)
(*                                                                         *)
(* Every open, read and stat is a step of its own; what the program does   *)
(* between two of them involves only its own memory.                       *)
(***************************************************************************)
EXTENDS CphfFile

CONSTANTS
  Pids,       \* the process ids
  Kinds,      \* what processes there are: see Kind
  Options,    \* the option string: a sequence of letters
  MaxGen,     \* how many processes can have the same id in turn
  NULL        \* a null pointer, or no process

\* comm: whether the command name is one word; exe: whether the executable can
\* be stat'ed; owner: whether its user and group are known to the system.
Kind == [oneWord : BOOLEAN, exe : BOOLEAN, owner : BOOLEAN]

\* Letter, field of struct proc_info it is taken from, id of the attribute.
\* "later" stands for the fields of the second to the fifth scan.
OptionTable ==
  {<<"c", "cmdline", 0>>, <<"P", "ppid", 15>>, <<"n", "procgid", 10>>,
   <<"U", "pw", 20>>, <<"u", "pw", 25>>, <<"G", "gr", 30>>, <<"g", "gr", 35>>,
   <<"e", "later", 45>>, <<"q", "later", 50>>, <<"s", "state", 40>>,
   <<"d", "exe", 6>>, <<"v", "later", 60>>, <<"r", "later", 65>>,
   <<"T", "later", 70>>, <<"D", "later", 75>>, <<"S", "later", 80>>,
   <<"i", "later", 90>>, <<"M", "exe", 42>>}

FieldOf(letter) == (CHOOSE row \in OptionTable : row[1] = letter)[2]
IdOf(letter)    == (CHOOSE row \in OptionTable : row[1] = letter)[3]

Processes == [pid : Pids, gen : 1..MaxGen, kind : Kind]

Value == [of : {NULL} \cup Processes, as : {"field", "word", "nothing", "unset"}]

ASSUME ProcReaderAssumption ==
  /\ Pids \subseteq Nat
  /\ IsFiniteSet(Pids)
  /\ Kinds \subseteq Kind
  /\ Options \in Seq({row[1] : row \in OptionTable})
  /\ MaxGen \in Nat \ {0}
  /\ NULL \notin Pids \cup Processes \cup Value

VARIABLES
  procs,     \* /proc: the process each id belongs to, or NULL
  gens,      \* how many processes have had each id
  pc,        \* where do_read is
  todo,      \* the ids still to be visited
  pid,       \* the one being visited
  file,      \* the process whose stat file is open
  info,      \* struct proc_info
  i,         \* the next option
  readers,   \* procReaderFuncs: the attributes collected, by id
  warned,    \* the ids an ERROR was printed for by the scan
  procMap

osVars   == <<procs, gens>>
readVars == <<todo, pid, file, info, i, readers, warned, procMap>>
vars     == <<osVars, pc, readVars>>

Process(p, gen, kind) == [pid |-> p, gen |-> gen, kind |-> kind]

\* Values: the field of a process, a part of its command name, nothing at all,
\* what was in memory before.
Field(process) == [of |-> process, as |-> "field"]
Word(process)  == [of |-> process, as |-> "word"]
Nothing        == [of |-> NULL, as |-> "nothing"]
Unset          == [of |-> NULL, as |-> "unset"]

\* What LSOFReader leaves for a process: the entry with its process id.
PidText(p)   == [kind |-> "num", num |-> p]
Reported(p)  == ProcAddAttribute(ProcFile, CPHF_ID_PID, PidText(p))

Init ==
  /\ procs \in [Pids -> {NULL} \cup {Process(p, 1, kind) : p \in Pids, kind \in Kinds}]
  /\ \A p \in Pids : procs[p] # NULL => procs[p].pid = p
  /\ gens = [p \in Pids |-> 1]
  /\ pc = "open"
  /\ todo = Pids
  /\ pid = NULL
  /\ file = NULL
  /\ info = [state |-> Unset, ppid |-> Unset, procgid |-> Unset, later |-> Unset,
             exe |-> Unset, pw |-> NULL, gr |-> NULL]
  /\ i = 1
  /\ readers = EmptyMap
  /\ warned = {}
  /\ procMap = [p \in Pids |-> Reported(p)]

-----------------------------------------------------------------------------
(* readProcStat *)

\* The map is visited in the order of the ids.
Smallest(s) == CHOOSE p \in s : \A q \in s : p <= q

Open ==
  /\ pc = "open"
  /\ todo # {}
  /\ pid' = Smallest(todo)
  /\ todo' = todo \ {pid'}
  /\ file' = procs[pid']
  /\ UNCHANGED <<osVars, info, i, readers, warned, procMap>>

OpenStat == Open /\ file' # NULL /\ pc' = "scan"

\* Mutant: the loop is left.
OpenFailsBreaks == Open /\ file' = NULL /\ pc' = "done"

\* The path stat'ed next begins with the text of the error: stat fails too.
OpenFails == Open /\ file' = NULL /\ pc' = "open"

Alive(process) == process # NULL /\ procs[process.pid] = process

\* Mutant: the cached user and group are kept.
ScanKeepsOwner(newInfo) ==
  /\ pc = "scan"
  /\ pc' = "stat"
  /\ info' = newInfo
  /\ UNCHANGED <<osVars, todo, pid, file, i, readers, procMap>>

Scan(newInfo) ==
  /\ pc = "scan"
  /\ pc' = "stat"
  /\ info' = [newInfo EXCEPT !.pw = NULL, !.gr = NULL]
  /\ UNCHANGED <<osVars, todo, pid, file, i, readers, procMap>>

FullScan ==
  /\ Alive(file)
  /\ file.kind.oneWord
  /\ Scan([info EXCEPT !.state = Field(file), !.ppid = Field(file),
                       !.procgid = Field(file), !.later = Field(file)])
  /\ UNCHANGED warned

\* %*s skips one word of the command name.  What follows is a letter for the
\* state, and may be one or two numbers; then all five scans stop.
ShortScan ==
  /\ Alive(file)
  /\ ~file.kind.oneWord
  /\ \/ Scan([info EXCEPT !.state = Word(file)])
     \/ Scan([info EXCEPT !.state = Word(file), !.ppid = Word(file)])
     \/ Scan([info EXCEPT !.state = Word(file), !.ppid = Word(file),
                          !.procgid = Word(file)])
  /\ warned' = warned \cup {pid}

\* Mutant: reading nothing is not taken for an error.
EmptyScanSilent ==
  /\ ~Alive(file)
  /\ Scan(info)
  /\ UNCHANGED warned

\* The process has exited since the open: there is nothing to read.
EmptyScan ==
  /\ ~Alive(file)
  /\ Scan(info)
  /\ warned' = warned \cup {pid}

\* /proc/<pid>/exe is looked up by id again.
ExeReadable == procs[pid] # NULL /\ procs[pid].kind.exe

\* Mutant: the options are counted from zero.
StatExeFromZero ==
  /\ pc = "stat"
  /\ ExeReadable
  /\ info' = [info EXCEPT !.exe = Field(procs[pid])]
  /\ pc' = "options"
  /\ i' = 0
  /\ readers' = EmptyMap
  /\ UNCHANGED <<osVars, todo, pid, file, warned, procMap>>

StatExe ==
  /\ pc = "stat"
  /\ ExeReadable
  /\ info' = [info EXCEPT !.exe = Field(procs[pid])]
  /\ pc' = "options"
  /\ i' = 1
  /\ readers' = EmptyMap
  /\ UNCHANGED <<osVars, todo, pid, file, warned, procMap>>

\* Mutant: the executable is waited for.
StatFailsRetries ==
  /\ pc = "stat"
  /\ ~ExeReadable
  /\ UNCHANGED vars

StatFails ==
  /\ pc = "stat"
  /\ ~ExeReadable
  /\ pc' = "open"
  /\ UNCHANGED <<osVars, readVars>>

-----------------------------------------------------------------------------
(* do_read, processOpiton, readIDs, readCMD, addReader *)

\* getpwuid and getgrgid of the owner of the executable, unless cached.
Looked(field) ==
  IF info[field] # NULL THEN info[field]
  ELSE IF info.exe.of.kind.owner THEN info.exe ELSE NULL

ReadOption ==
  /\ pc = "options"
  /\ i <= Len(Options)
  /\ LET letter == Options[i]
         field  == FieldOf(letter)
         value  == IF field = "cmdline"
                   THEN IF procs[pid] = NULL THEN Nothing ELSE Field(procs[pid])
                   ELSE IF field \in {"pw", "gr"} THEN Looked(field)
                   ELSE info[field]
     IN  /\ value # NULL
         /\ info' = IF field \in {"pw", "gr"} THEN [info EXCEPT ![field] = value] ELSE info
         /\ readers' = MapInsert(readers, IdOf(letter), value)
  /\ i' = i + 1
  /\ UNCHANGED <<osVars, pc, todo, pid, file, warned, procMap>>

\* The name of a user or a group nobody knows is read through a null pointer.
NullOwner ==
  /\ pc = "options"
  /\ i <= Len(Options)
  /\ FieldOf(Options[i]) \in {"pw", "gr"}
  /\ Looked(FieldOf(Options[i])) = NULL
  /\ pc' = "segv"
  /\ UNCHANGED <<osVars, readVars>>

\* Mutant: a process that has gone is left at once, with what has been read.
AddAttributesEarly ==
  /\ pc = "options"
  /\ i > Len(Options) \/ procs[pid] = NULL
  /\ procMap' = [procMap EXCEPT ![pid].attributes = AddAll(@, readers, CPHF_ID_CMD)]
  /\ pc' = "open"
  /\ UNCHANGED <<osVars, todo, pid, file, info, i, readers, warned>>

AddAttributes ==
  /\ pc = "options"
  /\ i > Len(Options)
  /\ procMap' = [procMap EXCEPT ![pid].attributes = AddAll(@, readers, CPHF_ID_CMD)]
  /\ pc' = "open"
  /\ UNCHANGED <<osVars, todo, pid, file, info, i, readers, warned>>

Finish ==
  /\ pc = "open"
  /\ todo = {}
  /\ pc' = "done"
  /\ UNCHANGED <<osVars, readVars>>

-----------------------------------------------------------------------------
(* The processes. *)

Exits(p) ==
  /\ procs[p] # NULL
  /\ procs' = [procs EXCEPT ![p] = NULL]
  /\ UNCHANGED <<gens, pc, readVars>>

Starts(p) ==
  /\ procs[p] = NULL
  /\ gens[p] < MaxGen
  /\ gens' = [gens EXCEPT ![p] = @ + 1]
  /\ \E kind \in Kinds : procs' = [procs EXCEPT ![p] = Process(p, gens[p] + 1, kind)]
  /\ UNCHANGED <<pc, readVars>>

ReaderStep ==
  \/ OpenStat \/ OpenFails \/ FullScan \/ ShortScan \/ EmptyScan
  \/ StatExe \/ StatFails \/ ReadOption \/ NullOwner \/ AddAttributes \/ Finish

Ended == pc \in {"done", "segv"}

Terminated == Ended /\ UNCHANGED vars

Next == ReaderStep \/ (\E p \in Pids : Exits(p) \/ Starts(p)) \/ Terminated

Spec == Init /\ [][Next]_vars

\* The reader is a sequential program none of whose calls blocks.
FairSpec == Spec /\ WF_vars(ReaderStep)

-----------------------------------------------------------------------------
(* Properties. *)

TypeOK ==
  /\ DOMAIN procs = Pids
  /\ \A p \in Pids : procs[p] # NULL =>
       procs[p] \in {Process(p, gens[p], k) : k \in Kinds}
  /\ gens \in [Pids -> 1..MaxGen]
  /\ pc \in {"open", "scan", "stat", "options", "done", "segv"}
  /\ todo \subseteq Pids
  /\ pid \in Pids \cup {NULL}
  /\ DOMAIN info = {"state", "ppid", "procgid", "later", "exe", "pw", "gr"}
  /\ \A f \in DOMAIN info : info[f] = NULL => f \in {"pw", "gr"}
  /\ \A f \in DOMAIN info :
       info[f] # NULL => info[f] \in Value /\ info[f].as # "nothing"
  /\ i \in 1..(Len(Options) + 1)
  /\ DOMAIN readers \subseteq {row[3] : row \in OptionTable}
  /\ warned \subseteq Pids
  /\ DOMAIN procMap = Pids

\* The attributes an entry has got from this reader.
Read(p) ==
  {procMap[p].attributes[k] : k \in
     {l \in DOMAIN procMap[p].attributes : procMap[p].attributes[l][1] # CPHF_ID_PID}}

Ids(p) == {procMap[p].attributes[k][1] : k \in DOMAIN procMap[p].attributes}

OptionIds == {IdOf(Options[k]) : k \in DOMAIN Options}

\* The three looks readProcStat and readCMD take at an id, in this order: the
\* scan of stat, the stat of exe and, if it is asked for, the read of cmdline.
ExeIds == {6, 42, 20, 25, 30, 35}

Look(id) == IF id = CPHF_ID_CMD THEN 3 ELSE IF id \in ExeIds THEN 2 ELSE 1

\* What is shown without a warning: the ERROR of readProcStat excuses what the
\* scan has read, and nothing else; a command line that cannot be read is empty.
Trusted(p) ==
  {a \in Read(p) : a[2].as # "nothing" /\ ~(p \in warned /\ Look(a[1]) = 1)}

\* The same process, or one that had the id before.
NotAfter(a, b) == a = b \/ a.gen < b.gen

\* What is shown without an ERROR are fields of processes that had the id, never
\* a word of a command name, uninitialized memory or what is left of another id;
\* only the command line can be missing; one scan shows one process, and a later
\* look never shows an earlier process than the look before it.  So when the
\* scan and the command line are of the same process, the executable and its
\* owner are as well.  That a later look finds a successor of the process is not
\* excluded, and no ERROR says so: each look goes by the id again
\* (ProcReader.cpp:178-183, :195, :241-272).
LooksInOrder ==
  \A p \in Pids :
    /\ \A a \in Read(p) : a[2].as = "nothing" => a[1] = CPHF_ID_CMD
    /\ \A a \in Trusted(p) : a[2].as = "field" /\ a[2].of.pid = p
    /\ \A a, b \in Trusted(p) :
         /\ Look(a[1]) < Look(b[1]) => NotAfter(a[2].of, b[2].of)
         /\ Look(a[1]) = 1 /\ Look(b[1]) = 1 => a[2].of = b[2].of

\* The owner shown is that of the executable whose permissions and device are
\* shown: the cached passwd and group entries do not outlive the process they
\* were looked up for (ProcReader.cpp:185-186, :281-294).
OwnerMatchesExecutable ==
  \A p \in Pids : \A a, b \in Read(p) : {a[1], b[1]} \subseteq ExeIds => a[2] = b[2]

\* ProcReader.cpp:203-205: "the order of the outputted fields is dependent upon
\* when they are added": whatever the order of the options, the command comes
\* first, then the process id, then the rest by ascending id, none twice.
DisplayOrder ==
  \A p \in Pids :
    LET rank(id) == IF id = CPHF_ID_CMD THEN 0 ELSE IF id = CPHF_ID_PID THEN 1 ELSE id
        shown    == procMap[p].attributes
    IN  \A k, l \in DOMAIN shown : k < l => rank(shown[k][1]) < rank(shown[l][1])

\* A process gets every attribute that was asked for, or none: it disappearing
\* half way through does not leave part of them (do_read).
AllOrNothing ==
  \A p \in Pids : Ids(p) \in {{CPHF_ID_PID}, {CPHF_ID_PID} \cup OptionIds}

\* When the reader is done, it has described every process that has been there
\* all along and whose executable it may look at.
LiveProcessesDescribed ==
  pc = "done" => \A p \in Pids :
    procs[p] # NULL /\ procs[p].gen = 1 /\ procs[p].kind.exe =>
      OptionIds \subseteq Ids(p)

\* ProcReader.cpp:177: "/proc/stat is specifically designed to use scanf format
\* strings": every field of a process that stays is read as what it is.  It does
\* not hold when its command name has a blank in it.
FieldsAreOwn ==
  \A p \in Pids : procs[p] # NULL /\ procs[p].gen = 1 =>
    \A a \in Read(p) : a[2] = Field(procs[p])

\* Seen from outside, processes are described one by one, each wholly or not at
\* all, what has been added is never changed by a later process, and nothing
\* is added once the reader has ended; and it does end, whatever the processes
\* do meanwhile (do_read).
View == [p \in Pids |-> Ids(p) \ {CPHF_ID_PID}]

AbstractDescription == INSTANCE Description WITH
  Items <- Pids,
  Asked <- OptionIds,
  view  <- View,
  ended <- Ended

ImplementsDescription == AbstractDescription!Spec

=============================================================================
