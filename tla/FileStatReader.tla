--------------------------- MODULE FileStatReader ---------------------------
(***************************************************************************)
(* FileStatReader: for every file lsof has reported, the link of /proc     *)
(* that leads to it is followed by stat, once, and read by readlink, as    *)
(* often as it takes to find a buffer the name fits in.                    *)
(*                                                                         *)
(* The processes go on meanwhile: between any two system calls a           *)
(* descriptor can be closed and opened again, a process can exit and its   *)
(* id be used again, and a directory can be renamed and so give the file a *)
(* longer or shorter name.  What matters of a value is the file it is of,  *)
(* and of a name how much of it there is.                                  *)
(***************************************************************************)
EXTENDS CphfFile

CONSTANTS
  Listed,          \* the entries lsof has brought, as <<pid, key>>
  Files,           \* the files of the system
  NameLengths,     \* how long their names can be
  Options,         \* the option string: a sequence of letters
  FilenameLength,  \* the first size of the buffer (1024)
  MemoryCanFail,   \* whether malloc and realloc can fail
  MaxChanges,      \* bound: how often the links and names change
  NULL             \* no file

OptionTable ==
  {<<"n", CPHF_ID_FILENAME>>, <<"i", 8>>, <<"u", 25>>, <<"g", 35>>, <<"M", 39>>,
   <<"a", 46>>, <<"m", 47>>, <<"c", 48>>, <<"d", 6>>, <<"s", 57>>, <<"p", 42>>}

IdOf(letter) == (CHOOSE row \in OptionTable : row[1] = letter)[2]

ASSUME FileStatReaderAssumption ==
  /\ Listed \subseteq Nat \X (0..(UINT - 1))
  /\ IsFiniteSet(Listed)
  /\ NameLengths \subseteq Nat
  /\ Options \in Seq({row[1] : row \in OptionTable})
  /\ FilenameLength \in Nat \ {0}
  /\ MemoryCanFail \in BOOLEAN
  /\ MaxChanges \in Nat
  /\ NULL \notin Files \cup Listed

VARIABLES
  links,           \* /proc: the file each link leads to, or NULL
  length,          \* how long the name of each file is
  changes,         \* how often either has changed
  held,            \* history: the files each link has led to
  pc,              \* where do_read is
  todo,            \* the entries still to be visited
  entry,           \* the one being visited
  info,            \* struct file_info: the file stat was answered for
  i,               \* the next option
  filenameLength,  \* the size of the buffer of readFileName
  readers,         \* fileStatFuncs: the attributes collected, by id
  ulFiles          \* the entries themselves

osVars   == <<links, length, changes, held>>
readVars == <<todo, entry, info, i, filenameLength, readers, ulFiles>>
vars     == <<osVars, pc, readVars>>

\* The link lsof found the file under.
LinkOf(e) == UlfPath(e[1], e[2])
Links     == {LinkOf(e) : e \in Listed}

Stat(file)    == [of |-> file, shown |-> 0, whole |-> 0]
Name(file, n) == [of |-> file, shown |-> n, whole |-> length[file]]
NoName        == [of |-> NULL, shown |-> 0, whole |-> 0]

Init ==
  /\ links \in [Links -> Files \cup {NULL}]
  /\ length \in [Files -> NameLengths]
  /\ changes = 0
  /\ held = [link \in Links |-> {links[link]}]
  /\ pc = "next"
  /\ todo = Listed
  /\ entry = NULL
  /\ info = NULL
  /\ i = 1
  /\ filenameLength = FilenameLength
  /\ readers = EmptyMap
  /\ ulFiles = [e \in Listed |-> UnlinkedFile(e[1], e[2])]

-----------------------------------------------------------------------------
(* do_read, ProcFile::addFileAttributes, readFileStatAttributes *)

\* Both maps are visited in the order of their keys.
First(entries) ==
  CHOOSE e \in entries : \A f \in entries : e[1] < f[1] \/ (e[1] = f[1] /\ e[2] <= f[2])

Visit(e) ==
  /\ pc = "next"
  /\ todo # {}
  /\ entry' = e
  /\ todo' = todo \ {e}
  /\ UNCHANGED <<osVars, filenameLength, ulFiles>>

Followed(e) == links[formPath(e[1], e[2])]

StatSucceeds ==
  /\ Visit(First(todo))
  /\ Followed(entry') # NULL
  /\ info' = Followed(entry')
  /\ pc' = "options"
  /\ i' = 1
  /\ readers' = EmptyMap

\* Mutant: the answer of stat is not looked at.
StatFailsUnnoticed ==
  /\ Visit(First(todo))
  /\ Followed(entry') = NULL
  /\ info' = NULL
  /\ pc' = "options"
  /\ i' = 1
  /\ readers' = EmptyMap

StatFails ==
  /\ Visit(First(todo))
  /\ Followed(entry') = NULL
  /\ UNCHANGED <<pc, info, i, readers>>

-----------------------------------------------------------------------------
(* processOpiton, readFileName, addReader *)

Reading == pc = "options" /\ i <= Len(Options)

Add(value) ==
  /\ readers' = MapInsert(readers, IdOf(Options[i]), value)
  /\ i' = i + 1
  /\ pc' = "options"
  /\ UNCHANGED <<osVars, todo, entry, ulFiles>>

\* Mutant: stat is called again for every option.
ReadStatAgain ==
  /\ Reading
  /\ Options[i] # "n"
  /\ info' = IF Followed(entry) # NULL THEN Followed(entry) ELSE info
  /\ Add(Stat(info'))
  /\ UNCHANGED filenameLength

ReadStat ==
  /\ Reading
  /\ Options[i] # "n"
  /\ Add(Stat(info))
  /\ UNCHANGED <<info, filenameLength>>

Allocate(size) ==
  /\ filenameLength' = size
  /\ pc' = "readlink"
  /\ UNCHANGED <<osVars, todo, entry, info, i, readers, ulFiles>>

ReadName == Reading /\ Options[i] = "n" /\ Allocate(FilenameLength)

\* What readlink returns for a name that may not fit.
Returned(file) == IF length[file] < filenameLength THEN length[file] ELSE filenameLength

\* Mutants: a full buffer is looked for in the byte that is kept for the 0;
\* every answer is taken for a full buffer.
FilledUpToTheZero(file) == Returned(file) = filenameLength + 1

FilledAtMost(file) == Returned(file) <= filenameLength

Filled(file) == Returned(file) = filenameLength

ReadlinkFull ==
  /\ pc = "readlink"
  /\ Followed(entry) # NULL
  /\ Filled(Followed(entry))
  /\ Allocate(4 * filenameLength)

ReadlinkFits ==
  /\ pc = "readlink"
  /\ Followed(entry) # NULL
  /\ ~Filled(Followed(entry))
  /\ Add(Name(Followed(entry), Returned(Followed(entry))))
  /\ UNCHANGED <<info, filenameLength>>

\* readlink returns -1; the buffer has been cleared before.
ReadlinkFails ==
  /\ pc = "readlink"
  /\ Followed(entry) = NULL
  /\ Add(NoName)
  /\ UNCHANGED <<info, filenameLength>>

\* memset comes before the test for a null pointer.
NoMemory ==
  /\ MemoryCanFail
  /\ \/ Reading /\ Options[i] = "n"
     \/ pc = "readlink" /\ Followed(entry) # NULL /\ Filled(Followed(entry))
  /\ pc' = "segv"
  /\ UNCHANGED <<osVars, readVars>>

\* Mutant: what has been read so far is added, the rest left out.
AddAttributesEarly ==
  /\ pc = "options"
  /\ ulFiles' = [ulFiles EXCEPT ![entry].attributes = AddAll(@, readers, CPHF_ID_FILENAME)]
  /\ pc' = "next"
  /\ UNCHANGED <<osVars, todo, entry, info, i, filenameLength, readers>>

AddAttributes ==
  /\ pc = "options"
  /\ i > Len(Options)
  /\ ulFiles' = [ulFiles EXCEPT ![entry].attributes = AddAll(@, readers, CPHF_ID_FILENAME)]
  /\ pc' = "next"
  /\ UNCHANGED <<osVars, todo, entry, info, i, filenameLength, readers>>

Finish ==
  /\ pc = "next"
  /\ todo = {}
  /\ pc' = "done"
  /\ UNCHANGED <<osVars, readVars>>

-----------------------------------------------------------------------------
(* The processes. *)

Change ==
  /\ changes < MaxChanges
  /\ changes' = changes + 1
  /\ UNCHANGED <<pc, readVars>>

\* A descriptor is closed, or opened as another file; or an id changes hands.
Relink(link, file) ==
  /\ Change
  /\ links[link] # file
  /\ links' = [links EXCEPT ![link] = file]
  /\ held' = [held EXCEPT ![link] = @ \cup {file}]
  /\ UNCHANGED length

Rename(file, n) ==
  /\ Change
  /\ length[file] # n
  /\ length' = [length EXCEPT ![file] = n]
  /\ UNCHANGED <<links, held>>

ReaderStep ==
  \/ StatSucceeds \/ StatFails \/ ReadStat \/ ReadName \/ ReadlinkFull \/ ReadlinkFits
  \/ ReadlinkFails \/ NoMemory \/ AddAttributes \/ Finish

Ended == pc \in {"done", "segv"}

Terminated == Ended /\ UNCHANGED vars

Next ==
  \/ ReaderStep
  \/ \E link \in Links, file \in Files \cup {NULL} : Relink(link, file)
  \/ \E file \in Files, n \in NameLengths : Rename(file, n)
  \/ Terminated

Spec == Init /\ [][Next]_vars

\* The reader is a sequential program none of whose calls blocks.
FairSpec == Spec /\ WF_vars(ReaderStep)

-----------------------------------------------------------------------------
(* Properties. *)

Value == [of : Files \cup {NULL}, shown : Nat, whole : Nat]

\* Every variable has its type.
TypeOK ==
  /\ links \in [Links -> Files \cup {NULL}]
  /\ length \in [Files -> NameLengths]
  /\ changes \in 0..MaxChanges
  /\ held \in [Links -> SUBSET (Files \cup {NULL})]
  /\ pc \in {"next", "options", "readlink", "done", "segv"}
  /\ todo \subseteq Listed
  /\ entry \in Listed \cup {NULL}
  /\ info \in Files \cup {NULL}
  /\ pc \in {"options", "readlink"} => info # NULL /\ entry # NULL
  /\ i \in 1..(Len(Options) + 1)
  /\ filenameLength \in Nat
  /\ DOMAIN readers \subseteq {row[2] : row \in OptionTable}
  /\ \A id \in DOMAIN readers : readers[id] \in Value
  /\ DOMAIN ulFiles = Listed
  /\ \A e \in Listed : ulFiles[e].attributes \in
       Seq({row[2] : row \in OptionTable} \X Value)

Shown(e) == {ulFiles[e].attributes[k] : k \in DOMAIN ulFiles[e].attributes}

\* Whatever is shown of a file was read from a file its own link has led to
\* since lsof looked; so all of it is right if the link has not been used for
\* another file.  No entry is shown with attributes of another
\* (FileStatReader.cpp:162-188).
FromItsLink ==
  \A e \in Listed : \A a \in Shown(e) : a[2].of \in held[LinkOf(e)]

\* Everything but the name comes from one file at one moment: size, inode,
\* owner and times belong together even if the descriptor is reused meanwhile
\* (the one stat of FileStatReader.cpp:175).
OneStatPerFile ==
  \A e \in Listed : \A a, b \in Shown(e) :
    CPHF_ID_FILENAME \notin {a[1], b[1]} => a[2] = b[2]

\* A name is shown whole or not at all, however the name and the link change
\* while readFileName tries one buffer after the other.
NameWhole == \A e \in Listed : \A a \in Shown(e) : a[2].shown = a[2].whole

\* The buffer does not outgrow four times the longest name: it grows by four, where
\* the comment at FileStatReader.cpp:92 says it doubles (FileStatReader.cpp:93-97).
BufferBounded ==
  filenameLength = FilenameLength \/ \E n \in NameLengths : filenameLength <= 4 * n

\* Seen from outside, files are described one by one, each wholly or not at
\* all, and not again.
View == [e \in Listed |-> {a[1] : a \in Shown(e)}]

AbstractDescription == INSTANCE Description WITH
  Items <- Listed,
  Asked <- {IdOf(Options[k]) : k \in DOMAIN Options},
  view  <- View,
  ended <- Ended

ImplementsDescription == AbstractDescription!Spec

=============================================================================
