-------------------------------- MODULE Main --------------------------------
(***************************************************************************)
(* main: the options of the command line are checked, the readers they ask *)
(* for are run one after the other over the same map of entries, and the   *)
(* entries are printed.                                                    *)
(*                                                                         *)
(* Each reader first registers the labels of its attributes in             *)
(* CPHFFile::attributeFlags; printing looks every attribute up there with  *)
(* unordered_map::at, which throws for an id nobody registered.  What is   *)
(* modelled of an entry is therefore the ids of its attributes.  One       *)
(* process with one file stands for the entries; LsofReader and ProcReader *)
(* model how they are filled.                                              *)
(*                                                                         *)
(* An option is a sequence of letters.  A letter that is in no table gives *)
(* an attribute whose id is an uninitialized int: any value of WildIds.    *)
(***************************************************************************)
EXTENDS Integers, Sequences

CONSTANTS
  Characters,    \* what an option can be made of
  Argvs,         \* the command lines: sequences of <<option, value>>
  WildIds,       \* what an uninitialized attribID can hold
  CharIsSigned   \* whether plain char is signed, as on x86

VARIABLES
  pc,              \* where main is
  argv,            \* the options not yet seen by getopt_long
  given,           \* all the options, as given
  flagsOkay,
  proc_ops,
  file_ops,
  reported,        \* the bad flags an ERROR was printed for
  funcvector,      \* the readers still to run
  attributeFlags,  \* the ids that have a label
  procIds,         \* the ids of the attributes of the process
  fileIds,         \* and of its file
  printed          \* what is printed of each: <<"proc" | "file", ids>>

optionVars == <<argv, given, flagsOkay, proc_ops, file_ops, reported>>
entryVars  == <<attributeFlags, procIds, fileIds>>
vars       == <<pc, optionVars, funcvector, entryVars, printed>>

No == <<"n", "o">>

PROC_OPTS_DEFAULT == <<"P", "n", "U", "q", "M", "d", "u", "G", "g", "e", "s",
                       "v", "r", "T", "D", "S", "i", "c">>

FILESTAT_OPTS_DEFAULT == <<"n", "i", "u", "g", "M", "a", "m", "c", "d", "s", "p">>

Letters(ops) == {ops[i] : i \in DOMAIN ops}

ASSUME MainAssumption ==
  /\ Letters(PROC_OPTS_DEFAULT) \cup Letters(FILESTAT_OPTS_DEFAULT) \subseteq Characters
  /\ Argvs \subseteq Seq({"proc", "file", "?"} \X Seq(Characters))
  /\ WildIds \subseteq Int
  /\ WildIds # {}
  /\ CharIsSigned \in BOOLEAN

\* The attribute each letter stands for, in ProcReader and in FileStatReader.
ProcOptions ==
  {<<"c", 0>>, <<"P", 15>>, <<"n", 10>>, <<"U", 20>>, <<"u", 25>>, <<"G", 30>>,
   <<"g", 35>>, <<"e", 45>>, <<"q", 50>>, <<"s", 40>>, <<"d", 6>>, <<"v", 60>>,
   <<"r", 65>>, <<"T", 70>>, <<"D", 75>>, <<"S", 80>>, <<"i", 90>>, <<"M", 42>>}

FileOptions ==
  {<<"n", 2>>, <<"i", 8>>, <<"u", 25>>, <<"g", 35>>, <<"M", 39>>, <<"a", 46>>,
   <<"m", 47>>, <<"c", 48>>, <<"d", 6>>, <<"s", 57>>, <<"p", 42>>}

\* The ids each reader registers a label for.
LsofLabels == {105, 41, 5}

\* Mutants: one label is not registered; ESP's is, in the place of DEVICE's.
ProcLabelsWithoutPerms ==
  {0, 15, 10, 20, 25, 30, 35, 45, 50, 6, 60, 65, 70, 75, 80, 90, 40}

ProcLabelsEsp ==
  {0, 15, 10, 20, 25, 30, 35, 45, 50, 85, 60, 65, 70, 75, 80, 90, 42, 40}

ProcLabels == {0, 15, 10, 20, 25, 30, 35, 45, 50, 6, 60, 65, 70, 75, 80, 90, 42, 40}

FileLabels == {2, 8, 25, 35, 39, 46, 47, 48, 6, 5, 57, 42}

Init ==
  /\ pc = "getopt"
  /\ argv \in Argvs
  /\ given = argv
  /\ flagsOkay = TRUE
  /\ proc_ops = PROC_OPTS_DEFAULT
  /\ file_ops = FILESTAT_OPTS_DEFAULT
  /\ reported = {}
  /\ funcvector = << >>
  /\ attributeFlags = {}
  /\ procIds = {}
  /\ fileIds = {}
  /\ printed = {}

-----------------------------------------------------------------------------
(* The options. *)

\* Mutant: the check stops at the first bad flag.
FirstBadFlag(defaults, ops) ==
  {ops[i] : i \in {k \in DOMAIN ops :
     /\ ops # No
     /\ ops[k] \notin Letters(defaults)
     /\ \A j \in 1..(k - 1) : ops[j] \in Letters(defaults)}}

\* checkOptions: the flags it prints an error for; it returns TRUE if none.
BadFlags(defaults, ops) ==
  IF ops = No THEN {} ELSE Letters(ops) \ Letters(defaults)

NextOption(name) ==
  /\ pc = "getopt"
  /\ argv # << >>
  /\ Head(argv)[1] = name
  /\ argv' = Tail(argv)
  /\ UNCHANGED <<pc, given, funcvector, entryVars, printed>>

CheckProc ==
  /\ NextOption("proc")
  /\ LET ops == Head(argv)[2]
         bad == BadFlags(PROC_OPTS_DEFAULT, ops)
     IN  /\ proc_ops' = ops
         /\ flagsOkay' = (bad = {})
         /\ reported' = reported \cup {<<"proc", flag>> : flag \in bad}
  /\ UNCHANGED file_ops

CheckFile ==
  /\ NextOption("file")
  /\ LET ops == Head(argv)[2]
         bad == BadFlags(FILESTAT_OPTS_DEFAULT, ops)
     IN  /\ file_ops' = ops
         /\ flagsOkay' = (bad = {})
         /\ reported' = reported \cup {<<"file", flag>> : flag \in bad}
  /\ UNCHANGED proc_ops

\* getopt_long reports an unknown option itself, and main goes on.
SkipUnknown ==
  /\ NextOption("?")
  /\ UNCHANGED <<flagsOkay, proc_ops, file_ops, reported>>

\* Mutant: the end of the options is not recognized.
LastOptionMissed ==
  /\ pc = "getopt"
  /\ argv = << >>
  /\ UNCHANGED vars

\* The -1 of getopt_long is compared after it was stored in a char.
LastOption ==
  /\ pc = "getopt"
  /\ argv = << >>
  /\ CharIsSigned
  /\ pc' = "choose"
  /\ UNCHANGED <<optionVars, funcvector, entryVars, printed>>

Readers == <<"lsof">> \o (IF proc_ops # No THEN <<"proc">> ELSE << >>)
                      \o (IF file_ops # No THEN <<"file">> ELSE << >>)

\* A vector of size 1 (everything suppressed) is not built at all.
ChooseReaders ==
  /\ pc = "choose"
  /\ LET chosen == IF flagsOkay THEN Readers ELSE << >>
     IN  funcvector' = IF Len(chosen) # 1 THEN chosen ELSE << >>
  /\ pc' = "build"
  /\ UNCHANGED <<optionVars, entryVars, printed>>

-----------------------------------------------------------------------------
(* ProcFileEntryBuilder::build: the readers, in order. *)

ReadNext(reader, labels) ==
  /\ pc = "build"
  /\ funcvector # << >>
  /\ Head(funcvector) = reader
  /\ funcvector' = Tail(funcvector)
  /\ attributeFlags' = attributeFlags \cup labels
  /\ UNCHANGED <<pc, optionVars, printed>>

BadLetters(options, ops) == Letters(ops) \ {p[1] : p \in options}

\* The ids the letters can give; those of bad letters are whatever is in attribID.
IdSets(options, ops) ==
  LET known == {p[2] : p \in {q \in options : q[1] \in Letters(ops)}}
  IN  {known \cup {wild[letter] : letter \in DOMAIN wild} :
         wild \in [BadLetters(options, ops) -> WildIds]}

\* lsof finds an unlinked file, or none.
ReadLsof ==
  /\ ReadNext("lsof", LsofLabels)
  /\ procIds' \in {{}, {5}}
  /\ UNCHANGED fileIds

\* The process, or the file, can be gone: then nothing is added.
ReadProc ==
  /\ ReadNext("proc", ProcLabels)
  /\ \/ /\ procIds # {}
        /\ \E ids \in IdSets(ProcOptions, proc_ops) : procIds' = procIds \cup ids
     \/ UNCHANGED procIds
  /\ UNCHANGED fileIds

ReadFile ==
  /\ ReadNext("file", FileLabels)
  /\ \/ /\ procIds # {}
        /\ \E ids \in IdSets(FileOptions, file_ops) : fileIds' = ids
     \/ UNCHANGED fileIds
  /\ UNCHANGED procIds

Flatten ==
  /\ pc = "build"
  /\ funcvector = << >>
  /\ pc' = "print"
  /\ UNCHANGED <<optionVars, funcvector, entryVars, printed>>

-----------------------------------------------------------------------------
(* PrettyPrinter: processes unless --proc no, files unless --file no. *)

\* Mutant: --proc no suppresses the files too.
PrintableByProc ==
  {item \in {<<"proc", procIds>>, <<"file", fileIds>>} :
     procIds # {} /\ (~flagsOkay \/ proc_ops # No)}

\* With bad flags procs and files keep their initial value, TRUE; there is
\* nothing to print then.
Printable ==
  {item \in {<<"proc", procIds>>, <<"file", fileIds>>} :
     /\ procIds # {}
     /\ item[1] = "proc" => ~flagsOkay \/ proc_ops # No
     /\ item[1] = "file" => ~flagsOkay \/ file_ops # No}

PrintFiles ==
  /\ pc = "print"
  /\ \A item \in Printable : item[2] \subseteq attributeFlags
  /\ pc' = "exit"
  /\ printed' = Printable
  /\ UNCHANGED <<optionVars, funcvector, entryVars>>

\* std::out_of_range leaves main: the program is aborted.
PrintThrows ==
  /\ pc = "print"
  /\ \E item \in Printable : ~(item[2] \subseteq attributeFlags)
  /\ pc' = "aborted"
  /\ UNCHANGED <<optionVars, funcvector, entryVars, printed>>

Terminated == pc \in {"exit", "aborted"} /\ UNCHANGED vars

Step ==
  \/ CheckProc \/ CheckFile \/ SkipUnknown \/ LastOption \/ ChooseReaders
  \/ ReadLsof \/ ReadProc \/ ReadFile \/ Flatten \/ PrintFiles \/ PrintThrows

Next == Step \/ Terminated

Spec == Init /\ [][Next]_vars

\* main is a sequential program: it takes its next step.
FairSpec == Spec /\ WF_vars(Step)

-----------------------------------------------------------------------------
(* Properties. *)

OptionType == {"proc", "file", "?"} \X Seq(Characters)
AllIds     == {p[2] : p \in ProcOptions \cup FileOptions} \cup LsofLabels

TypeOK ==
  /\ pc \in {"getopt", "choose", "build", "print", "exit", "aborted"}
  /\ argv \in Seq(OptionType)
  /\ given \in Argvs
  /\ flagsOkay \in BOOLEAN
  /\ proc_ops \in Seq(Characters)
  /\ file_ops \in Seq(Characters)
  /\ reported \subseteq {"proc", "file"} \X Characters
  /\ funcvector \in Seq({"lsof", "proc", "file"})
  /\ attributeFlags \subseteq AllIds
  /\ procIds \subseteq AllIds \cup WildIds
  /\ fileIds \subseteq AllIds \cup WildIds
  /\ printed \subseteq {"proc", "file"} \X SUBSET (AllIds \cup WildIds)

DefaultsOf(name) ==
  IF name = "proc" THEN PROC_OPTS_DEFAULT ELSE FILESTAT_OPTS_DEFAULT

\* The bad flags of the whole command line, whatever main makes of them.
BadGiven ==
  UNION {{<<given[i][1], flag>> : flag \in
            {f \in Letters(given[i][2]) :
               given[i][2] # No /\ f \notin Letters(DefaultsOf(given[i][1]))}} :
         i \in {k \in DOMAIN given : given[k][1] # "?"}}

\* cphf.cpp:40-42: "all flags for all options will be checked": when the options
\* have been read, an ERROR has been printed for every bad flag, and for no
\* other.
AllErrorsReported == pc # "getopt" => reported = BadGiven

\* cphf.cpp:40: "cphf will abort if just one flag is bad": no reader runs then.
\* It does not hold: flagsOkay only remembers the last option.
BadFlagAborts == pc # "getopt" /\ BadGiven # {} => funcvector = << >> /\ procIds = {}

\* Printing throws only after a bad flag was let through: every attribute the
\* accepted flags can add has a label registered by a reader that has run
\* (the option tables of cphf.cpp:64, the cases of the two processOpiton and
\* the two createAttribMap agree).
ThrowNeedsBadFlag == pc = "aborted" => BadGiven # {}

\* The letters the last option of that name asks for; the default ones if there
\* is none.
Asked(name) ==
  LET at == {i \in DOMAIN given : given[i][1] = name}
  IN  IF at = {} THEN DefaultsOf(name)
      ELSE given[CHOOSE i \in at : \A j \in at : j <= i][2]

IdsAsked(name) ==
  {p[2] : p \in {q \in IF name = "proc" THEN ProcOptions ELSE FileOptions :
                   q[1] \in Letters(Asked(name))}}

\* README:19-51: what is printed of a process, and of a file, is what the last
\* option of that name asks for and nothing else (only the process id comes
\* with every process), or nothing when it was suppressed with "no" or has
\* disappeared.
PrintedAsAsked ==
  pc = "exit" /\ BadGiven = {} =>
    /\ \A item \in printed :
         /\ Asked(item[1]) # No
         /\ item[1] = "proc" => item[2] \in {{5}, {5} \cup IdsAsked("proc")}
         /\ item[1] = "file" => item[2] \in {{}, IdsAsked("file")}
    /\ procIds # {} =>
         {item[1] : item \in printed} = {n \in {"proc", "file"} : Asked(n) # No}

\* cphf ends, by itself or by the exception.
Terminates == <>(pc \in {"exit", "aborted"})

=============================================================================
