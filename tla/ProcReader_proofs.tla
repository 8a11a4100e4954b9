-------------------------- MODULE ProcReader_proofs --------------------------
(***************************************************************************)
(* What holds of ProcReader for every set of processes, every option       *)
(* string and however often the processes exit and their ids are used      *)
(* again.                                                                  *)
(***************************************************************************)
EXTENDS ProcReader, CphfFile_proofs

TableIds == {row[3] : row \in OptionTable}

PidAttribute(p) == <<CPHF_ID_PID, PidText(p)>>

AttributeIds    == TableIds \cup {CPHF_ID_PID}
AttributeValues == Value \cup {PidText(p) : p \in Pids}

(***************************************************************************)
(* The inductive invariant.  struct proc_info is used for one process      *)
(* after the other; what is right about it depends on how far do_read has  *)
(* got with the process it is visiting.                                    *)
(***************************************************************************)

Visiting(p) == pc \in {"scan", "stat", "options"} /\ p = pid

\* A process that has been seen under its id: one that had it before, or the one
\* that has it now, if any has.
Seen(process) ==
  /\ process \in Processes
  /\ process.gen <= gens[process.pid]
  /\ procs[process.pid] # NULL /\ process.gen = gens[process.pid] =>
       process = procs[process.pid]

\* A process is visited once; its stat file is that of a process with its id.
Visit ==
  /\ pc \in {"scan", "stat", "options"} =>
       pid \in Pids \ todo /\ file.pid = pid /\ Seen(file)
  /\ pc = "done" => todo = {}

\* A field of a process with the id that is visited, no earlier than another.
OwnSince(value, from) ==
  /\ value \in Value /\ value.as = "field"
  /\ value.of \in Processes /\ value.of.pid = pid
  /\ NotAfter(from, value.of)

\* After the scan its fields are those of the process whose stat file was opened,
\* unless it was warned of.
Scanned ==
  pc \in {"stat", "options"} =>
    pid \in warned \/ \A f \in {"state", "ppid", "procgid", "later"} : info[f] = Field(file)

\* What is cached of the owner is of the executable that was stat'ed.
Stated ==
  /\ pc = "stat" => info.pw = NULL /\ info.gr = NULL
  /\ pc = "options" => /\ OwnSince(info.exe, file) /\ Seen(info.exe.of)
                       /\ {info.pw, info.gr} \subseteq {NULL, info.exe}

\* A value collected for the process being visited.
Collected(id, value) ==
  /\ value \in Value
  /\ Look(id) # 3 => value.as # "nothing"
  /\ Look(id) = 1 => pid \in warned \/ value = Field(file)
  /\ Look(id) = 2 => value = info.exe
  /\ Look(id) = 3 => value = Nothing \/ OwnSince(value, info.exe.of)

\* Each option before the next one has been read.
Collecting ==
  pc = "options" =>
    /\ DOMAIN readers = {IdOf(Options[k]) : k \in 1..(i - 1)}
    /\ \A id \in DOMAIN readers : Collected(id, readers[id])

\* A process has only its id before its attributes are added.
Undescribed ==
  \A p \in Pids :
    /\ procMap[p].attributes \in Seq(AttributeIds \X AttributeValues)
    /\ p \in todo \/ Visiting(p) => procMap[p].attributes = <<PidAttribute(p)>>

\* A process that has been there all along is not passed over.
Steady(p) == procs[p] # NULL /\ procs[p].gen = 1 /\ procs[p].kind.exe

NotPassedOver ==
  pc # "segv" =>
    \A p \in Pids : Steady(p) => p \in todo \/ Visiting(p) \/ OptionIds \subseteq Ids(p)

IInv ==
  /\ TypeOK
  /\ Visit
  /\ Scanned
  /\ Stated
  /\ Collecting
  /\ Undescribed
  /\ NotPassedOver
  /\ LooksInOrder
  /\ OwnerMatchesExecutable
  /\ DisplayOrder
  /\ AllOrNothing

-----------------------------------------------------------------------------
(* Options and processes. *)

\* What the proofs need of the table of options.
LEMMA Table ==
  ASSUME NEW row \in OptionTable
  PROVE  /\ row[3] \in 0..90
         /\ row[3] # CPHF_ID_PID
         /\ row[3] # CPHF_ID_CMD => row[3] > 1
         /\ row[2] \in {"cmdline", "ppid", "procgid", "state", "later", "exe", "pw", "gr"}
         /\ Look(row[3]) = IF row[2] = "cmdline" THEN 3
                           ELSE IF row[2] \in {"exe", "pw", "gr"} THEN 2 ELSE 1
BY DEF OptionTable, CPHF_ID_PID, CPHF_ID_CMD, Look, ExeIds

LEMMA ExeLook == \A id \in ExeIds : Look(id) = 2
BY DEF Look, ExeIds, CPHF_ID_CMD

LEMMA TableIdsFinite == IsFiniteSet(TableIds) /\ TableIds \subseteq Int
<1>1. TableIds \in SUBSET (0..90)
  BY Table DEF TableIds
<1>2. IsFiniteSet(0..90)
  <2>1. 0 \in Int /\ 90 \in Int
    OBVIOUS
  <2> QED
    BY <2>1, FS_Interval
<1>3. 0..90 \subseteq Int
  OBVIOUS
<1> HIDE DEF TableIds
<1> QED
  BY <1>1, <1>2, <1>3, FS_Subset

LEMMA LetterIds ==
  ASSUME NEW k \in 1..Len(Options)
  PROVE  /\ IdOf(Options[k]) \in TableIds
         /\ FieldOf(Options[k]) \in
              {"cmdline", "ppid", "procgid", "state", "later", "exe", "pw", "gr"}
         /\ Look(IdOf(Options[k])) = IF FieldOf(Options[k]) = "cmdline" THEN 3
                                     ELSE IF FieldOf(Options[k]) \in {"exe", "pw", "gr"} THEN 2
                                     ELSE 1
<1>1. Options[k] \in {row[1] : row \in OptionTable}
  BY ProcReaderAssumption
<1>2. PICK row \in OptionTable : row[2] = FieldOf(Options[k]) /\ row[3] = IdOf(Options[k])
  BY <1>1 DEF IdOf, FieldOf
<1>3. row[3] \in TableIds
  BY DEF TableIds
<1> QED
  BY <1>2, <1>3, Table

LEMMA OptionsLength == Len(Options) \in Nat /\ DOMAIN Options = 1..Len(Options)
BY ProcReaderAssumption, LenProperties

LEMMA ProcessType ==
  ASSUME TypeOK, NEW p \in Pids, procs[p] # NULL
  PROVE  /\ procs[p] \in Processes /\ procs[p].pid = p /\ procs[p].gen = gens[p]
         /\ Field(procs[p]) \in Value /\ Field(procs[p]) # NULL
<1>1. PICK k \in Kinds : procs[p] = Process(p, gens[p], k)
  BY DEF TypeOK
<1>2. gens[p] \in 1..MaxGen /\ k \in Kind
  BY ProcReaderAssumption DEF TypeOK
<1>3. procs[p] \in Processes /\ procs[p].pid = p /\ procs[p].gen = gens[p]
  BY <1>1, <1>2 DEF Process, Processes
<1>4. Field(procs[p]) \in Value
  BY <1>3 DEF Field, Value
<1> QED
  BY <1>3, <1>4, ProcReaderAssumption

\* What has been seen under an id is not after the process that has it now.
LEMMA SeenBefore ==
  ASSUME TypeOK, NEW p \in Pids, procs[p] # NULL
  PROVE  /\ Seen(procs[p])
         /\ \A process : Seen(process) /\ process.pid = p => NotAfter(process, procs[p])
<1>1. procs[p] \in Processes /\ procs[p].pid = p /\ procs[p].gen = gens[p] /\ gens[p] \in Nat
  BY ProcessType, ProcReaderAssumption DEF TypeOK
<1>2. Seen(procs[p])
  BY <1>1 DEF Seen
<1>3. ASSUME NEW process, Seen(process), process.pid = p
      PROVE  NotAfter(process, procs[p])
  <2>1. process.gen \in Nat
    BY <1>3, ProcReaderAssumption DEF Seen, Processes
  <2> QED
    BY <1>1, <1>3, <2>1 DEF Seen, NotAfter
<1> QED
  BY <1>2, <1>3

LEMMA NotAfterTransitive ==
  ASSUME NEW a \in Processes, NEW b \in Processes, NEW c \in Processes,
         NotAfter(a, b), NotAfter(b, c)
  PROVE  NotAfter(a, c)
<1>1. a.gen \in Nat /\ b.gen \in Nat /\ c.gen \in Nat
  BY ProcReaderAssumption DEF Processes
<1> QED
  BY <1>1 DEF NotAfter

LEMMA SmallestIsReported ==
  ASSUME TypeOK, todo # {}
  PROVE  Smallest(todo) \in todo /\ Smallest(todo) \in Pids
<1>1. todo \in SUBSET Pids /\ IsFiniteSet(Pids) /\ Pids \subseteq Nat
  BY ProcReaderAssumption DEF TypeOK
<1>2. IsFiniteSet(todo) /\ todo \subseteq Int
  <2>1. todo \subseteq Int
    BY <1>1
  <2> QED
    BY <1>1, <2>1, FS_Subset
<1>3. \E p \in todo : \A q \in todo : p <= q
  BY <1>2, SmallestExists
<1> QED
  BY <1>1, <1>3 DEF Smallest

-----------------------------------------------------------------------------
(* The steps. *)

\* What is shown changes only with procMap.
Shown ==
  /\ LooksInOrder
  /\ OwnerMatchesExecutable
  /\ DisplayOrder
  /\ AllOrNothing

LEMMA ShownUnchanged ==
  ASSUME Shown, UNCHANGED procMap, warned \subseteq warned'
  PROVE  Shown'
<1>1. \A p \in Pids : Read(p)' = Read(p) /\ Ids(p)' = Ids(p)
  BY DEF Read, Ids
<1>2. LooksInOrder'
  BY <1>1 DEF Shown, LooksInOrder, Trusted
<1>3. OwnerMatchesExecutable'
  BY <1>1 DEF Shown, OwnerMatchesExecutable
<1>4. DisplayOrder'
  BY DEF Shown, DisplayOrder
<1>5. AllOrNothing'
  BY <1>1 DEF Shown, AllOrNothing, OptionIds, IdOf
<1> QED
  BY <1>2, <1>3, <1>4, <1>5 DEF Shown

\* As long as a process that stays is not dropped, it will be described.
LEMMA KeptInView ==
  ASSUME IInv, pc # "segv", UNCHANGED <<procs, procMap>>,
         \A p \in Pids : Steady(p) /\ (p \in todo \/ Visiting(p)) => p \in todo' \/ Visiting(p)'
  PROVE  NotPassedOver'
<1> SUFFICES ASSUME NEW p \in Pids, Steady(p)'
             PROVE  p \in todo' \/ Visiting(p)' \/ (OptionIds \subseteq Ids(p))'
  BY DEF NotPassedOver
<1>1. Steady(p)
  BY DEF Steady
<1>2. p \in todo \/ Visiting(p) \/ OptionIds \subseteq Ids(p)
  BY <1>1 DEF IInv, NotPassedOver
<1>3. CASE OptionIds \subseteq Ids(p)
  BY <1>3 DEF OptionIds, IdOf, Ids
<1> QED
  BY <1>1, <1>2, <1>3

LEMMA OpenStep == ASSUME IInv, OpenStat \/ OpenFails PROVE IInv'
<1>1. /\ pc = "open" /\ todo # {}
      /\ pid' = Smallest(todo) /\ todo' = todo \ {pid'} /\ file' = procs[pid']
      /\ UNCHANGED <<osVars, info, i, readers, warned, procMap>>
      /\ \/ file' # NULL /\ pc' = "scan"
         \/ file' = NULL /\ pc' = "open"
  BY DEF OpenStat, OpenFails, Open
<1>2. pid' \in todo /\ pid' \in Pids
  BY <1>1, SmallestIsReported DEF IInv
<1>3. Shown'
  BY <1>1, ShownUnchanged DEF IInv, Shown
<1>4. TypeOK'
  BY <1>1, <1>2 DEF IInv, TypeOK, osVars
<1>5. Visit'
  <2>1. CASE file' # NULL /\ pc' = "scan"
    <3>1. file'.pid = pid' /\ Seen(procs[pid'])
      BY <1>1, <1>2, <2>1, ProcessType, SeenBefore DEF IInv
    <3>2. Seen(file)'
      BY <1>1, <3>1 DEF Seen, osVars
    <3> QED
      BY <1>1, <1>2, <2>1, <3>1, <3>2 DEF Visit
  <2>2. CASE file' = NULL /\ pc' = "open"
    BY <2>2 DEF Visit
  <2> QED
    BY <1>1, <2>1, <2>2
<1>6. Scanned' /\ Stated' /\ Collecting'
  BY <1>1 DEF Scanned, Stated, Collecting
<1>7. Undescribed'
  BY <1>1, <1>2 DEF IInv, Undescribed, Visiting, PidAttribute, PidText
<1>8. NotPassedOver'
  <2>1. ASSUME NEW p \in Pids, Steady(p), p \in todo \/ Visiting(p)
        PROVE  p \in todo' \/ Visiting(p)'
    <3>1. p \in todo /\ procs[p] # NULL
      BY <1>1, <2>1 DEF Steady, Visiting
    <3> QED
      BY <1>1, <3>1 DEF Visiting
  <2> QED
    BY <1>1, <2>1, KeptInView DEF osVars
<1> QED
  BY <1>3, <1>4, <1>5, <1>6, <1>7, <1>8 DEF IInv, Shown

(***************************************************************************)
(* A scan that reads every field reads them from the open file; any other  *)
(* is warned of.                                                           *)
(***************************************************************************)
LEMMA ScanStep == ASSUME IInv, FullScan \/ ShortScan \/ EmptyScan PROVE IInv'
<1>1. /\ pc = "scan" /\ pc' = "stat"
      /\ UNCHANGED <<osVars, todo, pid, file, i, readers, procMap>>
      /\ warned' \in {warned, warned \cup {pid}}
  BY DEF FullScan, ShortScan, EmptyScan, Scan
<1>2. pid \in Pids \ todo /\ file \in Processes /\ file.pid = pid /\ Seen(file)
  BY <1>1 DEF IInv, Visit, Seen
<1>3. /\ Field(file) \in Value /\ Word(file) \in Value
      /\ Field(file).as # "nothing" /\ Word(file).as # "nothing"
      /\ Field(file) # NULL /\ Word(file) # NULL
  <2>1. /\ Field(file) \in Value /\ Word(file) \in Value
        /\ Field(file).as # "nothing" /\ Word(file).as # "nothing"
    BY <1>2 DEF Field, Word, Value
  <2> QED
    BY <2>1, ProcReaderAssumption
<1>4. Shown'
  BY <1>1, ShownUnchanged DEF IInv, Shown
<1>5. /\ DOMAIN info' = DOMAIN info
      /\ \A f \in DOMAIN info : info'[f] \in {info[f], Field(file), Word(file)} \/
                                (f \in {"pw", "gr"} /\ info'[f] = NULL)
      /\ info'.pw = NULL /\ info'.gr = NULL
  <2>1. CASE FullScan
    BY <2>1 DEF FullScan, Scan, IInv, TypeOK
  <2>2. CASE ShortScan
    BY <2>2 DEF ShortScan, Scan, IInv, TypeOK
  <2>3. CASE EmptyScan
    BY <2>3 DEF EmptyScan, Scan, IInv, TypeOK
  <2> QED
    BY <2>1, <2>2, <2>3
<1>6. TypeOK'
  <2>1. \A f \in DOMAIN info' : info'[f] = NULL => f \in {"pw", "gr"}
    BY <1>3, <1>5 DEF IInv, TypeOK
  <2>2. \A f \in DOMAIN info' :
         info'[f] # NULL => info'[f] \in Value /\ info'[f].as # "nothing"
    BY <1>3, <1>5 DEF IInv, TypeOK
  <2>3. warned' \subseteq Pids
    BY <1>1, <1>2 DEF IInv, TypeOK
  <2>4. DOMAIN info' = {"state", "ppid", "procgid", "later", "exe", "pw", "gr"}
    BY <1>5 DEF IInv, TypeOK
  <2> QED
    BY <1>1, <2>1, <2>2, <2>3, <2>4 DEF IInv, TypeOK, osVars
<1>7. Scanned'
  <2>1. CASE FullScan
    <3>1. /\ info'.state = Field(file) /\ info'.ppid = Field(file)
          /\ info'.procgid = Field(file) /\ info'.later = Field(file)
      BY <2>1 DEF FullScan, Scan, IInv, TypeOK
    <3>2. \A f \in {"state", "ppid", "procgid", "later"} : info'[f] = Field(file')
      BY <1>1, <3>1
    <3> QED
      BY <3>2 DEF Scanned, Field
  <2>2. CASE ShortScan \/ EmptyScan
    <3>1. pid' \in warned'
      BY <1>1, <2>2 DEF ShortScan, EmptyScan
    <3> QED
      BY <3>1 DEF Scanned
  <2> QED
    BY <2>1, <2>2
<1>8. Visit' /\ Stated' /\ Collecting'
  BY <1>1, <1>2, <1>5 DEF Visit, Seen, Stated, Collecting, osVars
<1>9. Undescribed'
  BY <1>1 DEF IInv, Undescribed, Visiting, PidAttribute, PidText
<1>10. NotPassedOver'
  BY <1>1, KeptInView DEF osVars, Visiting
<1> QED
  BY <1>4, <1>6, <1>7, <1>8, <1>9, <1>10 DEF IInv, Shown

\* What is stat'ed is a process with the id that is visited.
LEMMA StatStep == ASSUME IInv, StatExe \/ StatFails PROVE IInv'
<1>1. /\ pc = "stat"
      /\ UNCHANGED <<osVars, todo, pid, file, warned, procMap>>
  BY DEF StatExe, StatFails, readVars
<1>2. pid \in Pids \ todo /\ file.pid = pid /\ Seen(file)
  BY <1>1 DEF IInv, Visit
<1>3. Shown'
  BY <1>1, ShownUnchanged DEF IInv, Shown
<1>4. CASE StatExe
  <2>1. /\ procs[pid] # NULL
        /\ info' = [info EXCEPT !.exe = Field(procs[pid])]
        /\ pc' = "options" /\ i' = 1 /\ readers' = EmptyMap
    BY <1>4 DEF StatExe, ExeReadable
  <2>2. /\ Field(procs[pid]) \in Value /\ Field(procs[pid]) # NULL
        /\ Field(procs[pid]).as # "nothing"
        /\ procs[pid] \in Processes /\ procs[pid].pid = pid
        /\ Seen(procs[pid]) /\ NotAfter(file, procs[pid])
    BY <1>2, <2>1, ProcessType, SeenBefore DEF IInv, Field
  <2>3. DOMAIN readers' = {}
    BY <2>1 DEF EmptyMap
  <2>4. /\ DOMAIN info' = DOMAIN info /\ info'.exe = Field(procs[pid])
        /\ \A f \in DOMAIN info : f # "exe" => info'[f] = info[f]
    BY <2>1 DEF IInv, TypeOK
  <2>5. TypeOK'
    <3>1. i' \in 1..(Len(Options) + 1)
      BY <2>1, OptionsLength
    <3>2. \A f \in DOMAIN info' : info'[f] = NULL => f \in {"pw", "gr"}
      BY <2>2, <2>4 DEF IInv, TypeOK
    <3>3. \A f \in DOMAIN info' :
         info'[f] # NULL => info'[f] \in Value /\ info'[f].as # "nothing"
      BY <2>2, <2>4 DEF IInv, TypeOK
    <3> QED
      BY <1>1, <2>1, <2>3, <2>4, <3>1, <3>2, <3>3, SMTT(30) DEF IInv, TypeOK, osVars
  <2>6. Scanned'
    <3> SUFFICES ASSUME pid \notin warned
                 PROVE  \A f \in {"state", "ppid", "procgid", "later"} : info'[f] = Field(file)
      BY <1>1 DEF Scanned, Field
    <3>1. \A f \in {"state", "ppid", "procgid", "later"} : info[f] = Field(file)
      BY <1>1 DEF IInv, Scanned
    <3>2. \A f \in {"state", "ppid", "procgid", "later"} : info'[f] = info[f]
      BY <2>4 DEF IInv, TypeOK
    <3> QED
      BY <3>1, <3>2
  <2>7. Stated'
    <3>1. info'.exe.of = procs[pid] /\ info'.exe.as = "field"
      BY <2>4 DEF Field
    <3>2. OwnSince(info.exe, file)'
      BY <1>1, <2>2, <2>4, <3>1 DEF OwnSince, NotAfter
    <3>3. Seen(info.exe.of)'
      BY <1>1, <2>2, <3>1 DEF Seen, osVars
    <3>4. info'.pw = NULL /\ info'.gr = NULL
      BY <1>1, <2>4 DEF IInv, Stated, TypeOK
    <3> QED
      BY <2>1, <3>2, <3>3, <3>4 DEF Stated
  <2>8. Collecting'
    <3>1. {IdOf(Options[k]) : k \in 1..(i' - 1)} = {}
      BY <2>1
    <3> QED
      BY <2>3, <3>1 DEF Collecting, IdOf
  <2>9. Visit' /\ Undescribed'
    BY <1>1, <1>2, <2>1 DEF IInv, Visit, Seen, osVars, Undescribed, Visiting, PidAttribute, PidText
  <2>10. NotPassedOver'
    BY <1>1, <2>1, KeptInView DEF osVars, Visiting
  <2> QED
    BY <1>3, <2>5, <2>6, <2>7, <2>8, <2>9, <2>10 DEF IInv, Shown
<1>5. CASE StatFails
  <2>1. ~(procs[pid] # NULL /\ procs[pid].kind.exe) /\ pc' = "open" /\ UNCHANGED <<osVars, readVars>>
    BY <1>5 DEF StatFails, ExeReadable
  <2>2. TypeOK'
    BY <2>1 DEF IInv, TypeOK, osVars, readVars
  <2>3. Visit' /\ Scanned' /\ Stated' /\ Collecting'
    BY <2>1 DEF Visit, Scanned, Stated, Collecting
  <2>4. Undescribed'
    BY <2>1 DEF IInv, Undescribed, Visiting, PidAttribute, PidText, readVars
  <2>5. \A p \in Pids : Steady(p) /\ (p \in todo \/ Visiting(p)) => p \in todo'
    BY <1>1, <2>1 DEF Steady, Visiting
  <2>6. NotPassedOver'
    BY <1>1, <2>1, <2>5, KeptInView DEF osVars
  <2> QED
    BY <1>3, <2>2, <2>3, <2>4, <2>6 DEF IInv, Shown
<1> QED
  BY <1>4, <1>5

(***************************************************************************)
(* The value of an option: of the executable that was stat'ed, if it is    *)
(* one of its attributes, or else of the scan or of the command line.      *)
(***************************************************************************)
Taken(letter, value) ==
  LET field == FieldOf(letter)
  IN  /\ value = IF field = "cmdline"
                 THEN IF procs[pid] = NULL THEN Nothing ELSE Field(procs[pid])
                 ELSE IF field \in {"pw", "gr"} THEN Looked(field)
                 ELSE info[field]
      /\ value # NULL
      /\ info' = IF field \in {"pw", "gr"} THEN [info EXCEPT ![field] = value] ELSE info
      /\ readers' = MapInsert(readers, IdOf(letter), value)

LEMMA OptionValue ==
  ASSUME IInv, pc = "options", i <= Len(Options),
         NEW value, Taken(Options[i], value)
  PROVE  /\ Collected(IdOf(Options[i]), value)
         /\ DOMAIN info' = DOMAIN info
         /\ \A f \in DOMAIN info : f \notin {"pw", "gr"} => info'[f] = info[f]
         /\ {info'.pw, info'.gr} \subseteq {NULL, info.exe}
<1> DEFINE field == FieldOf(Options[i])
           id == IdOf(Options[i])
<1>1. i \in 1..Len(Options)
  BY OptionsLength DEF IInv, TypeOK
<1>2. /\ field \in {"cmdline", "ppid", "procgid", "state", "later", "exe", "pw", "gr"}
      /\ Look(id) = IF field = "cmdline" THEN 3 ELSE IF field \in {"exe", "pw", "gr"} THEN 2 ELSE 1
  BY <1>1, LetterIds
<1>3. /\ value = IF field = "cmdline"
                 THEN IF procs[pid] = NULL THEN Nothing ELSE Field(procs[pid])
                 ELSE IF field \in {"pw", "gr"} THEN Looked(field)
                 ELSE info[field]
      /\ value # NULL
      /\ info' = IF field \in {"pw", "gr"} THEN [info EXCEPT ![field] = value] ELSE info
  BY DEF Taken
<1>4. /\ DOMAIN info = {"state", "ppid", "procgid", "later", "exe", "pw", "gr"}
      /\ info.exe \in Value /\ Seen(info.exe.of) /\ info.exe.of.pid = pid
      /\ info.exe.as = "field"
      /\ {info.pw, info.gr} \subseteq {NULL, info.exe}
      /\ pid \in Pids
  BY DEF IInv, TypeOK, Stated, OwnSince, Visit
<1> HIDE DEF field, id
<1>5. CASE field = "cmdline"
  <2>1. Nothing \in Value
    BY DEF Nothing, Value
  <2>2. ASSUME procs[pid] # NULL
        PROVE  OwnSince(Field(procs[pid]), info.exe.of)
    <3>1. Field(procs[pid]) \in Value /\ procs[pid] \in Processes /\ procs[pid].pid = pid
      BY <1>4, <2>2, ProcessType DEF IInv
    <3>2. NotAfter(info.exe.of, procs[pid])
      BY <1>4, <2>2, SeenBefore DEF IInv
    <3> QED
      BY <3>1, <3>2 DEF OwnSince, Field
  <2>3. Look(id) = 3 /\ info' = info
    BY <1>2, <1>3, <1>5
  <2>4. value = Nothing \/ OwnSince(value, info.exe.of)
    BY <1>3, <1>5, <2>2
  <2>5. value \in Value
    BY <2>1, <2>4 DEF OwnSince
  <2> QED
    BY <1>4, <2>3, <2>4, <2>5 DEF Collected, id
<1>6. CASE field \in {"pw", "gr"}
  <2>1. value = Looked(field)
    BY <1>3, <1>6
  <2>2. info[field] \in {NULL, info.exe}
    BY <1>4, <1>6
  <2>3. value = info.exe
    BY <1>3, <2>1, <2>2 DEF Looked
  <2>4. info' = [info EXCEPT ![field] = info.exe] /\ Look(id) = 2
    BY <1>2, <1>3, <1>6, <2>3
  <2> QED
    BY <1>4, <1>6, <2>3, <2>4 DEF Collected, id
<1>7. CASE field \in {"ppid", "procgid", "state", "later", "exe"}
  <2>1. value = info[field] /\ info' = info
    BY <1>3, <1>7
  <2>2. value \in Value /\ value.as # "nothing"
    BY <1>3, <1>4, <1>7, <2>1 DEF IInv, TypeOK
  <2>3. CASE field = "exe"
    <3>1. Look(id) = 2
      BY <1>2, <2>3
    <3> QED
      BY <1>4, <2>1, <2>2, <2>3, <3>1 DEF Collected, id
  <2>4. CASE field # "exe"
    <3>1. Look(id) = 1
      BY <1>2, <1>7, <2>4
    <3>2. value = Field(file) \/ pid \in warned
      BY <1>7, <2>1, <2>4 DEF IInv, Scanned
    <3> QED
      BY <1>4, <2>1, <2>2, <3>1, <3>2 DEF Collected, id
  <2> QED
    BY <1>7, <2>3, <2>4
<1> QED
  BY <1>2, <1>5, <1>6, <1>7

LEMMA OptionStep == ASSUME IInv, ReadOption PROVE IInv'
<1> DEFINE id == IdOf(Options[i])
<1>1. /\ pc = "options" /\ i <= Len(Options) /\ i' = i + 1
      /\ UNCHANGED <<osVars, pc, todo, pid, file, warned, procMap>>
  BY DEF ReadOption
<1>2. PICK value : Taken(Options[i], value)
  BY DEF ReadOption, Taken
<1>3. /\ Collected(id, value)
      /\ DOMAIN info' = DOMAIN info
      /\ \A f \in DOMAIN info : f \notin {"pw", "gr"} => info'[f] = info[f]
      /\ {info'.pw, info'.gr} \subseteq {NULL, info.exe}
  BY <1>1, <1>2, OptionValue
<1>4. /\ DOMAIN info = {"state", "ppid", "procgid", "later", "exe", "pw", "gr"}
      /\ i \in 1..Len(Options) /\ i \in Nat
  BY <1>1, OptionsLength DEF IInv, TypeOK
<1>5. id \in TableIds
  BY <1>4, LetterIds
<1>6. readers' = MapInsert(readers, id, value)
  BY <1>2 DEF Taken
<1> HIDE DEF id
<1>7. /\ DOMAIN readers' = DOMAIN readers \cup {id}
      /\ \A x \in DOMAIN readers' : readers'[x] = IF x \in DOMAIN readers THEN readers[x] ELSE value
  BY <1>6 DEF MapInsert
<1>8. Shown'
  BY <1>1, ShownUnchanged DEF IInv, Shown
<1>9. info.exe \in Value /\ info.exe.as # "nothing"
  BY <1>1 DEF IInv, Stated, OwnSince
<1>10. TypeOK'
  <2>1. DOMAIN readers' \subseteq TableIds
    BY <1>5, <1>7 DEF IInv, TypeOK, TableIds
  <2>2. \A f \in DOMAIN info' : info'[f] = NULL => f \in {"pw", "gr"}
    BY <1>3 DEF IInv, TypeOK
  <2>3. \A f \in DOMAIN info' :
         info'[f] # NULL => info'[f] \in Value /\ info'[f].as # "nothing"
    BY <1>3, <1>4, <1>9 DEF IInv, TypeOK
  <2>4. i' \in 1..(Len(Options) + 1)
    BY <1>1, <1>4, OptionsLength
  <2>5. DOMAIN info' = {"state", "ppid", "procgid", "later", "exe", "pw", "gr"}
    BY <1>3, <1>4
  <2> QED
    BY <1>1, <2>1, <2>2, <2>3, <2>4, <2>5 DEF IInv, TypeOK, TableIds, osVars
<1>11. Scanned'
  <2> SUFFICES ASSUME pid \notin warned
               PROVE  \A f \in {"state", "ppid", "procgid", "later"} : info'[f] = Field(file)
    BY <1>1 DEF Scanned, Field
  <2>1. \A f \in {"state", "ppid", "procgid", "later"} : info[f] = Field(file)
    BY <1>1 DEF IInv, Scanned
  <2>2. \A f \in {"state", "ppid", "procgid", "later"} : info'[f] = info[f]
    BY <1>3, <1>4
  <2> QED
    BY <2>1, <2>2
<1>12. info'.exe = info.exe
  BY <1>3, <1>4
<1>13. Stated'
  <2>1. OwnSince(info.exe, file) /\ Seen(info.exe.of)
    BY <1>1 DEF IInv, Stated
  <2>2. OwnSince(info.exe, file)'
    BY <1>1, <1>12, <2>1 DEF OwnSince, NotAfter
  <2>3. Seen(info.exe.of)'
    BY <1>1, <1>12, <2>1 DEF Seen, osVars
  <2> QED
    BY <1>1, <1>3, <1>12, <2>2, <2>3 DEF Stated
<1>14. Collecting'
  <2>1. /\ DOMAIN readers = {IdOf(Options[k]) : k \in 1..(i - 1)}
        /\ \A x \in DOMAIN readers : Collected(x, readers[x])
    BY <1>1 DEF IInv, Collecting
  <2>2. DOMAIN readers' = {IdOf(Options[k]) : k \in 1..(i' - 1)}
    <3>1. 1..(i' - 1) = 1..(i - 1) \cup {i}
      BY <1>1, <1>4
    <3> QED
      BY <1>7, <2>1, <3>1 DEF id
  <2>3. \A x \in DOMAIN readers' : Collected(x, readers'[x])
    BY <1>3, <1>7, <2>1
  <2>4. ASSUME NEW x \in DOMAIN readers' PROVE Collected(x, readers[x])'
    BY <1>1, <1>12, <2>3 DEF Collected, OwnSince, NotAfter, Field, Look
  <2> QED
    BY <2>2, <2>4 DEF Collecting, IdOf
<1>15. Visit' /\ Undescribed'
  BY <1>1 DEF IInv, Visit, Seen, osVars, Undescribed, Visiting, PidAttribute, PidText
<1>16. NotPassedOver'
  BY <1>1, KeptInView DEF osVars, Visiting
<1> QED
  BY <1>8, <1>10, <1>11, <1>13, <1>14, <1>15, <1>16 DEF IInv, Shown

LEMMA EndStep == ASSUME IInv, NullOwner \/ Finish PROVE IInv'
<1>1. /\ UNCHANGED <<osVars, readVars>>
      /\ \/ pc' = "segv"
         \/ pc = "open" /\ pc' = "done" /\ todo = {}
  BY DEF NullOwner, Finish
<1>2. Shown'
  BY <1>1, ShownUnchanged DEF IInv, Shown, readVars
<1>3. TypeOK'
  BY <1>1 DEF IInv, TypeOK, osVars, readVars
<1>4. Visit' /\ Scanned' /\ Stated' /\ Collecting'
  BY <1>1 DEF Visit, Scanned, Stated, Collecting, readVars
<1>5. Undescribed'
  BY <1>1 DEF IInv, Undescribed, Visiting, PidAttribute, PidText, readVars
<1>6. NotPassedOver'
  <2>1. CASE pc' = "segv"
    BY <2>1 DEF NotPassedOver
  <2>2. CASE pc = "open" /\ pc' = "done" /\ todo = {}
    BY <1>1, <2>2, KeptInView DEF osVars, readVars, Visiting
  <2> QED
    BY <1>1, <2>1, <2>2
<1> QED
  BY <1>2, <1>3, <1>4, <1>5, <1>6 DEF IInv, Shown

-----------------------------------------------------------------------------
(* The attributes a process gets. *)

LEMMA ReadersIsMap ==
  ASSUME IInv, pc = "options"
  PROVE  /\ IsMap(readers, AttributeIds, AttributeValues)
         /\ DOMAIN readers \subseteq TableIds
         /\ \A id \in DOMAIN readers : Collected(id, readers[id])
<1>1. DOMAIN readers \in SUBSET TableIds
  BY DEF IInv, TypeOK, TableIds
<1>2. IsFiniteSet(DOMAIN readers)
  BY <1>1, TableIdsFinite, FS_Subset
<1>3. \A id \in DOMAIN readers : Collected(id, readers[id])
  BY DEF IInv, Collecting
<1>4. AttributeIds \subseteq Int
  BY TableIdsFinite DEF AttributeIds, CPHF_ID_PID
<1> QED
  BY <1>1, <1>2, <1>3, <1>4 DEF IsMap, AttributeIds, AttributeValues, Collected

LEMMA OnlyItsId ==
  ASSUME NEW p \in Pids
  PROVE  /\ <<PidAttribute(p)>> \in Seq(AttributeIds \X AttributeValues)
         /\ Len(<<PidAttribute(p)>>) = 1
         /\ <<PidAttribute(p)>>[1] = PidAttribute(p)
         /\ Elements(<<PidAttribute(p)>>) = {PidAttribute(p)}
<1>1. PidAttribute(p) \in AttributeIds \X AttributeValues
  BY DEF PidAttribute, AttributeIds, AttributeValues
<1> HIDE DEF PidAttribute
<1>2. Elements(<<PidAttribute(p)>>) = {PidAttribute(p)}
  <2>1. DOMAIN <<PidAttribute(p)>> = {1}
    OBVIOUS
  <2> QED
    BY <2>1 DEF Elements
<1> QED
  BY <1>1, <1>2

\* Where DisplayOrder wants an attribute.
Rank(attribute) ==
  IF attribute[1] = CPHF_ID_CMD THEN 0 ELSE IF attribute[1] = CPHF_ID_PID THEN 1 ELSE attribute[1]

LEMMA AddedInOrder ==
  ASSUME NEW m, IsMap(m, AttributeIds, AttributeValues), DOMAIN m \subseteq TableIds,
         NEW p \in Pids, NEW all, all = AddAll(<<PidAttribute(p)>>, m, CPHF_ID_CMD)
  PROVE  \A k, l \in DOMAIN all : k < l => Rank(all[k]) < Rank(all[l])
<1> DEFINE before == <<PidAttribute(p)>>
           rank == [id \in AttributeIds |-> Rank(<<id>>)]
<1>1. /\ before \in Seq(AttributeIds \X AttributeValues)
      /\ Elements(before) = {PidAttribute(p)}
      /\ DOMAIN before = {1}
  BY OnlyItsId
<1>2. AttributeIds \subseteq Int
  BY DEF IsMap
<1>3. rank \in [AttributeIds -> Int]
  BY <1>2 DEF Rank
<1>4. \A id \in TableIds : id # CPHF_ID_PID /\ id \in Int /\ id \in AttributeIds /\ (id # CPHF_ID_CMD => id > 1)
  <2> TAKE id \in TableIds
  <2>1. PICK row \in OptionTable : row[3] = id
    BY DEF TableIds
  <2> QED
    BY <2>1, Table DEF AttributeIds, CPHF_ID_CMD
<1>5. PidAttribute(p)[1] = CPHF_ID_PID /\ CPHF_ID_PID \in AttributeIds
  BY DEF PidAttribute, AttributeIds
<1>6. rank[CPHF_ID_PID] = 1
  BY <1>5 DEF Rank, CPHF_ID_PID, CPHF_ID_CMD
<1>7. \A id \in TableIds : rank[id] = IF id = CPHF_ID_CMD THEN 0 ELSE id
  BY <1>4 DEF Rank
<1>8. InOrder(before, rank)
  BY <1>1 DEF InOrder
<1> HIDE DEF before, rank
<1>9. InOrder(all, rank)
  <2>1. \A a \in Elements(before), id \in DOMAIN m :
          IF id = CPHF_ID_CMD THEN rank[id] < rank[a[1]] ELSE rank[a[1]] < rank[id]
    BY <1>1, <1>4, <1>5, <1>6, <1>7
  <2>2. \A id, other \in DOMAIN m :
          id # CPHF_ID_CMD /\ (other = CPHF_ID_CMD \/ other < id) => rank[other] < rank[id]
    BY <1>4, <1>7
  <2>3. InOrder(AddAll(before, m, CPHF_ID_CMD), rank)
    BY <1>1, <1>3, <1>8, <2>1, <2>2, AddAllOrders
  <2> QED
    BY <2>3 DEF before
<1>10. all \in Seq(AttributeIds \X AttributeValues)
  BY <1>1, AddAllTyped DEF before
<1>11. \A k \in DOMAIN all : rank[all[k][1]] = Rank(all[k])
  <2> TAKE k \in DOMAIN all
  <2>1. all[k] \in AttributeIds \X AttributeValues
    BY <1>10, ElementOfSeq, LenProperties
  <2> QED
    BY <2>1 DEF rank, Rank
<1> QED
  BY <1>9, <1>11 DEF InOrder

\* So what a process gets is what has been collected for it.
LEMMA AddAttributesAdds ==
  ASSUME IInv, AddAttributes
  PROVE  /\ pid \in Pids \ todo
         /\ DOMAIN readers = OptionIds
         /\ DOMAIN procMap' = Pids
         /\ \A p \in Pids : p # pid => procMap'[p] = procMap[p]
         /\ procMap[pid].attributes = <<PidAttribute(pid)>>
         /\ procMap'[pid].attributes \in Seq(AttributeIds \X AttributeValues)
         /\ Read(pid)' = Entries(readers)
         /\ Ids(pid)' = {CPHF_ID_PID} \cup OptionIds
         /\ \A k, l \in DOMAIN procMap'[pid].attributes :
              k < l => Rank(procMap'[pid].attributes[k]) < Rank(procMap'[pid].attributes[l])
<1> DEFINE before == <<PidAttribute(pid)>>
           all == AddAll(before, readers, CPHF_ID_CMD)
<1>1. /\ pc = "options" /\ i > Len(Options)
      /\ procMap' = [procMap EXCEPT ![pid].attributes = AddAll(@, readers, CPHF_ID_CMD)]
      /\ UNCHANGED <<osVars, todo, pid, file, info, i, readers, warned>>
  BY DEF AddAttributes
<1>2. pid \in Pids \ todo /\ procMap[pid].attributes = before /\ DOMAIN procMap = Pids
  BY <1>1 DEF IInv, Visit, Undescribed, Visiting, TypeOK
<1>3. /\ IsMap(readers, AttributeIds, AttributeValues)
      /\ DOMAIN readers \subseteq TableIds
  BY <1>1, ReadersIsMap
<1>4. /\ before \in Seq(AttributeIds \X AttributeValues)
      /\ Elements(before) = {PidAttribute(pid)}
  BY <1>2, OnlyItsId
<1>5. DOMAIN readers = OptionIds
  <2>1. i - 1 = Len(Options)
    BY <1>1, OptionsLength DEF IInv, TypeOK
  <2> QED
    BY <1>1, <2>1, OptionsLength DEF IInv, Collecting, OptionIds
<1>6. /\ procMap'[pid].attributes = all
      /\ DOMAIN procMap' = Pids
      /\ \A p \in Pids : p # pid => procMap'[p] = procMap[p]
  BY <1>1, <1>2
<1>7. \A k, l \in DOMAIN all : k < l => Rank(all[k]) < Rank(all[l])
  <2> HIDE DEF before
  <2>1. all = AddAll(<<PidAttribute(pid)>>, readers, CPHF_ID_CMD)
    BY DEF before
  <2> HIDE DEF all
  <2> QED
    BY <1>2, <1>3, <2>1, AddedInOrder
<1> HIDE DEF before
<1>8. all \in Seq(AttributeIds \X AttributeValues) /\ Elements(all) = {PidAttribute(pid)} \cup Entries(readers)
  BY <1>3, <1>4, AddAllTyped, AddAllAdds
<1> HIDE DEF all
<1>9. /\ Read(pid)' = {a \in Elements(all) : a[1] # CPHF_ID_PID}
      /\ Ids(pid)' = {a[1] : a \in Elements(all)}
  BY <1>1, <1>6 DEF Read, Ids, Elements
<1>10. PidAttribute(pid)[1] = CPHF_ID_PID
  BY DEF PidAttribute
<1>11. \A a \in Entries(readers) : a[1] # CPHF_ID_PID
  <2> TAKE a \in Entries(readers)
  <2>1. a[1] \in TableIds
    BY <1>3 DEF Entries
  <2> QED
    BY <2>1, Table DEF TableIds
<1>12. Read(pid)' = Entries(readers)
  BY <1>8, <1>9, <1>10, <1>11
<1>13. Ids(pid)' = {CPHF_ID_PID} \cup OptionIds
  <2>1. {a[1] : a \in Elements(all)} = {CPHF_ID_PID} \cup {a[1] : a \in Entries(readers)}
    BY <1>8, <1>10
  <2> QED
    BY <1>5, <1>9, <2>1, EntryIds
<1> QED
  BY <1>2, <1>5, <1>6, <1>7, <1>8, <1>12, <1>13 DEF before

\* What has been collected of a process is in the order of the looks.
LEMMA CollectedInOrder ==
  ASSUME IInv, pc = "options",
         NEW shown,
         shown = {a \in Entries(readers) :
                    a[2].as # "nothing" /\ ~(pid \in warned /\ Look(a[1]) = 1)}
  PROVE  /\ \A a \in Entries(readers) : a[2].as = "nothing" => a[1] = CPHF_ID_CMD
         /\ \A a \in shown : a[2].as = "field" /\ a[2].of.pid = pid
         /\ \A a, b \in shown :
              /\ Look(a[1]) < Look(b[1]) => NotAfter(a[2].of, b[2].of)
              /\ Look(a[1]) = 1 /\ Look(b[1]) = 1 => a[2].of = b[2].of
<1>1. /\ DOMAIN readers \subseteq TableIds
      /\ \A a \in Entries(readers) : a[1] \in DOMAIN readers /\ Collected(a[1], a[2])
  BY ReadersIsMap DEF Entries
<1>2. /\ file \in Processes /\ file.pid = pid
      /\ info.exe \in Value /\ info.exe.as = "field" /\ info.exe.of.pid = pid
      /\ info.exe.of \in Processes /\ NotAfter(file, info.exe.of)
  BY DEF IInv, Visit, Stated, OwnSince, Seen
<1>3. \A a \in Entries(readers) :
        /\ Look(a[1]) \in 1..3
        /\ Look(a[1]) # 3 => a[2].as # "nothing"
        /\ Look(a[1]) = 1 => pid \in warned \/ a[2] = Field(file)
        /\ Look(a[1]) = 2 => a[2] = info.exe
        /\ Look(a[1]) = 3 => a[2] = Nothing \/ OwnSince(a[2], info.exe.of)
  BY <1>1 DEF Collected, Look
<1>4. /\ Field(file).as = "field" /\ Field(file).of = file
      /\ Nothing.as = "nothing"
  BY DEF Field, Nothing
<1>5. ASSUME NEW a \in Entries(readers), a[2].as = "nothing"
      PROVE  a[1] = CPHF_ID_CMD
  <2>1. Look(a[1]) # 3 => a[2].as # "nothing"
    BY <1>3
  <2>2. Look(a[1]) = 3
    BY <1>5, <2>1
  <2> QED
    BY <2>2 DEF Look
<1>6. \A a \in shown :
        /\ Look(a[1]) \in 1..3
        /\ Look(a[1]) = 1 => a[2] = Field(file)
        /\ Look(a[1]) = 2 => a[2] = info.exe
        /\ Look(a[1]) = 3 => OwnSince(a[2], info.exe.of)
  BY <1>3, <1>4
<1>7. \A a \in shown : Look(a[1]) = 3 =>
        /\ a[2].as = "field" /\ a[2].of.pid = pid
        /\ a[2].of \in Processes /\ NotAfter(info.exe.of, a[2].of)
  BY <1>6 DEF OwnSince
<1>8. \A a \in shown : a[2].as = "field" /\ a[2].of.pid = pid
  BY <1>2, <1>4, <1>6, <1>7
<1>9. ASSUME NEW a \in shown, NEW b \in shown, Look(a[1]) < Look(b[1])
      PROVE  NotAfter(a[2].of, b[2].of)
  <2>1. CASE Look(a[1]) = 1 /\ Look(b[1]) = 2
    BY <1>2, <1>4, <1>6, <2>1
  <2>2. CASE Look(a[1]) = 2 /\ Look(b[1]) = 3
    BY <1>6, <1>7, <2>2
  <2>3. CASE Look(a[1]) = 1 /\ Look(b[1]) = 3
    <3>1. a[2].of = file /\ b[2].of \in Processes /\ NotAfter(info.exe.of, b[2].of)
      BY <1>4, <1>6, <1>7, <2>3
    <3> QED
      BY <1>2, <3>1, NotAfterTransitive
  <2> QED
    BY <1>6, <1>9, <2>1, <2>2, <2>3
<1>10. \A a, b \in shown : Look(a[1]) = 1 /\ Look(b[1]) = 1 => a[2].of = b[2].of
  BY <1>6
<1> QED
  BY <1>5, <1>8, <1>9, <1>10

LEMMA AddAttributesStep == ASSUME IInv, AddAttributes PROVE IInv'
<1>1. /\ pc = "options" /\ pc' = "open"
      /\ UNCHANGED <<osVars, todo, pid, file, info, i, readers, warned>>
  BY DEF AddAttributes
<1>2. /\ pid \in Pids \ todo
      /\ DOMAIN readers = OptionIds
      /\ DOMAIN procMap' = Pids
      /\ \A p \in Pids : p # pid => procMap'[p] = procMap[p]
      /\ procMap'[pid].attributes \in Seq(AttributeIds \X AttributeValues)
      /\ Read(pid)' = Entries(readers)
      /\ Ids(pid)' = {CPHF_ID_PID} \cup OptionIds
  BY AddAttributesAdds
<1>3. \A p \in Pids : p # pid => Read(p)' = Read(p) /\ Ids(p)' = Ids(p)
  BY <1>2 DEF Read, Ids
<1>4. \A a \in Entries(readers) : Collected(a[1], a[2])
  BY <1>1, ReadersIsMap DEF Entries
<1>5. TypeOK'
  BY <1>1, <1>2 DEF IInv, TypeOK, osVars
<1>6. Visit' /\ Scanned' /\ Stated' /\ Collecting'
  BY <1>1 DEF Visit, Scanned, Stated, Collecting
<1>7. Undescribed'
  BY <1>1, <1>2 DEF IInv, Undescribed, Visiting, PidAttribute, PidText
<1>8. NotPassedOver'
  <2> SUFFICES ASSUME NEW p \in Pids, Steady(p)'
               PROVE  p \in todo' \/ (OptionIds \subseteq Ids(p))'
    BY DEF NotPassedOver
  <2>1. Steady(p)
    BY <1>1 DEF Steady, osVars
  <2>2. OptionIds' = OptionIds
    BY DEF OptionIds, IdOf
  <2>3. CASE p = pid
    BY <1>1, <1>2, <2>2, <2>3
  <2>4. CASE p # pid
    <3>1. p \in todo \/ OptionIds \subseteq Ids(p)
      BY <1>1, <2>1, <2>4 DEF IInv, NotPassedOver, Visiting
    <3> QED
      BY <1>1, <1>3, <2>2, <2>4, <3>1
  <2> QED
    BY <2>3, <2>4
<1>9. LooksInOrder'
  <2>1. \A p \in Pids : p # pid => Trusted(p)' = Trusted(p)
    BY <1>1, <1>3 DEF Trusted
  <2>2. Trusted(pid)' = {a \in Entries(readers) :
                           a[2].as # "nothing" /\ ~(pid \in warned /\ Look(a[1]) = 1)}
    BY <1>1, <1>2 DEF Trusted
  <2>3. /\ \A a \in Entries(readers) : a[2].as = "nothing" => a[1] = CPHF_ID_CMD
        /\ \A a \in Trusted(pid)' : a[2].as = "field" /\ a[2].of.pid = pid
        /\ \A a, b \in Trusted(pid)' :
             /\ Look(a[1]) < Look(b[1]) => NotAfter(a[2].of, b[2].of)
             /\ Look(a[1]) = 1 /\ Look(b[1]) = 1 => a[2].of = b[2].of
    BY <1>1, <2>2, CollectedInOrder
  <2>4. ASSUME NEW p \in Pids
        PROVE  /\ \A a \in Read(p)' : a[2].as = "nothing" => a[1] = CPHF_ID_CMD
               /\ \A a \in Trusted(p)' : a[2].as = "field" /\ a[2].of.pid = p
               /\ \A a, b \in Trusted(p)' :
                    /\ Look(a[1]) < Look(b[1]) => NotAfter(a[2].of, b[2].of)
                    /\ Look(a[1]) = 1 /\ Look(b[1]) = 1 => a[2].of = b[2].of
    <3>1. CASE p = pid
      BY <1>1, <1>2, <2>3, <3>1
    <3>2. CASE p # pid
      BY <1>3, <2>1, <3>2 DEF IInv, LooksInOrder
    <3> QED
      BY <3>1, <3>2
  <2> QED
    BY <2>4 DEF LooksInOrder, Look, NotAfter
<1>10. OwnerMatchesExecutable'
  <2> SUFFICES ASSUME NEW p \in Pids, NEW a \in Read(p)', NEW b \in Read(p)',
                      {a[1], b[1]} \subseteq ExeIds
               PROVE  a[2] = b[2]
    BY DEF OwnerMatchesExecutable, ExeIds
  <2>1. CASE p = pid
    <3>1. a \in Entries(readers) /\ b \in Entries(readers)
      BY <1>1, <1>2, <2>1
    <3>2. a[2] = info.exe /\ b[2] = info.exe
      BY <1>4, <3>1, ExeLook DEF Collected
    <3> QED
      BY <3>2
  <2>2. CASE p # pid
    <3>1. a \in Read(p) /\ b \in Read(p)
      BY <1>3, <2>2
    <3> QED
      BY <3>1 DEF IInv, OwnerMatchesExecutable
  <2> QED
    BY <2>1, <2>2
<1>11. DisplayOrder'
  <2>1. ASSUME NEW p \in Pids
        PROVE  \A k, l \in DOMAIN procMap'[p].attributes :
                 k < l => Rank(procMap'[p].attributes[k]) < Rank(procMap'[p].attributes[l])
    <3>1. CASE p = pid
      BY <3>1, AddAttributesAdds
    <3>2. CASE p # pid
      BY <1>2, <3>2 DEF IInv, DisplayOrder, Rank
    <3> QED
      BY <3>1, <3>2
  <2> QED
    BY <2>1 DEF DisplayOrder, Rank
<1>12. AllOrNothing'
  <2> SUFFICES ASSUME NEW p \in Pids
               PROVE  Ids(p)' \in {{CPHF_ID_PID}, {CPHF_ID_PID} \cup OptionIds'}
    BY DEF AllOrNothing
  <2>1. OptionIds' = OptionIds
    BY DEF OptionIds, IdOf
  <2>2. CASE p = pid
    BY <1>1, <1>2, <2>1, <2>2
  <2>3. CASE p # pid
    BY <1>3, <2>1, <2>3 DEF IInv, AllOrNothing
  <2> QED
    BY <2>2, <2>3
<1> QED
  BY <1>5, <1>6, <1>7, <1>8, <1>9, <1>10, <1>11, <1>12 DEF IInv

(***************************************************************************)
(* A process that ends or takes over an id does not change what has been   *)
(* read, and is none that has been there all along.                        *)
(***************************************************************************)
LEMMA ProcessStep ==
  ASSUME IInv, NEW p \in Pids, Exits(p) \/ Starts(p)
  PROVE  IInv'
<1>1. UNCHANGED <<pc, readVars>>
  BY DEF Exits, Starts
<1>2. Shown'
  BY <1>1, ShownUnchanged DEF IInv, Shown, readVars
<1>3. /\ DOMAIN procs' = Pids
      /\ gens' \in [Pids -> 1..MaxGen]
      /\ \A q \in Pids : q # p => procs'[q] = procs[q] /\ gens'[q] = gens[q]
      /\ \/ procs'[p] = NULL /\ gens'[p] = gens[p]
         \/ /\ gens'[p] = gens[p] + 1
            /\ \E kind \in Kinds : procs'[p] = Process(p, gens[p] + 1, kind)
  <2>1. CASE Exits(p)
    BY <2>1 DEF Exits, IInv, TypeOK
  <2>2. CASE Starts(p)
    <3>1. /\ gens[p] < MaxGen
          /\ gens' = [gens EXCEPT ![p] = gens[p] + 1]
          /\ \E kind \in Kinds : procs' = [procs EXCEPT ![p] = Process(p, gens[p] + 1, kind)]
      BY <2>2 DEF Starts
    <3>2. gens[p] + 1 \in 1..MaxGen
      BY <3>1, ProcReaderAssumption DEF IInv, TypeOK
    <3> QED
      BY <3>1, <3>2 DEF IInv, TypeOK
  <2> QED
    BY <2>1, <2>2
<1>4. gens[p] \in Nat /\ gens[p] >= 1
  BY ProcReaderAssumption DEF IInv, TypeOK
<1>5. ASSUME NEW q \in Pids, procs'[q] # NULL
      PROVE  procs'[q] \in {Process(q, gens'[q], k) : k \in Kinds}
  <2>1. CASE q = p
    <3>1. PICK kind \in Kinds : procs'[p] = Process(p, gens[p] + 1, kind)
      BY <1>3, <1>5, <2>1
    <3>2. gens'[p] = gens[p] + 1
      BY <1>3, <1>5, <2>1
    <3> QED
      BY <2>1, <3>1, <3>2
  <2>2. CASE q # p
    BY <1>3, <1>5, <2>2 DEF IInv, TypeOK
  <2> QED
    BY <2>1, <2>2
<1>6. TypeOK'
  BY <1>1, <1>3, <1>5 DEF IInv, TypeOK, readVars
<1>7. Visit' /\ Stated'
  <2>1. ASSUME NEW process, Seen(process), process.pid \in Pids
        PROVE  /\ process \in Processes
               /\ process.gen <= gens'[process.pid]
               /\ procs'[process.pid] # NULL /\ process.gen = gens'[process.pid] =>
                    process = procs'[process.pid]
    <3>1. /\ process \in Processes /\ process.gen \in Nat
          /\ process.gen <= gens[process.pid]
          /\ procs[process.pid] # NULL /\ process.gen = gens[process.pid] =>
               process = procs[process.pid]
      BY <2>1, ProcReaderAssumption DEF Seen, Processes
    <3> QED
      BY <1>3, <1>4, <2>1, <3>1
  <2>2. Visit'
    <3>1. CASE pc \in {"scan", "stat", "options"}
      <4>1. pid \in Pids \ todo /\ file.pid = pid /\ Seen(file)
        BY <3>1 DEF IInv, Visit
      <4>2. Seen(file)'
        BY <1>1, <2>1, <4>1 DEF Seen, readVars
      <4> QED
        BY <1>1, <3>1, <4>1, <4>2 DEF Visit, readVars
    <3>2. CASE pc \notin {"scan", "stat", "options"}
      BY <1>1, <3>2 DEF IInv, Visit, readVars
    <3> QED
      BY <3>1, <3>2
  <2>3. Stated'
    <3>1. CASE pc = "options"
      <4>1. /\ pid \in Pids /\ OwnSince(info.exe, file) /\ Seen(info.exe.of)
            /\ {info.pw, info.gr} \subseteq {NULL, info.exe}
        BY <3>1 DEF IInv, Visit, Stated
      <4>2. Seen(info.exe.of)'
        BY <1>1, <2>1, <4>1 DEF Seen, OwnSince, readVars
      <4> QED
        BY <1>1, <3>1, <4>1, <4>2 DEF Stated, OwnSince, NotAfter, readVars
    <3>2. CASE pc # "options"
      BY <1>1, <3>2 DEF IInv, Stated, readVars
    <3> QED
      BY <3>1, <3>2
  <2> QED
    BY <2>2, <2>3
<1>8. Scanned' /\ Undescribed' /\ Collecting'
  BY <1>1 DEF IInv, Scanned, Field, Undescribed, Visiting, PidAttribute, PidText, Collecting,
              Collected, OwnSince, NotAfter, Look, IdOf, readVars
<1>9. NotPassedOver'
  <2> SUFFICES ASSUME pc # "segv", NEW q \in Pids, Steady(q)'
               PROVE  (q \in todo \/ Visiting(q) \/ OptionIds \subseteq Ids(q))'
    BY <1>1 DEF NotPassedOver
  <2>1. q # p
    <3> SUFFICES ASSUME q = p PROVE FALSE
      OBVIOUS
    <3>1. PICK kind \in Kinds : procs'[p] = Process(p, gens[p] + 1, kind)
      BY <1>3 DEF Steady
    <3>2. procs'[p].gen = gens[p] + 1 /\ procs'[p].gen = 1
      BY <3>1 DEF Process, Steady
    <3> QED
      BY <1>4, <3>2
  <2>2. Steady(q)
    BY <1>3, <2>1 DEF Steady
  <2>3. q \in todo \/ Visiting(q) \/ OptionIds \subseteq Ids(q)
    BY <2>2 DEF IInv, NotPassedOver
  <2> QED
    BY <1>1, <2>3 DEF Visiting, OptionIds, IdOf, Ids, readVars
<1> QED
  BY <1>2, <1>6, <1>7, <1>8, <1>9 DEF IInv, Shown

LEMMA Consecution == ASSUME IInv, [Next]_vars PROVE IInv'
<1>1. CASE UNCHANGED vars
  <2>1. Shown'
    BY <1>1, ShownUnchanged DEF vars, IInv, Shown, readVars
  <2>2. TypeOK'
    BY <1>1 DEF IInv, TypeOK, vars, osVars, readVars
  <2>3. Visit' /\ Scanned' /\ Stated' /\ Undescribed'
    BY <1>1 DEF IInv, Visit, Seen, Scanned, Field, Stated, OwnSince, NotAfter, osVars, Undescribed, Visiting, PidAttribute, PidText,
                vars, readVars
  <2>4. Collecting'
    BY <1>1 DEF IInv, Collecting, Collected, OwnSince, IdOf, vars, readVars
  <2>5. NotPassedOver'
    <3>1. CASE pc = "segv"
      BY <1>1, <3>1 DEF NotPassedOver, vars
    <3>2. CASE pc # "segv"
      BY <1>1, <3>2, KeptInView DEF Visiting, vars, osVars, readVars
    <3> QED
      BY <3>1, <3>2
  <2> QED
    BY <2>1, <2>2, <2>3, <2>4, <2>5 DEF IInv, Shown
<1>2. CASE ReaderStep
  BY <1>2, OpenStep, ScanStep, StatStep, OptionStep, AddAttributesStep, EndStep DEF ReaderStep
<1>3. CASE \E p \in Pids : Exits(p) \/ Starts(p)
  BY <1>3, ProcessStep
<1> QED
  BY <1>1, <1>2, <1>3 DEF Next, Terminated

LEMMA ReportedEntry ==
  ASSUME Init, NEW p \in Pids
  PROVE  /\ procMap[p].attributes = <<PidAttribute(p)>>
         /\ Read(p) = {} /\ Ids(p) = {CPHF_ID_PID}
<1>1. procMap[p].attributes = <<PidAttribute(p)>>
  <2>1. procMap[p].attributes = Append(<< >>, PidAttribute(p))
    <3>1. procMap[p] = ProcAddAttribute(ProcFile, CPHF_ID_PID, PidText(p))
      BY DEF Init, Reported
    <3>2. CPHF_ID_PID # CPHF_ID_CMD
      BY DEF CPHF_ID_PID, CPHF_ID_CMD
    <3> QED
      BY <3>1, <3>2 DEF ProcAddAttribute, AddAttribute, ProcFile, PidAttribute
  <2> QED
    BY <2>1
<1>2. Elements(<<PidAttribute(p)>>) = {PidAttribute(p)} /\ PidAttribute(p)[1] = CPHF_ID_PID
  BY OnlyItsId DEF PidAttribute
<1>3. /\ Read(p) = {a \in Elements(procMap[p].attributes) : a[1] # CPHF_ID_PID}
      /\ Ids(p) = {a[1] : a \in Elements(procMap[p].attributes)}
  BY DEF Read, Ids, Elements
<1> QED
  BY <1>1, <1>2, <1>3

LEMMA Initially == ASSUME Init PROVE IInv
<1>1. \A p \in Pids : /\ procMap[p].attributes = <<PidAttribute(p)>>
                      /\ Read(p) = {} /\ Ids(p) = {CPHF_ID_PID}
  BY ReportedEntry
<1>2. TypeOK
  <2>1. ASSUME NEW p \in Pids, procs[p] # NULL
        PROVE  procs[p] \in {Process(p, gens[p], k) : k \in Kinds}
    <3>1. PICK q \in Pids, kind \in Kinds : procs[p] = Process(q, 1, kind)
      BY <2>1 DEF Init
    <3>2. q = p
      BY <2>1, <3>1 DEF Init, Process
    <3>3. gens[p] = 1
      BY DEF Init
    <3> QED
      BY <3>1, <3>2, <3>3
  <2>2. Unset \in Value /\ Unset # NULL /\ Unset.as # "nothing"
    <3>1. Unset \in Value /\ Unset.as # "nothing"
      BY DEF Unset, Value
    <3> QED
      BY <3>1, ProcReaderAssumption
  <2>3. /\ DOMAIN info = {"state", "ppid", "procgid", "later", "exe", "pw", "gr"}
        /\ \A f \in DOMAIN info : info[f] = NULL => f \in {"pw", "gr"}
        /\ \A f \in DOMAIN info : info[f] # NULL => info[f] \in Value /\ info[f].as # "nothing"
    BY <2>2 DEF Init
  <2>4. i \in 1..(Len(Options) + 1) /\ gens \in [Pids -> 1..MaxGen]
    BY OptionsLength, ProcReaderAssumption DEF Init
  <2>5. DOMAIN readers = {}
    BY DEF Init, EmptyMap
  <2> QED
    BY <2>1, <2>3, <2>4, <2>5 DEF Init, TypeOK
<1>3. Visit /\ Scanned /\ Stated /\ Collecting
  BY DEF Init, Visit, Scanned, Stated, Collecting
<1>4. Undescribed
  BY <1>1, OnlyItsId DEF Undescribed
<1>5. NotPassedOver
  BY DEF Init, NotPassedOver
<1>6. LooksInOrder /\ OwnerMatchesExecutable /\ AllOrNothing
  BY <1>1 DEF LooksInOrder, Trusted, OwnerMatchesExecutable, AllOrNothing
<1>7. DisplayOrder
  <2>1. ASSUME NEW p \in Pids PROVE DOMAIN procMap[p].attributes = {1}
    BY <1>1
  <2> QED
    BY <2>1 DEF DisplayOrder
<1> QED
  BY <1>2, <1>3, <1>4, <1>5, <1>6, <1>7 DEF IInv

LEMMA Invariance == Spec => []IInv
BY Initially, Consecution, PTL DEF Spec

-----------------------------------------------------------------------------
(* The theorems. *)

\* Every variable has its type.
THEOREM TypeCorrect == Spec => []TypeOK
<1>1. IInv => TypeOK
  BY DEF IInv
<1> QED
  BY <1>1, Invariance, PTL

\* Without an ERROR what is shown are fields of processes that had the id, in the
\* order of the looks: of one process from the scan, of that one or a later one
\* from exe, and again from cmdline (ProcReader::do_read).
THEOREM LooksCorrect == Spec => []LooksInOrder
<1>1. IInv => LooksInOrder
  BY DEF IInv
<1> QED
  BY <1>1, Invariance, PTL

\* The cached owner is never that of another executable.
THEOREM OwnerCorrect == Spec => []OwnerMatchesExecutable
<1>1. IInv => OwnerMatchesExecutable
  BY DEF IInv
<1> QED
  BY <1>1, Invariance, PTL

\* The attributes of a process are in the order of display, none twice.
THEOREM OrderCorrect == Spec => []DisplayOrder
<1>1. IInv => DisplayOrder
  BY DEF IInv
<1> QED
  BY <1>1, Invariance, PTL

\* A process gets all attributes asked for, or none.
THEOREM AllOrNothingCorrect == Spec => []AllOrNothing
<1>1. IInv => AllOrNothing
  BY DEF IInv
<1> QED
  BY <1>1, Invariance, PTL

\* No process that has been there all along is left out.
THEOREM LiveDescribed == Spec => []LiveProcessesDescribed
<1>1. IInv => LiveProcessesDescribed
  BY DEF IInv, LiveProcessesDescribed, NotPassedOver, Visit, Visiting, Steady
<1> QED
  BY <1>1, Invariance, PTL

(***************************************************************************)
(* The safety part of ImplementsDescription: adding the attributes of a    *)
(* process describes it, finishing and the null owner end the reader, and  *)
(* every other step is invisible.                                          *)
(***************************************************************************)
LEMMA DescriptionInit == ASSUME Init PROVE AbstractDescription!Init
<1>1. \A p \in Pids : Ids(p) = {CPHF_ID_PID}
  BY ReportedEntry
<1>2. View = [p \in Pids |-> {}]
  BY <1>1 DEF View
<1>3. Ended = FALSE
  BY DEF Init, Ended
<1> QED
  BY <1>2, <1>3 DEF AbstractDescription!Init

LEMMA DescriptionStep ==
  ASSUME IInv, [Next]_vars
  PROVE  [AbstractDescription!Next]_(AbstractDescription!vars)
<1>1. ASSUME UNCHANGED <<procMap, Ended>>
      PROVE  UNCHANGED (AbstractDescription!vars)
  BY <1>1 DEF AbstractDescription!vars, View, Ids
<1>2. CASE AddAttributes
  <2>1. pc = "options" /\ pc' = "open" /\ pid' = pid
    BY <1>2 DEF AddAttributes
  <2>2. Ended = FALSE /\ Ended' = FALSE
    BY <2>1 DEF Ended
  <2>3. /\ pid \in Pids /\ OptionIds = DOMAIN readers
        /\ \A p \in Pids : p # pid => procMap'[p] = procMap[p]
        /\ procMap[pid].attributes = <<PidAttribute(pid)>>
        /\ Ids(pid)' = {CPHF_ID_PID} \cup OptionIds
    BY <1>2, AddAttributesAdds
  <2>4. CPHF_ID_PID \notin OptionIds
    <3>1. OptionIds \subseteq TableIds
      BY <2>1, <2>3, ReadersIsMap
    <3> QED
      BY <3>1, Table DEF TableIds
  <2>5. Ids(pid) = {CPHF_ID_PID}
    <3>1. Ids(pid) = {a[1] : a \in Elements(procMap[pid].attributes)}
      BY DEF Ids, Elements
    <3>2. Elements(<<PidAttribute(pid)>>) = {PidAttribute(pid)} /\ PidAttribute(pid)[1] = CPHF_ID_PID
      BY <2>3, OnlyItsId DEF PidAttribute
    <3> QED
      BY <2>3, <3>1, <3>2
  <2>6. View[pid] = {}
    BY <2>3, <2>5 DEF View
  <2>7. View' = [View EXCEPT ![pid] = OptionIds]
    <3>1. View' = [p \in Pids |-> Ids(p)' \ {CPHF_ID_PID}]
      BY DEF View
    <3>2. \A p \in Pids : View[p] = Ids(p) \ {CPHF_ID_PID}
      BY DEF View
    <3>3. \A p \in Pids : Ids(p)' \ {CPHF_ID_PID} = IF p = pid THEN OptionIds ELSE View[p]
      <4> SUFFICES ASSUME NEW p \in Pids
                   PROVE  Ids(p)' \ {CPHF_ID_PID} = IF p = pid THEN OptionIds ELSE View[p]
        OBVIOUS
      <4>1. CASE p = pid
        BY <2>1, <2>3, <2>4, <4>1
      <4>2. CASE p # pid
        <5>1. Ids(p)' = Ids(p)
          BY <2>3, <4>2 DEF Ids
        <5> QED
          BY <3>2, <4>2, <5>1
      <4> QED
        BY <4>1, <4>2
    <3>4. DOMAIN View = Pids
      BY DEF View
    <3>5. View = [p \in Pids |-> View[p]]
      BY DEF View
    <3> HIDE DEF View
    <3> QED
      BY <2>3, <3>1, <3>3, <3>4, <3>5
  <2>8. AbstractDescription!Describe(pid)
    BY <2>2, <2>6, <2>7 DEF AbstractDescription!Describe
  <2> QED
    BY <2>3, <2>8 DEF AbstractDescription!Next
<1>3. CASE NullOwner \/ Finish
  <2>1. /\ pc \in {"open", "options"} /\ pc' \in {"segv", "done"}
        /\ UNCHANGED procMap
    BY <1>3 DEF NullOwner, Finish, readVars
  <2>2. Ended = FALSE /\ Ended' = TRUE
    BY <2>1 DEF Ended
  <2>3. UNCHANGED View
    BY <2>1 DEF View, Ids
  <2>4. AbstractDescription!End
    BY <2>2, <2>3 DEF AbstractDescription!End
  <2> QED
    BY <2>4 DEF AbstractDescription!Next
<1>4. CASE \/ OpenStat \/ OpenFails \/ FullScan \/ ShortScan \/ EmptyScan
           \/ StatExe \/ StatFails \/ ReadOption
  <2>1. UNCHANGED procMap /\ pc \notin {"done", "segv"} /\ pc' \notin {"done", "segv"}
    BY <1>4 DEF OpenStat, OpenFails, Open, FullScan, ShortScan, EmptyScan, Scan,
                StatExe, StatFails, ReadOption, readVars
  <2> QED
    BY <1>1, <2>1 DEF Ended
<1>5. CASE UNCHANGED vars \/ Terminated \/ \E p \in Pids : Exits(p) \/ Starts(p)
  <2>1. UNCHANGED <<pc, procMap>>
    BY <1>5 DEF vars, Terminated, Exits, Starts, readVars
  <2> QED
    BY <1>1, <2>1 DEF Ended
<1> QED
  BY <1>2, <1>3, <1>4, <1>5 DEF Next, ReaderStep

\* Processes are described one by one, wholly or not at all, and not again;
\* after the end nothing is.
THEOREM DescriptionImplemented ==
  Spec => AbstractDescription!Init /\ [][AbstractDescription!Next]_(AbstractDescription!vars)
BY DescriptionInit, DescriptionStep, Invariance, PTL DEF Spec

=============================================================================
