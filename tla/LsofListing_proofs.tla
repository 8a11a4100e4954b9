------------------------- MODULE LsofListing_proofs -------------------------
(***************************************************************************)
(* What LsofReader collects, for every set of reports: where the entries   *)
(* lead, that they are those of the report, what is left of that when lsof *)
(* is killed, and that the reader implements Inventory.                    *)
(***************************************************************************)
EXTENDS LsofReader_proofs, FiniteSetTheorems

(***************************************************************************)
(* The steps, by what they do to the records and to what is made of them.  *)
(***************************************************************************)
LEMMA StepCases ==
  ASSUME IInv, [Next]_vars
  PROVE  /\ report' = report /\ stdoutBuf' = stdoutBuf
         /\ \/ HandlePid \/ HandleFd \/ HandleFlags \/ HandleOther \/ NullDereference
            \/ UNCHANGED parseVars
         /\ \/ stream' = stream
            \/ Exec /\ rd = 0
            \/ ExecFails /\ rd = 0
            \/ LsofKilled
         /\ child' \in {"lsof", "killed"} =>
              Exec \/ LsofKilled \/ (child' = child /\ stream' = stream)
<1>1. child \in {"none", "born", "redirected"} => rd = 0
  BY EmptySeq DEF IInv, TypeOK, NotStarted
<1> USE DEF givenVars, parseVars, osVars, vars
<1>2. CASE ParentStep
  BY <1>2 DEF ParentStep, MakePipe, PipeFails, Fork, ForkFails, CloseWriteEnd,
              HandlePid, HandleFd, HandleFlags, HandleOther, NullDereference,
              EndOfFile, Take
<1>3. CASE ChildStep \/ LsofKilled \/ UNCHANGED vars
  BY <1>1, <1>3 DEF ChildStep, Redirect, Exec, ExecFails, FlushAndExit,
                    LsofWrites, LsofExits, LsofKilled
<1> QED
  BY <1>2, <1>3 DEF Next, Terminated

-----------------------------------------------------------------------------
(***************************************************************************)
(* Where the entries lead.  The path is computed from the number of a file *)
(* before it is narrowed to a key, and from pf, not from ProcFile::pid: so *)
(* the invariant bounds the numbers, and ties an entry to its process.     *)
(***************************************************************************)
SmallNumbers ==
  /\ charbuff.num < UINT
  /\ \A n \in 1..Len(stream) : stream[n].num < UINT

\* At most one number for an executable is used up by a record.
CounterBounded == txt_fd_counter <= ULF_TXT_FD + 1 + rd

EntriesNamed == \A pid \in DOMAIN procMap : procMap[pid].pid = pid

PathsInv == SmallNumbers /\ CounterBounded /\ EntriesNamed /\ PathsAgree

LEMMA StreamShort == ASSUME IInv PROVE ULF_TXT_FD + Len(stream) < UINT
<1>1. /\ report \in Reports /\ stdoutBuf \in Pending
      /\ Len(report) \in Nat /\ Len(stream) \in Nat
  BY ReportsAssumption, LenProperties DEF IInv, TypeOK
<1>2. ULF_TXT_FD + Len(report) < UINT /\ ULF_TXT_FD + Len(stdoutBuf) < UINT
  BY <1>1, NumberAssumption
<1>3. Len(stream) <= Len(report) \/ stream = stdoutBuf
  BY DEF IInv, Origin, FollowsReport
<1> QED
  BY <1>1, <1>2, <1>3, LimitType, WidthAssumption

LEMMA CutNumber ==
  ASSUME NEW r \in Record, NEW c \in Cut(r)
  PROVE  c.num <= r.num
<1>1. CASE c = [r EXCEPT !.kind = "none", !.num = 0]
  BY <1>1 DEF Record
<1>2. CASE \E ten \in PowersOfTen : c = [r EXCEPT !.num = r.num \div ten]
  <2>1. PICK ten \in PowersOfTen : c = [r EXCEPT !.num = r.num \div ten]
    BY <1>2
  <2>2. r.num \div ten <= r.num
    BY <2>1 DEF PowersOfTen, Record
  <2> QED
    BY <2>1, <2>2 DEF Record
<1>3. CASE c = [r EXCEPT !.kind = "name"]
  BY <1>3 DEF Record
<1> QED
  BY <1>1, <1>2, <1>3 DEF Cut

LEMMA KilledNumbers ==
  ASSUME TypeOK, SmallNumbers, LsofKilled
  PROVE  \A n \in 1..Len(stream') : stream'[n].num < UINT
<1>1. /\ stream \in Seq(Record) /\ stream' \in Seq(Record)
      /\ Len(stream) \in Nat
      /\ wr \in 0..Len(stream)
      /\ wr' = Len(stream') /\ wr' \in wr..Len(stream)
      /\ \A n \in 1..wr : stream'[n] = stream[n]
      /\ \A n \in 1..Len(stream) : stream[n] \in Record
  BY KilledStream, LenProperties, ElementOfSeq DEF TypeOK
<1>2. CASE wr' = wr
  BY <1>1, <1>2 DEF SmallNumbers
<1>3. CASE /\ wr < Len(stream)
           /\ \E r \in Cut(stream[wr + 1]) : stream' = Append(SubSeq(stream, 1, wr), r)
           /\ wr' = wr + 1
  <2>1. PICK r \in Cut(stream[wr + 1]) : stream' = Append(SubSeq(stream, 1, wr), r)
    BY <1>3
  <2>2. stream[wr + 1] \in Record /\ stream[wr + 1].num < UINT
    BY <1>1, <1>3 DEF SmallNumbers
  <2>3. r \in Record /\ r.num < UINT
    BY <2>2, CutRecord, CutNumber, WidthAssumption DEF Record
  <2>4. SubSeq(stream, 1, wr) \in Seq(Record) /\ Len(SubSeq(stream, 1, wr)) = wr
    BY <1>1, SubSeqProperties
  <2>5. stream'[wr + 1] = r
    BY <1>1, <2>1, <2>3, <2>4
  <2> QED
    BY <1>1, <1>3, <2>3, <2>5 DEF SmallNumbers
<1> QED
  BY <1>2, <1>3 DEF LsofKilled

\* The numbers stay small, and the counter in step with the records.
LEMMA NumbersStep ==
  ASSUME IInv, PathsInv, [Next]_vars
  PROVE  SmallNumbers' /\ CounterBounded'
<1>1. TypeOK
  BY DEF IInv
<1>2. /\ Len(stream) \in Nat /\ rd \in Nat
      /\ wr \in 0..Len(stream) /\ txt_fd_counter \in Nat
  BY <1>1, LenProperties DEF TypeOK
<1>3. SmallNumbers'
  <2>1. charbuff'.num < UINT
    <3>1. CASE UNCHANGED parseVars
      BY <3>1 DEF parseVars, PathsInv, SmallNumbers
    <3>2. ASSUME NEW id, Take(id) PROVE charbuff'.num < UINT
      <4>1. rd + 1 \in 1..Len(stream) /\ charbuff' = Scanned
        BY <1>1, <3>2, TakeType
      <4> QED
        BY <4>1 DEF Scanned, Current, PathsInv, SmallNumbers
    <3> QED
      BY <3>1, <3>2, StepCases
         DEF HandlePid, HandleFd, HandleFlags, HandleOther, NullDereference
  <2>2. \A n \in 1..Len(stream') : stream'[n].num < UINT
    <3>1. CASE stream' = stream
      BY <3>1 DEF PathsInv, SmallNumbers
    <3>2. CASE Exec
      BY <1>1, <3>2, NumberAssumption DEF Exec, TypeOK
    <3>3. CASE ExecFails
      BY <1>1, <3>3, NumberAssumption DEF ExecFails, TypeOK
    <3>4. CASE LsofKilled
      BY <1>1, <3>4, KilledNumbers DEF PathsInv
    <3> QED
      BY <3>1, <3>2, <3>3, <3>4, StepCases
  <2> QED
    BY <2>1, <2>2 DEF SmallNumbers
<1>4. CounterBounded'
  <2>1. CASE UNCHANGED parseVars
    BY <2>1 DEF parseVars, PathsInv, CounterBounded
  <2>2. ASSUME NEW id, Take(id), txt_fd_counter' <= txt_fd_counter + 1,
               txt_fd_counter' \in Nat
        PROVE  CounterBounded'
    BY <1>2, <2>2, LimitType DEF Take, PathsInv, CounterBounded
  <2>3. CASE HandleFd
    <3>1. txt_fd_counter' \in Nat /\ txt_fd_counter' <= txt_fd_counter + 1
      BY <1>2, <2>3 DEF HandleFd, NextTxtFd
    <3> QED
      BY <2>2, <2>3, <3>1 DEF HandleFd
  <2> QED
    BY <1>2, <2>1, <2>2, <2>3, StepCases
       DEF HandlePid, HandleFlags, HandleOther, NullDereference
<1> QED
  BY <1>3, <1>4

LEMMA SmallKey == ASSUME NEW n \in Nat, n < UINT PROVE UlfKey(n) = n
BY WidthAssumption DEF UlfKey

\* The number of a file fits the key it is narrowed to.
LEMMA FidFits ==
  ASSUME IInv, PathsInv, HandleFd
  PROVE  Fid \in Nat /\ UlfKey(Fid) = Fid
<1>1. TypeOK
  BY DEF IInv
<1>2. Fid \in Nat
  BY <1>1, FdEntries
<1>3. rd \in Nat /\ Len(stream) \in Nat /\ rd + 1 <= Len(stream)
  BY <1>1, TakeType, LenProperties DEF TypeOK, HandleFd
<1>4. charbuff.num < UINT /\ Current.num < UINT /\ Scanned.num < UINT
  BY <1>3, <1>1 DEF PathsInv, SmallNumbers, Current, Scanned
<1>5. txt_fd_counter < UINT
  BY <1>1, <1>3, StreamShort, LimitType, WidthAssumption
     DEF PathsInv, CounterBounded, TypeOK
<1>6. Fid < UINT
  BY <1>4, <1>5 DEF Fid
<1> QED
  BY <1>2, <1>6, SmallKey

LEMMA PathsStep ==
  ASSUME IInv, PathsInv, [Next]_vars
  PROVE  EntriesNamed' /\ PathsAgree'
<1>1. TypeOK /\ EntriesNamed /\ PathsAgree
  BY DEF IInv, PathsInv
<1> USE DEF EntriesNamed, PathsAgree
<1>2. CASE HandlePid
  <2>1. PidRead(Scanned.num)
    BY <1>1, <1>2, PidEntries
  <2>2. DOMAIN EmptyMap = {}
    BY DEF EmptyMap
  <2> QED
    BY <1>1, <2>1, <2>2 DEF PidRead
<1>3. CASE HandleFd
  <2>1. FileRead(Fid)
    BY <1>1, <1>3, FdEntries
  <2>2. UlfKey(Fid) = Fid
    BY <1>3, FidFits
  <2>3. UnlinkedFile(pf, Fid).path = formPath(pf, Fid)
    BY DEF UnlinkedFile, UlfPath, formPath
  <2> QED
    BY <1>1, <2>1, <2>2, <2>3 DEF FileRead
<1>4. CASE HandleFlags
  <2>1. FlagsRead
    BY <1>1, <1>4, FlagsEntries
  <2> QED
    BY <1>1, <2>1 DEF FlagsRead
<1>5. CASE procMap' = procMap
  BY <1>1, <1>5
<1> QED
  BY <1>2, <1>3, <1>4, <1>5, StepCases DEF parseVars, HandleOther, NullDereference

\* What UnlinkedFile computes and keeps, and what FileStatReader computes again
\* from the key and ProcFile::pid, is the same path (UnlinkedFile.cpp:41-50,
\* FileStatReader.cpp:65-78).
THEOREM PathsCorrect == Spec => []PathsAgree
<1>1. Init => PathsInv
  <2> SUFFICES ASSUME Init PROVE PathsInv
    OBVIOUS
  <2>1. charbuff.num < UINT /\ stream = << >> /\ rd = 0 /\ procMap = EmptyMap
        /\ txt_fd_counter = ULF_TXT_FD + 1
    BY OtherAssumption DEF Init
  <2>2. Len(<< >>) = 0 /\ DOMAIN EmptyMap = {}
    BY EmptySeq DEF EmptyMap
  <2> QED
    BY <2>1, <2>2, LimitType
       DEF PathsInv, SmallNumbers, CounterBounded, EntriesNamed, PathsAgree
<1>2. IInv /\ PathsInv /\ [Next]_vars => PathsInv'
  BY NumbersStep, PathsStep DEF PathsInv
<1>3. PathsInv => PathsAgree
  BY DEF PathsInv
<1> QED
  BY <1>1, <1>2, <1>3, Invariance, PTL DEF Spec

-----------------------------------------------------------------------------
(* What a longer part of a report says. *)

LEMMA ProcsGrow ==
  ASSUME NEW s, NEW n \in Nat
  PROVE  ProcsOf(s, n + 1) = ProcsOf(s, n) \cup (IF s[n + 1].id = "p" THEN {s[n + 1].num} ELSE {})
<1>1. 1..(n + 1) = (1..n) \cup {n + 1}
  OBVIOUS
<1> QED
  BY <1>1 DEF ProcsOf

FilesAt(s, i) == {<<s[j].num, KeyAt(s, i)>> : j \in {k \in 1..i : OwnerAt(s, k, i)}}

LEMMA FilesGrow ==
  ASSUME NEW s, NEW n \in Nat
  PROVE  FilesOf(s, n + 1) = FilesOf(s, n) \cup (IF FileAt(s, n + 1) THEN FilesAt(s, n + 1) ELSE {})
<1>1. 1..(n + 1) = (1..n) \cup {n + 1}
  OBVIOUS
<1>2. \A m \in Nat : \A x : x \in FilesOf(s, m) <=>
        \E i \in 1..m : FileAt(s, i) /\ x \in FilesAt(s, i)
  BY DEF FilesOf, FilesAt
<1> QED
  BY <1>1, <1>2

\* The same, by the kind of the next record.
LEMMA NextSays ==
  ASSUME NEW s, NEW n \in Nat
  PROVE  /\ s[n + 1].id = "p" => ProcsOf(s, n + 1) = ProcsOf(s, n) \cup {s[n + 1].num}
         /\ s[n + 1].id # "p" => ProcsOf(s, n + 1) = ProcsOf(s, n)
         /\ s[n + 1].id = "f" => FilesOf(s, n + 1) = FilesOf(s, n) \cup FilesAt(s, n + 1)
         /\ s[n + 1].id # "f" => FilesOf(s, n + 1) = FilesOf(s, n)
<1>1. FileAt(s, n + 1) <=> s[n + 1].id = "f"
  BY DEF FileAt
<1>2. ProcsOf(s, n + 1) = ProcsOf(s, n) \cup (IF s[n + 1].id = "p" THEN {s[n + 1].num} ELSE {})
  BY ProcsGrow
<1>3. FilesOf(s, n + 1) = FilesOf(s, n) \cup (IF FileAt(s, n + 1) THEN FilesAt(s, n + 1) ELSE {})
  BY FilesGrow
<1> QED
  BY <1>1, <1>2, <1>3

LEMMA FilesMonotone ==
  ASSUME NEW s, NEW n \in Nat, NEW m \in Nat, n <= m
  PROVE  FilesOf(s, n) \subseteq FilesOf(s, m) /\ ProcsOf(s, n) \subseteq ProcsOf(s, m)
<1>1. 1..n \subseteq 1..m
  OBVIOUS
<1>2. \A k \in Nat : \A x : x \in FilesOf(s, k) <=>
        \E i \in 1..k : FileAt(s, i) /\ x \in FilesAt(s, i)
  BY DEF FilesOf, FilesAt
<1>3. ProcsOf(s, n) \subseteq ProcsOf(s, m)
  BY <1>1 DEF ProcsOf
<1> QED
  BY <1>1, <1>2, <1>3

\* A file belongs to one process.
LEMMA OneOwner ==
  ASSUME NEW s, NEW i \in Nat, NEW j, NEW k, OwnerAt(s, j, i), OwnerAt(s, k, i)
  PROVE  j = k
<1>1. j \in 1..i /\ k \in 1..i
  BY DEF OwnerAt
<1>2. ~(j < k) /\ ~(k < j)
  BY <1>1 DEF OwnerAt
<1> QED
  BY <1>1, <1>2

LEMMA OwnerGrows ==
  ASSUME NEW s, NEW n \in Nat, NEW j, OwnerAt(s, j, n), s[n + 1].id # "p"
  PROVE  OwnerAt(s, j, n + 1)
BY DEF OwnerAt

LEMMA RankGrows ==
  ASSUME NEW s, NEW n \in Nat
  PROVE  /\ TxtRank(s, n) \in Nat
         /\ TxtRank(s, n) <= n
         /\ TxtRank(s, n + 1) = TxtRank(s, n)
              + (IF FileAt(s, n + 1) /\ s[n + 1].kind = "txt" THEN 1 ELSE 0)
<1> DEFINE Texts(m) == {k \in 1..m : FileAt(s, k) /\ s[k].kind = "txt"}
<1>1. IsFiniteSet(1..n) /\ Cardinality(1..n) = n
  BY FS_Interval
<1>2. Texts(n) \subseteq 1..n
  OBVIOUS
<1>3. IsFiniteSet(Texts(n)) /\ Cardinality(Texts(n)) \in Nat /\ Cardinality(Texts(n)) <= n
  BY <1>1, <1>2, FS_Subset, FS_CardinalityType
<1>4. 1..(n + 1) = (1..n) \cup {n + 1} /\ n + 1 \notin Texts(n)
  OBVIOUS
<1>5. Texts(n + 1) = IF FileAt(s, n + 1) /\ s[n + 1].kind = "txt"
                     THEN Texts(n) \cup {n + 1} ELSE Texts(n)
  BY <1>4
<1>6. Cardinality(Texts(n) \cup {n + 1}) = Cardinality(Texts(n)) + 1
  BY <1>3, <1>4, FS_AddElement
<1>7. \A m : TxtRank(s, m) = Cardinality(Texts(m))
  BY DEF TxtRank
<1> HIDE DEF Texts
<1> QED
  BY <1>3, <1>5, <1>6, <1>7

LEMMA NothingReported ==
  ASSUME NEW s
  PROVE  FilesOf(s, 0) = {} /\ ProcsOf(s, 0) = {} /\ TxtRank(s, 0) = 0
<1>1. 1..0 = {}
  OBVIOUS
<1>2. {k \in 1..0 : FileAt(s, k) /\ s[k].kind = "txt"} = {}
  BY <1>1
<1> QED
  BY <1>1, <1>2, FS_EmptySet DEF FilesOf, ProcsOf, TxtRank

\* What a step adds to the entries.
LEMMA ListedGrows ==
  /\ \A pid : PidRead(pid) => Listed' = Listed
  /\ \A fid : FileRead(fid) => Listed' = Listed \cup {<<pf, UlfKey(fid)>>}
  /\ FlagsRead => Listed' = Listed
  /\ procMap' = procMap => Listed' = Listed
<1>1. \A x : x \in Listed <=>
        \E pid \in DOMAIN procMap : \E key \in DOMAIN procMap[pid].ulFiles : x = <<pid, key>>
  BY DEF Listed
<1>2. \A x : x \in Listed' <=>
        \E pid \in DOMAIN procMap' : \E key \in DOMAIN procMap'[pid].ulFiles : x = <<pid, key>>
  BY DEF Listed
<1>3. DOMAIN EmptyMap = {}
  BY DEF EmptyMap
<1>4. ASSUME NEW pid, PidRead(pid) PROVE Listed' = Listed
  BY <1>1, <1>2, <1>3, <1>4 DEF PidRead
<1>5. ASSUME NEW fid, FileRead(fid) PROVE Listed' = Listed \cup {<<pf, UlfKey(fid)>>}
  BY <1>1, <1>2, <1>5 DEF FileRead
<1>6. ASSUME FlagsRead PROVE Listed' = Listed
  BY <1>1, <1>2, <1>6 DEF FlagsRead
<1>7. ASSUME procMap' = procMap PROVE Listed' = Listed
  BY <1>7 DEF Listed
<1> QED
  BY <1>4, <1>5, <1>6, <1>7

-----------------------------------------------------------------------------
(***************************************************************************)
(* The entries are those of the report.  As an invariant this has to cover *)
(* a report that is cut short, whose records agree with those of the       *)
(* report as far as they have been handled; and it carries along what the  *)
(* next file record is filed with, the current process and the counter.    *)
(***************************************************************************)
Agree(n) ==
  /\ n <= Len(report)
  /\ \A k \in 1..n : stream[k] = report[k]

OfReport ==
  /\ Listed = FilesOf(report, rd)
  /\ DOMAIN procMap = ProcsOf(report, rd)
  /\ txt_fd_counter = ULF_TXT_FD + 1 + TxtRank(report, rd)
  /\ rd >= 1 => \E j \in 1..rd : OwnerAt(report, j, rd) /\ pf = report[j].num

ListingInv == Agree(rd) => OfReport

\* The next record of the report, when it is the next one to be handled.
LEMMA NextRecord ==
  ASSUME IInv, NEW id, Take(id), Agree(rd + 1)
  PROVE  /\ rd \in Nat /\ rd + 1 \in 1..Len(report) /\ rd' = rd + 1
         /\ Agree(rd)
         /\ Current = report[rd + 1]
         /\ Scanned = [kind |-> Current.kind, num |-> Current.num]
         /\ report[rd + 1].id = id
         /\ report[rd + 1].num \in Nat
         /\ rd = 0 => id = "p"
<1>1. TypeOK
  BY DEF IInv
<1>2. rd \in Nat /\ rd' = rd + 1 /\ Current.id = id
  BY <1>1 DEF TypeOK, Take
<1>3. report \in Reports /\ report \in Seq(Record) /\ Len(report) \in Nat
  BY <1>1, ReportsAssumption, LenProperties DEF TypeOK
<1>4. rd + 1 \in 1..Len(report) /\ Current = report[rd + 1] /\ Agree(rd)
  BY <1>2, <1>3 DEF Agree, Current
<1>5. report[rd + 1].kind # "none" /\ (rd + 1 = 1 => report[rd + 1].id = "p")
  BY <1>3, <1>4, ReportsAssumption
<1>6. report[rd + 1] \in Record
  BY <1>3, <1>4, ElementOfSeq
<1> QED
  BY <1>2, <1>4, <1>5, <1>6 DEF Scanned, Record

LEMMA ListingPid ==
  ASSUME IInv, ListingInv, HandlePid, Agree(rd + 1)
  PROVE  /\ Listed' = FilesOf(report, rd + 1)
         /\ DOMAIN procMap' = ProcsOf(report, rd + 1)
         /\ txt_fd_counter' = ULF_TXT_FD + 1 + TxtRank(report, rd + 1)
         /\ \E j \in 1..(rd + 1) : OwnerAt(report, j, rd + 1) /\ pf' = report[j].num
<1>1. Take("p") /\ txt_fd_counter' = txt_fd_counter /\ pf' = Scanned.num
  BY DEF HandlePid
<1>2. /\ rd \in Nat /\ Agree(rd)
      /\ report[rd + 1].id = "p" /\ Scanned.num = report[rd + 1].num
  BY <1>1, NextRecord
<1>3. OfReport
  BY <1>2 DEF ListingInv
<1>4. PidRead(Scanned.num)
  BY PidEntries DEF IInv
<1>5. Listed' = FilesOf(report, rd + 1)
  BY <1>2, <1>3, <1>4, ListedGrows, NextSays DEF OfReport
<1>6. DOMAIN procMap' = ProcsOf(report, rd + 1)
  BY <1>2, <1>3, <1>4, NextSays DEF OfReport, PidRead
<1>7. TxtRank(report, rd + 1) = TxtRank(report, rd)
  BY <1>2, RankGrows DEF FileAt
<1>8. OwnerAt(report, rd + 1, rd + 1) /\ rd + 1 \in 1..(rd + 1)
  BY <1>2 DEF OwnerAt
<1> QED
  BY <1>1, <1>2, <1>3, <1>5, <1>6, <1>7, <1>8 DEF OfReport

LEMMA ListingFd ==
  ASSUME IInv, ListingInv, HandleFd, Agree(rd + 1)
  PROVE  /\ Listed' = FilesOf(report, rd + 1)
         /\ DOMAIN procMap' = ProcsOf(report, rd + 1)
         /\ txt_fd_counter' = ULF_TXT_FD + 1 + TxtRank(report, rd + 1)
         /\ \E j \in 1..(rd + 1) : OwnerAt(report, j, rd + 1) /\ pf' = report[j].num
<1>1. Take("f") /\ txt_fd_counter' = NextTxtFd /\ pf' = pf
  BY DEF HandleFd
<1>2. /\ rd \in Nat /\ rd >= 1 /\ Agree(rd)
      /\ report[rd + 1].id = "f"
      /\ Scanned.num = report[rd + 1].num /\ Scanned.kind = report[rd + 1].kind
  BY <1>1, NextRecord
<1>3. OfReport
  BY <1>2 DEF ListingInv
<1>4. FileRead(Fid)
  BY FdEntries DEF IInv
<1>5. PICK j \in 1..rd : OwnerAt(report, j, rd) /\ pf = report[j].num
  BY <1>2, <1>3 DEF OfReport
<1>6. j \in 1..(rd + 1) /\ OwnerAt(report, j, rd + 1)
  BY <1>2, <1>5, OwnerGrows
<1>7. /\ TxtRank(report, rd) \in Nat
      /\ TxtRank(report, rd + 1) = TxtRank(report, rd)
                + (IF report[rd + 1].kind = "txt" THEN 1 ELSE 0)
  BY <1>2, RankGrows DEF FileAt
<1>8. NextTxtFd = ULF_TXT_FD + 1 + TxtRank(report, rd + 1)
  BY <1>2, <1>3, <1>7, LimitType DEF OfReport, NextTxtFd
<1>9. UlfKey(Fid) = KeyAt(report, rd + 1)
  <2>1. Fid = IF report[rd + 1].kind = "txt" THEN ULF_TXT_FD + TxtRank(report, rd + 1)
              ELSE report[rd + 1].num
    BY <1>2, <1>3, <1>7, LimitType DEF OfReport, Fid
  <2> QED
    BY <2>1 DEF KeyAt
<1>10. FilesAt(report, rd + 1) = {<<pf, UlfKey(Fid)>>}
  <2>1. rd + 1 \in Nat
    BY <1>2
  <2>2. \A k : OwnerAt(report, k, rd + 1) <=> k = j
    BY <1>6, <2>1, OneOwner
  <2>3. {k \in 1..(rd + 1) : OwnerAt(report, k, rd + 1)} = {j}
    BY <1>6, <2>2
  <2> QED
    BY <1>5, <1>9, <2>3 DEF FilesAt
<1>11. Listed' = FilesOf(report, rd + 1)
  <2>1. Listed' = Listed \cup {<<pf, UlfKey(Fid)>>}
    BY <1>4, ListedGrows
  <2>2. FilesOf(report, rd + 1) = FilesOf(report, rd) \cup FilesAt(report, rd + 1)
    BY <1>2, NextSays
  <2>3. Listed = FilesOf(report, rd)
    BY <1>3 DEF OfReport
  <2> QED
    BY <1>10, <2>1, <2>2, <2>3
<1>12. DOMAIN procMap' = ProcsOf(report, rd + 1)
  BY <1>2, <1>3, <1>4, NextSays DEF OfReport, FileRead
<1> QED
  BY <1>1, <1>5, <1>6, <1>8, <1>11, <1>12

\* A record that is neither a process nor a file changes nothing of this; nor
\* can a null pointer be met.
LEMMA ListingOther ==
  ASSUME IInv, ListingInv, Agree(rd + 1),
         HandleFlags \/ HandleOther \/ NullDereference
  PROVE  /\ Listed' = FilesOf(report, rd + 1)
         /\ DOMAIN procMap' = ProcsOf(report, rd + 1)
         /\ txt_fd_counter' = ULF_TXT_FD + 1 + TxtRank(report, rd + 1)
         /\ \E j \in 1..(rd + 1) : OwnerAt(report, j, rd + 1) /\ pf' = report[j].num
<1>1. PICK id \in {"f", "G", "other"} : Take(id)
  BY DEF HandleFlags, HandleOther, NullDereference
<1>2. rd \in Nat /\ rd >= 1 /\ Agree(rd) /\ report[rd + 1].id = id
  BY <1>1, NextRecord
<1>3. OfReport
  BY <1>2 DEF ListingInv
<1>4. PICK j \in 1..rd : OwnerAt(report, j, rd) /\ pf = report[j].num
  BY <1>2, <1>3 DEF OfReport
<1>5. id # "f"
  <2>1. report[j] \in Record
    <3>1. report \in Seq(Record) /\ Len(report) \in Nat
      BY ReportsAssumption, LenProperties DEF IInv, TypeOK
    <3>2. j \in 1..Len(report)
      BY <1>2, <3>1 DEF Agree
    <3> QED
      BY <3>1, <3>2, ElementOfSeq
  <2>2. pf # NULL
    BY <1>4, <2>1, OtherAssumption DEF Record
  <2>3. Current.id # "f"
    BY <2>2 DEF HandleFlags, HandleOther, NullDereference, Take
  <2> QED
    BY <1>1, <2>3 DEF Take
<1>6. /\ txt_fd_counter' = txt_fd_counter
      /\ pf' = pf
      /\ Listed' = Listed
      /\ DOMAIN procMap' = DOMAIN procMap
  <2>1. CASE HandleFlags
    BY <2>1, FlagsEntries, ListedGrows DEF IInv, HandleFlags, FlagsRead
  <2>2. CASE HandleOther \/ NullDereference
    BY <2>2, ListedGrows DEF HandleOther, NullDereference
  <2> QED
    BY <2>1, <2>2
<1>7. TxtRank(report, rd + 1) = TxtRank(report, rd)
  BY <1>2, <1>5, RankGrows DEF FileAt
<1>8. FilesOf(report, rd + 1) = FilesOf(report, rd) /\ ProcsOf(report, rd + 1) = ProcsOf(report, rd)
  BY <1>1, <1>2, <1>5, NextSays
<1>9. j \in 1..(rd + 1) /\ OwnerAt(report, j, rd + 1)
  BY <1>2, <1>4, OwnerGrows
<1> QED
  BY <1>3, <1>4, <1>6, <1>7, <1>8, <1>9 DEF OfReport

\* What has been handled, no step takes back.
LEMMA AgreeBefore ==
  ASSUME IInv, [Next]_vars, UNCHANGED parseVars, Agree(rd)'
  PROVE  Agree(rd)
<1>1. rd \in 0..wr /\ rd' = rd /\ report' = report
  BY StepCases DEF IInv, TypeOK, parseVars
<1>2. CASE rd = 0
  <2>1. Len(report) \in Nat
    BY ReportsAssumption, LenProperties DEF IInv, TypeOK
  <2> QED
    BY <1>2, <2>1 DEF Agree
<1>3. CASE stream' = stream
  BY <1>1, <1>3 DEF Agree
<1>4. CASE LsofKilled
  <2>1. \A k \in 1..wr : stream'[k] = stream[k]
    BY <1>4, KilledStream DEF IInv
  <2>2. wr \in Nat
    BY LenProperties DEF IInv, TypeOK
  <2> QED
    BY <1>1, <2>1, <2>2 DEF Agree
<1> QED
  BY <1>2, <1>3, <1>4, StepCases

LEMMA ListingStep == ASSUME IInv, ListingInv, [Next]_vars PROVE ListingInv'
<1> SUFFICES ASSUME Agree(rd)' PROVE OfReport'
  BY DEF ListingInv
<1>1. report' = report
  BY StepCases
<1>2. CASE UNCHANGED parseVars
  <2>1. OfReport
    BY <1>2, AgreeBefore DEF ListingInv
  <2>2. Listed' = Listed
    BY <1>2, ListedGrows DEF parseVars
  <2> QED
    BY <1>1, <1>2, <2>1, <2>2 DEF OfReport, parseVars
<1>3. CASE HandlePid \/ HandleFd \/ HandleFlags \/ HandleOther \/ NullDereference
  <2>1. rd' = rd + 1 /\ stream' = stream /\ rd \in Nat
    BY <1>3 DEF HandlePid, HandleFd, HandleFlags, HandleOther, NullDereference,
                Take, osVars, IInv, TypeOK
  <2>2. Agree(rd + 1)
    BY <1>1, <2>1 DEF Agree
  <2>3. /\ Listed' = FilesOf(report, rd + 1)
        /\ DOMAIN procMap' = ProcsOf(report, rd + 1)
        /\ txt_fd_counter' = ULF_TXT_FD + 1 + TxtRank(report, rd + 1)
        /\ \E j \in 1..(rd + 1) : OwnerAt(report, j, rd + 1) /\ pf' = report[j].num
    BY <1>3, <2>2, ListingPid, ListingFd, ListingOther
  <2> QED
    BY <1>1, <2>1, <2>3 DEF OfReport
<1> QED
  BY <1>2, <1>3, StepCases

LEMMA InitListing == Init => ListingInv
<1> SUFFICES ASSUME Init PROVE OfReport
  BY DEF ListingInv
<1>1. /\ rd = 0 /\ procMap = EmptyMap /\ txt_fd_counter = ULF_TXT_FD + 1
  BY DEF Init
<1>2. DOMAIN EmptyMap = {}
  BY DEF EmptyMap
<1>3. Listed = {}
  BY <1>1, <1>2 DEF Listed
<1> QED
  BY <1>1, <1>2, <1>3, NothingReported, LimitType DEF OfReport

LEMMA ListingInvariance == Spec => []ListingInv
<1>1. IInv /\ ListingInv /\ [Next]_vars => ListingInv'
  BY ListingStep
<1> QED
  BY <1>1, InitListing, Invariance, PTL DEF Spec

\* As long as nothing cuts it short, and whatever the interleaving of the two
\* processes, procMap holds what the report says so far, no more and no less
\* (LSOFReader.cpp:87-140).
THEOREM ListingCorrect == Spec => []ListingMatchesReport
<1>1. IInv /\ ListingInv => ListingMatchesReport
  <2> SUFFICES ASSUME IInv, ListingInv, Intact
               PROVE  /\ Listed = FilesOf(report, rd)
                      /\ DOMAIN procMap = ProcsOf(report, rd)
    BY DEF ListingMatchesReport
  <2>1. stream = report /\ rd \in 0..wr /\ wr \in 0..Len(stream) /\ Len(stream) \in Nat
    BY LenProperties DEF Intact, IInv, TypeOK
  <2>2. Agree(rd)
    BY <2>1 DEF Agree
  <2> QED
    BY <2>2 DEF ListingInv, OfReport
<1> QED
  BY <1>1, Invariance, ListingInvariance, PTL

-----------------------------------------------------------------------------
(* The links the entries lead to. *)

LEMMA OrdinaryKey ==
  ASSUME LimitKnown, IInv, NEW i \in 1..Len(report), NEW pid,
         FileAt(report, i), OrdinaryAt(report, i)
  PROVE  formPath(pid, KeyAt(report, i)) = MeantPath(pid, report[i])
<1>1. report \in Seq(Record) /\ Len(report) \in Nat
  BY ReportsAssumption, LenProperties DEF IInv, TypeOK
<1>2. report[i] \in Record /\ i \in Nat /\ i - 1 \in Nat /\ (i - 1) + 1 = i
  BY <1>1, ElementOfSeq
<1>3. ULF_TXT_FD = RlimMax + 1 /\ RlimMax + 1 + Len(report) < UINT
  BY WidthAssumption DEF LimitKnown, ULF_TXT_FD
<1>4. CASE report[i].kind = "txt"
  <2>1. /\ TxtRank(report, i - 1) \in Nat /\ TxtRank(report, i) \in Nat
        /\ TxtRank(report, i) <= i
    BY <1>2, RankGrows
  <2>2. TxtRank(report, (i - 1) + 1) = TxtRank(report, i - 1) + 1
    BY <1>2, <1>4, RankGrows
  <2>3. TxtRank(report, i) >= 1
    BY <1>2, <2>1, <2>2
  <2>4. KeyAt(report, i) = RlimMax + 1 + TxtRank(report, i)
    <3>1. /\ RlimMax + 1 + TxtRank(report, i) \in Nat
          /\ RlimMax + 1 + TxtRank(report, i) < UINT
      BY <1>1, <1>3, <2>1, WidthAssumption
    <3>2. KeyAt(report, i) = UlfKey(RlimMax + 1 + TxtRank(report, i))
      BY <1>3, <1>4 DEF KeyAt
    <3> QED
      BY <3>1, <3>2, SmallKey
  <2> QED
    BY <1>3, <1>4, <2>1, <2>3, <2>4, WidthAssumption DEF formPath, MeantPath
<1>5. CASE report[i].kind = "num" /\ report[i].num <= RlimMax
  <2>1. KeyAt(report, i) = report[i].num
    <3>1. report[i].num \in Nat /\ report[i].num < UINT
      BY <1>1, <1>2, <1>3, <1>5, WidthAssumption DEF Record
    <3>2. KeyAt(report, i) = UlfKey(report[i].num)
      BY <1>5 DEF KeyAt
    <3> QED
      BY <3>1, <3>2, SmallKey
  <2> QED
    BY <1>2, <1>3, <1>5, <2>1, WidthAssumption DEF formPath, MeantPath, Record
<1> QED
  BY <1>4, <1>5 DEF OrdinaryAt

\* Every executable, and every descriptor within cphf's own limit, has an entry
\* that leads to its link, whatever else is in the report
\* (LSOFReader.cpp:110-123, UnlinkedFile.cpp:41-50).
THEOREM OrdinaryCorrect == Spec => []OrdinaryFilesReachable
<1>1. IInv /\ ListingMatchesReport => OrdinaryFilesReachable
  <2> SUFFICES ASSUME IInv, ListingMatchesReport, Intact, LimitKnown,
                      NEW i \in 1..rd, NEW j \in 1..i,
                      FileAt(report, i), OrdinaryAt(report, i), OwnerAt(report, j, i)
               PROVE  /\ <<report[j].num, KeyAt(report, i)>> \in Listed
                      /\ formPath(report[j].num, KeyAt(report, i))
                           = MeantPath(report[j].num, report[i])
    BY DEF OrdinaryFilesReachable
  <2>1. /\ rd \in 0..wr /\ wr \in 0..Len(stream) /\ stream = report
        /\ Len(stream) \in Nat
    BY LenProperties DEF Intact, IInv, TypeOK
  <2>2. i \in 1..Len(report)
    BY <2>1
  <2>3. <<report[j].num, KeyAt(report, i)>> \in FilesOf(report, rd)
    BY DEF FilesOf
  <2> QED
    BY <2>2, <2>3, OrdinaryKey DEF ListingMatchesReport
<1> QED
  BY <1>1, Invariance, ListingCorrect, PTL

-----------------------------------------------------------------------------
(***************************************************************************)
(* When lsof is killed.  Up to the cut the stream is the report, and there *)
(* is one record after the cut at most: it is the last to be handled.      *)
(***************************************************************************)
OneExtra ==
  LET files == FilesOf(report, Len(report))
      procs == ProcsOf(report, Len(report))
  IN  \/ DOMAIN procMap \subseteq procs /\ \E x : Listed \subseteq files \cup {x}
      \/ Listed \subseteq files /\ \E x : DOMAIN procMap \subseteq procs \cup {x}

KilledInv ==
  /\ child = "lsof" => stream = report
  /\ child = "killed" =>
       /\ Len(stream) <= Len(report)
       /\ \A k \in 1..(Len(stream) - 1) : stream[k] = report[k]
       /\ Agree(rd) \/ (rd = Len(stream) /\ OneExtra)

LEMMA AgreeBound ==
  ASSUME IInv, ListingInv, Agree(rd)
  PROVE  /\ Listed \subseteq FilesOf(report, Len(report))
         /\ DOMAIN procMap \subseteq ProcsOf(report, Len(report))
<1>1. rd \in Nat /\ Len(report) \in Nat /\ rd <= Len(report)
  BY ReportsAssumption, LenProperties DEF IInv, TypeOK, Agree
<1> QED
  BY <1>1, FilesMonotone DEF ListingInv, OfReport

\* One record, whatever it is, brings one process or one file at most.
LEMMA RecordBound ==
  ASSUME IInv, ListingInv, Agree(rd), report' = report,
         HandlePid \/ HandleFd \/ HandleFlags \/ HandleOther \/ NullDereference
  PROVE  OneExtra'
<1>1. /\ Listed \subseteq FilesOf(report, Len(report))
      /\ DOMAIN procMap \subseteq ProcsOf(report, Len(report))
  BY AgreeBound
<1>2. CASE HandlePid
  <2>1. PidRead(Scanned.num)
    BY <1>2, PidEntries DEF IInv
  <2>2. Listed' = Listed /\ DOMAIN procMap' = DOMAIN procMap \cup {Scanned.num}
    BY <2>1, ListedGrows DEF PidRead
  <2> QED
    BY <1>1, <2>2 DEF OneExtra
<1>3. CASE HandleFd
  <2>1. FileRead(Fid)
    BY <1>3, FdEntries DEF IInv
  <2>2. Listed' = Listed \cup {<<pf, UlfKey(Fid)>>} /\ DOMAIN procMap' = DOMAIN procMap
    BY <2>1, ListedGrows DEF FileRead
  <2> QED
    BY <1>1, <2>2 DEF OneExtra
<1>4. CASE HandleFlags
  <2>1. FlagsRead
    BY <1>4, FlagsEntries DEF IInv
  <2>2. Listed' = Listed /\ DOMAIN procMap' = DOMAIN procMap
    BY <2>1, ListedGrows DEF FlagsRead
  <2> QED
    BY <1>1, <2>2 DEF OneExtra
<1>5. CASE HandleOther \/ NullDereference
  <2>1. Listed' = Listed /\ procMap' = procMap
    BY <1>5, ListedGrows DEF HandleOther, NullDereference
  <2> QED
    BY <1>1, <2>1 DEF OneExtra
<1> QED
  BY <1>2, <1>3, <1>4, <1>5

LEMMA KilledStep == ASSUME IInv, ListingInv, KilledInv, [Next]_vars PROVE KilledInv'
<1>1. /\ TypeOK /\ report' = report
      /\ Len(stream) \in Nat /\ Len(report) \in Nat
      /\ wr \in 0..Len(stream) /\ rd \in 0..wr
  BY StepCases, ReportsAssumption, LenProperties DEF IInv, TypeOK
<1>2. CASE child' \notin {"lsof", "killed"}
  BY <1>2 DEF KilledInv
<1>3. CASE Exec
  BY <1>3 DEF Exec, givenVars, KilledInv
<1>4. CASE LsofKilled
  <2>1. /\ wr' = Len(stream') /\ wr' \in wr..Len(stream)
        /\ \A k \in 1..wr : stream'[k] = stream[k]
    BY <1>1, <1>4, KilledStream
  <2>2. /\ stream = report /\ child' = "killed" /\ rd' = rd /\ wr' <= wr + 1
    BY <1>1, <1>4 DEF LsofKilled, KilledInv, parseVars
  <2>3. /\ Len(stream') <= Len(report)
        /\ \A k \in 1..(Len(stream') - 1) : stream'[k] = report[k]
    BY <1>1, <2>1, <2>2
  <2>4. Agree(rd)'
    BY <1>1, <2>1, <2>2 DEF Agree
  <2> QED
    BY <1>1, <2>2, <2>3, <2>4 DEF KilledInv
<1>5. CASE child' = child /\ stream' = stream /\ UNCHANGED parseVars
  <2>1. Listed' = Listed
    BY <1>5, ListedGrows DEF parseVars
  <2>2. (Agree(rd) => Agree(rd)') /\ (OneExtra => OneExtra')
    BY <1>1, <1>5, <2>1 DEF Agree, OneExtra, parseVars
  <2> QED
    BY <1>1, <1>5, <2>2 DEF KilledInv, parseVars
<1>6. CASE /\ child' = child /\ stream' = stream
           /\ HandlePid \/ HandleFd \/ HandleFlags \/ HandleOther \/ NullDereference
  <2>1. rd' = rd + 1 /\ rd < wr
    BY <1>6 DEF HandlePid, HandleFd, HandleFlags, HandleOther, NullDereference,
                Take, Reading
  <2>2. CASE child = "killed"
    <3>1. /\ Len(stream) <= Len(report)
          /\ \A k \in 1..(Len(stream) - 1) : stream[k] = report[k]
          /\ Agree(rd)
      BY <1>1, <2>1, <2>2 DEF KilledInv
    <3>2. CASE rd + 1 = Len(stream)
      <4>1. OneExtra'
        BY <1>1, <1>6, <3>1, RecordBound
      <4> QED
        BY <1>1, <1>6, <2>1, <2>2, <3>1, <3>2, <4>1 DEF KilledInv
    <3>3. CASE rd + 1 # Len(stream)
      <4>1. Agree(rd)'
        BY <1>1, <1>6, <2>1, <3>1, <3>3 DEF Agree
      <4> QED
        BY <1>1, <1>6, <2>2, <3>1, <4>1 DEF KilledInv
    <3> QED
      BY <3>2, <3>3
  <2> QED
    BY <1>1, <1>6, <2>2 DEF KilledInv
<1> QED
  BY <1>2, <1>3, <1>4, <1>5, <1>6, StepCases

LEMMA FewExtra ==
  ASSUME NEW S, NEW T, NEW U, NEW V, S \subseteq T, NEW x, U \subseteq V \cup {x}
  PROVE  Cardinality(S \ T) = 0 /\ Cardinality(U \ V) \in 0..1
<1>1. S \ T = {}
  OBVIOUS
<1>2. Cardinality(S \ T) = 0
  BY <1>1, FS_EmptySet
<1>3. U \ V = {} \/ U \ V = {x}
  OBVIOUS
<1>4. Cardinality({}) = 0 /\ Cardinality({x}) = 1
  BY FS_EmptySet, FS_Singleton
<1>5. Cardinality(U \ V) = 0 \/ Cardinality(U \ V) = 1
  BY <1>3, <1>4
<1> QED
  BY <1>2, <1>5

\* Wherever the report breaks off, the listing holds at most one process or one
\* file lsof did not report (LSOFReader.cpp:87-140).
THEOREM DamageIsBounded == Spec => []DamageBounded
<1>1. Init => KilledInv
  BY DEF Init, KilledInv
<1>2. IInv /\ ListingInv /\ KilledInv /\ [Next]_vars => KilledInv'
  BY KilledStep
<1>3. IInv /\ ListingInv /\ KilledInv => DamageBounded
  <2> SUFFICES ASSUME IInv, ListingInv, KilledInv, child = "killed"
               PROVE  Cardinality(Listed \ FilesOf(report, Len(report)))
                        + Cardinality(DOMAIN procMap \ ProcsOf(report, Len(report))) <= 1
    BY DEF DamageBounded
  <2>1. OneExtra
    BY AgreeBound DEF KilledInv, OneExtra
  <2>2. CASE /\ DOMAIN procMap \subseteq ProcsOf(report, Len(report))
             /\ \E x : Listed \subseteq FilesOf(report, Len(report)) \cup {x}
    <3> DEFINE m == Cardinality(DOMAIN procMap \ ProcsOf(report, Len(report)))
               n == Cardinality(Listed \ FilesOf(report, Len(report)))
    <3>1. m = 0 /\ n \in 0..1
      BY <2>2, FewExtra
    <3> HIDE DEF m, n
    <3>2. n + m <= 1
      BY <3>1
    <3> QED
      BY <3>2 DEF m, n
  <2>3. CASE /\ Listed \subseteq FilesOf(report, Len(report))
             /\ \E x : DOMAIN procMap \subseteq ProcsOf(report, Len(report)) \cup {x}
    <3> DEFINE m == Cardinality(DOMAIN procMap \ ProcsOf(report, Len(report)))
               n == Cardinality(Listed \ FilesOf(report, Len(report)))
    <3>1. n = 0 /\ m \in 0..1
      BY <2>3, FewExtra
    <3> HIDE DEF m, n
    <3>2. n + m <= 1
      BY <3>1
    <3> QED
      BY <3>2 DEF m, n
  <2> QED
    BY <2>1, <2>2, <2>3 DEF OneExtra
<1> QED
  BY <1>1, <1>2, <1>3, Invariance, ListingInvariance, PTL DEF Spec

-----------------------------------------------------------------------------
(***************************************************************************)
(* LsofReader implements Inventory, step by step, when lsof is not killed  *)
(* and cphf has nothing buffered when it forks.  Every record then comes   *)
(* from the report.                                                        *)
(***************************************************************************)
Undisturbed == "kill" \notin Faults /\ Pending \subseteq {<< >>}

WholeReport ==
  /\ child # "killed"
  /\ child = "lsof" => stream = report
  /\ child = "exited" => stream = report \/ stream = stdoutBuf

LEMMA WholeStep == ASSUME Undisturbed, IInv, WholeReport, [Next]_vars PROVE WholeReport'
<1> USE DEF WholeReport, givenVars
<1>1. CASE ParentStep
  BY <1>1 DEF ParentStep, MakePipe, PipeFails, Fork, ForkFails, CloseWriteEnd,
              HandlePid, HandleFd, HandleFlags, HandleOther, NullDereference,
              EndOfFile, Take, osVars
<1>2. CASE FlushAndExit
  <2>1. stream = stdoutBuf
    BY <1>2 DEF FlushAndExit, IInv, Origin
  <2> QED
    BY <1>2, <2>1 DEF FlushAndExit
<1>3. CASE Redirect \/ Exec \/ ExecFails \/ LsofWrites \/ LsofExits
  BY <1>3 DEF Redirect, Exec, ExecFails, LsofWrites, LsofExits
<1>4. CASE LsofKilled
  BY <1>4 DEF LsofKilled, Undisturbed
<1>5. CASE UNCHANGED vars
  BY <1>5 DEF vars, osVars
<1> QED
  BY <1>1, <1>2, <1>3, <1>4, <1>5 DEF Next, ChildStep, Terminated

LEMMA RecordsOfReport ==
  ASSUME Undisturbed, IInv, WholeReport, rd < wr
  PROVE  stream = report
<1>1. stdoutBuf = << >>
  BY DEF Undisturbed, IInv, TypeOK
<1>2. wr \in 0..Len(stream) /\ rd \in 0..wr /\ Len(stream) \in Nat
  BY LenProperties DEF IInv, TypeOK
<1>3. stream # << >>
  BY <1>2, EmptySeq
<1> QED
  BY <1>1, <1>3 DEF WholeReport, IInv, TypeOK, ChildStates, NotStarted, Origin

LEMMA InventoryInit == Init => AbstractInventory!Init
<1> SUFFICES ASSUME Init PROVE AbstractInventory!Init
  OBVIOUS
<1>1. report \in Reports /\ report \in Seq(Record) /\ Len(report) \in Nat
  BY ReportsAssumption, LenProperties DEF Init
<1>2. ASSUME NEW i \in 1..Len(report), NEW j \in 1..i
      PROVE  report[j].num \in Nat /\ KeyAt(report, i) \in Nat
  <2>1. report[i] \in Record /\ report[j] \in Record /\ i \in Nat
    BY <1>1, <1>2, ElementOfSeq
  <2>2. TxtRank(report, i) \in Nat
    BY <2>1, RankGrows
  <2>3. ULF_TXT_FD + TxtRank(report, i) \in Nat /\ report[i].num \in Nat
    BY <2>1, <2>2, LimitType DEF Record
  <2>4. KeyAt(report, i) \in 0..(UINT - 1)
    BY <2>3, KeyType DEF KeyAt
  <2> QED
    BY <2>1, <2>4, WidthAssumption DEF Record
<1>3. FilesOf(report, Len(report)) \subseteq Nat \X Nat
  BY <1>2 DEF FilesOf
<1>4. Listed = {}
  BY DEF Init, EmptyMap, Listed
<1>5. InventoryPhase = "collecting"
  BY DEF Init, InventoryPhase
<1> QED
  BY <1>3, <1>4, <1>5 DEF AbstractInventory!Init

LEMMA InventoryStep ==
  ASSUME Undisturbed, IInv, ListingInv, WholeReport, [Next]_vars
  PROVE  [AbstractInventory!Next]_(AbstractInventory!vars)
<1> DEFINE wanted == FilesOf(report, Len(report))
<1>1. /\ report' = report /\ wanted' = wanted
      /\ rd \in 0..wr /\ wr \in 0..Len(stream) /\ Len(stream) \in Nat /\ TypeOK
  BY StepCases, LenProperties DEF IInv, TypeOK
<1> HIDE DEF wanted
<1>2. CASE Listed' = Listed /\ InventoryPhase' = InventoryPhase
  BY <1>1, <1>2 DEF AbstractInventory!vars, wanted
<1>3. CASE HandleFd
  <2>1. stream = report /\ rd + 1 <= Len(report)
    BY <1>1, <1>3, RecordsOfReport DEF HandleFd, Take, Reading
  <2>2. Agree(rd + 1)
    BY <1>1, <2>1 DEF Agree
  <2>3. Listed' = FilesOf(report, rd + 1)
    BY <1>3, <2>2, ListingFd
  <2>4. Listed' = Listed \cup {<<pf, UlfKey(Fid)>>}
    BY <1>1, <1>3, FdEntries, ListedGrows
  <2>5. FilesOf(report, rd + 1) \subseteq wanted
    BY <1>1, <2>1, FilesMonotone DEF wanted
  <2>6. <<pf, UlfKey(Fid)>> \in wanted
    BY <2>3, <2>4, <2>5
  <2>7. InventoryPhase = "collecting" /\ InventoryPhase' = "collecting"
    BY <1>3 DEF HandleFd, Take, Reading, InventoryPhase
  <2> QED
    BY <1>1, <2>4, <2>6, <2>7 DEF AbstractInventory!Next, AbstractInventory!Find, wanted
<1>4. CASE EndOfFile
  <2>1. Listed' = Listed /\ stream' = stream /\ child' = child
    BY <1>4, ListedGrows DEF EndOfFile, parseVars
  <2>2. InventoryPhase = "collecting"
    BY <1>4 DEF EndOfFile, InventoryPhase
  <2>3. CASE child = "exited" /\ stream = report
    <3>1. rd = Len(report)
      BY <1>4, <2>3 DEF EndOfFile, IInv, WrittenWhenGone
    <3>2. Agree(rd)
      BY <1>1, <2>3, <3>1 DEF Agree
    <3>3. Listed = wanted
      BY <3>1, <3>2 DEF ListingInv, OfReport, wanted
    <3>4. InventoryPhase' = "complete"
      BY <1>1, <1>4, <2>1, <2>3 DEF EndOfFile, InventoryPhase
    <3> QED
      BY <1>1, <2>1, <2>2, <3>3, <3>4
         DEF AbstractInventory!Next, AbstractInventory!Complete, wanted
  <2>4. CASE ~(child = "exited" /\ stream = report)
    <3>1. InventoryPhase' = "failed"
      BY <1>1, <1>4, <2>1, <2>4 DEF EndOfFile, InventoryPhase
    <3> QED
      BY <1>1, <2>1, <2>2, <3>1
         DEF AbstractInventory!Next, AbstractInventory!Fail, wanted
  <2> QED
    BY <2>3, <2>4
<1>5. CASE PipeFails \/ ForkFails
  <2>1. Listed' = Listed
    BY <1>5, ListedGrows DEF PipeFails, ForkFails, parseVars
  <2>2. InventoryPhase = "collecting" /\ InventoryPhase' = "failed"
    BY <1>5 DEF PipeFails, ForkFails, InventoryPhase, IInv, NotStarted
  <2> QED
    BY <1>1, <2>1, <2>2 DEF AbstractInventory!Next, AbstractInventory!Fail, wanted
<1>6. CASE HandlePid \/ HandleFlags \/ HandleOther \/ NullDereference
  <2>1. Listed' = Listed
    BY <1>1, <1>6, PidEntries, FlagsEntries, ListedGrows DEF HandleOther, NullDereference
  <2>2. InventoryPhase' = InventoryPhase
    BY <1>6 DEF HandlePid, HandleFlags, HandleOther, NullDereference, Take, Reading,
                InventoryPhase
  <2> QED
    BY <1>2, <2>1, <2>2
<1>7. CASE MakePipe \/ Fork \/ CloseWriteEnd
  <2>1. Listed' = Listed
    BY <1>7, ListedGrows DEF MakePipe, Fork, CloseWriteEnd, parseVars
  <2>2. InventoryPhase' = InventoryPhase
    BY <1>7 DEF MakePipe, Fork, CloseWriteEnd, InventoryPhase
  <2> QED
    BY <1>2, <2>1, <2>2
<1>8. CASE ChildStep
  <2>1. Listed' = Listed /\ parent' = parent
    BY <1>8, ListedGrows DEF ChildStep, Redirect, Exec, ExecFails, FlushAndExit,
                             LsofWrites, LsofExits, parseVars
  <2>2. child \in {"born", "redirected", "lsof", "exiting"}
    BY <1>8 DEF ChildStep, Redirect, Exec, ExecFails, FlushAndExit, LsofWrites, LsofExits
  <2>3. parent # "done"
    BY <2>2 DEF IInv, DoneMeansDrained
  <2>4. InventoryPhase' = InventoryPhase
    BY <2>1, <2>3 DEF InventoryPhase
  <2> QED
    BY <1>2, <2>1, <2>4
<1>9. CASE LsofKilled
  BY <1>9 DEF LsofKilled, Undisturbed
<1>10. CASE UNCHANGED vars
  <2>1. Listed' = Listed /\ InventoryPhase' = InventoryPhase
    BY <1>10, ListedGrows DEF vars, parseVars, givenVars, osVars, InventoryPhase
  <2> QED
    BY <1>2, <2>1
<1> QED
  BY <1>3, <1>4, <1>5, <1>6, <1>7, <1>8, <1>9, <1>10 DEF Next, ParentStep, Terminated

\* Every behaviour is one of Inventory: what lsof reports is found file by file,
\* nothing else is, and the end is complete only when nothing is missing
\* (LSOFReader.cpp:35-140).  That it comes to an end is left to the runs.
THEOREM InventoryImplemented ==
  ASSUME Undisturbed
  PROVE  Spec => AbstractInventory!Init /\ [][AbstractInventory!Next]_(AbstractInventory!vars)
<1>1. Init => WholeReport
  BY DEF Init, WholeReport
<1>2. IInv /\ WholeReport /\ [Next]_vars => WholeReport'
  BY WholeStep
<1>3. IInv /\ ListingInv /\ WholeReport /\ [Next]_vars
        => [AbstractInventory!Next]_(AbstractInventory!vars)
  BY InventoryStep
<1> QED
  BY <1>1, <1>2, <1>3, InventoryInit, Invariance, ListingInvariance, PTL DEF Spec

=============================================================================
