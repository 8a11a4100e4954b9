------------------------- MODULE LsofReader_proofs -------------------------
(***************************************************************************)
(* What holds of LsofReader for every set of reports, every pipe capacity, *)
(* every content of the output buffer and every choice of failures.        *)
(***************************************************************************)
EXTENDS LsofReader, TLAPS, SequenceTheorems

(***************************************************************************)
(* The inductive invariant.  TypeOK alone is not inductive: that wr stays  *)
(* within stream when lsof starts, and that the end of file means the end  *)
(* of the child, depend on where both processes are.                       *)
(***************************************************************************)

\* Before the exec nothing has been written; the child exists from the fork on.
NotStarted ==
  /\ child \in {"none", "born", "redirected"} => stream = << >>
  /\ parent \in {"start", "piped"} => child = "none"
  /\ parent \in {"forked", "reading", "segv"} => child # "none"

\* As long as the child lives it holds a descriptor that keeps the pipe open.
ChildHoldsPipe ==
  /\ child = "born" => <<"child", "w">> \in fds
  /\ child \in {"redirected", "lsof", "exiting"} => <<"child", "stdout">> \in fds

\* Once it is gone, the stream is what it wrote.
WrittenWhenGone == child \in {"exited", "killed"} => wr = Len(stream)

\* The records in the pipe have the ids of the report, in its order.
FollowsReport ==
  /\ Len(stream) <= Len(report)
  /\ \A i \in 1..Len(stream) : stream[i].id = report[i].id

\* The stream is lsof's, or what was buffered before the fork.
Origin ==
  \/ child \in {"none", "born", "redirected", "lsof", "exited", "killed"} /\ FollowsReport
  \/ child = "exiting" /\ stream = stdoutBuf /\ wr = 0
  \/ child = "exited" /\ stream = stdoutBuf

\* What has been read of a report of lsof has set the pointers it needs.
PointersSet ==
  FollowsReport =>
    /\ rd >= 1 => pf # NULL
    /\ (\E i \in 1..rd : stream[i].id = "f") => ulf # NULL

IInv ==
  /\ TypeOK
  /\ NotStarted
  /\ ChildHoldsPipe
  /\ WrittenWhenGone
  /\ Origin
  /\ PointersSet
  /\ DoneMeansDrained
  /\ NullDereferenceNeedsPendingText

-----------------------------------------------------------------------------
(* What the operations on entries preserve. *)

LEMMA LimitType == ULF_TXT_FD \in Nat
BY WidthAssumption DEF ULF_TXT_FD

LEMMA KeyType == ASSUME NEW fid \in Nat PROVE UlfKey(fid) \in 0..(UINT - 1)
BY WidthAssumption DEF UlfKey

LEMMA InsertDomain ==
  ASSUME NEW m, NEW k, NEW v
  PROVE  /\ DOMAIN MapInsert(m, k, v) = DOMAIN m \cup {k}
         /\ \A x \in DOMAIN m : MapInsert(m, k, v)[x] = m[x]
         /\ k \notin DOMAIN m => MapInsert(m, k, v)[k] = v
BY DEF MapInsert

LEMMA NewProcFile == IsProcFile(ProcFile)
<1> DEFINE Pair == {CPHF_ID_PID, CPHF_ID_FLAGS} \X Text
<1>1. << >> \in Seq(Pair)
  BY EmptySeq
<1> QED
  BY <1>1 DEF IsProcFile, ProcFile, IsAttributes, EmptyMap

LEMMA NewUnlinkedFile ==
  ASSUME NEW pid \in Nat, NEW fid \in Nat
  PROVE  IsUnlinkedFile(UnlinkedFile(pid, fid))
<1> DEFINE Pair == {CPHF_ID_PID, CPHF_ID_FLAGS} \X Text
<1>1. << >> \in Seq(Pair)
  BY EmptySeq
<1>2. UlfPath(pid, fid) \in [pid : Nat, link : {"exe", "fd"}, fd : Nat]
  BY DEF UlfPath, ExePath, FdPath
<1> QED
  BY <1>1, <1>2 DEF IsUnlinkedFile, UnlinkedFile, IsAttributes

LEMMA AddPid ==
  ASSUME NEW p, IsProcFile(p), NEW text \in Text
  PROVE  LET q == ProcAddAttribute(p, CPHF_ID_PID, text)
         IN  /\ IsProcFile(q)
             /\ q.pid = text.num
             /\ q.ulFiles = p.ulFiles
             /\ q.attributes = Append(p.attributes, <<CPHF_ID_PID, text>>)
<1> DEFINE Pair == {CPHF_ID_PID, CPHF_ID_FLAGS} \X Text
           q == ProcAddAttribute(p, CPHF_ID_PID, text)
<1>1. q.attributes = Append(p.attributes, <<CPHF_ID_PID, text>>)
  BY DEF IsProcFile, ProcAddAttribute, AddAttribute, CPHF_ID_PID, CPHF_ID_CMD
<1>2. q.attributes \in Seq(Pair)
  BY <1>1 DEF IsProcFile, IsAttributes
<1>3. q.pid = text.num /\ q.pid \in Nat
  BY DEF IsProcFile, ProcAddAttribute, Text, CPHF_ID_PID
<1>4. DOMAIN q = DOMAIN p /\ q.ulFiles = p.ulFiles
  BY DEF IsProcFile, ProcAddAttribute
<1> QED
  BY <1>1, <1>2, <1>3, <1>4 DEF IsProcFile, IsAttributes

LEMMA AddFile ==
  ASSUME NEW p, IsProcFile(p), NEW fid \in Nat, NEW ulf0, IsUnlinkedFile(ulf0)
  PROVE  LET q == ProcAddFile(p, fid, ulf0)
         IN  /\ IsProcFile(q)
             /\ q.pid = p.pid
             /\ q.attributes = p.attributes
             /\ DOMAIN q.ulFiles = DOMAIN p.ulFiles \cup {UlfKey(fid)}
             /\ \A key \in DOMAIN p.ulFiles : q.ulFiles[key] = p.ulFiles[key]
             /\ UlfKey(fid) \notin DOMAIN p.ulFiles => q.ulFiles[UlfKey(fid)] = ulf0
<1> DEFINE q == ProcAddFile(p, fid, ulf0)
<1>1. /\ DOMAIN q = DOMAIN p
      /\ q.pid = p.pid
      /\ q.attributes = p.attributes
      /\ q.ulFiles = MapInsert(p.ulFiles, UlfKey(fid), ulf0)
  BY DEF IsProcFile, ProcAddFile
<1> HIDE DEF q
<1>2. /\ DOMAIN q.ulFiles = DOMAIN p.ulFiles \cup {UlfKey(fid)}
      /\ \A key \in DOMAIN p.ulFiles : q.ulFiles[key] = p.ulFiles[key]
      /\ UlfKey(fid) \notin DOMAIN p.ulFiles => q.ulFiles[UlfKey(fid)] = ulf0
  <2> DEFINE m == p.ulFiles
             k == UlfKey(fid)
             n == MapInsert(m, k, ulf0)
  <2>1. /\ DOMAIN n = DOMAIN m \cup {k}
        /\ \A x \in DOMAIN m : n[x] = m[x]
        /\ k \notin DOMAIN m => n[k] = ulf0
    <3> HIDE DEF m, k
    <3> QED
      BY InsertDomain
  <2>2. q.ulFiles = n
    BY <1>1
  <2> QED
    BY <2>1, <2>2
<1>3. UlfKey(fid) \in 0..(UINT - 1)
  BY KeyType
<1>4. \A key \in DOMAIN q.ulFiles :
        key \in 0..(UINT - 1) /\ IsUnlinkedFile(q.ulFiles[key])
  BY <1>2, <1>3 DEF IsProcFile
<1>5. IsProcFile(q)
  BY <1>1, <1>4 DEF IsProcFile
<1> QED
  BY <1>1, <1>2, <1>5 DEF q

LEMMA AddFlags ==
  ASSUME NEW u, IsUnlinkedFile(u)
  PROVE  LET w == UlfAddAttribute(u, CPHF_ID_FLAGS, NoText)
         IN  IsUnlinkedFile(w) /\ w.path = u.path
<1> DEFINE Pair == {CPHF_ID_PID, CPHF_ID_FLAGS} \X Text
           w == UlfAddAttribute(u, CPHF_ID_FLAGS, NoText)
<1>1. w.attributes = Append(u.attributes, <<CPHF_ID_FLAGS, NoText>>)
  BY DEF IsUnlinkedFile, UlfAddAttribute, AddAttribute, CPHF_ID_FLAGS, CPHF_ID_FILENAME
<1>2. DOMAIN w = DOMAIN u /\ w.path = u.path
  BY DEF IsUnlinkedFile, UlfAddAttribute
<1>3. w.attributes \in Seq(Pair)
  <2>1. <<CPHF_ID_FLAGS, NoText>> \in Pair
    BY DEF NoText, Text
  <2>2. u.attributes \in Seq(Pair)
    BY DEF IsUnlinkedFile, IsAttributes
  <2> HIDE DEF w, Pair
  <2> QED
    BY <1>1, <2>1, <2>2
<1> QED
  BY <1>2, <1>3 DEF IsUnlinkedFile, IsAttributes

-----------------------------------------------------------------------------
(* What a killed lsof leaves in the pipe. *)

LEMMA CutRecord ==
  ASSUME NEW r \in Record, NEW c \in Cut(r)
  PROVE  c \in Record /\ c.id = r.id
<1>1. CASE c = [r EXCEPT !.kind = "none", !.num = 0]
  BY <1>1 DEF Record
<1>2. CASE \E ten \in PowersOfTen : c = [r EXCEPT !.num = r.num \div ten]
  <2>1. PICK ten \in PowersOfTen : c = [r EXCEPT !.num = r.num \div ten]
    BY <1>2
  <2>2. r.num \div ten \in Nat
    BY <2>1 DEF PowersOfTen, Record
  <2> QED
    BY <2>1, <2>2 DEF Record
<1>3. CASE c = [r EXCEPT !.kind = "name"]
  BY <1>3 DEF Record
<1> QED
  BY <1>1, <1>2, <1>3 DEF Cut

LEMMA KilledStream ==
  ASSUME TypeOK, LsofKilled
  PROVE  /\ stream' \in Seq(Record)
         /\ wr' = Len(stream')
         /\ wr' \in wr..Len(stream)
         /\ \A i \in 1..wr : stream'[i] = stream[i]
         /\ \A i \in 1..wr' : stream'[i].id = stream[i].id
<1> DEFINE kept == SubSeq(stream, 1, wr)
<1>1. /\ stream \in Seq(Record)
      /\ Len(stream) \in Nat
      /\ wr \in 0..Len(stream)
      /\ \A i \in 1..Len(stream) : stream[i] \in Record
  BY LenProperties, ElementOfSeq DEF TypeOK
<1>2. /\ kept \in Seq(Record)
      /\ Len(kept) = wr
      /\ \A i \in 1..wr : kept[i] = stream[i]
  BY <1>1, SubSeqProperties
<1> HIDE DEF kept
<1>3. CASE stream' = kept /\ wr' = wr
  BY <1>1, <1>2, <1>3
<1>4. CASE /\ wr < Len(stream)
           /\ \E r \in Cut(stream[wr + 1]) : stream' = Append(kept, r)
           /\ wr' = wr + 1
  <2>1. PICK r \in Cut(stream[wr + 1]) : stream' = Append(kept, r)
    BY <1>4
  <2>2. wr + 1 \in 1..Len(stream)
    BY <1>1, <1>4
  <2>3. r \in Record /\ r.id = stream[wr + 1].id
    BY <1>1, <2>2, CutRecord
  <2>4. /\ stream' \in Seq(Record)
        /\ Len(stream') = wr + 1
        /\ \A i \in 1..wr : stream'[i] = kept[i]
        /\ stream'[wr + 1] = r
    BY <1>1, <1>2, <2>1, <2>3
  <2> QED
    BY <1>1, <1>2, <1>4, <2>2, <2>3, <2>4
<1> QED
  BY <1>3, <1>4 DEF LsofKilled, kept

-----------------------------------------------------------------------------
(* The invariant holds initially. *)

LEMMA InitIInv == Init => IInv
<1> SUFFICES ASSUME Init PROVE IInv
  OBVIOUS
<1> USE DEF Init
<1>1. TypeOK
  <2>1. << >> \in Seq(Record) /\ Len(<< >>) = 0
    BY EmptySeq
  <2>2. txt_fd_counter \in Nat
    BY LimitType
  <2>3. DOMAIN procMap = {}
    BY DEF EmptyMap
  <2> QED
    BY <2>1, <2>2, <2>3, OtherAssumption DEF TypeOK, ParentStates, ChildStates
<1>2. FollowsReport
  <2>1. report \in Seq(Record)
    BY ReportsAssumption
  <2> QED
    BY <2>1, LenProperties DEF FollowsReport
<1>3. NotStarted /\ ChildHoldsPipe /\ WrittenWhenGone
  BY DEF NotStarted, ChildHoldsPipe, WrittenWhenGone
<1>4. Origin /\ PointersSet
  BY <1>2 DEF Origin, PointersSet
<1>5. DoneMeansDrained /\ NullDereferenceNeedsPendingText
  BY DEF DoneMeansDrained, NullDereferenceNeedsPendingText
<1> QED
  BY <1>1, <1>3, <1>4, <1>5 DEF IInv

-----------------------------------------------------------------------------
(* Who has which descriptor, and what is written when. *)

ControlInv == NotStarted /\ ChildHoldsPipe /\ WrittenWhenGone /\ DoneMeansDrained

LEMMA ControlStep == IInv /\ [Next]_vars => ControlInv'
<1> SUFFICES ASSUME IInv, [Next]_vars PROVE ControlInv'
  OBVIOUS
<1> USE DEF ControlInv, NotStarted, ChildHoldsPipe, WrittenWhenGone,
            DoneMeansDrained, givenVars, parseVars, osVars
<1>1. ControlInv
  BY DEF IInv
<1>2. CASE MakePipe
  BY <1>1, <1>2 DEF MakePipe
<1>3. CASE PipeFails
  BY <1>1, <1>3 DEF PipeFails
<1>4. CASE Fork
  BY <1>1, <1>4 DEF Fork
<1>5. CASE ForkFails
  BY <1>1, <1>5 DEF ForkFails
<1>6. CASE CloseWriteEnd
  BY <1>1, <1>6 DEF CloseWriteEnd
<1>7. CASE HandlePid
  BY <1>1, <1>7 DEF HandlePid, Take, Reading
<1>8. CASE HandleFd
  BY <1>1, <1>8 DEF HandleFd, Take, Reading
<1>9. CASE HandleFlags
  BY <1>1, <1>9 DEF HandleFlags, Take, Reading
<1>10. CASE HandleOther
  BY <1>1, <1>10 DEF HandleOther, Take, Reading
<1>11. CASE NullDereference
  BY <1>1, <1>11 DEF NullDereference, Take, Reading
<1>12. CASE EndOfFile
  <2>1. child \in {"exited", "killed"}
    BY <1>1, <1>12 DEF EndOfFile, WriteEndOpen, IInv, TypeOK, ChildStates
  <2>2. rd = Len(stream)
    BY <1>1, <1>12, <2>1 DEF EndOfFile
  <2> QED
    BY <1>1, <1>12, <2>1, <2>2 DEF EndOfFile
<1>13. CASE Redirect
  BY <1>1, <1>13 DEF Redirect
<1>14. CASE Exec
  BY <1>1, <1>14 DEF Exec
<1>15. CASE ExecFails
  BY <1>1, <1>15 DEF ExecFails
<1>16. CASE FlushAndExit
  BY <1>1, <1>16 DEF FlushAndExit, ChildFds
<1>17. CASE LsofWrites
  BY <1>1, <1>17 DEF LsofWrites
<1>18. CASE LsofExits
  BY <1>1, <1>18 DEF LsofExits, ChildFds
<1>19. CASE LsofKilled
  <2>1. wr' = Len(stream')
    BY <1>19, KilledStream DEF IInv
  <2> QED
    BY <1>1, <1>19, <2>1 DEF LsofKilled, ChildFds
<1>20. CASE UNCHANGED vars
  BY <1>1, <1>20 DEF vars
<1> QED
  BY <1>2, <1>3, <1>4, <1>5, <1>6, <1>7, <1>8, <1>9, <1>10, <1>11, <1>12,
     <1>13, <1>14, <1>15, <1>16, <1>17, <1>18, <1>19, <1>20
     DEF Next, ParentStep, ChildStep, Terminated

-----------------------------------------------------------------------------
(* The types. *)

\* What every record that is handled gives: a text, and a longer prefix.
LEMMA TakeType ==
  ASSUME TypeOK, NEW id, Take(id)
  PROVE  /\ Scanned \in Text
         /\ charbuff' = Scanned
         /\ rd' \in 0..wr
         /\ Current \in Record
         /\ rd + 1 \in 1..Len(stream)
<1>1. wr \in 0..Len(stream) /\ rd \in 0..wr /\ Len(stream) \in Nat
  BY LenProperties DEF TypeOK
<1>2. rd < wr /\ rd' = rd + 1 /\ charbuff' = Scanned
  BY DEF Take, Reading
<1>3. rd + 1 \in 1..Len(stream)
  BY <1>1, <1>2
<1>4. Current \in Record
  BY <1>3, ElementOfSeq DEF TypeOK, Current
<1>5. Scanned \in Text
  BY <1>4 DEF Scanned, Record, Text, TypeOK
<1> QED
  BY <1>1, <1>2, <1>3, <1>4, <1>5

\* The entries, and the pointers to them.
EntriesOK ==
  /\ DOMAIN procMap \subseteq Nat
  /\ \A pid \in DOMAIN procMap : IsProcFile(procMap[pid])
  /\ pf # NULL => pf \in DOMAIN procMap
  /\ ulf # NULL => /\ ulf = <<ulf[1], ulf[2]>>
                   /\ ulf[1] \in DOMAIN procMap
                   /\ ulf[2] \in DOMAIN procMap[ulf[1]].ulFiles

\* No entry is lost or replaced, and what an entry has it keeps.
Kept ==
  \A pid \in DOMAIN procMap :
    /\ pid \in DOMAIN procMap'
    /\ \A i \in DOMAIN procMap[pid].attributes :
         procMap'[pid].attributes[i] = procMap[pid].attributes[i]
    /\ \A key \in DOMAIN procMap[pid].ulFiles :
         /\ key \in DOMAIN procMap'[pid].ulFiles
         /\ procMap'[pid].ulFiles[key].path = procMap[pid].ulFiles[key].path

\* What becomes of the entries when a process, a file or its flags are read.
PidRead(pid) ==
  /\ DOMAIN procMap' = DOMAIN procMap \cup {pid}
  /\ procMap'[pid].pid = pid
  /\ pid \notin DOMAIN procMap => procMap'[pid].ulFiles = EmptyMap
  /\ \A x \in DOMAIN procMap : procMap'[x].ulFiles = procMap[x].ulFiles
  /\ \A x \in DOMAIN procMap : x # pid => procMap'[x] = procMap[x]

FileRead(fid) ==
  LET key == UlfKey(fid)
  IN  /\ pf \in DOMAIN procMap
      /\ DOMAIN procMap' = DOMAIN procMap
      /\ procMap'[pf].pid = procMap[pf].pid
      /\ DOMAIN procMap'[pf].ulFiles = DOMAIN procMap[pf].ulFiles \cup {key}
      /\ \A k \in DOMAIN procMap[pf].ulFiles :
           procMap'[pf].ulFiles[k] = procMap[pf].ulFiles[k]
      /\ key \notin DOMAIN procMap[pf].ulFiles =>
           procMap'[pf].ulFiles[key] = UnlinkedFile(pf, fid)
      /\ \A x \in DOMAIN procMap : x # pf => procMap'[x] = procMap[x]

FlagsRead ==
  /\ DOMAIN procMap' = DOMAIN procMap
  /\ \A x \in DOMAIN procMap :
       /\ procMap'[x].pid = procMap[x].pid
       /\ DOMAIN procMap'[x].ulFiles = DOMAIN procMap[x].ulFiles
       /\ \A key \in DOMAIN procMap[x].ulFiles :
            procMap'[x].ulFiles[key].path = procMap[x].ulFiles[key].path

LEMMA PidEntries ==
  ASSUME TypeOK, HandlePid
  PROVE  EntriesOK' /\ Kept /\ PidRead(Scanned.num)
<1> DEFINE pid == Scanned.num
           grown == MapInsert(procMap, pid, ProcFile)
           entry == ProcAddAttribute(grown[pid], CPHF_ID_PID, Scanned)
<1>1. Scanned \in Text /\ pid \in Nat
  BY TakeType DEF HandlePid, Text
<1>2. /\ DOMAIN grown = DOMAIN procMap \cup {pid}
      /\ \A x \in DOMAIN procMap : grown[x] = procMap[x]
      /\ pid \notin DOMAIN procMap => grown[pid] = ProcFile
  BY InsertDomain
<1>3. \A x \in DOMAIN grown : IsProcFile(grown[x])
  BY <1>2, NewProcFile DEF TypeOK
<1>4. /\ IsProcFile(entry)
      /\ entry.pid = pid
      /\ entry.ulFiles = grown[pid].ulFiles
      /\ entry.attributes = Append(grown[pid].attributes, <<CPHF_ID_PID, Scanned>>)
  BY <1>1, <1>2, <1>3, AddPid
<1>5. procMap' = [grown EXCEPT ![pid] = entry] /\ pf' = pid /\ ulf' = ulf
  BY DEF HandlePid
<1> HIDE DEF grown, entry, pid
<1>6. /\ DOMAIN procMap' = DOMAIN procMap \cup {pid}
      /\ procMap'[pid] = entry
      /\ \A x \in DOMAIN procMap : x # pid => procMap'[x] = procMap[x]
  BY <1>2, <1>5
<1>7. /\ \A x \in DOMAIN procMap : procMap'[x].ulFiles = procMap[x].ulFiles
      /\ \A x \in DOMAIN procMap' : IsProcFile(procMap'[x])
  BY <1>2, <1>4, <1>6 DEF TypeOK
<1>8. EntriesOK'
  BY <1>1, <1>5, <1>6, <1>7 DEF TypeOK, EntriesOK
<1>9. \A x \in DOMAIN procMap : \A i \in DOMAIN procMap[x].attributes :
        procMap'[x].attributes[i] = procMap[x].attributes[i]
  <2>1. ASSUME pid \in DOMAIN procMap, NEW i \in DOMAIN procMap[pid].attributes
        PROVE  entry.attributes[i] = procMap[pid].attributes[i]
    <3>1. grown[pid] = procMap[pid]
      BY <1>2, <2>1
    <3>2. procMap[pid].attributes \in Seq({CPHF_ID_PID, CPHF_ID_FLAGS} \X Text)
      BY <2>1 DEF TypeOK, IsProcFile, IsAttributes
    <3>3. i \in 1..Len(procMap[pid].attributes)
      BY <2>1, <3>2, LenProperties
    <3> QED
      BY <1>4, <3>1, <3>2, <3>3
  <2> QED
    BY <1>6, <2>1
<1>10. PidRead(pid)
  <2>1. ProcFile.ulFiles = EmptyMap
    BY DEF ProcFile
  <2> QED
    BY <1>2, <1>4, <1>6, <1>7, <2>1 DEF PidRead
<1> QED
  BY <1>6, <1>7, <1>8, <1>9, <1>10 DEF Kept, pid

LEMMA FdEntries ==
  ASSUME TypeOK, HandleFd
  PROVE  EntriesOK' /\ Kept /\ FileRead(Fid) /\ Fid \in Nat /\ txt_fd_counter' \in Nat
<1> DEFINE entry == ProcAddFile(procMap[pf], Fid, UnlinkedFile(pf, Fid))
<1>1. Fid \in Nat /\ txt_fd_counter' \in Nat
  BY TakeType DEF HandleFd, Fid, NextTxtFd, TypeOK, Text
<1>2. pf \in DOMAIN procMap /\ pf \in Nat /\ IsProcFile(procMap[pf])
  BY DEF HandleFd, TypeOK
<1>3. IsUnlinkedFile(UnlinkedFile(pf, Fid))
  BY <1>1, <1>2, NewUnlinkedFile
<1>4. /\ IsProcFile(entry)
      /\ entry.pid = procMap[pf].pid
      /\ UlfKey(Fid) \notin DOMAIN procMap[pf].ulFiles =>
           entry.ulFiles[UlfKey(Fid)] = UnlinkedFile(pf, Fid)
      /\ entry.attributes = procMap[pf].attributes
      /\ DOMAIN entry.ulFiles = DOMAIN procMap[pf].ulFiles \cup {UlfKey(Fid)}
      /\ \A key \in DOMAIN procMap[pf].ulFiles :
           entry.ulFiles[key] = procMap[pf].ulFiles[key]
  BY <1>1, <1>2, <1>3, AddFile
<1>5. /\ procMap' = [procMap EXCEPT ![pf] = entry]
      /\ pf' = pf
      /\ ulf' = <<pf, UlfKey(Fid)>>
  BY DEF HandleFd
<1> HIDE DEF entry
<1>6. /\ DOMAIN procMap' = DOMAIN procMap
      /\ procMap'[pf] = entry
      /\ \A x \in DOMAIN procMap : x # pf => procMap'[x] = procMap[x]
  BY <1>2, <1>5
<1>7. EntriesOK'
  BY <1>2, <1>4, <1>5, <1>6 DEF TypeOK, EntriesOK
<1>8. Kept
  BY <1>2, <1>4, <1>6 DEF Kept
<1>9. FileRead(Fid)
  BY <1>2, <1>4, <1>6 DEF FileRead
<1> QED
  BY <1>1, <1>7, <1>8, <1>9

LEMMA FlagsEntries ==
  ASSUME TypeOK, HandleFlags
  PROVE  EntriesOK' /\ Kept /\ FlagsRead
<1> DEFINE pid == ulf[1]
           key == ulf[2]
           file == UlfAddAttribute(procMap[pid].ulFiles[key], CPHF_ID_FLAGS, NoText)
           entry == [procMap[pid] EXCEPT !.ulFiles[key] = file]
<1>1. /\ pid \in DOMAIN procMap
      /\ key \in DOMAIN procMap[pid].ulFiles
      /\ IsProcFile(procMap[pid])
      /\ IsUnlinkedFile(procMap[pid].ulFiles[key])
  BY DEF HandleFlags, TypeOK, IsProcFile
<1>2. IsUnlinkedFile(file) /\ file.path = procMap[pid].ulFiles[key].path
  BY <1>1, AddFlags
<1>3. procMap' = [procMap EXCEPT ![pid] = entry] /\ pf' = pf /\ ulf' = ulf
  BY DEF HandleFlags
<1> HIDE DEF file, pid, key
<1>4. /\ DOMAIN entry = DOMAIN procMap[pid]
      /\ entry.pid = procMap[pid].pid
      /\ entry.attributes = procMap[pid].attributes
      /\ DOMAIN entry.ulFiles = DOMAIN procMap[pid].ulFiles
      /\ entry.ulFiles[key] = file
      /\ \A k \in DOMAIN procMap[pid].ulFiles :
           k # key => entry.ulFiles[k] = procMap[pid].ulFiles[k]
  BY <1>1 DEF IsProcFile
<1>5. IsProcFile(entry)
  <2> HIDE DEF entry
  <2> QED
    BY <1>1, <1>2, <1>4 DEF IsProcFile
<1> HIDE DEF entry
<1>6. /\ DOMAIN procMap' = DOMAIN procMap
      /\ procMap'[pid] = entry
      /\ \A x \in DOMAIN procMap : x # pid => procMap'[x] = procMap[x]
  BY <1>1, <1>3
<1>7. EntriesOK'
  BY <1>3, <1>4, <1>5, <1>6 DEF TypeOK, EntriesOK
<1>8. Kept
  BY <1>2, <1>4, <1>6 DEF Kept
<1>9. FlagsRead
  BY <1>2, <1>4, <1>6 DEF FlagsRead
<1> QED
  BY <1>7, <1>8, <1>9

LEMMA TypeStep == IInv /\ [Next]_vars => TypeOK'
<1> SUFFICES ASSUME IInv, [Next]_vars PROVE TypeOK'
  OBVIOUS
<1>1. TypeOK
  BY DEF IInv
<1>2. /\ stream \in Seq(Record)
      /\ Len(stream) \in Nat
      /\ wr \in 0..Len(stream)
      /\ rd \in 0..wr
  BY <1>1, LenProperties DEF TypeOK
<1> USE DEF TypeOK, ParentStates, ChildStates, givenVars, parseVars, osVars
<1>3. CASE MakePipe
  BY <1>1, <1>3 DEF MakePipe
<1>4. CASE PipeFails
  BY <1>1, <1>4 DEF PipeFails
<1>5. CASE Fork
  BY <1>1, <1>5 DEF Fork
<1>6. CASE ForkFails
  BY <1>1, <1>6 DEF ForkFails
<1>7. CASE CloseWriteEnd
  BY <1>1, <1>7 DEF CloseWriteEnd
<1>8. CASE HandlePid
  <2>1. EntriesOK'
    BY <1>1, <1>8, PidEntries
  <2>2. rd' \in 0..wr /\ charbuff' \in Text
    BY <1>1, <1>8, TakeType DEF HandlePid
  <2> QED
    BY <1>1, <1>8, <2>1, <2>2 DEF HandlePid, Take, EntriesOK
<1>9. CASE HandleFd
  <2>1. EntriesOK' /\ txt_fd_counter' \in Nat
    BY <1>1, <1>9, FdEntries
  <2>2. rd' \in 0..wr /\ charbuff' \in Text
    BY <1>1, <1>9, TakeType DEF HandleFd
  <2> QED
    BY <1>1, <1>9, <2>1, <2>2 DEF HandleFd, Take, EntriesOK
<1>10. CASE HandleFlags
  <2>1. EntriesOK'
    BY <1>1, <1>10, FlagsEntries
  <2>2. rd' \in 0..wr /\ charbuff' \in Text
    BY <1>1, <1>10, TakeType DEF HandleFlags
  <2> QED
    BY <1>1, <1>10, <2>1, <2>2 DEF HandleFlags, Take, EntriesOK
<1>11. CASE HandleOther
  <2>1. rd' \in 0..wr /\ charbuff' \in Text
    BY <1>1, <1>11, TakeType DEF HandleOther
  <2> QED
    BY <1>1, <1>11, <2>1 DEF HandleOther, Take
<1>12. CASE NullDereference
  <2>1. rd' \in 0..wr /\ charbuff' \in Text
    BY <1>1, <1>12, TakeType DEF NullDereference
  <2> QED
    BY <1>1, <1>12, <2>1 DEF NullDereference, Take
<1>13. CASE EndOfFile
  BY <1>1, <1>13 DEF EndOfFile
<1>14. CASE Redirect
  BY <1>1, <1>14 DEF Redirect
<1>15. CASE Exec
  <2>1. wr = 0 /\ rd = 0
    BY <1>2, <1>15 DEF Exec, IInv, NotStarted
  <2>2. report \in Seq(Record) /\ Len(report) \in Nat
    BY <1>1, ReportsAssumption, LenProperties
  <2> QED
    BY <1>1, <1>15, <2>1, <2>2 DEF Exec
<1>16. CASE ExecFails
  <2>1. wr = 0 /\ rd = 0
    BY <1>2, <1>16 DEF ExecFails, IInv, NotStarted
  <2>2. stdoutBuf \in Seq(Record) /\ Len(stdoutBuf) \in Nat
    BY <1>1, PendingAssumption, LenProperties
  <2> QED
    BY <1>1, <1>16, <2>1, <2>2 DEF ExecFails
<1>17. CASE FlushAndExit
  BY <1>1, <1>2, <1>17 DEF FlushAndExit
<1>18. CASE LsofWrites
  BY <1>1, <1>2, <1>18 DEF LsofWrites
<1>19. CASE LsofExits
  BY <1>1, <1>19 DEF LsofExits
<1>20. CASE LsofKilled
  <2>1. /\ stream' \in Seq(Record)
        /\ wr' = Len(stream')
        /\ wr' \in wr..Len(stream)
    BY <1>1, <1>20, KilledStream
  <2> QED
    BY <1>1, <1>2, <1>20, <2>1 DEF LsofKilled
<1>21. CASE UNCHANGED vars
  BY <1>1, <1>21 DEF vars
<1> QED
  BY <1>3, <1>4, <1>5, <1>6, <1>7, <1>8, <1>9, <1>10, <1>11, <1>12, <1>13,
     <1>14, <1>15, <1>16, <1>17, <1>18, <1>19, <1>20, <1>21
     DEF Next, ParentStep, ChildStep, Terminated

-----------------------------------------------------------------------------
(* Where the records come from, and what reading them has set. *)

StreamInv == Origin /\ PointersSet /\ NullDereferenceNeedsPendingText

LEMMA StreamStep == IInv /\ [Next]_vars => StreamInv'
<1> SUFFICES ASSUME IInv, [Next]_vars PROVE StreamInv'
  OBVIOUS
<1>1. TypeOK /\ NotStarted /\ WrittenWhenGone /\ StreamInv
  BY DEF IInv, StreamInv
<1>2. /\ stream \in Seq(Record)
      /\ Len(stream) \in Nat
      /\ wr \in 0..Len(stream)
      /\ rd \in 0..wr
  BY <1>1, LenProperties DEF TypeOK
<1>3. Len(report) \in Nat /\ (report # << >> => report[1].id = "p")
  BY <1>1, ReportsAssumption, LenProperties, EmptySeq DEF TypeOK
<1>4. ASSUME FollowsReport, 1 <= Len(stream) PROVE stream[1].id = "p"
  <2>1. Len(report) # 0
    BY <1>2, <1>3, <1>4 DEF FollowsReport
  <2>2. report # << >>
    BY <2>1, EmptySeq
  <2> QED
    BY <1>2, <1>3, <1>4, <2>2 DEF FollowsReport
<1> USE DEF StreamInv, Origin, PointersSet, NullDereferenceNeedsPendingText,
            FollowsReport, givenVars, parseVars, osVars
<1>5. CASE MakePipe
  BY <1>1, <1>5 DEF MakePipe
<1>6. CASE PipeFails
  BY <1>1, <1>6 DEF PipeFails
<1>7. CASE Fork
  BY <1>1, <1>7 DEF Fork, NotStarted
<1>8. CASE ForkFails
  BY <1>1, <1>8 DEF ForkFails
<1>9. CASE CloseWriteEnd
  BY <1>1, <1>9 DEF CloseWriteEnd
<1>10. CASE HandlePid
  <2>1. pf' # NULL
    BY <1>1, <1>10, TakeType, OtherAssumption DEF HandlePid, Text
  <2>2. stream[rd'].id = "p" /\ rd' = rd + 1 /\ rd' \in 1..Len(stream)
    BY <1>1, <1>2, <1>10 DEF HandlePid, Take, Current, Reading
  <2> QED
    BY <1>1, <1>2, <1>10, <2>1, <2>2 DEF HandlePid, Take, Reading
<1>11. CASE HandleFd
  <2>1. ulf' # NULL /\ pf' # NULL
    <3>1. Fid \in Nat
      BY <1>1, <1>11, TakeType DEF HandleFd, Fid, TypeOK, Text
    <3>2. UlfKey(Fid) \in Nat
      BY <3>1, KeyType, WidthAssumption
    <3>3. pf \in Nat
      BY <1>1, <1>11 DEF HandleFd, TypeOK
    <3> QED
      BY <1>11, <3>2, <3>3, OtherAssumption DEF HandleFd
  <2> QED
    BY <1>1, <1>2, <1>11, <2>1 DEF HandleFd, Take, Reading
<1>12. CASE HandleFlags
  <2>1. ulf' # NULL /\ pf' = pf
    BY <1>12 DEF HandleFlags
  <2>2. FollowsReport => pf # NULL
    <3>1. CASE rd = 0
      <4>1. stream[1].id = "G" /\ 1 <= Len(stream)
        BY <1>2, <1>12, <3>1 DEF HandleFlags, Take, Current, Reading
      <4> QED
        BY <1>4, <4>1
    <3>2. CASE rd # 0
      BY <1>1, <1>2, <3>2
    <3> QED
      BY <3>1, <3>2
  <2> QED
    BY <1>1, <1>2, <1>12, <2>1, <2>2 DEF HandleFlags, Take, Reading
<1>13. CASE HandleOther
  <2>1. stream[rd'].id = "other" /\ rd' = rd + 1 /\ rd' \in 1..Len(stream)
    BY <1>1, <1>2, <1>13 DEF HandleOther, Take, Current, Reading
  <2>2. FollowsReport => pf # NULL
    <3>1. CASE rd = 0
      BY <1>4, <1>2, <2>1, <3>1
    <3>2. CASE rd # 0
      BY <1>1, <1>2, <3>2
    <3> QED
      BY <3>1, <3>2
  <2> QED
    BY <1>1, <1>2, <1>13, <2>1, <2>2 DEF HandleOther, Take, Reading
<1>14. CASE NullDereference
  <2>1. /\ stream[rd + 1] = Current
        /\ rd + 1 \in 1..Len(stream)
        /\ wr > 0
        /\ rd' = rd + 1
    BY <1>2, <1>14 DEF NullDereference, Take, Reading, Current
  <2>2. ~FollowsReport
    <3> SUFFICES ASSUME FollowsReport PROVE FALSE
      OBVIOUS
    <3>1. CASE Current.id = "f" /\ pf = NULL
      <4>1. rd = 0
        BY <1>1, <1>2, <3>1
      <4> QED
        BY <1>4, <2>1, <3>1, <4>1
    <3>2. CASE Current.id = "G" /\ ulf = NULL
      <4>1. report[rd + 1].id = "G" /\ rd + 1 \in 1..Len(report)
        BY <1>2, <1>3, <2>1, <3>2
      <4>2. PICK j \in 1..rd : report[j].id = "f"
        <5>1. PICK j \in 1..((rd + 1) - 1) : report[j].id = "f"
          BY <1>1, <4>1, ReportsAssumption DEF TypeOK
        <5> QED
          BY <5>1, <1>2
      <4>3. stream[j].id = "f"
        BY <1>2, <4>2
      <4> QED
        BY <1>1, <3>2, <4>2, <4>3
    <3> QED
      BY <1>14, <3>1, <3>2 DEF NullDereference, Take
  <2>3. child = "exited" /\ stream = stdoutBuf
    BY <1>1, <2>1, <2>2
  <2>4. stdoutBuf # << >>
    BY <1>2, <2>1, <2>3, EmptySeq
  <2> QED
    BY <1>1, <1>14, <2>2, <2>3, <2>4 DEF NullDereference, Take
<1>15. CASE EndOfFile
  BY <1>1, <1>15 DEF EndOfFile
<1>16. CASE Redirect
  BY <1>1, <1>16 DEF Redirect
<1>17. CASE Exec
  <2>1. wr = 0 /\ rd = 0
    BY <1>1, <1>2, <1>17 DEF Exec, NotStarted
  <2> QED
    BY <1>1, <1>3, <1>17, <2>1 DEF Exec
<1>18. CASE ExecFails
  <2>1. wr = 0 /\ rd = 0
    BY <1>1, <1>2, <1>18 DEF ExecFails, NotStarted
  <2> QED
    BY <1>1, <1>18, <2>1 DEF ExecFails
<1>19. CASE FlushAndExit
  BY <1>1, <1>19 DEF FlushAndExit
<1>20. CASE LsofWrites
  BY <1>1, <1>20 DEF LsofWrites
<1>21. CASE LsofExits
  BY <1>1, <1>21 DEF LsofExits
<1>22. CASE LsofKilled
  <2>1. /\ wr' = Len(stream')
        /\ wr' \in wr..Len(stream)
        /\ \A i \in 1..wr' : stream'[i].id = stream[i].id
    BY <1>1, <1>22, KilledStream
  <2>2. FollowsReport /\ parent # "segv"
    BY <1>1, <1>22 DEF LsofKilled
  <2>3. FollowsReport'
    BY <1>2, <1>3, <1>22, <2>1, <2>2 DEF LsofKilled
  <2> QED
    BY <1>1, <1>2, <1>22, <2>1, <2>2, <2>3 DEF LsofKilled
<1>23. CASE UNCHANGED vars
  BY <1>1, <1>23 DEF vars
<1> QED
  BY <1>5, <1>6, <1>7, <1>8, <1>9, <1>10, <1>11, <1>12, <1>13, <1>14, <1>15,
     <1>16, <1>17, <1>18, <1>19, <1>20, <1>21, <1>22, <1>23
     DEF Next, ParentStep, ChildStep, Terminated

-----------------------------------------------------------------------------
(* The theorems. *)

\* IInv is an invariant.
THEOREM Invariance == Spec => []IInv
<1>1. Init => IInv
  BY InitIInv
<1>2. IInv /\ [Next]_vars => IInv'
  BY ControlStep, TypeStep, StreamStep DEF IInv, ControlInv, StreamInv
<1> QED
  BY <1>1, <1>2, PTL DEF Spec

\* Every variable keeps its type, and pf and ulf, when they are not null, point
\* into procMap (LSOFReader.cpp:87-140).
THEOREM TypeCorrect == Spec => []TypeOK
<1>1. IInv => TypeOK
  BY DEF IInv
<1> QED
  BY <1>1, Invariance, PTL

\* The parent is done with reading only when the child is gone and all that it
\* wrote has been handled (LSOFReader.cpp:56-85).
THEOREM Drained == Spec => []DoneMeansDrained
<1>1. IInv => DoneMeansDrained
  BY DEF IInv
<1> QED
  BY <1>1, Invariance, PTL

\* No report of lsof, whole or cut short, makes bufferedRead use a null pointer:
\* only cphf's own output, sent into the pipe by a failed exec, can
\* (LSOFReader.cpp:121-130, :74-75).
THEOREM NullNeedsPending == Spec => []NullDereferenceNeedsPendingText
<1>1. IInv => NullDereferenceNeedsPendingText
  BY DEF IInv
<1> QED
  BY <1>1, Invariance, PTL

\* No step of either process removes or replaces an entry or an attribute
\* (ProcFile.cpp:38-61, LSOFReader.cpp:129).
THEOREM Keeping == Spec => EntriesKept
<1>1. IInv /\ [Next]_vars => [Kept]_vars
  <2> SUFFICES ASSUME IInv, [Next]_vars PROVE Kept \/ UNCHANGED vars
    OBVIOUS
  <2>1. TypeOK
    BY DEF IInv
  <2>2. CASE HandlePid
    BY <2>1, <2>2, PidEntries
  <2>3. CASE HandleFd
    BY <2>1, <2>3, FdEntries
  <2>4. CASE HandleFlags
    BY <2>1, <2>4, FlagsEntries
  <2>5. CASE procMap' = procMap
    BY <2>5 DEF Kept
  <2>6. procMap' = procMap \/ HandlePid \/ HandleFd \/ HandleFlags
    BY DEF Next, ParentStep, ChildStep, Terminated, vars, parseVars,
           MakePipe, PipeFails, Fork, ForkFails, CloseWriteEnd, HandleOther,
           NullDereference, EndOfFile, Redirect, Exec, ExecFails, FlushAndExit,
           LsofWrites, LsofExits, LsofKilled
  <2> QED
    BY <2>2, <2>3, <2>4, <2>5, <2>6
<1>2. EntriesKept <=> [][Kept]_vars
  BY DEF EntriesKept, Kept
<1> QED
  BY <1>1, <1>2, Invariance, PTL DEF Spec

=============================================================================
