----------------------------- MODULE LsofReader -----------------------------
(***************************************************************************)
(* LSOFReader: cphf forks, the child becomes `lsof -F pfg +aL1` with its   *)
(* standard output redirected into a pipe, and the parent reads the field  *)
(* records out of the pipe and files them in procMap.                      *)
(*                                                                         *)
(* Two processes run concurrently.  They share the pipe and, at the fork,  *)
(* the child receives copies of the parent's pipe descriptors and of the   *)
(* parent's unwritten standard output.  The end of the report is not       *)
(* announced: the parent takes it to be where every write descriptor is    *)
(* closed.  The exit status of lsof is never looked at.                    *)
(*                                                                         *)
(* A record is a field id and a text.  Of the text the code asks only      *)
(* whether it is "txt" and what atoi makes of it, so a text is [kind,      *)
(* num]: a number, "txt", or any other name ("cwd", "mem", "DEL"...),      *)
(* whose atoi is 0.  Kind "none" is a record cut off after its id, for     *)
(* which fscanf stores no text.                                            *)
(*                                                                         *)
(* The pipe holds the records rd + 1 .. wr of the stream the child writes. *)
(* fscanf also looks for the first character of the next record; that only *)
(* delays a parent that has nothing else to do, and is left out.           *)
(***************************************************************************)
EXTENDS CphfFile

CONSTANTS
  Reports,   \* the reports lsof can make: sequences of records
  Pending,   \* what the parent's stdout buffer can hold at the fork, as records
  Garbage,   \* texts an uninitialised character buffer can hold
  PipeCap,   \* how many records the pipe holds
  Faults,    \* what can fail: a subset of {"pipe", "fork", "exec", "kill"}
  NULL       \* the null pointer

Text   == [kind : {"num", "txt", "name"}, num : Nat]
Record == [id : {"p", "f", "G", "other"},
           kind : {"num", "txt", "name", "none"}, num : Nat]

\* A report opens with a process; flags belong to a file named before them.
ASSUME ReportsAssumption ==
  /\ Reports \subseteq Seq(Record)
  /\ \A rep \in Reports : \A i \in 1..Len(rep) :
       /\ rep[i].kind # "none"
       /\ rep[i].kind # "num" => rep[i].num = 0
       /\ rep[i].id = "p" => rep[i].kind = "num"
       /\ i = 1 => rep[i].id = "p"
       /\ rep[i].id = "G" => \E j \in 1..(i - 1) : rep[j].id = "f"

ASSUME PendingAssumption ==
  /\ Pending \subseteq Seq(Record)
  /\ \A text \in Pending : \A i \in 1..Len(text) : text[i].kind # "none"

\* atoi returns an int, which an unsigned int can hold; and so it can hold the
\* numbers given to executables: the kernel keeps the limit on descriptors
\* (nr_open) that far below its end.
ASSUME NumberAssumption ==
  \A text \in Reports \cup Pending :
    /\ \A i \in 1..Len(text) : text[i].num < UINT
    /\ ULF_TXT_FD + Len(text) < UINT

ASSUME OtherAssumption ==
  /\ \A text \in Garbage : text.num < UINT
  /\ Garbage \subseteq Text
  /\ Garbage # {}
  /\ PipeCap \in Nat \ {0}
  /\ Faults \subseteq {"pipe", "fork", "exec", "kill"}
  /\ NULL \notin Nat
  /\ NULL \notin Nat \X Nat

VARIABLES
  parent,          \* where getFilesInfo is in the parent
  child,           \* where it is in the child
  fds,             \* open pipe descriptors: <<process, "r" | "w" | "stdout">>
  report,          \* what lsof would write, run to its end
  stdoutBuf,       \* the parent's buffered, unwritten standard output
  stream,          \* what the child writes into the pipe
  wr,              \* how many records of it have been written
  rd,              \* how many the parent has handled
  charbuff,        \* bufferedRead: the text buffer,
  txt_fd_counter,  \*   the next number for a "txt" file,
  pf,              \*   the current ProcFile (its key in procMap) or NULL,
  ulf,             \*   the current UnlinkedFile (pid and key) or NULL
  procMap          \* the entries collected

osVars     == <<fds, stream, wr>>
parseVars  == <<rd, charbuff, txt_fd_counter, pf, ulf, procMap>>
givenVars  == <<report, stdoutBuf>>
vars       == <<parent, child, osVars, givenVars, parseVars>>

Init ==
  /\ parent = "start"
  /\ child = "none"
  /\ fds = {}
  /\ report \in Reports
  /\ stdoutBuf \in Pending
  /\ stream = << >>
  /\ wr = 0
  /\ rd = 0
  /\ charbuff \in Garbage
  /\ txt_fd_counter = ULF_TXT_FD + 1
  /\ pf = NULL
  /\ ulf = NULL
  /\ procMap = EmptyMap

-----------------------------------------------------------------------------
(* getFilesInfo, in the parent. *)

MakePipe ==
  /\ parent = "start"
  /\ parent' = "piped"
  /\ fds' = {<<"parent", "r">>, <<"parent", "w">>}
  /\ UNCHANGED <<child, stream, wr, givenVars, parseVars>>

PipeFails ==
  /\ parent = "start"
  /\ "pipe" \in Faults
  /\ parent' = "done"
  /\ UNCHANGED <<child, osVars, givenVars, parseVars>>

Fork ==
  /\ parent = "piped"
  /\ parent' = "forked"
  /\ child' = "born"
  /\ fds' = fds \cup {<<"child", "r">>, <<"child", "w">>}
  /\ UNCHANGED <<stream, wr, givenVars, parseVars>>

\* Neither descriptor is closed on this path.
ForkFails ==
  /\ parent = "piped"
  /\ "fork" \in Faults
  /\ parent' = "done"
  /\ UNCHANGED <<child, osVars, givenVars, parseVars>>

\* Mutant: the parent keeps its write descriptor open.
CloseWriteEndMissing ==
  /\ parent = "forked"
  /\ parent' = "reading"
  /\ UNCHANGED <<child, osVars, givenVars, parseVars>>

CloseWriteEnd ==
  /\ parent = "forked"
  /\ parent' = "reading"
  /\ fds' = fds \ {<<"parent", "w">>}
  /\ UNCHANGED <<child, stream, wr, givenVars, parseVars>>

-----------------------------------------------------------------------------
(* bufferedRead, in the parent: one action per kind of record. *)

Reading == parent = "reading" /\ rd < wr

Current == stream[rd + 1]

\* The text fscanf leaves in charbuff: what it held before if there was none.
Scanned == IF Current.kind = "none"
           THEN charbuff
           ELSE [kind |-> Current.kind, num |-> Current.num]

Take(id) ==
  /\ Reading
  /\ Current.id = id
  /\ rd' = rd + 1
  /\ charbuff' = Scanned
  /\ UNCHANGED <<child, osVars, givenVars>>

\* Mutants: the new entry is not put into procMap; the current process stays
\* the first one; there is no current process.
HandlePidNotInserted ==
  /\ Take("p")
  /\ pf' = Scanned.num
  /\ UNCHANGED <<parent, txt_fd_counter, ulf, procMap>>

HandlePidWith(current) ==
  /\ Take("p")
  /\ LET pid  == Scanned.num
         grown == MapInsert(procMap, pid, ProcFile)
     IN  procMap' = [grown EXCEPT ![pid] = ProcAddAttribute(@, CPHF_ID_PID, Scanned)]
  /\ pf' = current
  /\ UNCHANGED <<parent, txt_fd_counter, ulf>>

HandlePidKeepsFirst == HandlePidWith(IF pf = NULL THEN Scanned.num ELSE pf)

HandlePidForgets == HandlePidWith(NULL)

HandlePid ==
  /\ Take("p")
  /\ LET pid  == Scanned.num
         grown == MapInsert(procMap, pid, ProcFile)
     IN  /\ procMap' = [grown EXCEPT ![pid] = ProcAddAttribute(@, CPHF_ID_PID, Scanned)]
         /\ pf' = pid
  /\ UNCHANGED <<parent, txt_fd_counter, ulf>>

\* The number a file is given: the next one above ULF_TXT_FD for the text of
\* the process, else what atoi returns.
Fid == IF Scanned.kind = "txt" THEN txt_fd_counter ELSE Scanned.num

\* Mutant: the counter is not advanced.
NextTxtFdSame == txt_fd_counter

NextTxtFd == IF Scanned.kind = "txt" THEN txt_fd_counter + 1 ELSE txt_fd_counter

HandleFd ==
  /\ Take("f")
  /\ pf # NULL
  /\ procMap' = [procMap EXCEPT ![pf] = ProcAddFile(@, Fid, UnlinkedFile(pf, Fid))]
  /\ ulf' = <<pf, UlfKey(Fid)>>
  /\ txt_fd_counter' = NextTxtFd
  /\ UNCHANGED <<parent, pf>>

\* strbuff is empty here: the flags themselves are not copied into it.
NoText == [kind |-> "name", num |-> 0]

HandleFlags ==
  /\ Take("G")
  /\ ulf # NULL
  /\ procMap' = [procMap EXCEPT ![ulf[1]].ulFiles[ulf[2]] =
                                   UlfAddAttribute(@, CPHF_ID_FLAGS, NoText)]
  /\ UNCHANGED <<parent, txt_fd_counter, pf, ulf>>

HandleOther ==
  /\ Take("other")
  /\ UNCHANGED <<parent, txt_fd_counter, pf, ulf, procMap>>

\* The program ends by a segmentation fault: pf or ulf is used while null.
NullDereference ==
  /\ \/ Take("f") /\ pf = NULL
     \/ Take("G") /\ ulf = NULL
  /\ parent' = "segv"
  /\ UNCHANGED <<txt_fd_counter, pf, ulf, procMap>>

WriteEndOpen == \E fd \in fds : fd[2] \in {"w", "stdout"}

\* Mutants: the pipe is read without blocking; a normal exit is waited for.
EndOfFileWhenEmpty ==
  /\ parent = "reading"
  /\ rd = wr
  /\ parent' = "done"
  /\ fds' = fds \ {<<"parent", "r">>}
  /\ UNCHANGED <<child, stream, wr, givenVars, parseVars>>

EndOfFileAfterExit == EndOfFileWhenEmpty /\ ~WriteEndOpen /\ child = "exited"

EndOfFile ==
  /\ parent = "reading"
  /\ rd = wr
  /\ ~WriteEndOpen
  /\ parent' = "done"
  /\ fds' = fds \ {<<"parent", "r">>}
  /\ UNCHANGED <<child, stream, wr, givenVars, parseVars>>

-----------------------------------------------------------------------------
(* getFilesInfo, in the child, and lsof. *)

Redirect ==
  /\ child = "born"
  /\ child' = "redirected"
  /\ fds' = (fds \ {<<"child", "r">>}) \cup {<<"child", "stdout">>}
  /\ UNCHANGED <<parent, stream, wr, givenVars, parseVars>>

Exec ==
  /\ child = "redirected"
  /\ child' = "lsof"
  /\ stream' = report
  /\ UNCHANGED <<parent, fds, wr, givenVars, parseVars>>

\* close(stdout_pipe[1]) leaves the redirected stdout open, and exit(1) will
\* flush the stdio buffer the child inherited into it.
ExecFails ==
  /\ child = "redirected"
  /\ "exec" \in Faults
  /\ child' = "exiting"
  /\ stream' = stdoutBuf
  /\ fds' = fds \ {<<"child", "w">>}
  /\ UNCHANGED <<parent, wr, givenVars, parseVars>>

ChildFds == {<<"child", "r">>, <<"child", "w">>, <<"child", "stdout">>}

FlushAndExit ==
  /\ child = "exiting"
  /\ child' = "exited"
  /\ wr' = Len(stream)
  /\ fds' = fds \ ChildFds
  /\ UNCHANGED <<parent, stream, givenVars, parseVars>>

LsofWrites ==
  /\ child = "lsof"
  /\ wr < Len(stream)
  /\ wr - rd < PipeCap
  /\ wr' = wr + 1
  /\ UNCHANGED <<parent, child, fds, stream, givenVars, parseVars>>

LsofExits ==
  /\ child = "lsof"
  /\ wr = Len(stream)
  /\ child' = "exited"
  /\ fds' = fds \ ChildFds
  /\ UNCHANGED <<parent, stream, wr, givenVars, parseVars>>

\* What remains of a record when lsof dies within it: the id alone, or the id
\* and the first characters of the text.
PowersOfTen == {10, 100, 1000, 10000, 100000, 1000000}

Cut(r) ==
  {[r EXCEPT !.kind = "none", !.num = 0]}
    \cup {[r EXCEPT !.num = r.num \div ten] : ten \in {t \in PowersOfTen : t <= r.num}}
    \cup IF r.kind = "txt" THEN {[r EXCEPT !.kind = "name"]} ELSE {}

LsofKilled ==
  /\ child = "lsof"
  /\ "kill" \in Faults
  /\ child' = "killed"
  /\ fds' = fds \ ChildFds
  /\ \/ /\ stream' = SubSeq(stream, 1, wr)
        /\ wr' = wr
     \/ /\ wr < Len(stream)
        /\ wr - rd < PipeCap
        /\ \E r \in Cut(stream[wr + 1]) :
             stream' = Append(SubSeq(stream, 1, wr), r)
        /\ wr' = wr + 1
  /\ UNCHANGED <<parent, givenVars, parseVars>>

-----------------------------------------------------------------------------
Ended == parent \in {"done", "segv"} /\ child \in {"none", "exited", "killed"}

Terminated == Ended /\ UNCHANGED vars

ParentStep ==
  \/ MakePipe \/ PipeFails \/ Fork \/ ForkFails \/ CloseWriteEnd
  \/ HandlePid \/ HandleFd \/ HandleFlags \/ HandleOther \/ NullDereference
  \/ EndOfFile

\* What the child and lsof do by themselves; being killed is not among it.
ChildStep ==
  \/ Redirect \/ Exec \/ ExecFails \/ FlushAndExit \/ LsofWrites \/ LsofExits

Next == ParentStep \/ ChildStep \/ LsofKilled \/ Terminated

Spec == Init /\ [][Next]_vars

\* Both processes are scheduled by the kernel, and lsof writes its report.
Fairness == WF_vars(ParentStep) /\ WF_vars(ChildStep)

FairSpec == Spec /\ Fairness

-----------------------------------------------------------------------------
(***************************************************************************)
(* What the report says, stated without running the parser: the process a  *)
(* file record belongs to, the key the file must get, the link of /proc    *)
(* that leads to the file.                                                 *)
(***************************************************************************)
FileAt(s, i) == s[i].id = "f"

OwnerAt(s, j, i) ==
  /\ j \in 1..i
  /\ s[j].id = "p"
  /\ \A k \in (j + 1)..i : s[k].id # "p"

TxtRank(s, i) ==
  Cardinality({k \in 1..i : FileAt(s, k) /\ s[k].kind = "txt"})

KeyAt(s, i) ==
  UlfKey(IF s[i].kind = "txt" THEN ULF_TXT_FD + TxtRank(s, i) ELSE s[i].num)

\* The files (pid, key) and the processes of the first n records of s.
FilesOf(s, n) ==
  UNION {{<<s[j].num, KeyAt(s, i)>> : j \in {k \in 1..i : OwnerAt(s, k, i)}} :
           i \in {k \in 1..n : FileAt(s, k)}}

ProcsOf(s, n) == {s[i].num : i \in {k \in 1..n : s[k].id = "p"}}

\* The entries of procMap, in the same form.
Listed ==
  UNION {{<<pid, key>> : key \in DOMAIN procMap[pid].ulFiles} : pid \in DOMAIN procMap}

\* lsof ran, and nothing has cut its report short so far.
Intact == child \in {"lsof", "exited"} /\ stream = report

\* The limit on descriptors is known, and small enough for an unsigned int.
LimitKnown ==
  /\ ~RlimitFails
  /\ RlimMax + 1 < ULL
  /\ RlimMax + 1 + Len(report) < UINT

\* The files whose descriptor cphf's own limit allows, and the executables.
OrdinaryAt(s, i) ==
  \/ s[i].kind = "txt"
  \/ s[i].kind = "num" /\ s[i].num <= RlimMax

MeantPath(pid, r) == IF r.kind = "txt" THEN ExePath(pid)
                     ELSE IF r.kind = "num" THEN FdPath(pid, r.num)
                     ELSE [pid |-> pid, link |-> "none", fd |-> 0]

-----------------------------------------------------------------------------
(* Types. *)

IsAttributes(s) == s \in Seq({CPHF_ID_PID, CPHF_ID_FLAGS} \X Text)

IsUnlinkedFile(u) ==
  /\ DOMAIN u = {"path", "attributes"}
  /\ u.path \in [pid : Nat, link : {"exe", "fd"}, fd : Nat]
  /\ IsAttributes(u.attributes)

IsProcFile(p) ==
  /\ DOMAIN p = {"pid", "attributes", "ulFiles"}
  /\ p.pid \in Nat
  /\ IsAttributes(p.attributes)
  /\ \A key \in DOMAIN p.ulFiles : key \in 0..(UINT - 1) /\ IsUnlinkedFile(p.ulFiles[key])

ParentStates == {"start", "piped", "forked", "reading", "done", "segv"}
ChildStates  == {"none", "born", "redirected", "lsof", "exiting", "exited", "killed"}

\* Every variable has its type; pf and ulf are null or point into procMap, so
\* that only a null pointer can be dereferenced (LSOFReader.cpp:121-130).
TypeOK ==
  /\ parent \in ParentStates
  /\ child \in ChildStates
  /\ fds \subseteq ({"parent", "child"} \X {"r", "w", "stdout"})
  /\ report \in Reports
  /\ stdoutBuf \in Pending
  /\ stream \in Seq(Record)
  /\ wr \in 0..Len(stream)
  /\ rd \in 0..wr
  /\ charbuff \in Text
  /\ txt_fd_counter \in Nat
  /\ DOMAIN procMap \subseteq Nat
  /\ \A pid \in DOMAIN procMap : IsProcFile(procMap[pid])
  /\ pf # NULL => pf \in DOMAIN procMap
  /\ ulf # NULL => /\ ulf = <<ulf[1], ulf[2]>>
                   /\ ulf[1] \in DOMAIN procMap
                   /\ ulf[2] \in DOMAIN procMap[ulf[1]].ulFiles

-----------------------------------------------------------------------------
(* Safety. *)

\* While the report is read, and after, procMap holds exactly what the records
\* handled so far say: every process, every file under the process whose "p"
\* record came last before it, and nothing else (bufferedRead).
ListingMatchesReport ==
  Intact => /\ Listed = FilesOf(report, rd)
            /\ DOMAIN procMap = ProcsOf(report, rd)

\* The parent takes the report to be over only when the child is gone and
\* every record it wrote has been handled: no descriptor is closed early or
\* kept open by the wrong process (getFilesInfo).
DoneMeansDrained ==
  parent = "done" /\ child # "none" =>
    child \in {"exited", "killed"} /\ rd = Len(stream)

\* However lsof dies, the listing holds at most one process or file that lsof
\* did not report: the one record that was cut.
DamageBounded ==
  child = "killed" =>
    Cardinality(Listed \ FilesOf(report, Len(report)))
      + Cardinality(DOMAIN procMap \ ProcsOf(report, Len(report))) <= 1

\* Only text cphf itself had buffered before the fork, read back as records
\* because lsof could not be run, makes cphf use a null pointer.
NullDereferenceNeedsPendingText ==
  parent = "segv" => child = "exited" /\ stream = stdoutBuf /\ stdoutBuf # << >>

\* The path computed when a file is filed (UnlinkedFile.cpp:41-50) is the one
\* FileStatReader computes again from the key and ProcFile::pid: the two copies
\* of the rule, and the narrowing of the key between them, agree.
PathsAgree ==
  \A pid \in DOMAIN procMap : \A key \in DOMAIN procMap[pid].ulFiles :
    procMap[pid].ulFiles[key].path = formPath(procMap[pid].pid, key)

\* A text file or a descriptor within cphf's own limit is found again: its
\* entry leads to the link of /proc the record is about, whatever other
\* records the report holds.
OrdinaryFilesReachable ==
  Intact /\ LimitKnown => \A i \in 1..rd : \A j \in 1..i :
    FileAt(report, i) /\ OrdinaryAt(report, i) /\ OwnerAt(report, j, i) =>
      LET pid == report[j].num
          key == KeyAt(report, i)
      IN  /\ <<pid, key>> \in Listed
          /\ formPath(pid, key) = MeantPath(pid, report[i])

\* README:12-13: "cphf goes through and finds those unlinked but still in use
\* files on a linux system": every file lsof reports has an entry that leads
\* to it.  It does not hold for a file held open as "cwd", "mem"... , nor for
\* a descriptor above cphf's own limit.
EveryFileReachable ==
  Intact => \A i \in 1..rd : \A j \in 1..i :
    FileAt(report, i) /\ OwnerAt(report, j, i) =>
      \E key \in DOMAIN procMap[report[j].num].ulFiles :
        formPath(report[j].num, key) = MeantPath(report[j].num, report[i])

\* No step removes an entry, replaces one, or takes an attribute from one: a
\* second record for a known process or file finds the entry it has.
EntriesKept ==
  [][\A pid \in DOMAIN procMap :
       /\ pid \in DOMAIN procMap'
       /\ \A i \in DOMAIN procMap[pid].attributes :
            procMap'[pid].attributes[i] = procMap[pid].attributes[i]
       /\ \A key \in DOMAIN procMap[pid].ulFiles :
            /\ key \in DOMAIN procMap'[pid].ulFiles
            /\ procMap'[pid].ulFiles[key].path = procMap[pid].ulFiles[key].path]_vars

-----------------------------------------------------------------------------
(* Liveness and the abstract specification. *)

\* Whatever fails, both processes end: neither waits for the other for ever
\* over a full or an empty pipe (getFilesInfo).
Terminates == <>Ended

\* Seen from outside, the reader is an inventory that is filled from the
\* report of lsof, entry by entry, and is declared complete only when nothing
\* is missing.
InventoryPhase ==
  IF parent # "done" THEN "collecting"
  ELSE IF child = "exited" /\ stream = report THEN "complete" ELSE "failed"

AbstractInventory == INSTANCE Inventory WITH
  wanted  <- FilesOf(report, Len(report)),
  listing <- Listed,
  phase   <- InventoryPhase

ImplementsInventory == AbstractInventory!Spec

=============================================================================
