---------------------------- MODULE MCLsofReader ----------------------------
(***************************************************************************)
(* Small instances of LsofReader.  Two processes, 1 and 12, so that a cut  *)
(* "p12" reads as the other process.  cphf's own limit is 3: descriptors 0 *)
(* and 2 are below it, 4 is the first number that could stand for an       *)
(* executable, 12 is far above and cut short reads as descriptor 1.        *)
(***************************************************************************)
EXTENDS LsofReader

MCProc(pid)  == [id |-> "p", kind |-> "num", num |-> pid]
MCGroup      == [id |-> "other", kind |-> "num", num |-> 7]
MCFd(fd)     == [id |-> "f", kind |-> "num", num |-> fd]
MCTxt        == [id |-> "f", kind |-> "txt", num |-> 0]
MCNamed      == [id |-> "f", kind |-> "name", num |-> 0]
MCFlags      == [id |-> "G", kind |-> "name", num |-> 0]
MCWord       == [id |-> "other", kind |-> "name", num |-> 0]

\* What the files of one process can be, in the order lsof reports them.
MCFileLists(files) ==
  {<<f>> : f \in files}
    \cup {pair \in files \X files : pair[1].kind = "num" => pair[1] # pair[2]}

\* Reports on no process, on one, and on both; "more" are the lists of files
\* of the second.
MCReportsOn(files, more) ==
  {<< >>}
    \cup {<<MCProc(12), MCGroup>> \o fs : fs \in MCFileLists(files)}
    \cup {<<MCProc(1), MCGroup>> \o fs \o <<MCProc(12), MCGroup>> \o gs :
            fs \in MCFileLists(files), gs \in more}

MCFiles       == {MCFd(0), MCFd(2), MCFd(4), MCFd(12), MCTxt, MCNamed}
MCFewFiles    == {MCFd(0), MCFd(12), MCTxt}

MCReports     == MCReportsOn(MCFiles, {<<f>> : f \in MCFiles})
MCFewReports  == MCReportsOn(MCFewFiles, MCFileLists(MCFewFiles))

MCNothingPending == {<< >>}

\* "ERROR: option p is not a recognized proc flag", "... G ... file flag":
\* the words that happen to begin with a field id, and one that does not.
MCPending ==
  {<< >>,
   <<MCWord, [id |-> "p", kind |-> "name", num |-> 0], [id |-> "f", kind |-> "name", num |-> 0]>>,
   <<MCWord, [id |-> "f", kind |-> "name", num |-> 0]>>,
   <<MCFlags, [id |-> "f", kind |-> "name", num |-> 0]>>,
   <<[id |-> "p", kind |-> "name", num |-> 0], [id |-> "f", kind |-> "name", num |-> 0], MCFlags>>}

MCOneText  == {[kind |-> "num", num |-> 0]}
MCSomeText == {[kind |-> "num", num |-> 0], [kind |-> "txt", num |-> 0]}

=============================================================================
