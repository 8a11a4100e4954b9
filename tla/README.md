# A TLA+ model of cphf

cphf (Crouching Process Hidden File) lists the files of a Linux system that are
unlinked but still in use, and the processes that use them. It runs `lsof` to
find them, looks into `/proc` for the details, and prints what it was asked for.
This directory holds TLA+ modules of the program, configurations of the TLC
model checker for small instances of them, and proofs for the TLA+ proof system.

## 1. The system

| Component | State | Operations | Talks to |
|---|---|---|---|
| `main` (cphf.cpp) | `flagsOkay`, `proc_ops`, `file_ops`, the list of readers | getopt loop, `checkOptions`, choice of readers, print | builder, printer |
| `ProcFileEntryBuilder` | `procMap_`, `ULF_TXT_FD` | `build`, `flattenMap` | runs the readers in order over `procMap_` |
| `LSOFReader` | pipe, current `pf` and `ulf`, `txt_fd_counter` | `getFilesInfo` (pipe, fork, exec), `bufferedRead` | `lsof`, through a pipe |
| `ProcReader` | one `struct proc_info` for all processes | `readProcStat`, `processOpiton`, `addReader` | `/proc/<pid>/{stat,exe,cmdline}`, passwd, group |
| `FileStatReader` | one `struct file_info` per file | `formPath`, `stat`, `readFileName`, `addReader` | `/proc/<pid>/fd/<n>`, `/proc/<pid>/exe` |
| `ProcFile`, `UnlinkedFile` (`CPHFFile`) | attributes in order, files by number | `addAttribute`, `addFile`, print | shared `attributeFlags` (labels) |
| `CPHFReader` | none | `readPerms`, `readETime`, `format`, `readDevice`, `buildDeviceMap` | `/proc/tty/drivers` |
| `PrettyPrinter` | none | `printFiles` | stdout |

The program has one thread, but it is not alone: from the `fork` on, the child
and then `lsof` run beside it and share the pipe, and everything it reads in
`/proc` is about processes that go on, exit, and are replaced by others with the
same number, between any two of its system calls.

What is hard about it, and what makes each part correct:

* **LSOFReader.** The end of the report is not announced: it is where nobody
  holds a write descriptor any more. Records are attributed to processes by
  order alone. `lsof` may be missing or die, and its exit status is not looked
  at. *Correct* when the listing is what the report says, complete when the
  reader is done, and damaged no further than one record when `lsof` dies.
* **The entries.** A number above `ULF_TXT_FD` stands for the executable, in two
  places; keys are narrower than numbers; the display order depends on the order
  of insertion. *Correct* when an entry leads to the file the record was about.
* **ProcReader.** One struct for all processes, five scans that can stop early,
  several looks at the same id. *Correct* when what is shown is what `/proc` had
  under that id, one process for each look and later looks no earlier process, and
  when anything else is announced as an error.
* **FileStatReader.** `stat` and `readlink` follow a path that can lead elsewhere
  by then, and the buffer for the name grows until the name fits. *Correct* when
  what is shown comes from the link that was reported, all of it but the name from
  one look, and the name is whole.
* **The helpers of CPHFReader.** *Correct* when the number can be read off the text.
* **main.** *Correct* when all bad flags are reported and stop the program, and
  when every attribute that can be printed has a label.

The hazards are listed one by one, with their lines, in `PROJECT.json`.

## 2. The modules

* `CphfFile` - the entries as values and the operations on them as operators:
  `ULF_TXT_FD`, `UnlinkedFile`, `ProcAddAttribute`, `UlfAddAttribute`,
  `ProcAddFile`, `formPath`; `AddAll`, the loop with which both readers of `/proc` add
  what they have collected, turn by turn as a recursive function, over the keys of a
  `std::map` in `Ascending` order; `MapInsert` is `std::map::insert`. Widths are the
  constants `UINT` and `ULL`.
* `LsofReader` (extends `CphfFile`) - the two processes and the pipe.
  `parent` and `child` are their program counters, `fds` the open pipe
  descriptors of both, `stream` what the child writes into the pipe, with `wr`
  records written and `rd` handled. `getFilesInfo` is
  `MakePipe, PipeFails, Fork, ForkFails, CloseWriteEnd, EndOfFile` in the parent
  and `Redirect, Exec, ExecFails, FlushAndExit` in the child; `bufferedRead` is
  `HandlePid, HandleFd, HandleFlags, HandleOther, NullDereference`, one turn of
  its loop each; `LsofWrites, LsofExits, LsofKilled` are `lsof`. A text is a
  number, `txt`, or another word, the only distinctions the code makes.
* `Inventory` - the abstract specification of `LsofReader`: a set of files is
  collected one by one, never holds anything else, and ends complete or failed.
  `LsofReader` instantiates it with the refinement mapping
  `wanted <- FilesOf(report, ...)`, `listing <- Listed`.
* `ProcReader` (extends `CphfFile`) - `do_read` of the class, one action per
  system call (`OpenStat`/`OpenFails`, `FullScan`/`ShortScan`/`EmptyScan`,
  `StatExe`/`StatFails`) and per option (`ReadOption`, `NullOwner`), and
  `AddAttributes`; `Exits` and `Starts` are the processes. A value is its
  provenance: which process (id and generation) it was read from, and whether it
  is the field it should be, a word of the command name, or unset memory.
* `FileStatReader` (extends `CphfFile`) - `do_read` of the class over the entries
  lsof brought. `StatSucceeds`/`StatFails` are the one `stat` of
  `readFileStatAttributes`; `ReadStat` is an option answered from its result,
  `ReadName` the first try of `readFileName`, `ReadlinkFull`, `ReadlinkFits` and
  `ReadlinkFails` what `readlink` does, `NoMemory` the write through what `malloc` or
  `realloc` did not allocate; `AddAttributes` ends an entry. `Relink` and `Rename` are
  the processes: `links` is where each link of `/proc` leads, `length` how long the name
  of a file is. A value is the file it was read from and how much of a name it holds.
  `held` is a history: every file a link has led to.
* `Description` - the abstract specification of both readers of `/proc`: items are
  described one by one, each at most once and then with everything that was asked
  for; nothing is described after the end; and the end comes. `ProcReader` and
  `FileStatReader` instantiate it with the ids of the attributes their entries have.
* `StatScan` - the five `fscanf` of `readProcStat` (ProcReader.cpp:178-182), directive
  by directive, over the text of `/proc/<pid>/stat`. Characters are blanks, digits or
  others, and each knows the field it belongs to, so that a variable holds the number
  of the field it was given. A name is shorter than `TASK_COMM_LEN`, as the kernel keeps
  it. `ProcReader` takes this scan in one step with three
  outcomes; `OutcomesOfProcReader` checks that they are all there are for an open file.
* `CphfReader` (extends `CphfFile`) - the helpers as operators with the names they
  have in the code: `readPerms`, `readMode`, `readETime`, `format`, `startTime` (the
  arithmetic of `ProcReader::readTime`), `buildDeviceMap` (a recursive function over the
  lines of `/proc/tty/drivers`), `readDevice`, one action for a call of each. The texts
  of `readMode` are abbreviated to one word.
* `Main` - `main`: `CheckProc`, `CheckFile`, `SkipUnknown`, `LastOption`,
  `ChooseReaders`; `build`: `ReadLsof`, `ReadProc`, `ReadFile`; `Flatten`,
  `PrintFiles`, `PrintThrows`. An entry is the set of ids of its attributes. An option
  is a sequence of `Characters`, a constant that contains the letters of the tables.
* `MCLsofReader`, `MCMain`, `MCProcReader`, `MCFileStatReader`, `MCStatScan`,
  `MCCphfReader` - values of the constants for TLC.
* `CphfFile_proofs`, `LsofReader_proofs`, `LsofListing_proofs`, `ProcReader_proofs`,
  `FileStatReader_proofs`, `StatScan_proofs`, `CphfReader_proofs`, `Main_proofs` - the
  proofs about these modules (section 4). `LsofListing_proofs` extends
  `LsofReader_proofs`: the first is about what is collected, the second about the two
  processes, the pipe and the pointers. `ProcReader_proofs`, `FileStatReader_proofs` and
  `CphfReader_proofs` use the lemmas of `CphfFile_proofs`.

Operators marked "Mutant" in a comment are not used by the specifications. Each
is a plausible slip in the definition that follows it; replacing that definition
by it makes the property named in `PROJECT.json` fail, which shows that the
property does depend on that piece of code.

## 3. The runs

| Run | Question | Outcome |
|---|---|---|
| `lsof_reader` | Is the listing exactly the report, over all interleavings, and when pipe, fork or exec fail? | holds |
| `lsof_dies` | What can a killed `lsof`, or misread pending output, do? | at most one wrong entry; null pointers only from cphf's own pending output; nothing is lost |
| `lsof_every` | Does every reported file have an entry that leads to it? | **no** |
| `main_flags` | Are bad flags all reported, is exactly what was asked for printed, when can printing throw? | holds; only after a bad flag |
| `main_bad_flag` | Does one bad flag abort? | **no** |
| `proc_reader` | Where do the attributes of a process come from, while processes exit and ids are reused? | from processes that had the id, in the order of the looks; anything else of the scan had an error; each process wholly or not at all |
| `file_stat` | Where do the attributes of a file come from, while descriptors are reused and names change, and is the name whole? | from its own link, at one moment but for the name; whole |
| `stat_scan` | Which field of `/proc/<pid>/stat` ends up in which variable, whatever the command is called? | the right one, or an error is printed; the data region is always one field too far |
| `cphf_reader` | Do the helpers show the number they are given? | they do, within the widths below |
| `cphf_reader_size` | Is a size shown in bytes, however large? | **no**, modulo 2^32 |
| `perms_setuid` | Does `s` in the place of the owner's `x` stand for setuid? | **no**, for setgid |
| `proc_reader_blank` | Are the fields of a living process read as what they are? | **no**, with a blank in the name |

The five that fail are disagreements between the code and what its README or
comments say:

* README:12-13 promises "those unlinked but still in use files". `atoi` makes 0
  of `cwd`, `rtd`, `mem` and `DEL`, so these files are filed as descriptor 0; and
  a descriptor above cphf's *own* limit is taken for the executable.
* cphf.cpp:40 says "cphf will abort if just one flag is bad". `flagsOkay` is
  assigned and not accumulated, so the last option decides. A letter that gets
  through has an uninitialized attribute id, and printing it may throw; `main_flags`
  shows that this is the only way to make it throw.
* ProcReader.cpp:177 takes `/proc/<pid>/stat` to be made for scanf. `%*s` stops at
  the first blank of the command name, and the fields of the process before, or
  uninitialized memory, are shown. The error that is printed then is the only sign;
  `proc_reader` shows that there always is one.
* CPHFReader.cpp:149 says "s instead of x in the owner permissions setuid". The test
  below it is for `S_ISGID`, and none is for `S_ISUID`: a setgid file is shown as the
  comment says of a setuid one, and a setuid file as an ordinary one.
* README:31 and :54 say "Size (bytes)" and "Virtual Memory (bytes)". `format` takes
  an `unsigned int`, so that 4 GiB are shown as 0.

One more is shown by a property that holds. README:39 calls the attribute `D` the
"Process Data Region Memory Address range". The last format skips 15 fields after field
30 where there are 14, so `databegin` is given field 46, the end of the data, and
`dataend` field 47, the begin of the heap: `DataRegionShifted` says so of every scan
that is accepted.

Two things the passing properties do not call wrong. `PermsReadBack` reads the letters
by themselves and compares what they tell with the mode, taking `s` for `S_ISGID` as the
code does: every bit but `S_ISUID` is told, except the `x` under an `s` or `t`, which
stays open. And `buildDeviceMap` adds the second range of a major number to a copy of the
map and so loses it; `FirstDriverFound` and `LabelIsOfDriver` say that the first range is
found and no wrong label shown.

What `proc_reader` does not exclude: when an id is reused between two looks, the
scan of the first process is shown with the executable or the command line of its
successor, and no error says so. The code does nothing against it, and the run reaches
it. `LooksInOrder` says what remains true: without an error every field is of a
process that had the id, all fields of the scan are of one, and of scan, executable and
command line a later one is never of an earlier process, so that scan and command line
of the same process have its executable between them. `OwnerMatchesExecutable` adds that
the owner shown is of that executable.

Where a reader of `/proc` crashes, for an owner no database knows (`NullOwner`,
ProcReader.cpp:286) or without memory (`NoMemory`, FileStatReader.cpp:97), the crash counts as its end in
`Description`. So no property forbids the crash; they say that nothing is partly
described then.

Bounds, and why they are enough:

* `lsof_reader`: two processes, one or two files in the first and one in the
  second. The parser's state is one process, one file, a counter and a buffer; two
  processes show a wrong attribution, two executables a wrong counter. Descriptors 0
  and 2 are within cphf's own limit (3), 4 is the first number that could be taken
  for an executable and is not, 12 is above. `PipeCap` = 2 is less than any report,
  so that both ends block.
* `lsof_dies`: process 12 cut short reads as process 1, which exists as well, and
  descriptor 12 as 1; both processes have up to two files, so
  that one wrong process would show as two wrong files. The pending texts are error messages of cphf split into words
  as fscanf does it: their words begin with `p`, `f` or `G` often enough.
* `main_flags`: three options are enough for a first, a last and one between.
  `Z` is bad everywhere, `p` and `G` in one option only. `WildIds` has an id with
  a label always, one with a label only when the file reader runs, one without.
* `proc_reader`: two processes, each replaced once (`MaxGen` = 2): a stale field
  needs one process before. Options of every kind, the cached group and owner and the
  device among them, not in the order of their ids, one twice.
* `file_stat`: two files and three links: a descriptor at the end of the numbers cphf
  takes for descriptors, the executable of the same process, whose number is the next,
  and a descriptor of another process; a number taken for the wrong one of the first two
  shows as a file the link never led to. The first buffer holds one character and the
  next four, and names have one or four: each length fills a buffer exactly, which is
  the case the loop is about. Two changes are enough to move a link between `stat` and
  `readlink` and to rename between two tries. An attribute of `stat` is asked for before
  and after the name.
* `stat_scan`: all command names of up to five characters of three classes, and three
  of the greatest length, 15, with as many words as fit, for a scan that stops inside a
  name goes on there and can store a number per word. 44 and 52 fields are what kernels
  before and since 3.5 write. `OutcomesOfProcReader` is about 47 fields and more:
  with 44 the text is over before the last format is, and the error is always printed.
* `cphf_reader`: all 65536 modes; times about every carry of seconds, minutes and digits
  of hours, to 536870911 s, which has as many digits of hours as 2^31-1 s (times are
  in ticks, and TLC computes in 32 bits); all orders of thirteen moments with
  four ticks a second; up to two drivers out of four: two ranges of one major that touch,
  a single number, a name that is neither tty nor pts. The word of `format` has six bits.

Fairness. `LsofReader` is weakly fair in the parent's next step and in the child's:
the kernel schedules both, and `lsof` is taken to write its report without end
pauses. Being killed is no part of either. `ProcReader`, `FileStatReader` and `Main` are
sequential programs, weakly fair in their next step; none of their calls blocks. Nothing is
assumed of the processes that are looked at.

## 4. What is proved

Every invariant and action property that a passing run checks is also a theorem, for all
values of the constants that the named assumptions allow: reports and options of any
length, any number of processes, files, links and drivers, any widths. The safety part of
the three refinements is proved as well. What each theorem says is listed in
`PROJECT.json`; here are the arguments.

### The assumptions

| Assumption | Says | Because |
|---|---|---|
| `WidthAssumption` (CphfFile) | `UINT`, `ULL` positive, `RlimMax` a number | |
| `ReportsAssumption`, `PendingAssumption` | a report opens with a process, flags follow a file, process ids are numbers; pending text consists of records | `lsof -F pfg` (LSOFReader.h:30) writes process, group and file ids in this order, and no flags; cphf's own pending output is only split into words |
| `NumberAssumption` (LsofReader) | numbers, and the limit plus one for each record, fit an unsigned int | `atoi` returns an int; the kernel keeps `nr_open` far below 2^32 |
| `ProcReaderAssumption`, `FileStatReaderAssumption` | ids and listed files are finite; options are letters of the table; `NULL` is neither | `main` refuses other letters (but see `main_bad_flag`: a refused letter can get through, and then `Main` is the module that says what happens) |
| `StatScanAssumption` | a command name has less than 16 characters; there are more than 3 fields | `TASK_COMM_LEN`. It is needed: a name of many words of digits would fill all variables and be accepted |
| `CphfReaderAssumption` | a mode has 16 bits, CPU seconds fit an int, a range that is written with a dash is not empty | `mode_t` as `stat` fills it; `int sec`; the kernel writes `first-last` |
| `MainAssumption` | the letters of the default flags are characters | |
| `Undisturbed` (hypothesis of `InventoryImplemented` only) | `lsof` is not killed and cphf's own stdout is empty at the fork | otherwise `Inventory` is not implemented; `DamageBounded` says what is left then |

TLC evaluates those that are ASSUMEs with every run.

### `CphfFile_proofs`

The keys of a map are visited each once and in ascending order (`AscendingVisits`: the
number of smaller keys is an injection into as many positions as there are keys, so it
is a bijection). Of the loop `AddAll`: it loses and makes up nothing (`AddAllAdds`), and it
keeps an order in which the attribute that goes in front ranks first and the others by
their ids (`AddAllOrders`). These are inductions over the turns of the loop. The
library's induction rules take an operator as a parameter and cannot be used here; so
`CountingUp` is an induction over a set of numbers, from the existence of a least
counterexample, and `LoopRuns` shows that the recursive function exists.

### `LsofReader_proofs` and `LsofListing_proofs`

*The two processes and the pipe.* `TypeCorrect`, `Drained`, `NullNeedsPending` and
`Keeping` follow from one inductive invariant, `IInv`. `TypeOK` alone is not inductive:
that `wr` stays within `stream` when `lsof` starts needs that nothing was written
before (`NotStarted`). `DoneMeansDrained` needs to know that a living child always
holds a descriptor that keeps the pipe open (`ChildHoldsPipe`) and that a dead one
has written all of `stream` (`WrittenWhenGone`). The null pointers need to know
whose records are in the pipe (`Origin`) and what the records read so far have set
(`PointersSet`); a report that is cut short still has the ids of the report in its
order (lemma `KilledStream`).

*Where entries lead.* `PathsCorrect`: the path is computed from a number before it is
narrowed to a key, so the invariant bounds the numbers (`SmallNumbers`) and the counter of
executables (`CounterBounded`: at most one for each record), and it ties an entry to its
process (`EntriesNamed`).

*What is collected.* `ListingCorrect`: while the stream is the report, the parser's state
is a function of the records handled so far (`ListingInv`): which process the last id
named, how many executables there were, and which files and processes that
makes. It is stated for a stream that agrees with the report as far as it has been handled
(`Agree`), because the proof about a killed `lsof` needs it too. A step per kind of record shows that both sides of the equation grow by the same
element. `OrdinaryCorrect` follows, since a number within the limit is not mapped to
anything else. `DamageIsBounded` adds what `LsofKilled` leaves (`KilledInv`): all records but
the last are those of the report, so that at most the last makes a wrong entry.
`Keeping` says that it is not repaired later, and nothing else is lost by it.

*The abstract specification.* `InventoryImplemented`: the initial states are initial states
of `Inventory`, and every step is a step of it (a file is found, the end is complete, the
end is a failure) or a stutter; the end is complete because `Drained` and `ListingCorrect`
say what has been handled then.

### `ProcReader_proofs`

`TypeCorrect`, `LooksCorrect`, `OwnerCorrect`, `OrderCorrect`, `AllOrNothingCorrect`,
`LiveDescribed`, `DescriptionImplemented`. The properties are about what has been added to
an entry, and what is added depends on what was collected since the visit began. So `IInv`
follows a visit through its calls: the open stat file is that of a process with the id
(`Visit`); after the scan the fields are of that process or there was an ERROR (`Scanned`);
the executable is of a process no earlier than it, and owner and group are looked up for
that executable (`Stated`); of each option already read there is one value, of the look it
belongs to (`Collecting`); an entry not yet reached, or being visited, has only its id
(`Undescribed`); and a process that was there all along has not been passed over
(`NotPassedOver`).

For the order of the looks it is not enough to remember the generation that was seen. Two
processes are the same when their generations are, and that is so because an id is given on
only after its process has exited: `Seen` says of a process found earlier that its
generation is not later than the present one and that, if it is equal and the id in use, it is the
process that has the id now. Lemma `SeenBefore` draws from it that what is found next is that
process or a successor, and the steps `Exits` and `Starts` have to preserve it.
`CollectedInOrder` carries the order over to the attributes of an entry.

### `FileStatReader_proofs`

`TypeCorrect`, `LinksCorrect`, `StatCorrect`, `NamesWhole`, `BufferIsBounded`,
`DescriptionImplemented`. Again a visit: what was collected is of a file the link has led to
since (`Collected`), all but the name are the result of the one `stat`, and a name is only
kept when it is shown whole, because `readlink` left room in the buffer. Links and names
may change at every step; `held` only grows, which is why `FromItsLink` speaks of it. The buffer is
bounded by the longest name because it only grows after it was filled.

### `StatScan_proofs`

`TypeCorrect`, `AcceptedAligned`, `OutcomesAreAll`, `RegionAlwaysShifted`. A scan is in one of
five situations, and `IInv` is their disjunction: it is where its directives are counted to
be (`Aligned`); or the fields were over (`Exhausted`, fewer than 47 fields); or the second
word of the command name was taken for the state (`AtState`), from where it goes on inside the
name (`InName`) and gets stuck at the first character that is not a digit (`Stuck`). In
`InName` each number taken uses up two characters at least, so that a name shorter
than 16 can fill only some of the variables; hence the sum of what the scans
return cannot be the one that is accepted. `AcceptedAligned` excepts the data region,
and `RegionAlwaysShifted` says why: it is fields 46 and 47 in every accepted scan.

### `CphfReader_proofs`

`PermsCorrect`, `ETimeCorrect`, `StartTimeCorrect`, `LabelsCorrect`, `FirstDriverCorrect`. The
invariant (`Answered`) says that `answer` is the helper's result for `call`; the rest is
about the operators. For `PermsReadBack` lemma `ToldBits` turns the places of the letters into bits, and
`PermsAre` compares each bit of the mode with the one letter that tells it.
`ETimeExact` and `StartTimeClose` are facts about division. What
`buildDeviceMap` holds after each line is an induction over the lines (`HoldsFirst`:
each major number has the first line with it).

### `Main_proofs`

`TypeCorrect`, `ErrorsReported`, `ThrowsOnlyForBadFlag`, `PrintsAsAsked`. `IInv` says what the
options seen so far have left: what remains in `argv` is the end of the command line
(`ArgvIsRest`); the bad flags of those seen are reported (`SeenReported`); the last option of a
name counts, or the default (`LastCounts`); without a bad flag the options in force are
good (`GoodOptions`). Then what the readers collect has a label (`IdsAsAsked`, with the
tables of options, the default flags and the labels compared row by row), which is what printing
needs. An option without an argument to check (`?`) leaves all of this alone.

### What is only model-checked

* Liveness: `Terminates` of `LsofReader` and `Main`, and the liveness part of
  `ImplementsInventory` and of both `ImplementsDescription` (that a file is found, or the
  end comes). Liveness from fairness needs ENABLED, which the prover does not handle.
* The five runs that fail: a counterexample is what they show.
* What the constants of the configurations exclude: `RlimitFails` and an unsigned `char`
  (`CharIsSigned` FALSE). The theorems are for both values, but none is about what goes
  wrong then: with `RlimitFails`, `ULF_TXT_FD` is 0 and `OrdinaryFilesReachable`, which has
  `~RlimitFails` as a precondition, does not hold; with an unsigned `char` the loop over
  the options does not end.

## 5. What is left out

* Characters. Records, option letters and fields are atoms. fscanf's look-ahead to
  the next record only delays a reader that has nothing else to do.
* A file system without `/proc`, memory exhaustion, signals to cphf itself.
* In `ProcReader`, a process that changes its program (`exec`) or becomes a zombie:
  an exit and a new start under the same id cover the changes between two calls.
* In `FileStatReader`, links change one at a time, where the exit of a process closes
  several; the reader looks at one link at a time and does not see the difference.
* In `StatScan`, signs. A sign before a digit belongs to the number and changes nothing
  but its value. A sign alone is consumed by the conversion that fails on it, so that the
  next scan goes on after it, where the model has it fail again at the same character: with
  a command called `a b - - 1 2 3` a later scan stores numbers of the name, in variables
  `OutcomesOfProcReader` leaves as they were. The scan that failed is missing from
  the sum, and the ERROR is printed all the same. A field is one digit long; no directive
  has a width.
* In `CphfReader`, strftime and localtime; CPU times of more than 2^31-1 seconds, which
  `int sec` narrows; the text `format(begin, end)` gives of an address range, in which
  an end of 33 is taken for "no end" (`INST_POINTER`), an address nothing is mapped at.
* The letter of a process's state is shown through a map of texts (`procstate`); a
  letter that is not in it (idle, dead) is shown as nothing.
* The composition of the readers over one changing `/proc` in one module: each reader
  is started in states the one before can leave (`Reported`, `Listed`), and `Main` has
  the order they run in.
* The layout of the output, the build files.

## 6. Plan

* The readers composed over one listing and one changing `/proc`: that a file and the
  process it is printed under need not be of the same process any more.
* Theorems for what the failing runs show, where the general form says more than the
  counterexample: which files `EveryFileReachable` misses, and which sizes `SizeInBytes`.
