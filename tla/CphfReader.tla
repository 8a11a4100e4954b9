----------------------------- MODULE CphfReader -----------------------------
(***************************************************************************)
(* The helpers the readers share: each turns a number of the kernel into   *)
(* what is shown of it.  They keep no state, so a behaviour is any         *)
(* sequence of calls; `call' is the last one and `answer' its result.      *)
(*                                                                         *)
(* A text is what can be read off it: permissions are a sequence of        *)
(* letters, an elapsed time is hours, minutes and seconds, a number is     *)
(* the number.  Times are in clock ticks.                                  *)
(***************************************************************************)
EXTENDS CphfFile

CONSTANTS
  Modes,      \* the st_mode to be tried
  Ticks,      \* the CPU times, in clock ticks
  Sizes,      \* the numbers given to format
  Moments,    \* the moments of time, in clock ticks
  Drivers,    \* the contents of /proc/tty/drivers, a sequence of lines each
  Devices,    \* the device numbers, <<major, minor>>
  CLK         \* clock ticks per second, sysconf(_SC_CLK_TCK)

\* The greatest int: seconds are kept in one.
INT_MAX == 2147483647

\* Of the name of a device it matters whether "tty" or "pts" is in it.  A range
\* the kernel writes with a dash is not empty.
Line == {line \in [label : STRING, family : {"tty", "pts", "other"},
                   major : Nat, min : Nat, dash : BOOLEAN, max : Nat] :
           line.dash => line.min <= line.max}

ASSUME CphfReaderAssumption ==
  /\ Modes \subseteq 0..(2^16 - 1)
  /\ Ticks \subseteq {t \in Nat : t \div CLK <= INT_MAX}
  /\ Sizes \subseteq 0..(ULL - 1)
  /\ Moments \subseteq Nat
  /\ Drivers \subseteq Seq(Line)
  /\ Devices \subseteq Nat \X Nat
  /\ CLK \in Nat \ {0}

VARIABLES call, answer

vars == <<call, answer>>

-----------------------------------------------------------------------------
(* readPerms, and readMode of FileStatReader. *)

Has(mode, bit) == (mode \div 2^bit) % 2 = 1

Letter(mode, bit, letter) == IF Has(mode, bit) THEN letter ELSE "-"

\* The file type, S_IFMT: 8 regular, 4 directory, and so on.
Type(mode) == mode \div 4096

\* Mutant: execution by the group is looked up in the owner's bit.
readPermsGroup(mode) ==
  << IF Type(mode) = 4 THEN "d" ELSE "-",
     Letter(mode, 8, "r"), Letter(mode, 7, "w"),
     IF Has(mode, 10) THEN "s" ELSE Letter(mode, 6, "x"),
     Letter(mode, 5, "r"), Letter(mode, 4, "w"), Letter(mode, 6, "x"),
     Letter(mode, 2, "r"), Letter(mode, 1, "w"),
     IF Has(mode, 9) THEN "t" ELSE Letter(mode, 0, "x") >>

\* Bit 10 is S_ISGID, bit 9 S_ISVTX; S_ISUID, bit 11, is not looked at.
readPerms(mode) ==
  << IF Type(mode) = 4 THEN "d" ELSE "-",
     Letter(mode, 8, "r"), Letter(mode, 7, "w"),
     IF Has(mode, 10) THEN "s" ELSE Letter(mode, 6, "x"),
     Letter(mode, 5, "r"), Letter(mode, 4, "w"), Letter(mode, 3, "x"),
     Letter(mode, 2, "r"), Letter(mode, 1, "w"),
     IF Has(mode, 9) THEN "t" ELSE Letter(mode, 0, "x") >>

readMode(mode) ==
  CASE Type(mode) = 8  -> "RegularFile"
    [] Type(mode) = 4  -> "Directory"
    [] Type(mode) = 2  -> "CharacterDevice"
    [] Type(mode) = 6  -> "BlockDevice"
    [] Type(mode) = 1  -> "FIFO"
    [] Type(mode) = 10 -> "SymbolicLink"
    [] Type(mode) = 12 -> "Socket"
    [] OTHER -> "UNKNOWN"

-----------------------------------------------------------------------------
(* readETime, format, readTime. *)

\* Mutant: the size of the buffer without room for the 0.
charBuffShort == 12

\* What snprintf is told it may write, the final 0 included.
charBuff == 13

Digits(n) == 1 + Cardinality({k \in 1..9 : 10^k <= n})

\* "%d:%02d:%02d", cut off where the buffer ends.
readETime(t) ==
  LET sec  == t \div CLK
      hour == sec \div 3600
  IN  IF Digits(hour) + 6 < charBuff
      THEN <<hour, (sec % 3600) \div 60, (sec % 3600) % 60>>
      ELSE <<"cut">>

\* The parameter is an unsigned int, whatever is passed.
format(value) == value % UINT

\* Mutant: the start is added in ticks.
startTimeInTicks(boot, start, opened, now) ==
  now \div CLK - (opened - boot) \div CLK + start

\* The start of a process, in seconds: /proc/uptime is read at the moment
\* `opened', its fraction left unread, and time() is called at `now'.
startTime(boot, start, opened, now) ==
  now \div CLK - (opened - boot) \div CLK + start \div CLK

-----------------------------------------------------------------------------
(* buildDeviceMap, readDevice. *)

\* Mutants: ranges are ordered by their begin alone; the order is off by one.
BeforeByMin(a, b) == b.min < a.min

BeforeLoosely(a, b) == b.min < a.min /\ b.max + 1 < a.min

\* minor_dev_range::operator<: it orders ranges downwards; those that overlap
\* are equivalent.
Before(a, b) == b.min < a.min /\ b.max < a.min

MinorRange(line) == [min |-> line.min, max |-> IF line.dash THEN line.max ELSE line.min]

\* A range of a major number that is known already is added to a copy of its
\* map and lost.
AddLine(deviceMap, line) ==
  MapInsert(deviceMap, line.major, [range |-> MinorRange(line), driver |-> line])

buildDeviceMap(lines) ==
  LET deviceMap[n \in 0..Len(lines)] ==
        IF n = 0 THEN EmptyMap ELSE AddLine(deviceMap[n - 1], lines[n])
  IN  deviceMap[Len(lines)]

\* Of a driver that is neither a terminal nor a pty nothing is shown.
ShownLabel(driver) == IF driver.family \in {"tty", "pts"} THEN driver.label ELSE ""

FS_CHARCTER_DEVICE == <<0, 12>>

readDevice(st_dev, st_rdev, lines) ==
  LET dev       == IF st_dev = FS_CHARCTER_DEVICE THEN st_rdev ELSE st_dev
      minor     == [min |-> dev[2], max |-> dev[2]]
      deviceMap == buildDeviceMap(lines)
      found     == /\ dev[1] \in DOMAIN deviceMap
                   /\ ~Before(deviceMap[dev[1]].range, minor)
                   /\ ~Before(minor, deviceMap[dev[1]].range)
  IN  [device |-> dev,
       label  |-> IF found THEN ShownLabel(deviceMap[dev[1]].driver) ELSE "?"]

-----------------------------------------------------------------------------
Init == call = <<"none">> /\ answer = <<>>

Idle == call = <<"none">>

ReadPerms ==
  /\ Idle
  /\ \E mode \in Modes :
       call' = <<"perms", mode>> /\ answer' = <<readPerms(mode), readMode(mode)>>

ReadETime ==
  /\ Idle
  /\ \E t \in Ticks : call' = <<"etime", t>> /\ answer' = readETime(t)

Format ==
  /\ Idle
  /\ \E value \in Sizes : call' = <<"format", value>> /\ answer' = format(value)

ReadTime ==
  /\ Idle
  /\ \E boot, start, opened, now \in Moments :
       /\ boot + start <= opened
       /\ opened <= now
       /\ call' = <<"start", boot, start, opened, now>>
       /\ answer' = startTime(boot, start, opened, now)

ReadDevice ==
  /\ Idle
  /\ \E dev, rdev \in Devices, lines \in Drivers :
       /\ call' = <<"device", dev, rdev, lines>>
       /\ answer' = readDevice(dev, rdev, lines)

Return == ~Idle /\ call' = <<"none">> /\ answer' = <<>>

Next == ReadPerms \/ ReadETime \/ Format \/ ReadTime \/ ReadDevice \/ Return

Spec == Init /\ [][Next]_vars

-----------------------------------------------------------------------------
(* Properties. *)

\* What the letters say by themselves: the bits they tell are set, and the bits
\* they leave open.  An s takes the place of the owner's x, a t that of the
\* others'; the letter in the place k is that of bit 10 - k.
Place(k) == CASE k % 3 = 2 -> "r" [] k % 3 = 0 -> "w" [] k % 3 = 1 -> "x"

Told(letters) ==
  {10 - k : k \in {l \in 2..10 : letters[l] = Place(l)}}
    \cup {bit \in {10} : letters[4] = "s"} \cup {bit \in {9} : letters[10] = "t"}

LeftOpen(letters) ==
  {bit \in {6} : letters[4] = "s"} \cup {bit \in {0} : letters[10] = "t"}

\* The letters say of every bit but S_ISUID whether it is set, but for the x under
\* an s or a t: both letters that are shown and those that are not can be relied
\* on.  No s is shown for a file without S_ISGID, and no other letter than these
\* anywhere; d is shown for just what readMode calls a directory.  What s should
\* stand for is another matter, see SetuidShown
\* (CPHFReader.cpp:131-179, FileStatReader.cpp:190-213).
PermsReadBack ==
  call[1] = "perms" =>
    LET letters == answer[1]
    IN  /\ \A k \in 2..10 : \/ letters[k] \in {Place(k), "-"}
                            \/ <<k, letters[k]>> \in {<<4, "s">>, <<10, "t">>}
        /\ \A bit \in (0..10) \ LeftOpen(letters) : Has(call[2], bit) <=> bit \in Told(letters)
        /\ letters[1] = "d" <=> answer[2] = "Directory"

\* A CPU time is never cut off, up to the longest an int of seconds holds, and
\* is the time that was given (CPHFReader.cpp:44-67).
ETimeExact ==
  call[1] = "etime" =>
    /\ Len(answer) = 3
    /\ answer[2] \in 0..59 /\ answer[3] \in 0..59
    /\ 3600 * answer[1] + 60 * answer[2] + answer[3] = call[2] \div CLK

\* The start of a process is shown less than one second late, but for the time
\* between the two looks at the clock, and less than two seconds early, though
\* three numbers are rounded (ProcReader.cpp:307-335).
StartTimeClose ==
  call[1] = "start" =>
    LET started == call[2] + call[3]
        between == call[5] - call[4]
    IN  /\ answer * CLK < started + between + CLK
        /\ answer * CLK > started + between - 2 * CLK

Covers(line, device) ==
  line.major = device[1] /\ device[2] \in MinorRange(line).min..MinorRange(line).max

\* The label shown with a device is that of a driver that has its number.
LabelIsOfDriver ==
  call[1] = "device" /\ answer.label # "?" =>
    \E k \in DOMAIN call[4] :
      Covers(call[4][k], answer.device) /\ ShownLabel(call[4][k]) = answer.label

\* A device of the driver that is the first with its major number is shown
\* as one of it.  The code keeps nothing of the drivers after it
\* (CPHFReader.cpp:99-102).
FirstDriverFound ==
  call[1] = "device" =>
    \A k \in DOMAIN call[4] :
      /\ Covers(call[4][k], answer.device)
      /\ \A j \in 1..(k - 1) : call[4][j].major # call[4][k].major
      => answer.label = ShownLabel(call[4][k])

\* CPHFReader.cpp:149: "s instead of x in the owner permissions setuid": an s is
\* shown there for S_ISUID, bit 11.  The code tests S_ISGID.
SetuidShown == call[1] = "perms" => (answer[1][4] = "s" <=> Has(call[2], 11))

\* README:31 and :54: "s Size (bytes)", "v Virtual Memory (bytes)": the number
\* shown is the number of bytes.  It is so only below 2^32.
SizeInBytes == call[1] = "format" => answer = call[2]

=============================================================================
