------------------------------ MODULE StatScan ------------------------------
(***************************************************************************)
(* readProcStat takes /proc/<pid>/stat apart with five calls of fscanf.    *)
(* ProcReader takes their outcome for one of three; here they are run,     *)
(* directive by directive, over the text the kernel writes.                *)
(*                                                                         *)
(* A character is "blank", "digit" or "other"; a number of the kernel is   *)
(* one digit long, which is all the directives ask of it.  Each character  *)
(* has with it the number proc(5) gives its field, so that what is stored  *)
(* in a variable is the number of the field it was taken from.  Of the     *)
(* command name, field 2, only its characters' classes are known; it       *)
(* stands in parentheses, which are others, and has been cut to            *)
(* TASK_COMM_LEN characters, the final 0 included.                         *)
(***************************************************************************)
EXTENDS Integers, Sequences

CONSTANTS
  CommandNames,  \* sequences of character classes
  FieldCounts    \* how many fields a kernel writes (44 before Linux 3.5, then 52)

Class == {"blank", "digit", "other"}

TASK_COMM_LEN == 16

ASSUME StatScanAssumption ==
  /\ CommandNames \subseteq {name \in Seq(Class) : Len(name) < TASK_COMM_LEN}
  /\ FieldCounts \subseteq {n \in Nat : n > 3}

VARIABLES
  command,      \* the command name
  fields,       \* the number of fields
  at,           \* the next character of the text
  scan,         \* which fscanf, 1 to 5; 6 when they are over
  directive,    \* which directive of its format
  assigned,     \* how many it has stored
  fscanResult,  \* the sum of what the calls before have returned
  info          \* the fields of struct proc_info: the field stored, or 0

vars == <<command, fields, at, scan, directive, assigned, fscanResult, info>>

\* "pid (command) state ppid ...": position and field of every character.
Char(class, field) == [class |-> class, field |-> field]

CommandEnd == 4 + Len(command)

TextLength == CommandEnd + 2 * (fields - 2)

Text(k) ==
  IF k = 1 THEN Char("digit", 1)
  ELSE IF k = 2 THEN Char("blank", 1)
  ELSE IF k \in {3, CommandEnd} THEN Char("other", 2)
  ELSE IF k < CommandEnd THEN Char(command[k - 3], 2)
  ELSE LET field == 3 + (k - CommandEnd - 1) \div 2
       IN  Char(IF (k - CommandEnd) % 2 = 1 THEN "blank"
                ELSE IF field = 3 THEN "other" ELSE "digit", field)

\* The formats: "*" skips a number, "*s" a word, "state" takes one character,
\* any other name a number.
Skip(n) == [k \in 1..n |-> "*"]

\* Mutant: itrealvalue is not skipped.
FormatsWithoutItrealvalue ==
  << <<"*", "*s", "state", "ppid", "procgid", "*", "device">> \o Skip(3),
     Skip(3) \o <<"putime", "pstime", "pcutime", "pcstime">> \o Skip(3),
     <<"starttime", "vms", "rss", "*", "textbegin">>,
     <<"textend", "stackbegin", "esp", "epi">>,
     Skip(15) \o <<"databegin", "dataend">> >>

Formats ==
  << <<"*", "*s", "state", "ppid", "procgid", "*", "device">> \o Skip(3),
     Skip(3) \o <<"putime", "pstime", "pcutime", "pcstime">> \o Skip(3),
     <<"*", "starttime", "vms", "rss", "*", "textbegin">>,
     <<"textend", "stackbegin", "esp", "epi">>,
     Skip(15) \o <<"databegin", "dataend">> >>

Targets ==
  {"state", "ppid", "procgid", "device", "putime", "pstime", "pcutime", "pcstime",
   "starttime", "vms", "rss", "textbegin", "textend", "stackbegin", "esp", "epi",
   "databegin", "dataend"}

Init ==
  /\ command \in CommandNames
  /\ fields \in FieldCounts
  /\ at = 1
  /\ scan = 1
  /\ directive = 1
  /\ assigned = 0
  /\ fscanResult = 0
  /\ info = [t \in Targets |-> 0]

-----------------------------------------------------------------------------
\* The first character from k on that is in none of the classes.
After(k, classes) ==
  CHOOSE m \in k..(TextLength + 1) :
    /\ \A j \in k..(m - 1) : Text(j).class \in classes
    /\ m > TextLength \/ Text(m).class \notin classes

Current == Formats[scan][directive]

Begin == After(at, {"blank"})

\* How far the text matches the directive.
End == IF Current = "*s" THEN After(Begin, {"digit", "other"})
       ELSE IF Current # "state" THEN After(Begin, {"digit"})
       ELSE IF Begin > TextLength THEN Begin ELSE Begin + 1

Scanning == scan <= 5 /\ directive <= Len(Formats[scan])

Match ==
  /\ Scanning
  /\ End > Begin
  /\ at' = End
  /\ directive' = directive + 1
  /\ UNCHANGED <<command, fields, scan, fscanResult>>

\* Mutant: what is skipped is counted too.
SkipCounted ==
  /\ Match
  /\ Current \in {"*", "*s"}
  /\ assigned' = assigned + 1
  /\ UNCHANGED info

SkipField ==
  /\ Match
  /\ Current \in {"*", "*s"}
  /\ UNCHANGED <<assigned, info>>

Store ==
  /\ Match
  /\ Current \in Targets
  /\ assigned' = assigned + 1
  /\ info' = [info EXCEPT ![Current] = Text(Begin).field]

Return(result) ==
  /\ scan' = scan + 1
  /\ directive' = 1
  /\ assigned' = 0
  /\ fscanResult' = fscanResult + result
  /\ UNCHANGED <<command, fields, info>>

FormatEnds ==
  /\ scan <= 5
  /\ directive > Len(Formats[scan])
  /\ Return(assigned)
  /\ UNCHANGED at

\* Mutant: the character that does not match is lost.
MismatchConsumes ==
  /\ Scanning
  /\ End = Begin
  /\ Begin <= TextLength
  /\ Return(assigned)
  /\ at' = Begin + 1

\* The character that does not match is read again by the next call.
Mismatch ==
  /\ Scanning
  /\ End = Begin
  /\ Begin <= TextLength
  /\ Return(assigned)
  /\ at' = Begin

\* EOF, -1, if nothing has been stored.
TextEnds ==
  /\ Scanning
  /\ Begin > TextLength
  /\ Return(IF assigned = 0 THEN -1 ELSE assigned)
  /\ at' = Begin

Done == scan = 6

Terminated == Done /\ UNCHANGED vars

Next == SkipField \/ Store \/ FormatEnds \/ Mismatch \/ TextEnds \/ Terminated

Spec == Init /\ [][Next]_vars

-----------------------------------------------------------------------------
(* Properties. *)

\* Every variable has its type.
TypeOK ==
  /\ command \in CommandNames
  /\ fields \in FieldCounts
  /\ at \in 1..(TextLength + 1)
  /\ scan \in 1..6
  /\ directive \in 1..18
  /\ assigned \in 0..4
  /\ fscanResult \in -5..18
  /\ info \in [Targets -> 0..fields]

\* The fields of proc(5) the names of struct proc_info stand for.
Documented ==
  [state |-> 3, ppid |-> 4, procgid |-> 5, device |-> 7, putime |-> 14, pstime |-> 15,
   pcutime |-> 16, pcstime |-> 17, starttime |-> 22, vms |-> 23, rss |-> 24,
   textbegin |-> 26, textend |-> 27, stackbegin |-> 28, esp |-> 29, epi |-> 30,
   databegin |-> 45, dataend |-> 46]

DataRegion == {"databegin", "dataend"}

Warned == Done /\ fscanResult # 18

\* When no ERROR is printed, every variable has been given its own field,
\* whatever the command name looks like; the data region is left out, see
\* DataRegionShifted (fscanResult, ProcReader.cpp:178-183).
AcceptedIsAligned ==
  Done /\ ~Warned => \A t \in Targets \ DataRegion : info[t] = Documented[t]

Stored == {t \in Targets : info[t] # 0}

\* With the fields of a kernel from 3.5 on, ProcReader!FullScan and ShortScan
\* say all that can happen: a name of one word is scanned in full; of any other
\* only the state and then the first numbers are stored, from the name itself,
\* and nothing that a later scan would store.
OutcomesOfProcReader ==
  Done /\ fields >= 47 =>
    \/ ~Warned /\ \A k \in DOMAIN command : command[k] # "blank"
    \/ /\ Warned /\ \E k \in DOMAIN command : command[k] = "blank"
       /\ Stored \in {{"state"}, {"state", "ppid"}, {"state", "ppid", "procgid"},
                      {"state", "ppid", "procgid", "device"}}
       /\ \A t \in Stored : info[t] = 2

\* The data region is shown, in every scan without an ERROR, from the end of the
\* data, field 46, to the begin of the heap, field 47: the last format skips 15
\* fields where 14 are between (ProcReader.cpp:182).  README:39, "D Process Data
\* Region Memory Address range", would be fields 45 and 46.
DataRegionShifted ==
  Done /\ ~Warned => info["databegin"] = 46 /\ info["dataend"] = 47

=============================================================================
