--------------------------- MODULE StatScan_proofs ---------------------------
(***************************************************************************)
(* What becomes of /proc/<pid>/stat in the five scans, for every command   *)
(* name and every number of fields.                                        *)
(***************************************************************************)
EXTENDS StatScan, TLAPS, SequenceTheorems, WellFoundedInduction

(***************************************************************************)
(* The inductive invariant: the scans are always in one of five states.    *)
(* Either every directive has met its own field (Aligned), up to the end   *)
(* of the text (Exhausted); or there is a blank in the command name, the   *)
(* second directive has stopped there (AtState), the next ones are fed     *)
(* with the rest of the name (InName), and when it is over all that follow *)
(* meet a character that is no digit (Stuck).                              *)
(***************************************************************************)

\* The field a target is taken from when no directive has failed: the number of
\* its directive, counted over all the formats.
ReadFrom ==
  [state |-> 3, ppid |-> 4, procgid |-> 5, device |-> 7, putime |-> 14, pstime |-> 15,
   pcutime |-> 16, pcstime |-> 17, starttime |-> 22, vms |-> 23, rss |-> 24,
   textbegin |-> 26, textend |-> 27, stackbegin |-> 28, esp |-> 29, epi |-> 30,
   databegin |-> 46, dataend |-> 47]

\* The directives, and the targets, of the formats before.
Before == <<0, 10, 20, 26, 30, 47>>
StoredBefore == <<0, 4, 8, 12, 16, 18>>

One(b) == IF b THEN 1 ELSE 0

\* The targets of the directives before d of a format.
StoredIn(s, d) ==
  CASE s = 1 -> One(d > 3) + One(d > 4) + One(d > 5) + One(d > 7)
    [] s = 2 -> One(d > 4) + One(d > 5) + One(d > 6) + One(d > 7)
    [] s = 3 -> One(d > 2) + One(d > 3) + One(d > 4) + One(d > 6)
    [] s = 4 -> d - 1
    [] OTHER -> One(d > 16) + One(d > 17)

\* The number of the next directive.
Number == Before[scan] + directive

OneWord == \A k \in DOMAIN command : command[k] # "blank"

\* Where field f begins, with the blank before it.
Start(f) == IF f <= 2 THEN f ELSE CommandEnd + 2 * f - 5

\* What is stored by the directives before g, if each is given its own field, or
\* a part of the name.
OwnFields(g)  == [t \in Targets |-> IF ReadFrom[t] < g THEN ReadFrom[t] ELSE 0]
NameFields(g) == [t \in Targets |-> IF ReadFrom[t] < g THEN 2 ELSE 0]

\* The next character is of one of these classes.
NextIs(classes) == \E k \in 1..TextLength : at = k /\ Text(k).class \in classes

Aligned ==
  /\ Number <= fields + 1
  /\ at = Start(Number)
  /\ assigned = StoredIn(scan, directive)
  /\ fscanResult = StoredBefore[scan]
  /\ info = OwnFields(Number)
  /\ Number > 2 => OneWord

Exhausted ==
  /\ OneWord
  /\ fields < 47
  /\ scan > 1 /\ directive = 1
  /\ at = TextLength + 1
  /\ assigned = 0
  /\ fscanResult \in (1 - scan)..StoredBefore[scan]
  /\ scan > 3 => fscanResult < StoredBefore[scan]
  /\ info \in [Targets -> 0..fields]

AtState ==
  /\ ~OneWord
  /\ scan = 1 /\ directive = 3
  /\ at \in 4..(CommandEnd - 1)
  /\ NextIs({"blank"})
  /\ assigned = 0
  /\ fscanResult = 0
  /\ info = NameFields(3)

InName ==
  /\ ~OneWord
  /\ scan = 1 /\ directive > 3
  /\ \/ /\ at \in 6..CommandEnd
        /\ directive > 4 => NextIs({"blank", "other"}) /\ at >= 2 * directive - 3
     \/ directive = 4 /\ at = CommandEnd + 1
  /\ assigned = StoredIn(1, directive)
  /\ fscanResult = 0
  /\ info = NameFields(directive)

Stuck ==
  /\ ~OneWord
  /\ scan > 1 /\ directive = 1
  /\ NextIs({"other"})
  /\ assigned = 0
  /\ fscanResult \in 0..4
  /\ \E d \in 4..11 : info = NameFields(d)

Control ==
  /\ command \in CommandNames
  /\ fields \in FieldCounts
  /\ scan \in 1..6
  /\ directive \in 1..18
  /\ IF scan = 6 THEN directive = 1 ELSE directive <= Len(Formats[scan]) + 1

IInv == Control /\ (Aligned \/ Exhausted \/ AtState \/ InName \/ Stuck)

-----------------------------------------------------------------------------
(* The formats, directive by directive. *)

LEMMA FormatsAre ==
  /\ Formats[1] = <<"*", "*s", "state", "ppid", "procgid", "*", "device">> \o Skip(3)
  /\ Formats[2] = Skip(3) \o <<"putime", "pstime", "pcutime", "pcstime">> \o Skip(3)
  /\ Formats[3] = <<"*", "starttime", "vms", "rss", "*", "textbegin">>
  /\ Formats[4] = <<"textend", "stackbegin", "esp", "epi">>
  /\ Formats[5] = Skip(15) \o <<"databegin", "dataend">>
BY DEF Formats

LEMMA FirstFormat ==
  /\ Len(Formats[1]) = 10
  /\ Formats[1][1] = "*" /\ Formats[1][2] = "*s" /\ Formats[1][3] = "state"
  /\ Formats[1][4] = "ppid" /\ Formats[1][5] = "procgid" /\ Formats[1][6] = "*"
  /\ Formats[1][7] = "device"
  /\ \A k \in 8..10 : Formats[1][k] = "*"
BY FormatsAre DEF Skip

LEMMA SecondFormat ==
  /\ Len(Formats[2]) = 10
  /\ Formats[2][4] = "putime" /\ Formats[2][5] = "pstime" /\ Formats[2][6] = "pcutime"
  /\ Formats[2][7] = "pcstime"
  /\ \A k \in 1..3 \cup 8..10 : Formats[2][k] = "*"
BY FormatsAre DEF Skip

LEMMA FifthFormat ==
  /\ Len(Formats[5]) = 17
  /\ Formats[5][16] = "databegin" /\ Formats[5][17] = "dataend"
  /\ \A k \in 1..15 : Formats[5][k] = "*"
BY FormatsAre DEF Skip

LEMMA MiddleFormats ==
  /\ Len(Formats[3]) = 6
  /\ Formats[3][1] = "*" /\ Formats[3][2] = "starttime" /\ Formats[3][3] = "vms"
  /\ Formats[3][4] = "rss" /\ Formats[3][5] = "*" /\ Formats[3][6] = "textbegin"
  /\ Len(Formats[4]) = 4
  /\ Formats[4][1] = "textend" /\ Formats[4][2] = "stackbegin" /\ Formats[4][3] = "esp"
  /\ Formats[4][4] = "epi"
BY FormatsAre

\* What directive d of format s does; g is its number over all the formats.
DirectiveIs(s, d, g) ==
  LET c == Formats[s][d]
  IN  \/ /\ c \in Targets
         /\ ReadFrom[c] = g
         /\ c = "state" <=> g = 3
         /\ StoredIn(s, d + 1) = StoredIn(s, d) + 1
      \/ /\ c = IF g = 2 THEN "*s" ELSE "*"
         /\ \A t \in Targets : ReadFrom[t] # g
         /\ StoredIn(s, d + 1) = StoredIn(s, d)

LEMMA Directives ==
  ASSUME NEW s \in 1..5, NEW d \in 1..Len(Formats[s])
  PROVE  DirectiveIs(s, d, Before[s] + d)
<1>1. CASE s = 1
  BY <1>1, FirstFormat DEF DirectiveIs, StoredIn, One, Before, ReadFrom, Targets
<1>2. CASE s = 2
  BY <1>2, SecondFormat DEF DirectiveIs, StoredIn, One, Before, ReadFrom, Targets
<1>3. CASE s = 3
  BY <1>3, MiddleFormats DEF DirectiveIs, StoredIn, One, Before, ReadFrom, Targets
<1>4. CASE s = 4
  BY <1>4, MiddleFormats DEF DirectiveIs, StoredIn, One, Before, ReadFrom, Targets
<1>5. CASE s = 5
  BY <1>5, FifthFormat DEF DirectiveIs, StoredIn, One, Before, ReadFrom, Targets
<1> QED
  BY <1>1, <1>2, <1>3, <1>4, <1>5

LEMMA Lengths ==
  /\ \A s \in 1..5 : /\ Len(Formats[s]) \in 1..17
                     /\ Before[s + 1] = Before[s] + Len(Formats[s])
                     /\ StoredBefore[s + 1] = StoredBefore[s] + StoredIn(s, Len(Formats[s]) + 1)
                     /\ StoredIn(s, 1) = 0
  /\ \A s \in 1..6 : Before[s] \in 0..47 /\ StoredBefore[s] \in 0..18
<1> SUFFICES ASSUME NEW s \in 1..6
             PROVE  /\ s # 6 => /\ Len(Formats[s]) \in 1..17
                               /\ Before[s + 1] = Before[s] + Len(Formats[s])
                               /\ StoredBefore[s + 1] = StoredBefore[s] + StoredIn(s, Len(Formats[s]) + 1)
                               /\ StoredIn(s, 1) = 0
                    /\ Before[s] \in 0..47 /\ StoredBefore[s] \in 0..18
  OBVIOUS
<1>1. CASE s = 1
  BY <1>1, FirstFormat DEF Before, StoredBefore, StoredIn, One
<1>2. CASE s = 2
  BY <1>2, SecondFormat DEF Before, StoredBefore, StoredIn, One
<1>3. CASE s = 3
  BY <1>3, MiddleFormats DEF Before, StoredBefore, StoredIn, One
<1>4. CASE s = 4
  BY <1>4, MiddleFormats DEF Before, StoredBefore, StoredIn, One
<1>5. CASE s = 5
  BY <1>5, FifthFormat DEF Before, StoredBefore, StoredIn, One
<1>6. CASE s = 6
  BY <1>6 DEF Before, StoredBefore
<1> QED
  BY <1>1, <1>2, <1>3, <1>4, <1>5, <1>6

\* No two targets are taken from the same field.
LEMMA OneTargetPerField ==
  /\ \A t \in Targets : ReadFrom[t] \in 3..47
  /\ \A t, u \in Targets : ReadFrom[t] = ReadFrom[u] => t = u
BY DEF Targets, ReadFrom

-----------------------------------------------------------------------------
(* The text. *)

LEMMA TextType ==
  ASSUME command \in CommandNames, fields \in FieldCounts
  PROVE  /\ command \in Seq(Class) /\ Len(command) \in 0..15
         /\ fields \in Nat /\ fields > 3
         /\ CommandEnd \in 4..19 /\ TextLength \in Nat /\ TextLength = CommandEnd + 2 * (fields - 2)
         /\ \A k \in 1..TextLength : Text(k).class \in Class
         /\ Text(1).class = "digit" /\ Text(2).class = "blank"
         /\ Text(3).class = "other" /\ Text(CommandEnd).class = "other"
<1>1. /\ command \in Seq(Class) /\ Len(command) \in 0..15
      /\ fields \in Nat /\ fields > 3
  <2>1. command \in Seq(Class) /\ Len(command) < 16
    BY StatScanAssumption DEF TASK_COMM_LEN
  <2>2. fields \in Nat /\ fields > 3
    BY StatScanAssumption
  <2>3. Len(command) \in Nat
    BY <2>1, LenProperties
  <2>4. \A n \in Nat : n < 16 => n \in 0..15
    OBVIOUS
  <2> QED
    BY <2>1, <2>2, <2>3, <2>4
<1>2. CommandEnd \in 4..19 /\ TextLength \in Nat /\ TextLength = CommandEnd + 2 * (fields - 2)
  <2> DEFINE n == Len(command)
  <2>1. n \in 0..15 /\ CommandEnd = 4 + n
    BY <1>1 DEF CommandEnd
  <2> HIDE DEF n
  <2>2. CommandEnd \in 4..19
    BY <2>1
  <2> QED
    BY <1>1, <2>2 DEF TextLength
<1>3. \A k \in 4..(CommandEnd - 1) : command[k - 3] \in Class
  BY <1>1, ElementOfSeq DEF CommandEnd
<1>4. ASSUME NEW k \in 1..TextLength PROVE Text(k).class \in Class
  BY <1>2, <1>3 DEF Text, Char, Class
<1> QED
  BY <1>1, <1>2, <1>4 DEF Text, Char

\* A field from the third on: a blank, and a letter or a digit.
LEMMA FieldText ==
  ASSUME command \in CommandNames, fields \in FieldCounts, NEW f \in 3..fields
  PROVE  /\ Text(CommandEnd + 2 * (f - 2) - 1).class = "blank"
         /\ Text(CommandEnd + 2 * (f - 2)) = Char(IF f = 3 THEN "other" ELSE "digit", f)
<1> DEFINE k == CommandEnd + 2 * (f - 2)
<1>1. CommandEnd \in 4..19 /\ fields \in Nat
  BY TextType
<1>2. /\ (k - 1 - CommandEnd) % 2 = 1 /\ (k - CommandEnd) % 2 = 0
      /\ (k - CommandEnd - 1) \div 2 = f - 3
  BY <1>1
<1>3. k - 1 > CommandEnd /\ k > CommandEnd /\ k \in Int
  BY <1>1
<1>6. k = CommandEnd + 2 * (f - 2)
  OBVIOUS
<1> HIDE DEF k
<1>4. Text(k - 1).class = "blank"
  BY <1>1, <1>2, <1>3 DEF Text, Char
<1>5. Text(k) = Char(IF f = 3 THEN "other" ELSE "digit", f)
  BY <1>1, <1>2, <1>3 DEF Text, Char
<1> QED
  BY <1>1, <1>4, <1>5, <1>6

LEMMA ThirdField ==
  ASSUME command \in CommandNames, fields \in FieldCounts
  PROVE  Text(CommandEnd + 1).class = "blank" /\ Text(CommandEnd + 2) = Char("other", 3)
<1>1. 3 \in 3..fields /\ CommandEnd \in 4..19
  BY TextType
<1>2. CommandEnd + 2 * (3 - 2) - 1 = CommandEnd + 1 /\ CommandEnd + 2 * (3 - 2) = CommandEnd + 2
  BY <1>1
<1>3. /\ Text(CommandEnd + 2 * (3 - 2) - 1).class = "blank"
      /\ Text(CommandEnd + 2 * (3 - 2)) = Char("other", 3)
  BY <1>1, FieldText
<1> QED
  BY <1>2, <1>3

\* The command name.
LEMMA NameText ==
  ASSUME command \in CommandNames, fields \in FieldCounts, NEW k \in 4..(CommandEnd - 1)
  PROVE  k - 3 \in DOMAIN command /\ Text(k) = Char(command[k - 3], 2)
BY TextType DEF CommandEnd, Text

-----------------------------------------------------------------------------
(* Where a directive stops. *)

LEMMA LeastExists ==
  ASSUME NEW S \in SUBSET Nat, S # {}
  PROVE  \E x \in S : \A y \in S : x <= y
<1>1. \E x \in S : \A y \in S : <<y, x>> \notin OpToRel(<, Nat)
  BY WFMin, NatLessThanWellFounded
<1>2. PICK x \in S : \A y \in S : <<y, x>> \notin OpToRel(<, Nat)
  BY <1>1
<1>3. \A y \in S : ~(y < x)
  BY <1>2, Zenon DEF OpToRel
<1> QED
  BY <1>3

\* m is where After(k, classes) stops.
Stops(k, classes, m) ==
  /\ m \in k..(TextLength + 1)
  /\ \A j \in k..(m - 1) : Text(j).class \in classes
  /\ m > TextLength \/ Text(m).class \notin classes

LEMMA AfterStops ==
  ASSUME TextLength \in Nat, NEW k \in 1..(TextLength + 1), NEW classes
  PROVE  /\ Stops(k, classes, After(k, classes))
         /\ \A m : Stops(k, classes, m) => m = After(k, classes)
<1> DEFINE S == {m \in k..(TextLength + 1) : m > TextLength \/ Text(m).class \notin classes}
<1>1. PICK x \in S : \A y \in S : x <= y
  <2>1. S \in SUBSET Nat /\ TextLength + 1 \in S
    OBVIOUS
  <2> HIDE DEF S
  <2> QED
    BY <2>1, LeastExists
<1>2. Stops(k, classes, x)
  <2>1. ASSUME NEW j \in k..(x - 1) PROVE Text(j).class \in classes
    <3>1. j \in k..(TextLength + 1) /\ j \notin S
      BY <1>1
    <3> QED
      BY <3>1
  <2> QED
    BY <1>1, <2>1 DEF Stops
<1>3. ASSUME NEW m, NEW n, Stops(k, classes, m), Stops(k, classes, n) PROVE ~(m < n)
  <2>1. m \in Int /\ n \in Int /\ n <= TextLength + 1 /\ k <= m
    BY <1>3 DEF Stops
  <2> QED
    BY <1>3, <2>1 DEF Stops
<1>4. ASSUME NEW m, NEW n, Stops(k, classes, m), Stops(k, classes, n) PROVE m = n
  <2>1. m \in Int /\ n \in Int
    BY <1>4 DEF Stops
  <2> QED
    BY <1>3, <1>4, <2>1
<1>5. After(k, classes) = CHOOSE m \in k..(TextLength + 1) : Stops(k, classes, m)
  BY DEF After, Stops
<1>6. x \in k..(TextLength + 1)
  BY <1>1
<1>7. Stops(k, classes, After(k, classes))
  BY <1>2, <1>5, <1>6
<1> QED
  BY <1>4, <1>7

-----------------------------------------------------------------------------
(* What a directive does to the state. *)

LEMMA ScanType ==
  ASSUME Control, scan # 6
  PROVE  /\ scan \in 1..5 /\ Len(Formats[scan]) \in 1..17
         /\ directive \in 1..(Len(Formats[scan]) + 1)
<1>1. scan \in 1..5 /\ directive \in 1..18 /\ directive <= Len(Formats[scan]) + 1
  BY DEF Control
<1>2. Len(Formats[scan]) \in 1..17
  BY <1>1, Lengths
<1> QED
  BY <1>1, <1>2

\* The next directive matches.
LEMMA Matched ==
  ASSUME Control, Next, scan # 6, directive <= Len(Formats[scan]),
         info \in [Targets -> Int], assigned = StoredIn(scan, directive),
         Begin \in Int, End \in Int, Begin <= TextLength, End > Begin
  PROVE  /\ Control' /\ UNCHANGED <<command, fields, scan, fscanResult>>
         /\ directive' = directive + 1 /\ at' = End
         /\ assigned' = StoredIn(scan, directive')
         /\ info' = [t \in Targets |-> IF ReadFrom[t] = Number THEN Text(Begin).field ELSE info[t]]
<1>1. scan \in 1..5 /\ directive \in 1..Len(Formats[scan]) /\ Len(Formats[scan]) \in 1..17
  BY ScanType
<1>2. DirectiveIs(scan, directive, Number)
  BY <1>1, Directives DEF Number
<1> HIDE DEF Number
<1>3. SkipField \/ Store
  <2>1. ~Mismatch
    BY DEF Mismatch
  <2>2. ~TextEnds
    BY TextType DEF TextEnds, Control
  <2>3. ~FormatEnds /\ ~Terminated
    BY <1>1 DEF FormatEnds, Terminated, Done
  <2> QED
    BY <2>1, <2>2, <2>3 DEF Next
<1>4. /\ UNCHANGED <<command, fields, scan, fscanResult>>
      /\ directive' = directive + 1 /\ at' = End
  BY <1>3 DEF SkipField, Store, Match
<1>5. Control'
  <2>1. directive' \in 1..18 /\ directive' <= Len(Formats[scan]) + 1
    <3> DEFINE n == Len(Formats[scan])
    <3>1. n \in 1..17 /\ directive \in 1..n /\ directive' = directive + 1
      BY <1>1, <1>4
    <3> HIDE DEF n
    <3>2. directive' \in 1..18 /\ directive' <= n + 1
      BY <3>1
    <3> QED
      BY <3>2 DEF n
  <2> QED
    BY <1>1, <1>4, <2>1 DEF Control
<1>6. Current = Formats[scan][directive]
  BY DEF Current
<1>7. CASE Current \in Targets
  <2>1. ReadFrom[Current] = Number /\ StoredIn(scan, directive + 1) = StoredIn(scan, directive) + 1
    <3>1. Current \notin {"*", "*s"}
      BY <1>7 DEF Targets
    <3> QED
      BY <1>2, <1>6, <3>1 DEF DirectiveIs
  <2>2. assigned' = assigned + 1 /\ info' = [info EXCEPT ![Current] = Text(Begin).field]
    <3>1. ~SkipField
      BY <1>7 DEF SkipField, Targets
    <3> QED
      BY <1>3, <3>1 DEF Store
  <2>3. \A t \in Targets : ReadFrom[t] = Number <=> t = Current
    BY <1>7, <2>1, OneTargetPerField
  <2>4. info' = [t \in Targets |-> IF ReadFrom[t] = Number THEN Text(Begin).field ELSE info[t]]
    <3> HIDE DEF Current, Targets, ReadFrom
    <3> QED
      BY <1>7, <2>2, <2>3
  <2> QED
    BY <1>4, <1>5, <2>1, <2>2, <2>4
<1>8. CASE Current \notin Targets
  <2>1. StoredIn(scan, directive + 1) = StoredIn(scan, directive) /\ \A t \in Targets : ReadFrom[t] # Number
    BY <1>2, <1>6, <1>8 DEF DirectiveIs
  <2>2. UNCHANGED <<assigned, info>>
    BY <1>3, <1>8 DEF SkipField, Store
  <2>3. info' = [t \in Targets |-> IF ReadFrom[t] = Number THEN Text(Begin).field ELSE info[t]]
    <3> HIDE DEF Targets, ReadFrom
    <3> QED
      BY <2>1, <2>2
  <2> QED
    BY <1>4, <1>5, <2>1, <2>2, <2>3
<1> QED
  BY <1>7, <1>8

\* It is not.
LEMMA Failed ==
  ASSUME Control, Next, scan # 6, directive <= Len(Formats[scan]), End = Begin, Begin \in Int
  PROVE  /\ Control' /\ UNCHANGED <<command, fields, info>>
         /\ scan' = scan + 1 /\ directive' = 1 /\ assigned' = 0 /\ at' = Begin
         /\ fscanResult' = fscanResult + IF Begin > TextLength /\ assigned = 0 THEN -1 ELSE assigned
<1>1. scan \in 1..5 /\ directive \in 1..Len(Formats[scan]) /\ Len(Formats[scan]) \in 1..17
  BY ScanType
<1>2. ~SkipField /\ ~Store
  BY DEF SkipField, Store, Match
<1>3. Mismatch \/ TextEnds
  BY <1>1, <1>2 DEF Next, FormatEnds, Terminated, Done
<1>4. Return(IF Begin > TextLength /\ assigned = 0 THEN -1 ELSE assigned) /\ at' = Begin
  <2>1. CASE Mismatch
    <3>1. ~(Begin > TextLength) /\ Return(assigned) /\ at' = Begin
      BY <2>1, TextType DEF Mismatch, Control
    <3> QED
      BY <3>1
  <2>2. CASE TextEnds
    BY <2>2 DEF TextEnds
  <2> QED
    BY <1>3, <2>1, <2>2
<1>5. Control'
  <2>1. scan' \in 2..6
    BY <1>1, <1>4 DEF Return
  <2>2. scan' # 6 => Len(Formats[scan']) \in 1..17
    BY <2>1, Lengths
  <2> QED
    BY <1>4, <2>1, <2>2 DEF Control, Return
<1> QED
  BY <1>4, <1>5 DEF Return

\* The format is over.
LEMMA Over ==
  ASSUME Control, Next, scan # 6, directive = Len(Formats[scan]) + 1
  PROVE  /\ Control' /\ UNCHANGED <<command, fields, at, info>>
         /\ scan' = scan + 1 /\ directive' = 1 /\ assigned' = 0
         /\ fscanResult' = fscanResult + assigned
<1>1. scan \in 1..5 /\ Len(Formats[scan]) \in 1..17
  BY ScanType
<1>2. ~Scanning /\ ~Done
  BY <1>1 DEF Scanning, Done
<1>3. FormatEnds
  BY <1>2 DEF Next, SkipField, Store, Match, Mismatch, TextEnds, Terminated
<1>4. Control'
  <2>1. scan' \in 2..6
    BY <1>1, <1>3 DEF FormatEnds, Return
  <2>2. scan' # 6 => Len(Formats[scan']) \in 1..17
    BY <2>1, Lengths
  <2> QED
    BY <1>3, <2>1, <2>2 DEF Control, FormatEnds, Return
<1> QED
  BY <1>3, <1>4 DEF FormatEnds, Return

LEMMA StopExists ==
  ASSUME TextLength \in Nat, NEW k \in 1..(TextLength + 1), NEW classes
  PROVE  \E m : Stops(k, classes, m)
<1>1. Stops(k, classes, After(k, classes))
  BY AfterStops
<1> QED
  BY <1>1

LEMMA BeginIs ==
  ASSUME Control, at \in 1..(TextLength + 1), NEW b, Stops(at, {"blank"}, b)
  PROVE  Begin = b
BY TextType, AfterStops DEF Control, Begin

\* All directives but the second and the third skip or store a number.
LEMMA EndIs ==
  ASSUME Control, scan # 6, directive <= Len(Formats[scan]), Number \notin {2, 3},
         Begin \in 1..(TextLength + 1), NEW e, Stops(Begin, {"digit"}, e)
  PROVE  End = e
<1>1. DirectiveIs(scan, directive, Number)
  BY ScanType, Directives DEF Number
<1>2. Current \in {"*"} \cup (Targets \ {"state"})
  BY <1>1 DEF DirectiveIs, Current
<1>3. Current # "*s" /\ Current # "state"
  BY <1>2 DEF Targets
<1>4. End = After(Begin, {"digit"})
  BY <1>3 DEF End
<1> QED
  BY <1>4, TextType, AfterStops DEF Control

\* A number is not met: neither is anything stored nor read further.
LEMMA NoNumber ==
  ASSUME Control, Next, scan # 6, directive <= Len(Formats[scan]), Number \notin {2, 3},
         at \in 1..(TextLength + 1), NEW b \in at..(TextLength + 1), Stops(at, {"blank"}, b),
         b > TextLength \/ Text(b).class # "digit"
  PROVE  /\ Control' /\ UNCHANGED <<command, fields, info>>
         /\ scan' = scan + 1 /\ directive' = 1 /\ assigned' = 0 /\ at' = b
         /\ fscanResult' = fscanResult + IF b > TextLength /\ assigned = 0 THEN -1 ELSE assigned
<1>1. Begin = b
  BY BeginIs
<1>2. TextLength \in Nat
  BY TextType DEF Control
<1>3. Stops(b, {"digit"}, b)
  BY <1>2 DEF Stops
<1>4. End = b
  BY <1>1, <1>2, <1>3, EndIs
<1> QED
  BY <1>1, <1>2, <1>4, Failed

\* A number is met, at b; it ends at e.
LEMMA Met ==
  ASSUME Control, Next, scan # 6, directive <= Len(Formats[scan]), Number \notin {2, 3},
         info \in [Targets -> Int], assigned = StoredIn(scan, directive),
         at \in 1..(TextLength + 1), NEW b \in at..TextLength, Stops(at, {"blank"}, b),
         NEW e, Stops(b, {"digit"}, e), e > b
  PROVE  /\ Control' /\ UNCHANGED <<command, fields, scan, fscanResult>>
         /\ directive' = directive + 1 /\ at' = e
         /\ assigned' = StoredIn(scan, directive')
         /\ info' = [t \in Targets |-> IF ReadFrom[t] = Number THEN Text(b).field ELSE info[t]]
<1>1. Begin = b
  BY BeginIs
<1>2. TextLength \in Nat
  BY TextType DEF Control
<1>3. End = e
  BY <1>1, <1>2, EndIs
<1>4. e \in Int
  BY <1>2 DEF Stops
<1> QED
  BY <1>1, <1>2, <1>3, <1>4, Matched

\* What depends on the text alone.
LEMMA TextUnchanged ==
  ASSUME UNCHANGED <<command, fields>>
  PROVE  /\ UNCHANGED <<CommandEnd, TextLength, OneWord>>
         /\ \A k : Text(k)' = Text(k)
BY DEF CommandEnd, TextLength, OneWord, Text, Char

LEMMA FieldsStored ==
  ASSUME NEW g \in Nat
  PROVE  /\ OwnFields(g) \in [Targets -> Int] /\ NameFields(g) \in [Targets -> Int]
         /\ OwnFields(g + 1) =
              [t \in Targets |-> IF ReadFrom[t] = g THEN g ELSE OwnFields(g)[t]]
         /\ NameFields(g + 1) =
              [t \in Targets |-> IF ReadFrom[t] = g THEN 2 ELSE NameFields(g)[t]]
         /\ g <= 3 => OwnFields(g) = NameFields(g)
<1>1. \A t \in Targets : ReadFrom[t] \in 3..47
  BY OneTargetPerField
<1> HIDE DEF Targets, ReadFrom
<1> QED
  BY <1>1 DEF OwnFields, NameFields

LEMMA StoredInBounds ==
  ASSUME NEW s \in 1..5, NEW d \in 1..Len(Formats[s])
  PROVE  /\ StoredIn(s, d) \in Nat
         /\ StoredBefore[s] + StoredIn(s, d) <= StoredBefore[s + 1]
         /\ s > 2 => StoredBefore[s] + StoredIn(s, d) < StoredBefore[s + 1]
         /\ s = 1 => StoredIn(s, d) <= 4
         /\ Before[s] + d \in 1..47
<1>1. CASE s = 1
  BY <1>1, FirstFormat DEF StoredIn, One, Before, StoredBefore
<1>2. CASE s = 2
  BY <1>2, SecondFormat DEF StoredIn, One, Before, StoredBefore
<1>3. CASE s = 3
  BY <1>3, MiddleFormats DEF StoredIn, One, Before, StoredBefore
<1>4. CASE s = 4
  BY <1>4, MiddleFormats DEF StoredIn, One, Before, StoredBefore
<1>5. CASE s = 5
  BY <1>5, FifthFormat DEF StoredIn, One, Before, StoredBefore
<1> QED
  BY <1>1, <1>2, <1>3, <1>4, <1>5

-----------------------------------------------------------------------------
(* The invariant is preserved: a blank in the name. *)

LEMMA StuckStep ==
  ASSUME Control, Stuck, Next, scan # 6
  PROVE  Control' /\ Stuck'
<1>1. PICK k \in 1..TextLength : at = k /\ Text(k).class = "other"
  BY DEF Stuck, NextIs
<1>2. TextLength \in Nat
  BY TextType DEF Control
<1>3. Stops(at, {"blank"}, k)
  BY <1>1, <1>2 DEF Stops
<1>4. scan \in 1..5 /\ scan > 1 /\ directive = 1 /\ directive <= Len(Formats[scan])
  <2>1. scan \in 1..5 /\ Len(Formats[scan]) \in 1..17
    BY ScanType
  <2>2. scan > 1 /\ directive = 1
    BY DEF Stuck
  <2>3. \A n \in 1..17 : 1 <= n
    OBVIOUS
  <2> QED
    BY <2>1, <2>2, <2>3
<1>5. Number \notin {2, 3}
  BY <1>4 DEF Number, Before
<1>6. /\ Control' /\ UNCHANGED <<command, fields, info>>
      /\ scan' = scan + 1 /\ directive' = 1 /\ assigned' = 0 /\ at' = k
      /\ fscanResult' = fscanResult + assigned
  BY <1>1, <1>2, <1>3, <1>4, <1>5, NoNumber
<1>7. NextIs({"other"})'
  BY <1>1, <1>6, TextUnchanged DEF NextIs
<1>8. fscanResult' \in 0..4
  BY <1>6 DEF Stuck
<1>9. ~OneWord'
  BY <1>6, TextUnchanged DEF Stuck
<1>10. (\E d \in 4..11 : info = NameFields(d))'
  BY <1>6 DEF Stuck, NameFields
<1> QED
  BY <1>4, <1>6, <1>7, <1>8, <1>9, <1>10 DEF Stuck

\* When a number is not met in the name, the first format is left.
LEMMA LeaveName ==
  ASSUME Control, InName, UNCHANGED <<command, fields, info>>, Control',
         NEW b \in 1..TextLength, Text(b).class = "other",
         scan' = 2, directive' = 1, assigned' = 0, at' = b, fscanResult' = fscanResult + assigned
  PROVE  Stuck'
<1>1. NextIs({"other"})'
  BY TextUnchanged DEF NextIs
<1>2. scan = 1 /\ directive \in 4..11 /\ assigned = StoredIn(1, directive) /\ fscanResult = 0
  BY FirstFormat DEF Control, InName
<1>3. StoredIn(1, directive) \in 0..4
  BY <1>2 DEF StoredIn, One
<1>4. fscanResult' \in 0..4
  BY <1>2, <1>3
<1>5. ~OneWord'
  BY TextUnchanged DEF InName
<1>6. (\E d \in 4..11 : info = NameFields(d))'
  BY <1>2 DEF InName, NameFields
<1> QED
  BY <1>1, <1>4, <1>5, <1>6 DEF Stuck

LEMMA InNameStep ==
  ASSUME Control, InName, Next
  PROVE  Control' /\ (InName' \/ Stuck')
<1> DEFINE C == CommandEnd
           d == directive
<1>1. /\ command \in Seq(Class) /\ C \in 4..19 /\ TextLength \in Nat /\ C + 4 <= TextLength
      /\ Text(C).class = "other" /\ fields \in Nat /\ fields > 3
      /\ \A k \in 1..TextLength : Text(k).class \in Class
  <2>1. C \in 4..19 /\ fields \in Nat /\ fields > 3 /\ TextLength = C + 2 * (fields - 2)
    BY TextType DEF Control
  <2> HIDE DEF C
  <2>2. C + 4 <= TextLength
    BY <2>1
  <2> QED
    BY <2>1, <2>2, TextType DEF Control, C
<1>2. scan = 1 /\ d \in 4..11 /\ Len(Formats[scan]) = 10 /\ Number = d
  BY FirstFormat DEF Control, InName, Number, Before
<1>3. assigned = StoredIn(scan, directive) /\ fscanResult = 0 /\ info = NameFields(d)
  BY <1>2 DEF InName
<1>4. CASE d = 11
  <2>1. at = C
    BY <1>1, <1>4 DEF InName
  <2>2. /\ Control' /\ UNCHANGED <<command, fields, at, info>>
        /\ scan' = 2 /\ directive' = 1 /\ assigned' = 0
        /\ fscanResult' = fscanResult + assigned
    BY <1>2, <1>4, Over
  <2> QED
    BY <1>1, <2>1, <2>2, LeaveName
<1>5. CASE d < 11 /\ at = C + 1
  <2>1. d = 4
    BY <1>1, <1>5 DEF InName
  <2>2. Text(C + 1).class = "blank" /\ Text(C + 2).class = "other"
    BY ThirdField DEF Control, Char
  <2>3. Stops(at, {"blank"}, C + 2)
    BY <1>1, <1>5, <2>2 DEF Stops
  <2>4. C + 2 \in 1..TextLength /\ C + 2 \in at..(TextLength + 1) /\ at \in 1..(TextLength + 1)
    BY <1>1, <1>5
  <2> HIDE DEF C
  <2>5. /\ Control' /\ UNCHANGED <<command, fields, info>>
        /\ scan' = 2 /\ directive' = 1 /\ assigned' = 0 /\ at' = C + 2
        /\ fscanResult' = fscanResult + assigned
    BY <1>1, <1>2, <1>5, <2>2, <2>3, <2>4, NoNumber
  <2> QED
    BY <2>2, <2>4, <2>5, LeaveName
<1>6. CASE d < 11 /\ at \in 6..C
  <2>1. PICK b : Stops(at, {"blank"}, b)
    BY <1>1, <1>6, StopExists
  <2>2. b \in at..C /\ Text(b).class \in {"digit", "other"}
    <3>1. b \in at..(TextLength + 1) /\ \A j \in at..(b - 1) : Text(j).class = "blank"
      BY <2>1 DEF Stops
    <3>2. b <= C
      BY <1>1, <1>6, <3>1
    <3>3. Text(b).class # "blank" /\ Text(b).class \in Class
      BY <1>1, <1>6, <2>1, <3>1, <3>2 DEF Stops
    <3> QED
      BY <3>1, <3>2, <3>3 DEF Class
  <2>3. CASE Text(b).class = "other"
    <3>1. /\ Control' /\ UNCHANGED <<command, fields, info>>
          /\ scan' = 2 /\ directive' = 1 /\ assigned' = 0 /\ at' = b
          /\ fscanResult' = fscanResult + assigned
      BY <1>1, <1>2, <1>6, <2>1, <2>2, <2>3, NoNumber
    <3> QED
      BY <1>1, <1>6, <2>2, <2>3, <3>1, LeaveName
  <2>4. CASE Text(b).class = "digit"
    <3> HIDE DEF C
    <3>0. b \in 1..(TextLength + 1)
      BY <1>1, <1>6, <2>2
    <3>1. PICK e : Stops(b, {"digit"}, e)
      BY <1>1, <3>0, StopExists
    <3>2. e \in (b + 1)..C /\ Text(e).class \in {"blank", "other"}
      <4>1. e \in b..(TextLength + 1) /\ \A j \in b..(e - 1) : Text(j).class = "digit"
        BY <3>1 DEF Stops
      <4>2. e <= C
        BY <1>1, <1>6, <2>2, <4>1
      <4>3. Text(e).class # "digit" /\ Text(e).class \in Class
        BY <1>1, <1>6, <2>2, <3>1, <4>1, <4>2 DEF Stops
      <4>4. e # b
        BY <2>4, <4>3
      <4> QED
        BY <1>1, <1>6, <2>2, <4>1, <4>2, <4>3, <4>4 DEF Class
    <3>3. info \in [Targets -> Int]
      <4>1. d \in Nat
        BY <1>2
      <4> QED
        BY <1>3, <4>1, FieldsStored
    <3>4. /\ Control' /\ UNCHANGED <<command, fields, scan, fscanResult>>
          /\ directive' = d + 1 /\ at' = e
          /\ assigned' = StoredIn(scan, directive')
          /\ info' = [t \in Targets |-> IF ReadFrom[t] = d THEN Text(b).field ELSE info[t]]
      BY <1>1, <1>2, <1>3, <1>6, <2>1, <2>2, <2>4, <3>1, <3>2, <3>3, Met
    <3>5. Text(b).field = 2
      <4>1. CASE b = C
        BY <1>1, <4>1 DEF Text, Char, C
      <4>2. CASE b # C
        <5>1. b \in 4..(CommandEnd - 1)
          BY <1>1, <1>6, <2>2, <4>2 DEF C
        <5>2. Text(b) = Char(command[b - 3], 2)
          BY <5>1, NameText DEF Control
        <5> QED
          BY <5>2 DEF Char
      <4> QED
        BY <4>1, <4>2
    <3>6. info' = NameFields(d + 1)
      <4>1. d \in Nat
        BY <1>2
      <4>2. NameFields(d + 1) = [t \in Targets |-> IF ReadFrom[t] = d THEN 2 ELSE NameFields(d)[t]]
        BY <4>1, FieldsStored
      <4> HIDE DEF NameFields, Targets, ReadFrom, d
      <4> QED
        BY <1>3, <3>4, <3>5, <4>2
    <3>7. e >= 2 * (d + 1) - 3
      <4>1. d > 4 => at >= 2 * d - 3 /\ b # at
        BY <1>1, <1>6, <2>4 DEF InName, NextIs
      <4> QED
        BY <1>1, <1>2, <1>6, <2>2, <3>2, <4>1
    <3>8. NextIs({"blank", "other"})'
      <4>1. e \in 1..TextLength
        BY <1>1, <1>6, <2>2, <3>2
      <4> QED
        BY <3>2, <3>4, <4>1, TextUnchanged DEF NextIs
    <3>9. at' \in 6..CommandEnd' /\ at' >= 2 * directive' - 3
      BY <1>1, <1>2, <1>6, <2>2, <3>2, <3>4, <3>7, TextUnchanged DEF C
    <3>10. ~OneWord' /\ scan' = 1 /\ directive' > 3
      BY <1>2, <3>4, TextUnchanged DEF InName
    <3>11. (info = NameFields(directive))' /\ (assigned = StoredIn(1, directive))'
      BY <1>2, <3>4, <3>6 DEF NameFields, StoredIn
    <3> QED
      BY <1>3, <3>4, <3>8, <3>9, <3>10, <3>11 DEF InName
  <2> QED
    BY <2>2, <2>3, <2>4
<1> QED
  BY <1>1, <1>2, <1>4, <1>5, <1>6 DEF InName

\* The letter of the state is taken from the name.
LEMMA AtStateStep ==
  ASSUME Control, AtState, Next
  PROVE  Control' /\ InName'
<1> DEFINE C == CommandEnd
<1>1. /\ C \in 4..19 /\ TextLength \in Nat /\ C <= TextLength /\ Text(C).class = "other"
      /\ at \in 4..(C - 1) /\ Text(at).class = "blank"
  <2>1. C \in 4..19 /\ fields \in Nat /\ fields > 3 /\ TextLength = C + 2 * (fields - 2)
    BY TextType DEF Control
  <2> HIDE DEF C
  <2>2. C <= TextLength
    BY <2>1
  <2> QED
    BY <2>1, <2>2, TextType DEF Control, C, AtState, NextIs
<1>2. /\ scan = 1 /\ directive = 3 /\ Len(Formats[scan]) = 10 /\ Number = 3
      /\ Formats[scan][directive] = "state"
      /\ assigned = StoredIn(scan, directive) /\ fscanResult = 0 /\ info = NameFields(3)
  BY FirstFormat DEF AtState, Number, Before, StoredIn, One
<1> HIDE DEF C
<1>3. at \in 1..(TextLength + 1)
  BY <1>1
<1>4. PICK b : Stops(at, {"blank"}, b)
  BY <1>1, <1>3, StopExists
<1>5. b \in (at + 1)..C
  <2>1. b \in at..(TextLength + 1) /\ \A j \in at..(b - 1) : Text(j).class = "blank"
    BY <1>4 DEF Stops
  <2>2. b > TextLength \/ Text(b).class # "blank"
    BY <1>4 DEF Stops
  <2>3. b <= C
    BY <1>1, <2>1
  <2> QED
    BY <1>1, <2>1, <2>2, <2>3
<1>6. Begin = b
  BY <1>3, <1>4, BeginIs
<1>7. End = b + 1
  BY <1>1, <1>2, <1>5, <1>6 DEF End, Current
<1>8. info \in [Targets -> Int]
  BY <1>2, FieldsStored
<1>9. /\ Control' /\ UNCHANGED <<command, fields, scan, fscanResult>>
      /\ directive' = directive + 1 /\ at' = b + 1
      /\ assigned' = StoredIn(scan, directive')
      /\ info' = [t \in Targets |-> IF ReadFrom[t] = 3 THEN Text(b).field ELSE info[t]]
  BY <1>1, <1>2, <1>5, <1>6, <1>7, <1>8, Matched
<1>10. Text(b).field = 2
  <2>1. CASE b = C
    BY <1>1, <2>1 DEF Text, Char, C
  <2>2. CASE b # C
    <3>1. b \in 4..(CommandEnd - 1)
      BY <1>1, <1>5, <2>2 DEF C
    <3>2. Text(b) = Char(command[b - 3], 2)
      BY <3>1, NameText DEF Control
    <3> QED
      BY <3>2 DEF Char
  <2> QED
    BY <2>1, <2>2
<1>11. info' = NameFields(4)
  <2>1. NameFields(3 + 1) = [t \in Targets |-> IF ReadFrom[t] = 3 THEN 2 ELSE NameFields(3)[t]]
    BY FieldsStored
  <2>2. 3 + 1 = 4
    OBVIOUS
  <2> HIDE DEF NameFields, Targets, ReadFrom
  <2> QED
    BY <1>2, <1>9, <1>10, <2>1, <2>2
<1>12. directive' = 4 /\ (at' \in 6..C \/ at' = C + 1)
  BY <1>1, <1>2, <1>5, <1>9
<1>13. at' \in 6..CommandEnd' \/ at' = CommandEnd' + 1
  BY <1>9, <1>12, TextUnchanged DEF C
<1>14. ~OneWord' /\ scan' = 1 /\ fscanResult' = 0
  BY <1>2, <1>9, TextUnchanged DEF AtState
<1>15. (info = NameFields(directive))' /\ (assigned = StoredIn(1, directive))'
  BY <1>2, <1>9, <1>11, <1>12 DEF NameFields, StoredIn
<1> QED
  BY <1>9, <1>12, <1>13, <1>14, <1>15 DEF InName

-----------------------------------------------------------------------------
(* The invariant is preserved: a name of one word. *)

\* At the end of the text nothing is stored.
LEMMA ExhaustedStep ==
  ASSUME Control, Exhausted, Next, scan # 6
  PROVE  Control' /\ Exhausted'
<1>1. TextLength \in Nat
  BY TextType DEF Control
<1>2. scan \in 2..5 /\ directive = 1 /\ Len(Formats[scan]) \in 1..17
  BY ScanType DEF Exhausted
<1>3. directive <= Len(Formats[scan])
  <2>1. \A n \in 1..17 : 1 <= n
    OBVIOUS
  <2> QED
    BY <1>2, <2>1
<1>4. Number \notin {2, 3}
  BY <1>2 DEF Number, Before
<1>5. at = TextLength + 1 /\ assigned = 0
  BY DEF Exhausted
<1>6. Stops(at, {"blank"}, at)
  BY <1>1, <1>5 DEF Stops
<1>7. /\ Control' /\ UNCHANGED <<command, fields, info>>
      /\ scan' = scan + 1 /\ directive' = 1 /\ assigned' = 0 /\ at' = at
      /\ fscanResult' = fscanResult - 1
  <2>1. at \in 1..(TextLength + 1) /\ at \in at..(TextLength + 1) /\ at > TextLength
    BY <1>1, <1>5
  <2>2. /\ Control' /\ UNCHANGED <<command, fields, info>>
        /\ scan' = scan + 1 /\ directive' = 1 /\ assigned' = 0 /\ at' = at
        /\ fscanResult' = fscanResult + IF at > TextLength /\ assigned = 0 THEN -1 ELSE assigned
    BY <1>2, <1>3, <1>4, <1>6, <2>1, NoNumber
  <2>3. fscanResult \in Int
    BY <1>2, Lengths DEF Exhausted
  <2> QED
    BY <1>5, <2>1, <2>2, <2>3
<1>8. /\ fscanResult' \in (1 - scan')..StoredBefore[scan']
      /\ scan' > 3 => fscanResult' < StoredBefore[scan']
  BY <1>2, <1>7 DEF Exhausted, StoredBefore
<1>9. OneWord' /\ at' = TextLength' + 1
  BY <1>5, <1>7, TextUnchanged DEF Exhausted
<1> QED
  BY <1>2, <1>7, <1>8, <1>9 DEF Exhausted

\* The next directive has met its field.
LEMMA AlignedNext ==
  ASSUME Control, Aligned, scan # 6, Control', UNCHANGED <<command, fields, scan, fscanResult>>,
         directive' = directive + 1, at' = Start(Number + 1),
         assigned' = StoredIn(scan, directive'),
         info' = [t \in Targets |-> IF ReadFrom[t] = Number THEN Number ELSE info[t]],
         Number <= fields, Number > 1 => OneWord
  PROVE  Aligned'
<1> DEFINE g == Number
<1>1. g \in Nat /\ fields \in Nat /\ directive \in Nat /\ Before[scan] \in Nat
  <2>1. fields \in Nat /\ directive \in Nat /\ scan \in 1..6
    <3>1. command \in CommandNames /\ fields \in FieldCounts /\ directive \in 1..18 /\ scan \in 1..6
      BY DEF Control
    <3>2. fields \in Nat
      BY <3>1, TextType
    <3>3. \A d \in 1..18 : d \in Nat
      OBVIOUS
    <3> QED
      BY <3>1, <3>2, <3>3
  <2>2. Before[scan] \in 0..47
    BY <2>1, Lengths
  <2>3. Before[scan] \in Nat
    BY <2>2
  <2> QED
    BY <2>1, <2>3 DEF Number
<1>2. Number' = g + 1
  BY <1>1 DEF Number
<1>3. OneWord' = OneWord /\ fields' = fields /\ CommandEnd' = CommandEnd
  BY TextUnchanged
<1>4. (at = Start(Number))'
  BY <1>2, <1>3 DEF Start
<1>5. (assigned = StoredIn(scan, directive))' /\ (fscanResult = StoredBefore[scan])'
  BY DEF Aligned, StoredIn
<1>6. (info = OwnFields(Number))'
  <2> HIDE DEF g
  <2>1. OwnFields(g + 1) = [t \in Targets |-> IF ReadFrom[t] = g THEN g ELSE OwnFields(g)[t]]
    BY <1>1, FieldsStored
  <2>2. info = OwnFields(g)
    BY DEF Aligned, g
  <2>3. info' = [t \in Targets |-> IF ReadFrom[t] = g THEN g ELSE info[t]]
    BY DEF g
  <2>4. info' = OwnFields(g + 1)
    BY <2>1, <2>2, <2>3
  <2> QED
    BY <1>2, <2>4 DEF OwnFields
<1>7. (Number <= fields + 1)' /\ (Number > 2 => OneWord)'
  <2> HIDE DEF g
  <2>1. Number = g
    BY DEF g
  <2> QED
    BY <1>1, <1>2, <1>3, <2>1
<1> QED
  BY <1>4, <1>5, <1>6, <1>7 DEF Aligned

LEMMA AlignedOver ==
  ASSUME Control, Aligned, Next, scan # 6, directive = Len(Formats[scan]) + 1
  PROVE  Control' /\ Aligned'
<1>1. /\ Control' /\ UNCHANGED <<command, fields, at, info>>
      /\ scan' = scan + 1 /\ directive' = 1 /\ assigned' = 0
      /\ fscanResult' = fscanResult + assigned
  BY Over
<1>2. scan \in 1..5
  BY ScanType
<1>3. /\ Before[scan + 1] = Before[scan] + Len(Formats[scan])
      /\ StoredBefore[scan + 1] = StoredBefore[scan] + StoredIn(scan, Len(Formats[scan]) + 1)
      /\ Len(Formats[scan]) \in 1..17 /\ Before[scan] \in 0..47
  <2>1. scan \in 1..6
    BY <1>2
  <2>2. Before[scan] \in 0..47
    BY <2>1, Lengths
  <2>3. /\ Before[scan + 1] = Before[scan] + Len(Formats[scan])
        /\ StoredBefore[scan + 1] = StoredBefore[scan] + StoredIn(scan, Len(Formats[scan]) + 1)
        /\ Len(Formats[scan]) \in 1..17
    BY <1>2, Lengths
  <2> QED
    BY <2>2, <2>3
<1>4. Number' = Number
  <2> DEFINE n == Len(Formats[scan])
             m == Before[scan]
  <2>1. Number' = Before[scan + 1] + 1 /\ Number = m + (n + 1)
    BY <1>1 DEF Number
  <2>2. n \in 1..17 /\ m \in 0..47 /\ Before[scan + 1] = m + n
    BY <1>3
  <2> HIDE DEF n, m
  <2> QED
    BY <2>1, <2>2
<1>5. OneWord' = OneWord /\ fields' = fields /\ CommandEnd' = CommandEnd
  BY <1>1, TextUnchanged
<1>6. (at = Start(Number))'
  BY <1>1, <1>4, <1>5 DEF Start, Aligned
<1>7. (info = OwnFields(Number))'
  BY <1>1, <1>4 DEF OwnFields, Aligned
<1>8. (assigned = StoredIn(scan, directive))'
  BY <1>1, <1>2 DEF StoredIn, One
<1>9. (fscanResult = StoredBefore[scan])'
  BY <1>1, <1>3 DEF Aligned
<1>10. (Number <= fields + 1)' /\ (Number > 2 => OneWord)'
  BY <1>4, <1>5 DEF Aligned
<1> QED
  BY <1>1, <1>6, <1>7, <1>8, <1>9, <1>10 DEF Aligned

\* Where the directives after the first ones are.
LEMMA AlignedType ==
  ASSUME Control, Aligned, scan # 6, directive <= Len(Formats[scan])
  PROVE  /\ Number \in 1..47 /\ Number <= fields + 1
         /\ Number <= 3 => scan = 1 /\ directive = Number
         /\ Number = 2 => Formats[scan][directive] = "*s"
         /\ Number = 3 => Formats[scan][directive] = "state"
         /\ info \in [Targets -> Int]
<1>1. scan \in 1..5 /\ directive \in 1..Len(Formats[scan])
  BY ScanType
<1>2. Number \in 1..47
  BY <1>1, StoredInBounds DEF Number
<1>3. Number <= 3 => scan = 1 /\ directive = Number
  BY <1>1 DEF Number, Before
<1>4. Number \in Nat
  BY <1>2
<1>5. info \in [Targets -> Int]
  BY <1>4, FieldsStored DEF Aligned
<1> QED
  BY <1>2, <1>3, <1>5, FirstFormat DEF Aligned

\* The first field is a number.
LEMMA AlignedPid ==
  ASSUME Control, Aligned, Next, scan # 6, directive <= Len(Formats[scan]), Number = 1
  PROVE  Control' /\ Aligned'
<1>1. /\ TextLength \in Nat /\ 2 <= TextLength /\ fields \in Nat /\ 1 <= fields
      /\ Text(1) = Char("digit", 1) /\ Text(2).class = "blank"
  <2>1. CommandEnd \in 4..19 /\ fields \in Nat /\ fields > 3 /\ TextLength = CommandEnd + 2 * (fields - 2)
    BY TextType DEF Control
  <2>2. TextLength \in Nat /\ 2 <= TextLength
    BY <2>1
  <2> QED
    BY <2>1, <2>2 DEF Text, Char
<1>2. at = 1
  BY DEF Aligned, Start
<1>3. Stops(at, {"blank"}, 1) /\ Stops(1, {"digit"}, 2)
  BY <1>1, <1>2 DEF Stops, Char
<1>4. /\ info \in [Targets -> Int] /\ assigned = StoredIn(scan, directive)
      /\ at \in 1..(TextLength + 1) /\ 1 \in at..TextLength
  BY <1>1, <1>2, AlignedType DEF Aligned
<1>5. /\ Control' /\ UNCHANGED <<command, fields, scan, fscanResult>>
      /\ directive' = directive + 1 /\ at' = 2
      /\ assigned' = StoredIn(scan, directive')
      /\ info' = [t \in Targets |-> IF ReadFrom[t] = Number THEN Text(1).field ELSE info[t]]
  BY <1>3, <1>4, Met
<1>6. at' = Start(Number + 1) /\ Text(1).field = Number
  BY <1>1, <1>5 DEF Start, Char
<1> QED
  BY <1>1, <1>5, <1>6, AlignedNext

\* The state is a letter.
LEMMA AlignedState ==
  ASSUME Control, Aligned, Next, scan # 6, directive <= Len(Formats[scan]), Number = 3
  PROVE  Control' /\ Aligned'
<1> DEFINE C == CommandEnd
<1>1. /\ TextLength \in Nat /\ C \in 4..19 /\ C + 2 <= TextLength /\ fields \in Nat /\ 3 <= fields
  <2>1. C \in 4..19 /\ fields \in Nat /\ fields > 3 /\ TextLength = C + 2 * (fields - 2)
    BY TextType DEF Control
  <2> HIDE DEF C
  <2> QED
    BY <2>1
<1>2. Text(C + 1).class = "blank" /\ Text(C + 2).class = "other" /\ Text(C + 2).field = 3
  BY ThirdField DEF Control, Char
<1>3. at = C + 1
  BY <1>1 DEF Aligned, Start
<1>4. OneWord
  BY DEF Aligned
<1> HIDE DEF C
<1>5. Stops(at, {"blank"}, C + 2)
  BY <1>1, <1>2, <1>3 DEF Stops
<1>6. Begin = C + 2
  BY <1>1, <1>3, <1>5, BeginIs
<1>7. Current = "state" /\ info \in [Targets -> Int]
  BY AlignedType DEF Current
<1>8. End = C + 3
  BY <1>1, <1>6, <1>7 DEF End
<1>9. assigned = StoredIn(scan, directive)
  BY DEF Aligned
<1>10. /\ Control' /\ UNCHANGED <<command, fields, scan, fscanResult>>
       /\ directive' = directive + 1 /\ at' = C + 3
       /\ assigned' = StoredIn(scan, directive')
       /\ info' = [t \in Targets |-> IF ReadFrom[t] = Number THEN Text(C + 2).field ELSE info[t]]
  BY <1>1, <1>6, <1>7, <1>8, <1>9, Matched
<1>11. at' = Start(Number + 1)
  BY <1>1, <1>10 DEF Start, C
<1> QED
  BY <1>1, <1>2, <1>4, <1>10, <1>11, AlignedNext

\* Any other is a number again.
LEMMA AlignedNumber ==
  ASSUME Control, Aligned, Next, scan # 6, directive <= Len(Formats[scan]),
         Number > 3, Number <= fields
  PROVE  Control' /\ Aligned'
<1> DEFINE C == CommandEnd
           g == Number
           b == C + 2 * (g - 2)
<1>1. /\ TextLength = C + 2 * (fields - 2) /\ TextLength \in Nat /\ C \in 4..19 /\ fields \in Nat
      /\ g \in 4..fields
  <2>1. /\ TextLength = C + 2 * (fields - 2) /\ TextLength \in Nat /\ C \in 4..19 /\ fields \in Nat
    BY TextType DEF Control
  <2>2. g \in 1..47 /\ g > 3 /\ g <= fields
    BY AlignedType
  <2> HIDE DEF g, C
  <2>3. g \in 4..fields
    BY <2>1, <2>2
  <2> QED
    BY <2>1, <2>3
<1>2. at = b - 1 /\ OneWord
  BY <1>1 DEF Aligned, Start
<1>3. Text(b - 1).class = "blank" /\ Text(b).class = "digit" /\ Text(b).field = g
  <2>1. g \in 3..fields /\ g # 3
    BY <1>1
  <2>2. /\ Text(C + 2 * (g - 2) - 1).class = "blank"
        /\ Text(C + 2 * (g - 2)) = Char(IF g = 3 THEN "other" ELSE "digit", g)
    BY <2>1, FieldText DEF Control
  <2>3. (IF g = 3 THEN "other" ELSE "digit") = "digit"
    BY <2>1
  <2>4. Text(b - 1).class = "blank"
    <3>1. C + 2 * (g - 2) - 1 = b - 1
      BY <1>1
    <3> QED
      BY <2>2, <3>1
  <2>5. Text(b) = Char(IF g = 3 THEN "other" ELSE "digit", g)
    BY <2>2
  <2>6. Text(b) = Char("digit", g)
    BY <2>3, <2>5, Zenon
  <2> QED
    BY <2>4, <2>6 DEF Char
<1>4. b + 1 <= TextLength => Text(b + 1).class = "blank"
  <2>1. SUFFICES ASSUME b + 1 <= TextLength PROVE Text(b + 1).class = "blank"
    OBVIOUS
  <2> DEFINE h == g + 1
  <2>2. h \in 3..fields
    BY <1>1, <2>1
  <2>3. Text(C + 2 * (h - 2) - 1).class = "blank"
    BY <2>2, FieldText DEF Control
  <2>4. C + 2 * (h - 2) - 1 = b + 1
    BY <1>1
  <2> QED
    BY <2>3, <2>4
<1>5. b \in 4..TextLength
  BY <1>1
<1>6. info \in [Targets -> Int] /\ assigned = StoredIn(scan, directive)
  BY AlignedType DEF Aligned
<1>7. b + 1 = Start(g + 1)
  BY <1>1 DEF Start
<1> HIDE DEF b, C
<1>8. Stops(at, {"blank"}, b)
  BY <1>1, <1>2, <1>3, <1>5 DEF Stops
<1>9. Stops(b, {"digit"}, b + 1)
  BY <1>1, <1>3, <1>4, <1>5 DEF Stops
<1>10. at \in 1..(TextLength + 1) /\ b \in at..TextLength /\ b + 1 > b /\ g \notin {2, 3}
  BY <1>1, <1>2, <1>5
<1>11. /\ Control' /\ UNCHANGED <<command, fields, scan, fscanResult>>
       /\ directive' = directive + 1 /\ at' = b + 1
       /\ assigned' = StoredIn(scan, directive')
       /\ info' = [t \in Targets |-> IF ReadFrom[t] = Number THEN Text(b).field ELSE info[t]]
  BY <1>6, <1>8, <1>9, <1>10, Met
<1> QED
  BY <1>2, <1>3, <1>7, <1>11, AlignedNext

\* There are no more fields.
LEMMA AlignedEnd ==
  ASSUME Control, Aligned, Next, scan # 6, directive <= Len(Formats[scan]), Number = fields + 1
  PROVE  Control' /\ Exhausted'
<1>1. /\ TextLength \in Nat /\ fields \in Nat /\ fields > 3 /\ CommandEnd \in 4..19
      /\ TextLength = CommandEnd + 2 * (fields - 2)
  BY TextType DEF Control
<1>2. at = TextLength + 1 /\ OneWord
  BY <1>1 DEF Aligned, Start
<1>3. Number \notin {2, 3} /\ fields < 47
  BY <1>1, AlignedType
<1>4. Stops(at, {"blank"}, at) /\ at \in 1..(TextLength + 1) /\ at \in at..(TextLength + 1)
  BY <1>1, <1>2 DEF Stops
<1>5. /\ Control' /\ UNCHANGED <<command, fields, info>>
      /\ scan' = scan + 1 /\ directive' = 1 /\ assigned' = 0 /\ at' = at
      /\ fscanResult' = fscanResult + IF at > TextLength /\ assigned = 0 THEN -1 ELSE assigned
  BY <1>1, <1>2, <1>3, <1>4, NoNumber
<1>6. scan \in 1..5 /\ directive \in 1..Len(Formats[scan])
  BY ScanType
<1>7. fscanResult' \in (1 - scan')..StoredBefore[scan'] /\ (scan' > 3 => fscanResult' < StoredBefore[scan'])
  <2> DEFINE a == StoredIn(scan, directive)
             m == StoredBefore[scan]
             n == StoredBefore[scan + 1]
  <2>1. assigned = a /\ fscanResult = m
    BY DEF Aligned
  <2>2. a \in Nat /\ m + a <= n /\ (scan > 2 => m + a < n)
    BY <1>6, StoredInBounds
  <2>3. m \in 0..18 /\ n \in 0..18
    <3>1. scan \in 1..6 /\ scan + 1 \in 1..6
      BY <1>6
    <3> QED
      BY <3>1, Lengths
  <2>4. fscanResult' = m - 1 \/ fscanResult' = m + a
    BY <1>5, <2>1, <2>2, <2>3
  <2>5. scan' = scan + 1 /\ StoredBefore[scan'] = n
    BY <1>5
  <2> HIDE DEF a, m, n
  <2> QED
    BY <1>6, <2>2, <2>3, <2>4, <2>5
<1>8. OneWord' /\ at' = TextLength' + 1
  BY <1>2, <1>5, TextUnchanged
<1>9. info \in [Targets -> 0..fields]
  <2>1. info = OwnFields(fields + 1)
    BY DEF Aligned
  <2>2. \A t \in Targets : ReadFrom[t] \in 3..47
    BY OneTargetPerField
  <2> HIDE DEF Targets, ReadFrom
  <2>3. \A t \in Targets : (IF ReadFrom[t] < fields + 1 THEN ReadFrom[t] ELSE 0) \in 0..fields
    <3>1. \A x \in 3..47 : (IF x < fields + 1 THEN x ELSE 0) \in 0..fields
      BY <1>1
    <3> QED
      BY <2>2, <3>1
  <2> QED
    BY <2>1, <2>3 DEF OwnFields
<1> QED
  BY <1>3, <1>5, <1>6, <1>7, <1>8, <1>9 DEF Exhausted

\* The word that is skipped ends where the name does, or in it.
LEMMA AlignedName ==
  ASSUME Control, Aligned, Next, scan # 6, directive <= Len(Formats[scan]), Number = 2
  PROVE  Control' /\ (Aligned' \/ AtState')
<1> DEFINE C == CommandEnd
           word == {"digit", "other"}
<1>1. /\ TextLength \in Nat /\ C \in 4..19 /\ C + 2 <= TextLength /\ fields \in Nat /\ 3 <= fields
  <2>1. C \in 4..19 /\ fields \in Nat /\ fields > 3 /\ TextLength = C + 2 * (fields - 2)
    BY TextType DEF Control
  <2> HIDE DEF C
  <2> QED
    BY <2>1
<1>2. /\ Text(2).class = "blank" /\ Text(3).class = "other" /\ Text(3).field = 2
      /\ Text(C).class = "other" /\ Text(C + 1).class = "blank"
  <2>1. Text(3).field = 2
    BY DEF Text, Char
  <2> QED
    BY <2>1, TextType, ThirdField DEF Control
<1>3. at = 2 /\ fscanResult = 0 /\ assigned = StoredIn(scan, directive) /\ info = OwnFields(2)
      /\ scan = 1 /\ directive = 2
  BY AlignedType DEF Aligned, Start, StoredBefore
<1>4. /\ \A j \in 4..(C - 1) : j - 3 \in DOMAIN command /\ Text(j).class = command[j - 3]
      /\ \A k \in DOMAIN command : k + 3 \in 4..(C - 1) /\ Text(k + 3).class = command[k]
  <2>1. \A j \in 4..(C - 1) : j - 3 \in DOMAIN command /\ Text(j).class = command[j - 3]
    BY NameText DEF Control, Char
  <2>2. ASSUME NEW k \in DOMAIN command PROVE k \in Int /\ k + 3 \in 4..(C - 1)
    <3>1. command \in Seq(Class) /\ Len(command) \in 0..15
      BY TextType DEF Control
    <3>2. k \in 1..Len(command)
      BY <3>1, LenProperties
    <3>3. C = 4 + Len(command)
      BY DEF CommandEnd
    <3> DEFINE n == Len(command)
    <3>4. n \in 0..15 /\ k \in 1..n /\ C = 4 + n
      BY <3>1, <3>2, <3>3
    <3> HIDE DEF n, C
    <3> QED
      BY <3>4
  <2>3. ASSUME NEW k \in DOMAIN command PROVE Text(k + 3).class = command[k]
    <3> DEFINE j == k + 3
    <3>1. j \in 4..(C - 1) /\ j - 3 = k
      BY <2>2
    <3> HIDE DEF j
    <3>2. Text(j).class = command[k]
      BY <2>1, <3>1
    <3> QED
      BY <3>2 DEF j
  <2> QED
    BY <2>1, <2>2, <2>3
<1>5. \A k \in 1..TextLength : Text(k).class \in Class
  BY TextType DEF Control
<1> HIDE DEF C
<1>6. Stops(at, {"blank"}, 3)
  BY <1>1, <1>2, <1>3 DEF Stops
<1>7. Begin = 3
  BY <1>1, <1>3, <1>6, BeginIs
<1>8. 3 \in 1..(TextLength + 1)
  BY <1>1
<1>9. End = After(3, word)
  <2>1. Current = "*s"
    BY <1>3, FirstFormat DEF Current
  <2> QED
    BY <1>7, <2>1 DEF End
<1>10. PICK e : Stops(3, word, e)
  BY <1>1, <1>8, StopExists
<1>11. End = e
  BY <1>1, <1>8, <1>9, <1>10, AfterStops
<1>12. e \in 4..(TextLength + 1)
  BY <1>1, <1>2, <1>10 DEF Stops
<1>13. info \in [Targets -> Int]
  BY AlignedType
<1>14. /\ Control' /\ UNCHANGED <<command, fields, scan, fscanResult>>
       /\ directive' = directive + 1 /\ at' = e
       /\ assigned' = StoredIn(scan, directive')
       /\ info' = [t \in Targets |-> IF ReadFrom[t] = Number THEN Text(3).field ELSE info[t]]
  BY <1>1, <1>3, <1>7, <1>11, <1>12, <1>13, Matched
<1>15. CASE OneWord
  <2>1. Stops(3, word, C + 1)
    <3>1. ASSUME NEW j \in 3..C PROVE Text(j).class \in word
      <4>1. CASE j \in {3, C}
        BY <1>2, <4>1
      <4>2. CASE j \notin {3, C}
        <5>1. j \in 4..(C - 1) /\ j \in 1..TextLength
          BY <1>1, <4>2
        <5>2. Text(j).class # "blank" /\ Text(j).class \in Class
          BY <1>4, <1>5, <1>15, <5>1 DEF OneWord
        <5> QED
          BY <5>2 DEF Class
      <4> QED
        BY <4>1, <4>2
    <3>2. C + 1 \in 3..(TextLength + 1) /\ (C + 1) - 1 = C
      BY <1>1
    <3> QED
      BY <1>2, <3>1, <3>2 DEF Stops
  <2>2. e = C + 1
    BY <1>1, <1>8, <1>10, <2>1, AfterStops
  <2>3. at' = Start(Number + 1)
    BY <1>1, <1>14, <2>2 DEF Start, C
  <2> QED
    BY <1>1, <1>2, <1>14, <1>15, <2>3, AlignedNext
<1>16. CASE ~OneWord
  <2>1. PICK k \in DOMAIN command : command[k] = "blank"
    BY <1>16 DEF OneWord
  <2>2. PICK j \in 4..(C - 1) : Text(j).class = "blank"
    BY <1>4, <2>1
  <2>3. e <= j
    BY <1>1, <1>10, <1>12, <2>2 DEF Stops
  <2>4. e \in 4..(C - 1) /\ e \in 1..TextLength
    BY <1>1, <1>12, <2>3
  <2>5. Text(e).class = "blank"
    <3>1. Text(e).class \notin word
      BY <1>1, <1>10, <2>4 DEF Stops
    <3>2. Text(e).class \in Class
      BY <1>5, <2>4
    <3> QED
      BY <3>1, <3>2 DEF Class
  <2>6. NextIs({"blank"})'
    BY <1>14, <2>4, <2>5, TextUnchanged DEF NextIs
  <2>7. at' \in 4..(CommandEnd' - 1) /\ ~OneWord'
    BY <1>14, <1>16, <2>4, TextUnchanged DEF C
  <2>8. info' = NameFields(3)
    <3>1. OwnFields(2) = NameFields(2)
      <4>1. 2 \in Nat /\ 2 <= 3
        OBVIOUS
      <4> QED
        BY <4>1, FieldsStored
    <3>2. NameFields(2 + 1) = [t \in Targets |-> IF ReadFrom[t] = 2 THEN 2 ELSE NameFields(2)[t]]
      BY FieldsStored
    <3>3. 2 + 1 = 3
      OBVIOUS
    <3> HIDE DEF NameFields, OwnFields, Targets, ReadFrom
    <3> QED
      BY <1>2, <1>3, <1>14, <3>1, <3>2, <3>3
  <2>9. assigned' = 0 /\ directive' = 3
    BY <1>3, <1>14 DEF StoredIn, One
  <2>10. (info = NameFields(3))'
    BY <2>8 DEF NameFields
  <2> QED
    BY <1>3, <1>14, <2>6, <2>7, <2>9, <2>10 DEF AtState
<1> QED
  BY <1>15, <1>16

LEMMA AlignedStep ==
  ASSUME Control, Aligned, Next, scan # 6
  PROVE  Control' /\ (Aligned' \/ Exhausted' \/ AtState')
<1>1. CASE directive > Len(Formats[scan])
  <2> DEFINE n == Len(Formats[scan])
  <2>1. n \in 1..17 /\ directive \in 1..(n + 1) /\ directive > n
    BY <1>1, ScanType
  <2> HIDE DEF n
  <2>2. directive = n + 1
    BY <2>1
  <2> QED
    BY <2>2, AlignedOver DEF n
<1>2. CASE directive <= Len(Formats[scan])
  <2>1. Number \in 1..47 /\ Number <= fields + 1 /\ fields \in Nat
    BY <1>2, AlignedType, TextType DEF Control
  <2>2. Number = 1 \/ Number = 2 \/ Number = 3 \/ (Number > 3 /\ Number <= fields) \/ Number = fields + 1
    BY <2>1
  <2> QED
    BY <1>2, <2>2, AlignedPid, AlignedName, AlignedState, AlignedNumber, AlignedEnd
<1>3. directive \in Int /\ Len(Formats[scan]) \in Int
  BY ScanType
<1> QED
  BY <1>1, <1>2, <1>3

-----------------------------------------------------------------------------
(* The invariant holds. *)

LEMMA Unchanged ==
  ASSUME IInv, UNCHANGED vars
  PROVE  IInv'
<1>1. /\ UNCHANGED <<command, fields, at, scan, directive, assigned, fscanResult, info>>
      /\ CommandEnd' = CommandEnd /\ TextLength' = TextLength /\ OneWord' = OneWord
  BY TextUnchanged DEF vars
<1>2. Control'
  BY <1>1 DEF IInv, Control
<1>3. ASSUME NEW classes, NextIs(classes) PROVE NextIs(classes)'
  BY <1>1, <1>3, TextUnchanged DEF NextIs
<1>4. ASSUME Aligned PROVE Aligned'
  BY <1>1, <1>4 DEF Aligned, Number, Start, OwnFields, StoredIn
<1>5. ASSUME Exhausted PROVE Exhausted'
  BY <1>1, <1>5 DEF Exhausted
<1>6. ASSUME AtState PROVE AtState'
  <2>1. NextIs({"blank"})'
    BY <1>3, <1>6 DEF AtState
  <2> QED
    BY <1>1, <1>6, <2>1 DEF AtState, NameFields
<1>7. ASSUME InName PROVE InName'
  <2>1. NextIs({"blank", "other"}) => NextIs({"blank", "other"})'
    BY <1>3
  <2>2. NameFields(directive)' = NameFields(directive) /\ StoredIn(1, directive)' = StoredIn(1, directive)
    BY <1>1 DEF NameFields, StoredIn
  <2> QED
    BY <1>1, <1>7, <2>1, <2>2 DEF InName
<1>8. ASSUME Stuck PROVE Stuck'
  <2>1. NextIs({"other"})'
    BY <1>3, <1>8 DEF Stuck
  <2> QED
    BY <1>1, <1>8, <2>1 DEF Stuck, NameFields
<1> QED
  BY <1>2, <1>4, <1>5, <1>6, <1>7, <1>8 DEF IInv

LEMMA Initially == Init => IInv
<1> SUFFICES ASSUME Init PROVE IInv
  OBVIOUS
<1>1. Control
  BY FirstFormat DEF Control, Init
<1>2. Number = 1
  BY DEF Init, Number, Before
<1>3. fields \in Nat
  BY TextType DEF Init
<1>4. info = OwnFields(1)
  <2>1. \A t \in Targets : ReadFrom[t] \in 3..47
    BY OneTargetPerField
  <2>2. info = [t \in Targets |-> 0]
    BY DEF Init
  <2> HIDE DEF Targets, ReadFrom
  <2> QED
    BY <2>1, <2>2 DEF OwnFields
<1>5. Aligned
  BY <1>2, <1>3, <1>4 DEF Init, Aligned, Start, StoredIn, StoredBefore, One
<1> QED
  BY <1>1, <1>5 DEF IInv

LEMMA Consecution == IInv /\ [Next]_vars => IInv'
<1> SUFFICES ASSUME IInv, [Next]_vars PROVE IInv'
  OBVIOUS
<1>1. CASE Next /\ scan # 6
  <2>1. CASE Aligned
    BY <1>1, <2>1, AlignedStep DEF IInv
  <2>2. CASE Exhausted
    BY <1>1, <2>2, ExhaustedStep DEF IInv
  <2>3. CASE AtState
    BY <1>1, <2>3, AtStateStep DEF IInv
  <2>4. CASE InName
    BY <1>1, <2>4, InNameStep DEF IInv
  <2>5. CASE Stuck
    BY <1>1, <2>5, StuckStep DEF IInv
  <2> QED
    BY <2>1, <2>2, <2>3, <2>4, <2>5 DEF IInv
<1>2. CASE Next /\ scan = 6
  <2>1. UNCHANGED vars
    BY <1>2 DEF Next, SkipField, Store, Match, FormatEnds, Mismatch, TextEnds, Scanning, Terminated
  <2> QED
    BY <2>1, Unchanged
<1>3. CASE UNCHANGED vars
  BY <1>3, Unchanged
<1> QED
  BY <1>1, <1>2, <1>3

LEMMA Invariance == Spec => []IInv
BY Initially, Consecution, PTL DEF Spec

-----------------------------------------------------------------------------
(* What follows. *)

LEMMA AssignedBound ==
  ASSUME NEW s \in 1..6, NEW d \in 1..18, IF s = 6 THEN d = 1 ELSE d <= Len(Formats[s]) + 1
  PROVE  StoredIn(s, d) \in 0..4 /\ Before[s] + d \in 1..48
<1>1. CASE s = 1
  BY <1>1, FirstFormat DEF StoredIn, One, Before
<1>2. CASE s = 2
  BY <1>2, SecondFormat DEF StoredIn, One, Before
<1>3. CASE s = 3
  BY <1>3, MiddleFormats DEF StoredIn, One, Before
<1>4. CASE s = 4
  BY <1>4, MiddleFormats DEF StoredIn, One, Before
<1>5. CASE s = 5
  BY <1>5, FifthFormat DEF StoredIn, One, Before
<1>6. CASE s = 6
  BY <1>6 DEF StoredIn, One, Before
<1> QED
  BY <1>1, <1>2, <1>3, <1>4, <1>5, <1>6

LEMMA FieldRange ==
  ASSUME fields \in Nat, fields > 3
  PROVE  /\ \A g \in Nat : g <= fields + 1 => OwnFields(g) \in [Targets -> 0..fields]
         /\ \A g \in Nat : NameFields(g) \in [Targets -> 0..fields]
<1>1. \A t \in Targets : ReadFrom[t] \in 3..47
  BY OneTargetPerField
<1> HIDE DEF Targets, ReadFrom
<1>2. ASSUME NEW g \in Nat, g <= fields + 1 PROVE OwnFields(g) \in [Targets -> 0..fields]
  <2>1. \A x \in 3..47 : (IF x < g THEN x ELSE 0) \in 0..fields
    BY <1>2
  <2>2. \A t \in Targets : (IF ReadFrom[t] < g THEN ReadFrom[t] ELSE 0) \in 0..fields
    BY <1>1, <2>1
  <2> QED
    BY <2>2 DEF OwnFields
<1>3. ASSUME NEW g \in Nat PROVE NameFields(g) \in [Targets -> 0..fields]
  BY <1>1 DEF NameFields
<1> QED
  BY <1>2, <1>3

\* A blank is in no empty name.
LEMMA NameIsNotEmpty ==
  ASSUME Control, ~OneWord
  PROVE  CommandEnd >= 5
<1> DEFINE n == Len(command)
<1>1. command \in Seq(Class) /\ n \in 0..15
  BY TextType DEF Control
<1>2. DOMAIN command = 1..n
  BY <1>1, LenProperties
<1>3. CommandEnd = 4 + n
  BY DEF CommandEnd
<1> HIDE DEF n
<1>4. n # 0
  BY <1>2 DEF OneWord
<1> QED
  BY <1>1, <1>3, <1>4

LEMMA TypeFollows == IInv => TypeOK
<1> SUFFICES ASSUME IInv PROVE TypeOK
  OBVIOUS
<1>1. /\ command \in CommandNames /\ fields \in FieldCounts /\ scan \in 1..6 /\ directive \in 1..18
      /\ fields \in Nat /\ fields > 3 /\ CommandEnd \in 4..19 /\ TextLength \in Nat
      /\ TextLength = CommandEnd + 2 * (fields - 2)
  BY TextType DEF IInv, Control
<1>2. StoredIn(scan, directive) \in 0..4 /\ Number \in 1..48
  BY <1>1, AssignedBound DEF IInv, Control, Number
<1>3. StoredBefore[scan] \in 0..18
  BY <1>1, Lengths
<1>4. at \in 1..(TextLength + 1) /\ assigned \in 0..4 /\ fscanResult \in -5..18 /\ info \in [Targets -> 0..fields]
  <2>1. CASE Aligned
    <3>1. at = Start(Number) /\ Number <= fields + 1 /\ assigned = StoredIn(scan, directive)
          /\ fscanResult = StoredBefore[scan] /\ info = OwnFields(Number)
      BY <2>1 DEF Aligned
    <3>2. \A g \in 1..48 : g <= fields + 1 => Start(g) \in 1..(TextLength + 1)
      BY <1>1 DEF Start
    <3>3. Number \in Nat
      BY <1>2
    <3>4. info \in [Targets -> 0..fields]
      BY <1>1, <3>1, <3>3, FieldRange
    <3> QED
      BY <1>2, <1>3, <3>1, <3>2, <3>4
  <2>2. CASE Exhausted
    <3>1. at = TextLength + 1 /\ assigned = 0 /\ fscanResult \in (1 - scan)..StoredBefore[scan]
          /\ info \in [Targets -> 0..fields]
      BY <2>2 DEF Exhausted
    <3>2. fscanResult \in -5..18
      BY <1>1, <1>3, <3>1
    <3> QED
      BY <1>1, <3>1, <3>2
  <2>3. CASE AtState
    <3>1. at \in 4..(CommandEnd - 1) /\ assigned = 0 /\ fscanResult = 0 /\ info = NameFields(3)
      BY <2>3 DEF AtState
    <3>2. info \in [Targets -> 0..fields]
      BY <1>1, <3>1, FieldRange
    <3> QED
      BY <1>1, <3>1, <3>2
  <2>4. CASE InName
    <3>1. at \in 6..(CommandEnd + 1) /\ assigned = StoredIn(1, directive) /\ scan = 1
          /\ fscanResult = 0 /\ info = NameFields(directive)
      <4>1. at \in 6..CommandEnd \/ at = CommandEnd + 1
        BY <2>4 DEF InName
      <4>2. at \in 6..(CommandEnd + 1)
        <5>1. CASE at \in 6..CommandEnd
          BY <1>1, <5>1
        <5>2. CASE at = CommandEnd + 1
          <6>1. CommandEnd >= 5
            BY <2>4, NameIsNotEmpty DEF IInv, InName
          <6> QED
            BY <1>1, <5>2, <6>1
        <5> QED
          BY <4>1, <5>1, <5>2
      <4> QED
        BY <2>4, <4>2 DEF InName
    <3>2. directive \in Nat
      BY <1>1
    <3>3. info \in [Targets -> 0..fields]
      BY <1>1, <3>1, <3>2, FieldRange
    <3> QED
      BY <1>1, <1>2, <3>1, <3>3
  <2>5. CASE Stuck
    <3>1. /\ \E k \in 1..TextLength : at = k
          /\ assigned = 0 /\ fscanResult \in 0..4 /\ \E d \in 4..11 : info = NameFields(d)
      BY <2>5 DEF Stuck, NextIs
    <3>2. \A d \in 4..11 : d \in Nat
      OBVIOUS
    <3>3. info \in [Targets -> 0..fields]
      BY <1>1, <3>1, <3>2, FieldRange
    <3> QED
      BY <1>1, <3>1, <3>3
  <2> QED
    BY <2>1, <2>2, <2>3, <2>4, <2>5 DEF IInv
<1> QED
  BY <1>1, <1>4 DEF TypeOK

\* Every variable has its type, and no more than four directives of a format
\* store (readProcStat).
THEOREM TypeCorrect == Spec => []TypeOK
BY Invariance, TypeFollows, PTL

\* When all the scans are over and nothing has been printed, every target has
\* been taken from the field its directive is counted to.
LEMMA Accepted ==
  ASSUME IInv, Done, ~Warned
  PROVE  \A t \in Targets : info[t] = ReadFrom[t]
<1>1. scan = 6 /\ fscanResult = 18 /\ directive = 1
  BY DEF Done, Warned, IInv, Control
<1>2. Aligned
  BY <1>1 DEF IInv, Exhausted, AtState, InName, Stuck, StoredBefore
<1>3. Number = 48
  BY <1>1 DEF Number, Before
<1>4. info = OwnFields(48)
  BY <1>2, <1>3 DEF Aligned
<1>5. \A t \in Targets : ReadFrom[t] \in 3..47
  BY OneTargetPerField
<1> HIDE DEF Targets, ReadFrom
<1> QED
  BY <1>4, <1>5 DEF OwnFields

\* A name in which a blank makes the scan slip is never accepted: when no ERROR
\* is printed, every variable but the two of the data region has been given its
\* own field (fscanResult != 18, ProcReader.cpp:178-183).
THEOREM AcceptedAligned == Spec => []AcceptedIsAligned
<1>1. IInv => AcceptedIsAligned
  <2> SUFFICES ASSUME IInv, Done, ~Warned, NEW t \in Targets \ DataRegion
               PROVE  info[t] = Documented[t]
    BY DEF AcceptedIsAligned
  <2>1. info[t] = ReadFrom[t]
    BY Accepted
  <2>2. ReadFrom[t] = Documented[t]
    BY DEF Targets, DataRegion, ReadFrom, Documented
  <2> QED
    BY <2>1, <2>2
<1> QED
  BY <1>1, Invariance, PTL

\* The two of the data region never have: the last format skips a field too many
\* (the format of the fifth fscanf, ProcReader.cpp:182), so that begin and end
\* are always those of the next fields.
THEOREM RegionAlwaysShifted == Spec => []DataRegionShifted
<1>1. IInv => DataRegionShifted
  <2> SUFFICES ASSUME IInv, Done, ~Warned
               PROVE  info["databegin"] = 46 /\ info["dataend"] = 47
    BY DEF DataRegionShifted
  <2>1. \A t \in Targets : info[t] = ReadFrom[t]
    BY Accepted
  <2> QED
    BY <2>1 DEF Targets, ReadFrom
<1> QED
  BY <1>1, Invariance, PTL

\* The three outcomes ProcReader models are all there are: with the fields of a
\* kernel from 3.5 on, either everything is stored or the state and at most three
\* numbers, from the name itself.
THEOREM OutcomesAreAll == Spec => []OutcomesOfProcReader
<1>1. IInv => OutcomesOfProcReader
  <2> SUFFICES ASSUME IInv, Done, fields >= 47
               PROVE  \/ ~Warned /\ OneWord
                      \/ /\ Warned /\ ~OneWord
                         /\ Stored \in {{"state"}, {"state", "ppid"}, {"state", "ppid", "procgid"},
                                        {"state", "ppid", "procgid", "device"}}
                         /\ \A t \in Stored : info[t] = 2
    BY DEF OutcomesOfProcReader, OneWord
  <2>1. scan = 6 /\ directive = 1 /\ fields \in Nat
    BY TextType DEF Done, IInv, Control
  <2>2. Aligned \/ Stuck
    BY <2>1 DEF IInv, Exhausted, AtState, InName
  <2>3. CASE Aligned
    <3>1. Number = 48
      BY <2>1 DEF Number, Before
    <3>2. OneWord /\ fscanResult = 18
      BY <2>1, <2>3, <3>1 DEF Aligned, StoredBefore
    <3> QED
      BY <3>2 DEF Warned
  <2>4. CASE Stuck
    <3>1. Warned /\ ~OneWord
      BY <2>4 DEF Stuck, Warned
    <3>2. PICK d \in 4..11 : info = NameFields(d)
      BY <2>4 DEF Stuck
    <3>3. Stored = {t \in Targets : ReadFrom[t] < d} /\ \A t \in Stored : info[t] = 2
      <4> HIDE DEF Targets, ReadFrom
      <4> QED
        BY <3>2 DEF Stored, NameFields
    <3>4. {t \in Targets : ReadFrom[t] < d} =
            CASE d = 4 -> {"state"}
              [] d = 5 -> {"state", "ppid"}
              [] d \in 6..7 -> {"state", "ppid", "procgid"}
              [] OTHER -> {"state", "ppid", "procgid", "device"}
      BY <3>2 DEF Targets, ReadFrom
    <3> QED
      BY <3>1, <3>2, <3>3, <3>4
  <2> QED
    BY <2>2, <2>3, <2>4
<1> QED
  BY <1>1, Invariance, PTL

=============================================================================
