----------------------------- MODULE Main_proofs -----------------------------
(***************************************************************************)
(* What holds of Main for every command line, and whatever an              *)
(* uninitialized attribID holds.                                           *)
(***************************************************************************)
EXTENDS Main, TLAPS, SequenceTheorems

(***************************************************************************)
(* The inductive invariant.  Main keeps of the options seen so far only    *)
(* what the last of each name asks for; the properties are about all those *)
(* given.                                                                  *)
(***************************************************************************)

Seen == {i \in DOMAIN given : i <= Len(given) - Len(argv)}

\* argv is what is left of the options given.
ArgvIsRest ==
  /\ Len(argv) <= Len(given)
  /\ \A k \in 1..Len(argv) : argv[k] = given[Len(given) - Len(argv) + k]
  /\ pc # "getopt" => argv = << >>

\* The bad flags of one option.
BadIn(option) ==
  {<<option[1], flag>> : flag \in BadFlags(DefaultsOf(option[1]), option[2])}

SeenReported ==
  reported = UNION {BadIn(given[i]) : i \in {k \in Seen : given[k][1] # "?"}}

OpsOf(name) == IF name = "proc" THEN proc_ops ELSE file_ops

\* The last option of a name counts, or the default.
LastCounts ==
  \A name \in {"proc", "file"} :
    \/ /\ \A i \in Seen : given[i][1] # name
       /\ OpsOf(name) = DefaultsOf(name)
    \/ \E i \in Seen : /\ given[i][1] = name
                       /\ OpsOf(name) = given[i][2]
                       /\ \A j \in Seen : given[j][1] = name => j <= i

\* Without a bad flag nothing is refused.
GoodOptions ==
  BadGiven = {} =>
    /\ flagsOkay
    /\ \A name \in {"proc", "file"} : BadFlags(DefaultsOf(name), OpsOf(name)) = {}

\* A reader only runs if its option is not "no".
ReadersAsked ==
  /\ pc \in {"getopt", "choose"} => funcvector = << >>
  /\ \A k \in DOMAIN funcvector :
       funcvector[k] \in {"proc", "file"} => OpsOf(funcvector[k]) # No

IdsOf(options, ops) == {p[2] : p \in {q \in options : q[1] \in Letters(ops)}}

\* The ids collected are those asked for, and have a label.
IdsAsAsked ==
  /\ pc \in {"getopt", "choose"} => procIds = {} /\ fileIds = {}
  /\ BadGiven = {} =>
       /\ procIds \in {{}, {5}, {5} \cup IdsOf(ProcOptions, proc_ops)}
       /\ fileIds \in {{}, IdsOf(FileOptions, file_ops)}
       /\ procIds \cup fileIds \subseteq attributeFlags

PrintedAtEnd == pc = "exit" => printed = Printable

IInv ==
  /\ TypeOK
  /\ ArgvIsRest
  /\ SeenReported
  /\ LastCounts
  /\ GoodOptions
  /\ ReadersAsked
  /\ IdsAsAsked
  /\ PrintedAtEnd
  /\ ThrowNeedsBadFlag

-----------------------------------------------------------------------------
(* The options given. *)

LEMMA GivenType ==
  ASSUME TypeOK
  PROVE  /\ given \in Seq(OptionType) /\ Len(given) \in Nat /\ DOMAIN given = 1..Len(given)
         /\ \A i \in DOMAIN given : given[i] \in OptionType
         /\ argv \in Seq(OptionType) /\ Len(argv) \in Nat /\ DOMAIN argv = 1..Len(argv)
<1>1. given \in Seq(OptionType) /\ argv \in Seq(OptionType)
  BY MainAssumption DEF TypeOK, OptionType
<1> HIDE DEF OptionType
<1> QED
  BY <1>1, LenProperties, ElementOfSeq

LEMMA LettersType == ASSUME NEW ops \in Seq(Characters) PROVE Letters(ops) \subseteq Characters
BY LenProperties, ElementOfSeq DEF Letters

\* The bad flags of the whole command line are those of its options.
LEMMA BadGivenIsBadIn ==
  BadGiven = UNION {BadIn(given[i]) : i \in {k \in DOMAIN given : given[k][1] # "?"}}
<1> DEFINE bad(i) == {<<given[i][1], flag>> : flag \in
                        {f \in Letters(given[i][2]) :
                          given[i][2] # No /\ f \notin Letters(DefaultsOf(given[i][1]))}}
<1>1. ASSUME NEW i PROVE bad(i) = BadIn(given[i])
  <2>1. {f \in Letters(given[i][2]) :
            given[i][2] # No /\ f \notin Letters(DefaultsOf(given[i][1]))}
          = BadFlags(DefaultsOf(given[i][1]), given[i][2])
    BY DEF BadFlags
  <2> QED
    BY <2>1 DEF BadIn
<1>2. BadGiven = UNION {bad(i) : i \in {k \in DOMAIN given : given[k][1] # "?"}}
  BY DEF BadGiven
<1> HIDE DEF bad
<1> QED
  BY <1>1, <1>2

\* When all options have been seen, what is remembered is about all of them.
LEMMA AllSeen ==
  ASSUME IInv, argv = << >>
  PROVE  /\ Seen = DOMAIN given
         /\ reported = BadGiven
<1>1. Seen = DOMAIN given
  <2>1. Len(argv) = 0
    OBVIOUS
  <2> QED
    BY <2>1, GivenType DEF IInv, Seen
<1> QED
  BY <1>1, BadGivenIsBadIn DEF IInv, SeenReported

\* The next option is the first one not seen.
LEMMA NextIsSeen ==
  ASSUME IInv, NEW name, NextOption(name)
  PROVE  \E n \in DOMAIN given :
           /\ given[n] = Head(argv) /\ given[n] \in OptionType /\ given[n][1] = name
           /\ Seen' = Seen \cup {n} /\ \A i \in Seen : i <= n
           /\ argv' \in Seq(OptionType) /\ ArgvIsRest'
<1> DEFINE n == Len(given) - Len(argv) + 1
<1>1. /\ pc = "getopt" /\ argv # << >> /\ Head(argv)[1] = name /\ argv' = Tail(argv)
      /\ given' = given /\ pc' = pc
  BY DEF NextOption
<1>2. /\ given \in Seq(OptionType) /\ Len(given) \in Nat /\ DOMAIN given = 1..Len(given)
      /\ \A i \in DOMAIN given : given[i] \in OptionType
      /\ argv \in Seq(OptionType) /\ Len(argv) \in Nat
  BY GivenType DEF IInv
<1> HIDE DEF OptionType
<1>3. Len(argv) >= 1
  BY <1>1, <1>2, EmptySeq
<1>4. /\ argv' \in Seq(OptionType) /\ Len(argv') = Len(argv) - 1
      /\ \A k \in 1..Len(argv') : argv'[k] = argv[k + 1]
  BY <1>1, <1>2, HeadTailProperties
<1>5. Len(argv) <= Len(given) /\ \A k \in 1..Len(argv) : argv[k] = given[Len(given) - Len(argv) + k]
  BY DEF IInv, ArgvIsRest
<1>6. Head(argv) = argv[1]
  OBVIOUS
<1>7. n \in DOMAIN given /\ given[n] = Head(argv)
  BY <1>2, <1>3, <1>5, <1>6
<1>8. Seen' = Seen \cup {n} /\ \A i \in Seen : i <= n
  BY <1>1, <1>2, <1>3, <1>4, <1>5 DEF Seen
<1>9. ArgvIsRest'
  <2>1. Len(argv') <= Len(given')
    BY <1>1, <1>2, <1>3, <1>4, <1>5
  <2>2. ASSUME NEW k \in 1..Len(argv') PROVE argv'[k] = given'[Len(given') - Len(argv') + k]
    <3>1. k + 1 \in 1..Len(argv) /\ Len(given) - Len(argv) + (k + 1) = Len(given) - Len(argv') + k
      BY <1>2, <1>3, <1>4
    <3>2. argv[k + 1] = given[Len(given) - Len(argv) + (k + 1)]
      BY <1>5, <3>1
    <3> QED
      BY <1>1, <1>4, <3>1, <3>2
  <2> QED
    BY <1>1, <2>1, <2>2 DEF ArgvIsRest
<1> QED
  BY <1>1, <1>2, <1>4, <1>7, <1>8, <1>9

\* Whatever else changes, these are about the command line alone.
LEMMA OptionsUnchanged ==
  ASSUME UNCHANGED <<argv, given, flagsOkay, proc_ops, file_ops, reported>>
  PROVE  /\ UNCHANGED <<Seen, BadGiven>>
         /\ SeenReported => SeenReported'
         /\ LastCounts => LastCounts'
         /\ GoodOptions => GoodOptions'
         /\ \A name \in {"proc", "file"} : OpsOf(name)' = OpsOf(name)
<1>1. Seen' = Seen
  BY DEF Seen
<1>2. BadGiven' = BadGiven
  BY DEF BadGiven, Letters, DefaultsOf, PROC_OPTS_DEFAULT, FILESTAT_OPTS_DEFAULT, No
<1>3. \A name \in {"proc", "file"} : OpsOf(name)' = OpsOf(name)
  BY DEF OpsOf
<1>4. SeenReported => SeenReported'
  BY <1>1 DEF SeenReported
<1>5. LastCounts => LastCounts'
  BY <1>1, <1>3 DEF LastCounts
<1>6. GoodOptions => GoodOptions'
  BY <1>2, <1>3 DEF GoodOptions
<1> QED
  BY <1>1, <1>2, <1>3, <1>4, <1>5, <1>6

-----------------------------------------------------------------------------
(* The steps. *)

\* checkOptions, for either option.
LEMMA CheckStep ==
  ASSUME IInv, CheckProc \/ CheckFile
  PROVE  IInv'
<1> DEFINE ops == Head(argv)[2]
           badOf(name) == BadFlags(DefaultsOf(name), ops)
<1>1. PICK name \in {"proc", "file"} :
        /\ NextOption(name) /\ Head(argv)[1] = name
        /\ OpsOf(name)' = ops
        /\ \A other \in {"proc", "file"} : other # name => OpsOf(other)' = OpsOf(other)
        /\ flagsOkay' = (badOf(name) = {})
        /\ reported' = reported \cup {<<name, flag>> : flag \in badOf(name)}
        /\ UNCHANGED <<pc, given, funcvector, entryVars, printed>>
  <2>1. CASE CheckProc
    <3>1. NextOption("proc") /\ Head(argv)[1] = "proc"
      BY <2>1 DEF CheckProc, NextOption
    <3>2. /\ proc_ops' = ops /\ file_ops' = file_ops
          /\ flagsOkay' = (badOf("proc") = {})
          /\ reported' = reported \cup {<<"proc", flag>> : flag \in badOf("proc")}
      BY <2>1 DEF CheckProc, DefaultsOf
    <3>3. UNCHANGED <<pc, given, funcvector, entryVars, printed>>
      BY <3>1 DEF NextOption
    <3>4. OpsOf("proc")' = proc_ops' /\ OpsOf("file")' = file_ops' /\ OpsOf("file") = file_ops
      BY DEF OpsOf
    <3> HIDE DEF ops, badOf
    <3> QED
      BY <3>1, <3>2, <3>3, <3>4
  <2>2. CASE CheckFile
    <3>1. NextOption("file") /\ Head(argv)[1] = "file"
      BY <2>2 DEF CheckFile, NextOption
    <3>2. /\ file_ops' = ops /\ proc_ops' = proc_ops
          /\ flagsOkay' = (badOf("file") = {})
          /\ reported' = reported \cup {<<"file", flag>> : flag \in badOf("file")}
      BY <2>2 DEF CheckFile, DefaultsOf
    <3>3. UNCHANGED <<pc, given, funcvector, entryVars, printed>>
      BY <3>1 DEF NextOption
    <3>4. OpsOf("file")' = file_ops' /\ OpsOf("proc")' = proc_ops' /\ OpsOf("proc") = proc_ops
      BY DEF OpsOf
    <3> HIDE DEF ops, badOf
    <3> QED
      BY <3>1, <3>2, <3>3, <3>4
  <2> QED
    BY <2>1, <2>2
<1> DEFINE bad == badOf(name)
<1>2. PICK n \in DOMAIN given :
           /\ given[n] = Head(argv) /\ given[n] \in OptionType /\ given[n][1] = name
           /\ Seen' = Seen \cup {n} /\ \A i \in Seen : i <= n
           /\ argv' \in Seq(OptionType) /\ ArgvIsRest'
  BY <1>1, NextIsSeen
<1>3. ops \in Seq(Characters)
  BY <1>2 DEF OptionType
<1>4. bad \subseteq Characters
  BY <1>3, LettersType DEF BadFlags
<1>5. BadIn(Head(argv)) = {<<name, flag>> : flag \in bad}
  BY <1>1 DEF BadIn
<1>6. BadGiven' = BadGiven
  BY <1>1 DEF BadGiven, Letters, DefaultsOf, PROC_OPTS_DEFAULT, FILESTAT_OPTS_DEFAULT, No
<1>7. pc = "getopt" /\ procIds = {} /\ fileIds = {}
  BY <1>1 DEF NextOption, IInv, IdsAsAsked
<1>8. TypeOK'
  <2>1. proc_ops' \in Seq(Characters) /\ file_ops' \in Seq(Characters)
    <3>1. OpsOf("proc")' = proc_ops' /\ OpsOf("file")' = file_ops'
      BY DEF OpsOf
    <3>2. OpsOf("proc") = proc_ops /\ OpsOf("file") = file_ops
      BY DEF OpsOf
    <3> HIDE DEF ops, badOf
    <3> QED
      BY <1>1, <1>3, <3>1, <3>2 DEF IInv, TypeOK
  <2>2. reported' \subseteq {"proc", "file"} \X Characters
    BY <1>1, <1>4, <1>5 DEF IInv, TypeOK
  <2>3. flagsOkay' \in BOOLEAN
    BY <1>1
  <2> QED
    BY <1>1, <1>2, <2>1, <2>2, <2>3 DEF IInv, TypeOK, entryVars, OptionType, AllIds
<1> HIDE DEF ops, badOf, bad
<1>9. SeenReported'
  <2> DEFINE asked(seen) == {k \in seen : given[k][1] # "?"}
  <2>1. asked(Seen') = asked(Seen) \cup {n}
    BY <1>1, <1>2
  <2>2. reported = UNION {BadIn(given[i]) : i \in asked(Seen)}
    BY DEF IInv, SeenReported
  <2> HIDE DEF asked
  <2>3. reported' = UNION {BadIn(given[i]) : i \in asked(Seen')}
    BY <1>1, <1>2, <1>5, <2>1, <2>2 DEF bad
  <2> QED
    BY <1>1, <2>3 DEF SeenReported, asked, BadIn, BadFlags, DefaultsOf, Letters, No,
                      PROC_OPTS_DEFAULT, FILESTAT_OPTS_DEFAULT
<1>10. LastCounts'
  <2> SUFFICES ASSUME NEW other \in {"proc", "file"}
               PROVE  \/ /\ \A i \in Seen' : given[i][1] # other
                         /\ OpsOf(other)' = DefaultsOf(other)
                      \/ \E i \in Seen' : /\ given[i][1] = other
                                          /\ OpsOf(other)' = given[i][2]
                                          /\ \A j \in Seen' : given[j][1] = other => j <= i
    BY <1>1 DEF LastCounts, DefaultsOf, PROC_OPTS_DEFAULT, FILESTAT_OPTS_DEFAULT
  <2>1. CASE other = name
    <3>1. n \in Nat
      BY GivenType DEF IInv
    <3> QED
      <4>1. given[n][1] = other /\ OpsOf(other)' = given[n][2] /\ n \in Seen'
        BY <1>1, <1>2, <2>1 DEF ops
      <4>2. \A j \in Seen' : j <= n
        BY <1>2, <3>1
      <4> QED
        BY <4>1, <4>2
  <2>2. CASE other # name
    <3>1. OpsOf(other)' = OpsOf(other) /\ given[n][1] # other
      BY <1>1, <1>2, <2>2
    <3>2. \/ /\ \A i \in Seen : given[i][1] # other
             /\ OpsOf(other) = DefaultsOf(other)
          \/ \E i \in Seen : /\ given[i][1] = other
                             /\ OpsOf(other) = given[i][2]
                             /\ \A j \in Seen : given[j][1] = other => j <= i
      BY DEF IInv, LastCounts
    <3> QED
      BY <1>2, <3>1, <3>2
  <2> QED
    BY <2>1, <2>2
<1>11. GoodOptions'
  <2> SUFFICES ASSUME BadGiven = {}
               PROVE  flagsOkay' /\ \A other \in {"proc", "file"} : BadFlags(DefaultsOf(other), OpsOf(other)') = {}
    BY <1>6 DEF GoodOptions, DefaultsOf, PROC_OPTS_DEFAULT, FILESTAT_OPTS_DEFAULT, BadFlags, Letters, No
  <2>1. BadIn(Head(argv)) = {}
    BY <1>1, <1>2, BadGivenIsBadIn
  <2>2. bad = {}
    BY <1>5, <2>1
  <2>3. \A other \in {"proc", "file"} : other # name => BadFlags(DefaultsOf(other), OpsOf(other)) = {}
    BY DEF IInv, GoodOptions
  <2>4. \A other \in {"proc", "file"} : BadFlags(DefaultsOf(other), OpsOf(other)') = {}
    <3> SUFFICES ASSUME NEW other \in {"proc", "file"}
                 PROVE  BadFlags(DefaultsOf(other), OpsOf(other)') = {}
      OBVIOUS
    <3>1. CASE other = name
      BY <1>1, <2>2, <3>1 DEF bad, badOf
    <3>2. CASE other # name
      <4>1. OpsOf(other)' = OpsOf(other)
        BY <1>1, <3>2
      <4> QED
        BY <2>3, <3>2, <4>1
    <3> QED
      BY <3>1, <3>2
  <2>5. flagsOkay'
    BY <1>1, <2>2 DEF bad
  <2> QED
    BY <2>4, <2>5
<1>12. ReadersAsked'
  <2>1. funcvector' = << >>
    BY <1>1, <1>7 DEF IInv, ReadersAsked
  <2> QED
    BY <2>1 DEF ReadersAsked
<1>13. IdsAsAsked'
  BY <1>1, <1>7 DEF IdsAsAsked, entryVars
<1>14. PrintedAtEnd' /\ ThrowNeedsBadFlag'
  BY <1>1, <1>7 DEF PrintedAtEnd, ThrowNeedsBadFlag
<1> QED
  BY <1>2, <1>8, <1>9, <1>10, <1>11, <1>12, <1>13, <1>14 DEF IInv

LEMMA SkipStep == ASSUME IInv, SkipUnknown PROVE IInv'
<1>1. /\ NextOption("?")
      /\ UNCHANGED <<pc, given, flagsOkay, proc_ops, file_ops, reported, funcvector, entryVars, printed>>
  BY DEF SkipUnknown, NextOption
<1>2. PICK n \in DOMAIN given :
           /\ given[n] = Head(argv) /\ given[n] \in OptionType /\ given[n][1] = "?"
           /\ Seen' = Seen \cup {n} /\ \A i \in Seen : i <= n
           /\ argv' \in Seq(OptionType) /\ ArgvIsRest'
  BY <1>1, NextIsSeen
<1>3. pc = "getopt"
  BY <1>1 DEF NextOption
<1>4. TypeOK'
  BY <1>1, <1>2 DEF IInv, TypeOK, entryVars, OptionType, AllIds
<1>5. SeenReported'
  <2>1. {k \in Seen' : given[k][1] # "?"} = {k \in Seen : given[k][1] # "?"}
    BY <1>2
  <2> QED
    BY <1>1, <2>1 DEF IInv, SeenReported, BadIn, BadFlags, DefaultsOf, Letters, No,
                      PROC_OPTS_DEFAULT, FILESTAT_OPTS_DEFAULT
<1>6. \A name \in {"proc", "file"} : OpsOf(name)' = OpsOf(name)
  BY <1>1 DEF OpsOf
<1>7. LastCounts'
  <2> SUFFICES ASSUME NEW other \in {"proc", "file"}
               PROVE  \/ /\ \A i \in Seen' : given[i][1] # other
                         /\ OpsOf(other)' = DefaultsOf(other)
                      \/ \E i \in Seen' : /\ given[i][1] = other
                                          /\ OpsOf(other)' = given[i][2]
                                          /\ \A j \in Seen' : given[j][1] = other => j <= i
    BY <1>1 DEF LastCounts, DefaultsOf, PROC_OPTS_DEFAULT, FILESTAT_OPTS_DEFAULT
  <2>1. \/ /\ \A i \in Seen : given[i][1] # other
           /\ OpsOf(other) = DefaultsOf(other)
        \/ \E i \in Seen : /\ given[i][1] = other
                           /\ OpsOf(other) = given[i][2]
                           /\ \A j \in Seen : given[j][1] = other => j <= i
    BY DEF IInv, LastCounts
  <2>2. given[n][1] # other
    BY <1>2
  <2> QED
    BY <1>2, <1>6, <2>1, <2>2
<1>8. GoodOptions'
  <2>1. BadGiven' = BadGiven
    BY <1>1 DEF BadGiven, Letters, DefaultsOf, PROC_OPTS_DEFAULT, FILESTAT_OPTS_DEFAULT, No
  <2> QED
    BY <1>1, <1>6, <2>1 DEF IInv, GoodOptions, DefaultsOf, PROC_OPTS_DEFAULT, FILESTAT_OPTS_DEFAULT,
                            BadFlags, Letters, No
<1>9. ReadersAsked' /\ IdsAsAsked' /\ PrintedAtEnd' /\ ThrowNeedsBadFlag'
  <2>1. funcvector' = << >> /\ procIds' = {} /\ fileIds' = {} /\ pc' = "getopt"
    BY <1>1, <1>3 DEF IInv, ReadersAsked, IdsAsAsked, entryVars
  <2> QED
    BY <2>1 DEF ReadersAsked, IdsAsAsked, PrintedAtEnd, ThrowNeedsBadFlag
<1> QED
  BY <1>2, <1>4, <1>5, <1>7, <1>8, <1>9 DEF IInv

(***************************************************************************)
(* After the options have been read they do not change: of the invariant,  *)
(* what is left is about the readers and the entries.                      *)
(***************************************************************************)
LEMMA OptionsDone ==
  ASSUME IInv, UNCHANGED optionVars, pc' # "getopt", argv = << >>
  PROVE  ArgvIsRest' /\ SeenReported' /\ LastCounts' /\ GoodOptions' /\ UNCHANGED BadGiven
<1>1. UNCHANGED <<argv, given, flagsOkay, proc_ops, file_ops, reported>>
  BY DEF optionVars
<1>2. ArgvIsRest'
  BY <1>1 DEF IInv, ArgvIsRest
<1> QED
  BY <1>1, <1>2, OptionsUnchanged DEF IInv

LEMMA LastOptionStep == ASSUME IInv, LastOption PROVE IInv'
<1>1. /\ pc = "getopt" /\ argv = << >> /\ pc' = "choose"
      /\ UNCHANGED <<optionVars, funcvector, entryVars, printed>>
  BY DEF LastOption
<1>2. ArgvIsRest' /\ SeenReported' /\ LastCounts' /\ GoodOptions'
  BY <1>1, OptionsDone
<1>3. TypeOK'
  BY <1>1 DEF IInv, TypeOK, optionVars, entryVars, OptionType, AllIds
<1>4. funcvector' = << >> /\ procIds' = {} /\ fileIds' = {}
  BY <1>1 DEF IInv, ReadersAsked, IdsAsAsked, entryVars
<1>5. ReadersAsked' /\ IdsAsAsked' /\ PrintedAtEnd' /\ ThrowNeedsBadFlag'
  BY <1>1, <1>4 DEF ReadersAsked, IdsAsAsked, PrintedAtEnd, ThrowNeedsBadFlag
<1> QED
  BY <1>2, <1>3, <1>5 DEF IInv

LEMMA ReadersType ==
  /\ Readers \in Seq({"lsof", "proc", "file"})
  /\ \A k \in DOMAIN Readers : Readers[k] \in {"proc", "file"} => OpsOf(Readers[k]) # No
<1> DEFINE A == {"lsof", "proc", "file"}
           asked == {r \in A : r \in {"proc", "file"} => OpsOf(r) # No}
           second == IF proc_ops # No THEN <<"proc">> ELSE << >>
           third == IF file_ops # No THEN <<"file">> ELSE << >>
<1>1. <<"lsof">> \in Seq(asked)
  <2>1. "lsof" \in asked
    OBVIOUS
  <2> HIDE DEF asked
  <2> QED
    BY <2>1
<1>2. second \in Seq(asked)
  <2>1. proc_ops # No => "proc" \in asked
    BY DEF OpsOf
  <2> HIDE DEF asked
  <2> QED
    BY <2>1, EmptySeq
<1>3. third \in Seq(asked)
  <2>1. file_ops # No => "file" \in asked
    BY DEF OpsOf
  <2> HIDE DEF asked
  <2> QED
    BY <2>1, EmptySeq
<1>4. Readers = (<<"lsof">> \o second) \o third
  BY DEF Readers
<1>5. asked \subseteq A
  OBVIOUS
<1> HIDE DEF asked, second, third
<1>6. Readers \in Seq(asked)
  <2>1. <<"lsof">> \o second \in Seq(asked)
    BY <1>1, <1>2, ConcatProperties
  <2> QED
    BY <1>3, <1>4, <2>1, ConcatProperties
<1>7. \A k \in DOMAIN Readers : Readers[k] \in asked
  <2>1. DOMAIN Readers = 1..Len(Readers)
    BY <1>6, LenProperties
  <2> QED
    BY <1>6, <2>1, ElementOfSeq
<1>8. Readers \in Seq(A)
  <2> HIDE DEF A
  <2> QED
    BY <1>5, <1>6
<1> QED
  BY <1>7, <1>8 DEF asked

LEMMA ChooseStep == ASSUME IInv, ChooseReaders PROVE IInv'
<1>1. /\ pc = "choose" /\ pc' = "build"
      /\ funcvector' \in {Readers, << >>}
      /\ UNCHANGED <<optionVars, entryVars, printed>>
  BY DEF ChooseReaders
<1>2. ArgvIsRest' /\ SeenReported' /\ LastCounts' /\ GoodOptions' /\ UNCHANGED BadGiven
  <2>1. argv = << >>
    BY <1>1 DEF IInv, ArgvIsRest
  <2> QED
    BY <1>1, <2>1, OptionsDone
<1>3. TypeOK'
  <2>1. funcvector' \in Seq({"lsof", "proc", "file"})
    BY <1>1, ReadersType, EmptySeq
  <2> QED
    BY <1>1, <2>1 DEF IInv, TypeOK, optionVars, entryVars, OptionType, AllIds
<1>4. ReadersAsked'
  <2>1. \A name \in {"proc", "file"} : OpsOf(name)' = OpsOf(name)
    BY <1>1 DEF OpsOf, optionVars
  <2>2. \A k \in DOMAIN funcvector' : funcvector'[k] \in {"proc", "file"} => OpsOf(funcvector'[k]) # No
    BY <1>1, ReadersType
  <2> QED
    BY <1>1, <2>1, <2>2 DEF ReadersAsked, No, OpsOf, optionVars
<1>5. procIds' = {} /\ fileIds' = {}
  BY <1>1 DEF IInv, IdsAsAsked, entryVars
<1>6. IdsAsAsked' /\ PrintedAtEnd' /\ ThrowNeedsBadFlag'
  BY <1>1, <1>5 DEF IdsAsAsked, PrintedAtEnd, ThrowNeedsBadFlag
<1> QED
  BY <1>2, <1>3, <1>4, <1>6 DEF IInv

-----------------------------------------------------------------------------
(* The readers. *)

\* The three tables agree: the ids of the options, and the labels.
LEMMA Tables ==
  /\ {p[2] : p \in ProcOptions} \subseteq ProcLabels
  /\ {p[2] : p \in FileOptions} \subseteq FileLabels
  /\ Letters(PROC_OPTS_DEFAULT) \subseteq {p[1] : p \in ProcOptions}
  /\ Letters(FILESTAT_OPTS_DEFAULT) \subseteq {p[1] : p \in FileOptions}
<1>1. {p[2] : p \in ProcOptions} \subseteq ProcLabels
  BY DEF ProcOptions, ProcLabels
<1>2. {p[2] : p \in FileOptions} \subseteq FileLabels
  BY DEF FileOptions, FileLabels
<1>3. Letters(PROC_OPTS_DEFAULT) \subseteq {p[1] : p \in ProcOptions}
  <2>1. Letters(PROC_OPTS_DEFAULT) \subseteq
          {"P", "n", "U", "q", "M", "d", "u", "G", "g", "e", "s", "v", "r", "T", "D", "S", "i", "c"}
    BY DEF Letters, PROC_OPTS_DEFAULT
  <2>2. {"P", "n", "U", "q", "M", "d", "u", "G", "g", "e", "s", "v", "r", "T", "D", "S", "i", "c"}
          \subseteq {p[1] : p \in ProcOptions}
    BY DEF ProcOptions
  <2> QED
    BY <2>1, <2>2
<1>4. Letters(FILESTAT_OPTS_DEFAULT) \subseteq {p[1] : p \in FileOptions}
  <2>1. Letters(FILESTAT_OPTS_DEFAULT) \subseteq
          {"n", "i", "u", "g", "M", "a", "m", "c", "d", "s", "p"}
    BY DEF Letters, FILESTAT_OPTS_DEFAULT
  <2>2. {"n", "i", "u", "g", "M", "a", "m", "c", "d", "s", "p"}
          \subseteq {p[1] : p \in FileOptions}
    BY DEF FileOptions
  <2> QED
    BY <2>1, <2>2
<1> QED
  BY <1>1, <1>2, <1>3, <1>4

LEMMA LabelsType ==
  /\ LsofLabels \subseteq AllIds
  /\ ProcLabels \subseteq AllIds
  /\ FileLabels \subseteq AllIds
<1>1. ProcLabels \subseteq {p[2] : p \in ProcOptions}
  BY DEF ProcLabels, ProcOptions
<1>2. FileLabels \subseteq {p[2] : p \in FileOptions} \cup LsofLabels
  BY DEF FileLabels, FileOptions, LsofLabels
<1>3. {p[2] : p \in ProcOptions \cup FileOptions} =
        {p[2] : p \in ProcOptions} \cup {p[2] : p \in FileOptions}
  OBVIOUS
<1> QED
  BY <1>1, <1>2, <1>3 DEF AllIds

\* Without bad letters an uninitialized id is never used.
LEMMA IdSetsType ==
  ASSUME NEW options, NEW ops, NEW ids \in IdSets(options, ops)
  PROVE  /\ ids \subseteq {p[2] : p \in options} \cup WildIds
         /\ BadLetters(options, ops) = {} => ids = IdsOf(options, ops)
<1> DEFINE known == {p[2] : p \in {q \in options : q[1] \in Letters(ops)}}
<1>1. PICK wild \in [BadLetters(options, ops) -> WildIds] :
        ids = known \cup {wild[letter] : letter \in DOMAIN wild}
  BY DEF IdSets
<1>2. known \subseteq {p[2] : p \in options} /\ known = IdsOf(options, ops)
  BY DEF IdsOf
<1>3. {wild[letter] : letter \in DOMAIN wild} \subseteq WildIds
  OBVIOUS
<1>4. BadLetters(options, ops) = {} => {wild[letter] : letter \in DOMAIN wild} = {}
  OBVIOUS
<1> HIDE DEF known
<1> QED
  BY <1>1, <1>2, <1>3, <1>4

LEMMA NoBadLetters ==
  ASSUME IInv, BadGiven = {}
  PROVE  /\ proc_ops # No => BadLetters(ProcOptions, proc_ops) = {}
         /\ file_ops # No => BadLetters(FileOptions, file_ops) = {}
<1>1. /\ proc_ops # No => Letters(proc_ops) \subseteq Letters(PROC_OPTS_DEFAULT)
      /\ file_ops # No => Letters(file_ops) \subseteq Letters(FILESTAT_OPTS_DEFAULT)
  <2>1. BadFlags(DefaultsOf("proc"), OpsOf("proc")) = {} /\ BadFlags(DefaultsOf("file"), OpsOf("file")) = {}
    BY DEF IInv, GoodOptions
  <2>2. /\ DefaultsOf("proc") = PROC_OPTS_DEFAULT /\ OpsOf("proc") = proc_ops
        /\ DefaultsOf("file") = FILESTAT_OPTS_DEFAULT /\ OpsOf("file") = file_ops
    BY DEF DefaultsOf, OpsOf
  <2> QED
    BY <2>1, <2>2 DEF BadFlags
<1> QED
  BY <1>1, Tables DEF BadLetters

\* A reader is taken off the vector and adds labels, ids that have one, and no
\* others than those asked for.
LEMMA ReadStep ==
  ASSUME IInv, NEW reader, NEW labels, ReadNext(reader, labels), labels \subseteq AllIds,
         procIds' \subseteq AllIds \cup WildIds, fileIds' \subseteq AllIds \cup WildIds,
         BadGiven = {} =>
           /\ procIds' \in {{}, {5}, {5} \cup IdsOf(ProcOptions, proc_ops)}
           /\ fileIds' \in {{}, IdsOf(FileOptions, file_ops)}
           /\ procIds' \cup fileIds' \subseteq procIds \cup fileIds \cup labels
  PROVE  IInv'
<1>1. /\ pc = "build" /\ pc' = "build" /\ funcvector # << >> /\ funcvector' = Tail(funcvector)
      /\ attributeFlags' = attributeFlags \cup labels
      /\ UNCHANGED <<optionVars, printed>>
  BY DEF ReadNext
<1>2. ArgvIsRest' /\ SeenReported' /\ LastCounts' /\ GoodOptions' /\ UNCHANGED BadGiven
  <2>1. argv = << >>
    BY <1>1 DEF IInv, ArgvIsRest
  <2> QED
    BY <1>1, <2>1, OptionsDone
<1> DEFINE A == {"lsof", "proc", "file"}
<1>3. funcvector \in Seq(A)
  BY DEF IInv, TypeOK
<1> HIDE DEF A
<1>4. /\ funcvector' \in Seq(A) /\ Len(funcvector') = Len(funcvector) - 1
      /\ \A k \in 1..Len(funcvector') : funcvector'[k] = funcvector[k + 1]
  BY <1>1, <1>3, HeadTailProperties
<1>5. TypeOK'
  BY <1>1, <1>4 DEF IInv, TypeOK, optionVars, OptionType, AllIds, A
<1>6. ReadersAsked'
  <2>1. Len(funcvector) \in Nat /\ DOMAIN funcvector = 1..Len(funcvector)
        /\ DOMAIN funcvector' = 1..Len(funcvector')
    BY <1>3, <1>4, LenProperties
  <2>2. ASSUME NEW k \in DOMAIN funcvector', funcvector'[k] \in {"proc", "file"}
        PROVE  OpsOf(funcvector'[k]) # No
    <3>1. k + 1 \in DOMAIN funcvector /\ funcvector'[k] = funcvector[k + 1]
      BY <1>4, <2>1
    <3> QED
      BY <2>2, <3>1 DEF IInv, ReadersAsked
  <2> QED
    BY <1>1, <2>2 DEF ReadersAsked, OpsOf, optionVars, No
<1>7. IdsAsAsked'
  <2> SUFFICES ASSUME BadGiven = {}
               PROVE  /\ procIds' \in {{}, {5}, {5} \cup IdsOf(ProcOptions, proc_ops')}
                      /\ fileIds' \in {{}, IdsOf(FileOptions, file_ops')}
                      /\ procIds' \cup fileIds' \subseteq attributeFlags'
    BY <1>1, <1>2 DEF IdsAsAsked, IdsOf, Letters, ProcOptions, FileOptions
  <2>1. procIds \cup fileIds \subseteq attributeFlags
    BY DEF IInv, IdsAsAsked
  <2> QED
    BY <1>1, <2>1 DEF optionVars
<1>8. PrintedAtEnd' /\ ThrowNeedsBadFlag'
  BY <1>1 DEF PrintedAtEnd, ThrowNeedsBadFlag
<1> QED
  BY <1>2, <1>5, <1>6, <1>7, <1>8 DEF IInv

LEMMA ReadLsofStep == ASSUME IInv, ReadLsof PROVE IInv'
<1>1. ReadNext("lsof", LsofLabels) /\ procIds' \in {{}, {5}} /\ fileIds' = fileIds
  BY DEF ReadLsof
<1>2. procIds' \subseteq LsofLabels /\ LsofLabels \subseteq AllIds
  BY <1>1, LabelsType DEF LsofLabels
<1>3. fileIds \subseteq AllIds \cup WildIds
  BY DEF IInv, TypeOK
<1>4. BadGiven = {} => fileIds \in {{}, IdsOf(FileOptions, file_ops)}
  BY DEF IInv, IdsAsAsked
<1> QED
  BY <1>1, <1>2, <1>3, <1>4, ReadStep

LEMMA ReadProcStep == ASSUME IInv, ReadProc PROVE IInv'
<1>1. ReadNext("proc", ProcLabels) /\ fileIds' = fileIds
  BY DEF ReadProc
<1>2. proc_ops # No
  <2>1. funcvector # << >> /\ Head(funcvector) = "proc" /\ funcvector \in Seq({"lsof", "proc", "file"})
    BY <1>1 DEF ReadNext, IInv, TypeOK
  <2>2. 1 \in DOMAIN funcvector /\ funcvector[1] = "proc"
    BY <2>1
  <2> QED
    BY <2>2 DEF IInv, ReadersAsked, OpsOf
<1>3. /\ procIds \subseteq AllIds \cup WildIds /\ fileIds \subseteq AllIds \cup WildIds
      /\ BadGiven = {} => /\ procIds \in {{}, {5}, {5} \cup IdsOf(ProcOptions, proc_ops)}
                          /\ fileIds \in {{}, IdsOf(FileOptions, file_ops)}
  BY DEF IInv, TypeOK, IdsAsAsked
<1>4. ProcLabels \subseteq AllIds
  BY LabelsType
<1>5. CASE UNCHANGED procIds
  BY <1>1, <1>3, <1>4, <1>5, ReadStep
<1>6. CASE procIds # {} /\ \E ids \in IdSets(ProcOptions, proc_ops) : procIds' = procIds \cup ids
  <2>1. PICK ids \in IdSets(ProcOptions, proc_ops) : procIds' = procIds \cup ids
    BY <1>6
  <2>2. ids \subseteq {p[2] : p \in ProcOptions} \cup WildIds
    BY IdSetsType
  <2>3. {p[2] : p \in ProcOptions} \subseteq ProcLabels
    BY Tables
  <2>4. procIds' \subseteq AllIds \cup WildIds
    BY <1>3, <1>4, <2>1, <2>2, <2>3
  <2>5. ASSUME BadGiven = {}
        PROVE  /\ procIds' \in {{}, {5}, {5} \cup IdsOf(ProcOptions, proc_ops)}
               /\ procIds' \subseteq procIds \cup ProcLabels
    <3>1. ids = IdsOf(ProcOptions, proc_ops)
      BY <1>2, <2>5, IdSetsType, NoBadLetters
    <3>2. IdsOf(ProcOptions, proc_ops) \subseteq {p[2] : p \in ProcOptions}
      BY DEF IdsOf
    <3>3. procIds \in {{5}, {5} \cup IdsOf(ProcOptions, proc_ops)}
      BY <1>3, <1>6, <2>5
    <3> HIDE DEF IdsOf
    <3>4. procIds' = {5} \cup IdsOf(ProcOptions, proc_ops)
      BY <2>1, <3>1, <3>3
    <3> QED
      BY <2>1, <2>3, <3>1, <3>2, <3>4
  <2> QED
    BY <1>1, <1>3, <1>4, <2>4, <2>5, ReadStep
<1> QED
  BY <1>5, <1>6 DEF ReadProc

LEMMA ReadFileStep == ASSUME IInv, ReadFile PROVE IInv'
<1>1. ReadNext("file", FileLabels) /\ procIds' = procIds
  BY DEF ReadFile
<1>2. file_ops # No
  <2>1. funcvector # << >> /\ Head(funcvector) = "file" /\ funcvector \in Seq({"lsof", "proc", "file"})
    BY <1>1 DEF ReadNext, IInv, TypeOK
  <2>2. 1 \in DOMAIN funcvector /\ funcvector[1] = "file"
    BY <2>1
  <2> QED
    BY <2>2 DEF IInv, ReadersAsked, OpsOf
<1>3. /\ procIds \subseteq AllIds \cup WildIds /\ fileIds \subseteq AllIds \cup WildIds
      /\ BadGiven = {} => /\ procIds \in {{}, {5}, {5} \cup IdsOf(ProcOptions, proc_ops)}
                          /\ fileIds \in {{}, IdsOf(FileOptions, file_ops)}
  BY DEF IInv, TypeOK, IdsAsAsked
<1>4. FileLabels \subseteq AllIds
  BY LabelsType
<1>5. CASE UNCHANGED fileIds
  BY <1>1, <1>3, <1>4, <1>5, ReadStep
<1>6. CASE \E ids \in IdSets(FileOptions, file_ops) : fileIds' = ids
  <2>1. fileIds' \in IdSets(FileOptions, file_ops)
    BY <1>6
  <2>2. fileIds' \subseteq {p[2] : p \in FileOptions} \cup WildIds
    BY <2>1, IdSetsType
  <2>3. {p[2] : p \in FileOptions} \subseteq FileLabels
    BY Tables
  <2>4. fileIds' \subseteq AllIds \cup WildIds
    BY <1>4, <2>2, <2>3
  <2>5. ASSUME BadGiven = {}
        PROVE  fileIds' = IdsOf(FileOptions, file_ops) /\ fileIds' \subseteq FileLabels
    <3>1. fileIds' = IdsOf(FileOptions, file_ops)
      BY <1>2, <2>1, <2>5, IdSetsType, NoBadLetters
    <3>2. IdsOf(FileOptions, file_ops) \subseteq {p[2] : p \in FileOptions}
      BY DEF IdsOf
    <3> QED
      BY <2>3, <3>1, <3>2
  <2> QED
    BY <1>1, <1>3, <1>4, <2>4, <2>5, ReadStep
<1> QED
  BY <1>5, <1>6 DEF ReadFile

LEMMA FlattenStep == ASSUME IInv, Flatten PROVE IInv'
<1>1. /\ pc = "build" /\ pc' = "print" /\ funcvector = << >>
      /\ UNCHANGED <<optionVars, funcvector, entryVars, printed>>
  BY DEF Flatten
<1>2. ArgvIsRest' /\ SeenReported' /\ LastCounts' /\ GoodOptions' /\ UNCHANGED BadGiven
  <2>1. argv = << >>
    BY <1>1 DEF IInv, ArgvIsRest
  <2> QED
    BY <1>1, <2>1, OptionsDone
<1>3. TypeOK'
  BY <1>1 DEF IInv, TypeOK, optionVars, entryVars, OptionType, AllIds
<1>4. IdsAsAsked'
  BY <1>1, <1>2 DEF IInv, IdsAsAsked, IdsOf, Letters, optionVars, entryVars, ProcOptions, FileOptions
<1>5. ReadersAsked' /\ PrintedAtEnd' /\ ThrowNeedsBadFlag'
  BY <1>1 DEF ReadersAsked, PrintedAtEnd, ThrowNeedsBadFlag
<1> QED
  BY <1>2, <1>3, <1>4, <1>5 DEF IInv

-----------------------------------------------------------------------------
(* Printing. *)

LEMMA PrintableType ==
  ASSUME TypeOK
  PROVE  /\ Printable \subseteq {"proc", "file"} \X SUBSET (AllIds \cup WildIds)
         /\ \A item \in Printable : item[2] \subseteq procIds \cup fileIds
<1>1. Printable \subseteq {<<"proc", procIds>>, <<"file", fileIds>>}
  BY DEF Printable
<1>2. procIds \in SUBSET (AllIds \cup WildIds) /\ fileIds \in SUBSET (AllIds \cup WildIds)
  BY DEF TypeOK
<1> QED
  BY <1>1, <1>2

\* Printing, and being at the end, leave the options and the entries alone.
LEMMA EntriesUnchanged ==
  ASSUME IInv, UNCHANGED <<optionVars, funcvector, entryVars>>, pc \notin {"getopt", "choose"},
         pc' \notin {"getopt", "choose"}
  PROVE  /\ ArgvIsRest' /\ SeenReported' /\ LastCounts' /\ GoodOptions' /\ UNCHANGED BadGiven
         /\ ReadersAsked' /\ IdsAsAsked' /\ UNCHANGED Printable
<1>1. ArgvIsRest' /\ SeenReported' /\ LastCounts' /\ GoodOptions' /\ UNCHANGED BadGiven
  <2>1. argv = << >>
    BY DEF IInv, ArgvIsRest
  <2> QED
    BY <2>1, OptionsDone
<1>2. UNCHANGED <<flagsOkay, proc_ops, file_ops, funcvector, attributeFlags, procIds, fileIds>>
  BY DEF optionVars, entryVars
<1>3. IdsAsAsked'
  BY <1>1, <1>2 DEF IInv, IdsAsAsked, IdsOf, Letters, ProcOptions, FileOptions
<1>4. ReadersAsked'
  BY <1>2 DEF IInv, ReadersAsked, OpsOf, No
<1>5. UNCHANGED Printable
  BY <1>2 DEF Printable, No
<1> QED
  BY <1>1, <1>3, <1>4, <1>5

LEMMA PrintStep == ASSUME IInv, PrintFiles \/ PrintThrows PROVE IInv'
<1>1. /\ pc = "print" /\ pc' \in {"exit", "aborted"}
      /\ UNCHANGED <<optionVars, funcvector, entryVars>>
      /\ printed' \in {printed, Printable}
  BY DEF PrintFiles, PrintThrows
<1>2. /\ ArgvIsRest' /\ SeenReported' /\ LastCounts' /\ GoodOptions' /\ UNCHANGED BadGiven
      /\ ReadersAsked' /\ IdsAsAsked' /\ UNCHANGED Printable
  BY <1>1, EntriesUnchanged
<1>3. TypeOK'
  <2>1. printed' \subseteq {"proc", "file"} \X SUBSET (AllIds \cup WildIds)
    BY <1>1, PrintableType DEF IInv, TypeOK
  <2> QED
    BY <1>1, <2>1 DEF IInv, TypeOK, optionVars, entryVars, OptionType, AllIds
<1>4. CASE PrintFiles
  <2>1. pc' = "exit" /\ printed' = Printable
    BY <1>4 DEF PrintFiles
  <2> QED
    BY <1>2, <1>3, <2>1 DEF IInv, PrintedAtEnd, ThrowNeedsBadFlag
<1>5. CASE PrintThrows
  <2>1. BadGiven # {}
    <3> SUFFICES ASSUME BadGiven = {} PROVE FALSE
      OBVIOUS
    <3>1. PICK item \in Printable : ~(item[2] \subseteq attributeFlags)
      BY <1>5 DEF PrintThrows
    <3>2. item[2] \subseteq procIds \cup fileIds
      BY PrintableType DEF IInv
    <3> QED
      BY <3>1, <3>2 DEF IInv, IdsAsAsked
  <2>2. pc' = "aborted"
    BY <1>5 DEF PrintThrows
  <2> QED
    BY <1>2, <1>3, <2>1, <2>2 DEF IInv, PrintedAtEnd, ThrowNeedsBadFlag
<1> QED
  BY <1>4, <1>5

LEMMA StutterStep == ASSUME IInv, UNCHANGED vars PROVE IInv'
<1>1. /\ UNCHANGED <<pc, argv, given, flagsOkay, proc_ops, file_ops, reported, funcvector,
                     attributeFlags, procIds, fileIds, printed>>
  BY DEF vars, optionVars, entryVars
<1>2. SeenReported' /\ LastCounts' /\ GoodOptions' /\ UNCHANGED BadGiven
  BY <1>1, OptionsUnchanged DEF IInv
<1>3. ArgvIsRest'
  BY <1>1 DEF IInv, ArgvIsRest
<1>4. TypeOK'
  BY <1>1 DEF IInv, TypeOK, OptionType, AllIds
<1>5. ReadersAsked'
  BY <1>1 DEF IInv, ReadersAsked, OpsOf, No
<1>6. IdsAsAsked'
  BY <1>1, <1>2 DEF IInv, IdsAsAsked, IdsOf, Letters, ProcOptions, FileOptions
<1>7. PrintedAtEnd' /\ ThrowNeedsBadFlag'
  BY <1>1, <1>2 DEF IInv, PrintedAtEnd, ThrowNeedsBadFlag, Printable, No
<1> QED
  BY <1>2, <1>3, <1>4, <1>5, <1>6, <1>7 DEF IInv

-----------------------------------------------------------------------------
(* The theorems. *)

LEMMA Initially == Init => IInv
<1> SUFFICES ASSUME Init PROVE IInv
  OBVIOUS
<1>1. given \in Seq(OptionType) /\ argv = given
  BY MainAssumption DEF Init, OptionType
<1>2. proc_ops \in Seq(Characters) /\ file_ops \in Seq(Characters)
  <2> DEFINE procLetters == {"P", "n", "U", "q", "M", "d", "u", "G", "g", "e", "s", "v",
                             "r", "T", "D", "S", "i", "c"}
             fileLetters == {"n", "i", "u", "g", "M", "a", "m", "c", "d", "s", "p"}
  <2>1. procLetters \subseteq Letters(PROC_OPTS_DEFAULT)
    BY DEF Letters, PROC_OPTS_DEFAULT
  <2>2. fileLetters \subseteq Letters(FILESTAT_OPTS_DEFAULT)
    BY DEF Letters, FILESTAT_OPTS_DEFAULT
  <2>3. procLetters \subseteq Characters /\ fileLetters \subseteq Characters
    BY <2>1, <2>2, MainAssumption
  <2>4. PROC_OPTS_DEFAULT \in Seq(Characters)
    BY <2>3 DEF PROC_OPTS_DEFAULT
  <2>5. FILESTAT_OPTS_DEFAULT \in Seq(Characters)
    BY <2>3 DEF FILESTAT_OPTS_DEFAULT
  <2> QED
    BY <2>4, <2>5 DEF Init
<1>3. TypeOK
  BY <1>1, <1>2, EmptySeq DEF Init, TypeOK
<1> HIDE DEF OptionType
<1>4. Len(given) \in Nat
  BY <1>1, LenProperties
<1>5. Seen = {}
  BY <1>1, <1>4, LenProperties DEF Seen
<1>6. ArgvIsRest
  BY <1>1, <1>4 DEF ArgvIsRest, Init
<1>7. SeenReported
  BY <1>5 DEF SeenReported, Init
<1>8. \A name \in {"proc", "file"} : OpsOf(name) = DefaultsOf(name)
  BY DEF Init, OpsOf, DefaultsOf
<1>9. LastCounts
  BY <1>5, <1>8 DEF LastCounts
<1>10. GoodOptions
  BY <1>8 DEF GoodOptions, BadFlags, Init
<1>11. ReadersAsked /\ IdsAsAsked /\ PrintedAtEnd /\ ThrowNeedsBadFlag
  BY DEF Init, ReadersAsked, IdsAsAsked, PrintedAtEnd, ThrowNeedsBadFlag
<1> QED
  BY <1>3, <1>6, <1>7, <1>9, <1>10, <1>11 DEF IInv

LEMMA Consecution == IInv /\ [Next]_vars => IInv'
<1> SUFFICES ASSUME IInv, [Next]_vars PROVE IInv'
  OBVIOUS
<1>1. CASE CheckProc \/ CheckFile
  BY <1>1, CheckStep
<1>2. CASE SkipUnknown
  BY <1>2, SkipStep
<1>3. CASE LastOption
  BY <1>3, LastOptionStep
<1>4. CASE ChooseReaders
  BY <1>4, ChooseStep
<1>5. CASE ReadLsof
  BY <1>5, ReadLsofStep
<1>6. CASE ReadProc
  BY <1>6, ReadProcStep
<1>7. CASE ReadFile
  BY <1>7, ReadFileStep
<1>8. CASE Flatten
  BY <1>8, FlattenStep
<1>9. CASE PrintFiles \/ PrintThrows
  BY <1>9, PrintStep
<1>10. CASE UNCHANGED vars
  BY <1>10, StutterStep
<1> QED
  BY <1>1, <1>2, <1>3, <1>4, <1>5, <1>6, <1>7, <1>8, <1>9, <1>10 DEF Next, Step, Terminated

LEMMA Invariance == Spec => []IInv
BY Initially, Consecution, PTL DEF Spec

\* The type invariant of main.
THEOREM TypeCorrect == Spec => []TypeOK
<1>1. IInv => TypeOK
  BY DEF IInv
<1> QED
  BY <1>1, Invariance, PTL

\* All flags of all options are checked (cphf.cpp:40-42): an ERROR is printed for
\* every bad flag of the command line, and for no other.
THEOREM ErrorsReported == Spec => []AllErrorsReported
<1>1. IInv => AllErrorsReported
  BY AllSeen DEF IInv, ArgvIsRest, AllErrorsReported
<1> QED
  BY <1>1, Invariance, PTL

\* Printing throws only after a bad flag was let through: the option tables and
\* the labels the readers register agree.
THEOREM ThrowsOnlyForBadFlag == Spec => []ThrowNeedsBadFlag
<1>1. IInv => ThrowNeedsBadFlag
  BY DEF IInv
<1> QED
  BY <1>1, Invariance, PTL

\* When all options have been read, what main remembers of them is what the
\* last option of each name asks for.
LEMMA AskedIsRemembered ==
  ASSUME IInv, argv = << >>, NEW name \in {"proc", "file"}
  PROVE  Asked(name) = OpsOf(name)
<1> DEFINE at == {i \in DOMAIN given : given[i][1] = name}
           last(i) == \A j \in at : j <= i
           chosen == CHOOSE i \in at : last(i)
<1>1. Asked(name) = IF at = {} THEN DefaultsOf(name) ELSE given[chosen][2]
  BY DEF Asked
<1>2. Seen = DOMAIN given /\ at \subseteq Nat
  BY AllSeen, GivenType DEF IInv
<1>3. \/ at = {} /\ OpsOf(name) = DefaultsOf(name)
      \/ \E i \in at : last(i) /\ OpsOf(name) = given[i][2]
  BY <1>2 DEF IInv, LastCounts
<1>4. ASSUME NEW i \in at, last(i) PROVE chosen = i
  <2>1. \A k \in at : last(k) => k = i
    BY <1>2, <1>4
  <2> HIDE DEF at, last
  <2> QED
    BY <1>4, <2>1
<1> HIDE DEF at, last, chosen
<1> QED
  BY <1>1, <1>3, <1>4

\* What is printed is what the last options ask for (README:19-51), and nothing
\* else.
THEOREM PrintsAsAsked == Spec => []PrintedAsAsked
<1>1. IInv => PrintedAsAsked
  <2> SUFFICES ASSUME IInv, pc = "exit", BadGiven = {}
               PROVE  /\ \A item \in printed :
                           /\ Asked(item[1]) # No
                           /\ item[1] = "proc" => item[2] \in {{5}, {5} \cup IdsAsked("proc")}
                           /\ item[1] = "file" => item[2] \in {{}, IdsAsked("file")}
                      /\ procIds # {} =>
                           {item[1] : item \in printed} = {n \in {"proc", "file"} : Asked(n) # No}
    BY DEF PrintedAsAsked
  <2>1. Asked("proc") = proc_ops /\ Asked("file") = file_ops
    <3>1. argv = << >>
      BY DEF IInv, ArgvIsRest
    <3> QED
      BY <3>1, AskedIsRemembered DEF OpsOf
  <2>2. IdsAsked("proc") = IdsOf(ProcOptions, proc_ops) /\ IdsAsked("file") = IdsOf(FileOptions, file_ops)
    BY <2>1 DEF IdsAsked, IdsOf
  <2>3. /\ procIds \in {{}, {5}, {5} \cup IdsAsked("proc")} /\ fileIds \in {{}, IdsAsked("file")}
        /\ flagsOkay
    BY <2>2 DEF IInv, IdsAsAsked, GoodOptions
  <2>4. printed = {item \in {<<"proc", procIds>>, <<"file", fileIds>>} :
                     /\ procIds # {}
                     /\ item[1] = "proc" => Asked("proc") # No
                     /\ item[1] = "file" => Asked("file") # No}
    BY <2>1, <2>3 DEF IInv, PrintedAtEnd, Printable
  <2> HIDE DEF Asked, IdsAsked, No
  <2>5. ASSUME NEW item \in printed
        PROVE  /\ Asked(item[1]) # No
               /\ item[1] = "proc" => item[2] \in {{5}, {5} \cup IdsAsked("proc")}
               /\ item[1] = "file" => item[2] \in {{}, IdsAsked("file")}
    BY <2>3, <2>4
  <2>6. ASSUME procIds # {}
        PROVE  {item[1] : item \in printed} = {n \in {"proc", "file"} : Asked(n) # No}
    <3>1. /\ <<"proc", procIds>> \in printed <=> Asked("proc") # No
          /\ <<"file", fileIds>> \in printed <=> Asked("file") # No
      BY <2>4, <2>6
    <3>2. printed \subseteq {<<"proc", procIds>>, <<"file", fileIds>>}
      BY <2>4
    <3> QED
      BY <3>1, <3>2
  <2> QED
    BY <2>5, <2>6
<1> QED
  BY <1>1, Invariance, PTL

=============================================================================
