------------------------ MODULE FileStatReader_proofs ------------------------
(***************************************************************************)
(* What holds of FileStatReader for every list of files, every option      *)
(* string, every size of the first buffer, and however often the links and *)
(* names change meanwhile.                                                 *)
(***************************************************************************)
EXTENDS FileStatReader, CphfFile_proofs

OptionIds == {row[2] : row \in OptionTable}

(***************************************************************************)
(* The inductive invariant.  The properties are about what is shown; that  *)
(* they stay true when a file gets its attributes depends on what has been *)
(* collected for it since it was visited.                                  *)
(***************************************************************************)

\* What a link leads to now is among what it has led to.
LinksHeld == \A link \in Links : links[link] \in held[link]

\* A value collected for the entry being visited.
Collected(id, value) ==
  /\ value.of \in held[LinkOf(entry)]
  /\ value.shown = value.whole
  /\ id # CPHF_ID_FILENAME => value = Stat(info)

\* An entry is visited once; each option before the next one has been read.
Visiting ==
  pc \in {"options", "readlink"} =>
    /\ entry \notin todo
    /\ info \in held[LinkOf(entry)]
    /\ DOMAIN readers = {IdOf(Options[k]) : k \in 1..(i - 1)}
    /\ \A id \in DOMAIN readers : Collected(id, readers[id])
    /\ pc = "readlink" => i <= Len(Options) /\ Options[i] = "n"

\* An entry has nothing before its attributes are added.
Undescribed ==
  \A e \in Listed :
    e \in todo \/ (pc \in {"options", "readlink"} /\ e = entry)
      => ulFiles[e].attributes = << >>

IInv ==
  /\ TypeOK
  /\ LinksHeld
  /\ Visiting
  /\ Undescribed
  /\ FromItsLink
  /\ OneStatPerFile
  /\ NameWhole
  /\ BufferBounded

-----------------------------------------------------------------------------
(* Options, links and entries. *)

LEMMA OptionIdsFinite == IsFiniteSet(OptionIds) /\ OptionIds \subseteq Int
<1>1. OptionIds \in SUBSET (0..57)
  BY DEF OptionIds, OptionTable, CPHF_ID_FILENAME
<1>2. IsFiniteSet(0..57)
  <2>1. 0 \in Int /\ 57 \in Int
    OBVIOUS
  <2> QED
    BY <2>1, FS_Interval
<1>3. 0..57 \subseteq Int
  OBVIOUS
<1> HIDE DEF OptionIds
<1> QED
  BY <1>1, <1>2, <1>3, FS_Subset

\* Every letter has an id, and only "n" that of the name.
LEMMA LetterIds ==
  ASSUME NEW k \in 1..Len(Options)
  PROVE  /\ IdOf(Options[k]) \in OptionIds
         /\ IdOf(Options[k]) = CPHF_ID_FILENAME => Options[k] = "n"
<1>1. Options[k] \in {row[1] : row \in OptionTable}
  BY FileStatReaderAssumption
<1>2. PICK row \in OptionTable : row[1] = Options[k] /\ row[2] = IdOf(Options[k])
  BY <1>1 DEF IdOf
<1>3. row[2] = CPHF_ID_FILENAME => row[1] = "n"
  BY DEF OptionTable, CPHF_ID_FILENAME
<1> QED
  BY <1>2, <1>3 DEF OptionIds

LEMMA OptionsLength == Len(Options) \in Nat /\ DOMAIN Options = 1..Len(Options)
BY FileStatReaderAssumption, LenProperties

\* The path computed from the key of an entry is the one lsof found it under.
LEMMA FollowedIsLink ==
  \A e \in Listed : LinkOf(e) \in Links /\ Followed(e) = links[LinkOf(e)]
BY DEF LinkOf, Links, Followed, formPath, UlfPath

LEMMA FirstIsListed ==
  ASSUME TypeOK, todo # {}
  PROVE  First(todo) \in todo /\ First(todo) \in Listed
<1>1. todo \in SUBSET Listed /\ IsFiniteSet(Listed) /\ Listed \subseteq Nat \X Nat
  BY FileStatReaderAssumption, WidthAssumption DEF TypeOK
<1>2. IsFiniteSet(todo) /\ todo \subseteq Nat \X Nat
  BY <1>1, FS_Subset
<1>3. \E e \in todo : \A f \in todo : e[1] < f[1] \/ (e[1] = f[1] /\ e[2] <= f[2])
  BY <1>2, FirstExists
<1> QED
  BY <1>1, <1>3 DEF First

-----------------------------------------------------------------------------
(* The steps. *)

\* What is shown does not change with the reader's other variables.
LEMMA ShownUnchanged ==
  ASSUME IInv, UNCHANGED <<osVars, ulFiles>>
  PROVE  LinksHeld' /\ FromItsLink' /\ OneStatPerFile' /\ NameWhole'
BY DEF IInv, LinksHeld, FromItsLink, OneStatPerFile, NameWhole, Shown, osVars

LEMMA VisitStep == ASSUME IInv, StatSucceeds \/ StatFails PROVE IInv'
<1>1. /\ pc = "next" /\ todo # {}
      /\ entry' = First(todo) /\ todo' = todo \ {entry'}
      /\ UNCHANGED <<osVars, filenameLength, ulFiles>>
  BY DEF StatSucceeds, StatFails, Visit
<1>2. entry' \in todo /\ entry' \in Listed /\ entry' # NULL /\ entry' \notin todo'
  BY <1>1, FirstIsListed, FileStatReaderAssumption DEF IInv
<1>3. LinkOf(entry') \in Links /\ Followed(entry') = links[LinkOf(entry')]
  BY <1>2, FollowedIsLink
<1>4. LinksHeld' /\ FromItsLink' /\ OneStatPerFile' /\ NameWhole' /\ BufferBounded'
  BY <1>1, ShownUnchanged DEF IInv, BufferBounded
<1>5. CASE StatSucceeds
  <2>1. /\ info' = links[LinkOf(entry')] /\ info' # NULL
        /\ pc' = "options" /\ i' = 1 /\ readers' = EmptyMap
    BY <1>3, <1>5 DEF StatSucceeds
  <2>2. DOMAIN readers' = {}
    BY <2>1 DEF EmptyMap
  <2>3. TypeOK'
    BY <1>1, <1>2, <1>3, <2>1, <2>2, OptionsLength DEF IInv, TypeOK, osVars
  <2>4. Visiting'
    <3>1. info' \in held'[LinkOf(entry')]
      BY <1>1, <1>3, <2>1 DEF IInv, LinksHeld, osVars
    <3>2. {IdOf(Options[k]) : k \in 1..(i' - 1)} = {}
      BY <2>1
    <3> QED
      BY <1>2, <2>1, <2>2, <3>1, <3>2 DEF Visiting, LinkOf, IdOf
  <2>5. Undescribed'
    BY <1>1, <1>2 DEF IInv, Undescribed
  <2> QED
    BY <1>4, <2>3, <2>4, <2>5 DEF IInv
<1>6. CASE StatFails
  <2>1. UNCHANGED <<pc, info, i, readers>>
    BY <1>6 DEF StatFails
  <2>2. TypeOK'
    BY <1>1, <1>2, <2>1 DEF IInv, TypeOK, osVars
  <2>3. Visiting'
    BY <1>1, <2>1 DEF Visiting
  <2>4. Undescribed'
    BY <1>1, <2>1 DEF IInv, Undescribed
  <2> QED
    BY <1>4, <2>2, <2>3, <2>4 DEF IInv
<1> QED
  BY <1>5, <1>6

\* An option is read into readers; the value belongs to the entry.
LEMMA AddStep ==
  ASSUME IInv, pc \in {"options", "readlink"}, i <= Len(Options),
         NEW value, value \in Value, Collected(IdOf(Options[i]), value),
         Add(value), UNCHANGED <<info, filenameLength>>
  PROVE  IInv'
<1> DEFINE id == IdOf(Options[i])
<1>1. /\ readers' = MapInsert(readers, id, value)
      /\ i' = i + 1 /\ pc' = "options"
      /\ UNCHANGED <<osVars, todo, entry, ulFiles, info, filenameLength>>
  BY DEF Add
<1>2. LinksHeld' /\ FromItsLink' /\ OneStatPerFile' /\ NameWhole' /\ BufferBounded'
  BY <1>1, ShownUnchanged DEF IInv, BufferBounded, osVars
<1>3. i \in 1..Len(Options) /\ i \in Nat
  BY OptionsLength DEF IInv, TypeOK
<1>4. id \in OptionIds
  BY <1>3, LetterIds
<1> HIDE DEF id
<1>5. /\ DOMAIN readers' = DOMAIN readers \cup {id}
      /\ \A x \in DOMAIN readers' : readers'[x] = IF x \in DOMAIN readers THEN readers[x] ELSE value
  BY <1>1, InsertKeeps DEF MapInsert
<1>6. TypeOK'
  <2>1. DOMAIN readers' \subseteq OptionIds /\ \A x \in DOMAIN readers' : readers'[x] \in Value'
    BY <1>4, <1>5 DEF IInv, TypeOK, OptionIds, Value
  <2>2. info' # NULL /\ entry' # NULL
    BY <1>1 DEF IInv, TypeOK
  <2>3. i' \in 1..(Len(Options) + 1)
    BY <1>1, <1>3, OptionsLength
  <2> QED
    BY <1>1, <2>1, <2>2, <2>3 DEF IInv, TypeOK, OptionIds, osVars, Value
<1>7. Visiting'
  <2>1. /\ entry \notin todo /\ info \in held[LinkOf(entry)]
        /\ DOMAIN readers = {IdOf(Options[k]) : k \in 1..(i - 1)}
        /\ \A x \in DOMAIN readers : Collected(x, readers[x])
    BY DEF IInv, Visiting
  <2>2. DOMAIN readers' = {IdOf(Options[k]) : k \in 1..(i' - 1)}
    <3>1. 1..(i' - 1) = 1..(i - 1) \cup {i}
      BY <1>1, <1>3
    <3> QED
      BY <1>5, <2>1, <3>1 DEF id
  <2>3. \A x \in DOMAIN readers' : Collected(x, readers'[x])
    BY <1>5, <2>1 DEF id
  <2>4. ASSUME NEW x \in DOMAIN readers' PROVE Collected(x, readers[x])' 
    BY <1>1, <2>3 DEF Collected, osVars, Stat
  <2> QED
    BY <1>1, <2>1, <2>2, <2>4 DEF Visiting, osVars, LinkOf, IdOf
<1>8. Undescribed'
  BY <1>1 DEF IInv, Undescribed
<1> QED
  BY <1>2, <1>6, <1>7, <1>8 DEF IInv

LEMMA ReadStep == ASSUME IInv, ReadStat \/ ReadlinkFits \/ ReadlinkFails PROVE IInv'
<1>1. CASE ReadStat
  <2>1. /\ pc = "options" /\ i <= Len(Options) /\ Options[i] # "n"
        /\ Add(Stat(info)) /\ UNCHANGED <<info, filenameLength>>
    BY <1>1 DEF ReadStat, Reading
  <2>2. Stat(info) \in Value /\ Stat(info).of = info /\ Stat(info).shown = Stat(info).whole
    BY DEF IInv, TypeOK, Value, Stat
  <2>3. Collected(IdOf(Options[i]), Stat(info))
    BY <2>1, <2>2 DEF IInv, Visiting, Collected
  <2> QED
    BY <2>1, <2>2, <2>3, AddStep
<1>2. CASE ReadlinkFits \/ ReadlinkFails
  <2>1. pc = "readlink" /\ UNCHANGED <<info, filenameLength>>
    BY <1>2 DEF ReadlinkFits, ReadlinkFails
  <2>2. i <= Len(Options) /\ Options[i] = "n" /\ IdOf(Options[i]) = CPHF_ID_FILENAME
    <3>1. i <= Len(Options) /\ Options[i] = "n"
      BY <2>1 DEF IInv, Visiting
    <3>2. IdOf("n") = CPHF_ID_FILENAME
      <4>1. <<"n", CPHF_ID_FILENAME>> \in OptionTable
        BY DEF OptionTable
      <4>2. \A row \in OptionTable : row[1] = "n" => row[2] = CPHF_ID_FILENAME
        BY DEF OptionTable
      <4> QED
        BY <4>1, <4>2 DEF IdOf
    <3> QED
      BY <3>1, <3>2
  <2>3. entry \in Listed /\ LinkOf(entry) \in Links /\ Followed(entry) = links[LinkOf(entry)]
    BY <2>1, FollowedIsLink DEF IInv, TypeOK
  <2>4. Followed(entry) \in held[LinkOf(entry)] /\ Followed(entry) \in Files \cup {NULL}
    BY <2>3 DEF IInv, LinksHeld, TypeOK
  <2>5. CASE ReadlinkFits
    <3> DEFINE f == Followed(entry)
               value == Name(f, Returned(f))
    <3>1. f \in Files /\ ~Filled(f) /\ Add(value)
      BY <2>4, <2>5 DEF ReadlinkFits
    <3>2. length[f] \in Nat /\ filenameLength \in Nat
      BY <3>1, FileStatReaderAssumption DEF IInv, TypeOK
    <3>3. Returned(f) = length[f]
      BY <3>1 DEF Filled, Returned
    <3>4. value = [of |-> f, shown |-> length[f], whole |-> length[f]]
      BY <3>3 DEF Name
    <3>5. value \in Value /\ Collected(IdOf(Options[i]), value)
      BY <2>2, <2>4, <3>2, <3>4 DEF Value, Collected
    <3> HIDE DEF value
    <3> QED
      BY <2>1, <2>2, <3>1, <3>5, AddStep
  <2>6. CASE ReadlinkFails
    <3>1. Followed(entry) = NULL /\ Add(NoName)
      BY <2>6 DEF ReadlinkFails
    <3>2. NoName \in Value /\ Collected(IdOf(Options[i]), NoName)
      BY <2>2, <2>4, <3>1 DEF Value, Collected, NoName
    <3> QED
      BY <2>1, <2>2, <3>1, <3>2, AddStep
  <2> QED
    BY <1>2, <2>5, <2>6
<1> QED
  BY <1>1, <1>2

\* A buffer is allocated; it is at most four times as long as a name.
LEMMA AllocateStep == ASSUME IInv, ReadName \/ ReadlinkFull PROVE IInv'
<1>1. /\ pc' = "readlink"
      /\ UNCHANGED <<osVars, todo, entry, info, i, readers, ulFiles>>
  BY DEF ReadName, ReadlinkFull, Allocate
<1>2. LinksHeld' /\ FromItsLink' /\ OneStatPerFile' /\ NameWhole'
  BY <1>1, ShownUnchanged DEF osVars
<1>3. pc \in {"options", "readlink"} /\ i <= Len(Options) /\ Options[i] = "n"
  BY DEF ReadName, ReadlinkFull, Reading, IInv, Visiting
<1>4. filenameLength' \in Nat /\ BufferBounded'
  <2>1. CASE ReadName
    <3>1. filenameLength' = FilenameLength
      BY <2>1 DEF ReadName, Allocate
    <3> QED
      BY <3>1, FileStatReaderAssumption DEF BufferBounded
  <2>2. CASE ReadlinkFull
    <3> DEFINE f == Followed(entry)
    <3>1. f # NULL /\ Filled(f) /\ filenameLength' = 4 * filenameLength
      BY <2>2 DEF ReadlinkFull, Allocate
    <3>2. f \in Files
      BY <1>3, <3>1, FollowedIsLink DEF IInv, TypeOK
    <3>3. length[f] \in NameLengths /\ length[f] \in Nat /\ filenameLength \in Nat
      BY <3>2, FileStatReaderAssumption DEF IInv, TypeOK
    <3>4. filenameLength <= length[f]
      BY <3>1, <3>3 DEF Filled, Returned
    <3> HIDE DEF f
    <3>5. filenameLength' \in Nat /\ filenameLength' <= 4 * length[f]
      BY <3>1, <3>3, <3>4
    <3> QED
      BY <3>3, <3>5 DEF BufferBounded
  <2> QED
    BY <2>1, <2>2
<1>5. TypeOK'
  BY <1>1, <1>3, <1>4 DEF IInv, TypeOK, osVars, Value
<1>6. Visiting'
  BY <1>1, <1>3 DEF IInv, Visiting, Collected, Stat, LinkOf, IdOf, osVars
<1>7. Undescribed'
  BY <1>1, <1>3 DEF IInv, Undescribed
<1> QED
  BY <1>2, <1>4, <1>5, <1>6, <1>7 DEF IInv

\* The attributes of the entry are what has been collected for it.
LEMMA AddAttributesAdds ==
  ASSUME IInv, AddAttributes
  PROVE  /\ entry \in Listed
         /\ ulFiles[entry].attributes = << >>
         /\ ulFiles'[entry].attributes \in Seq(OptionIds \X Value)
         /\ DOMAIN ulFiles' = Listed
         /\ \A e \in Listed : e # entry => ulFiles'[e] = ulFiles[e]
         /\ Shown(entry)' = Entries(readers)
<1> DEFINE none == << >>
           all == AddAll(none, readers, CPHF_ID_FILENAME)
<1>1. pc = "options"
      /\ ulFiles' = [ulFiles EXCEPT ![entry].attributes = AddAll(@, readers, CPHF_ID_FILENAME)]
      /\ UNCHANGED <<osVars, entry>>
  BY DEF AddAttributes
<1>2. entry \in Listed /\ DOMAIN ulFiles = Listed /\ ulFiles[entry].attributes = << >>
  BY <1>1 DEF IInv, TypeOK, Undescribed
<1>3. IsMap(readers, OptionIds, Value)
  <2>1. DOMAIN readers \in SUBSET OptionIds
    BY DEF IInv, TypeOK, OptionIds
  <2>2. IsFiniteSet(DOMAIN readers)
    BY <2>1, OptionIdsFinite, FS_Subset
  <2> QED
    BY <2>1, <2>2, OptionIdsFinite DEF IInv, TypeOK, IsMap
<1>4. none \in Seq(OptionIds \X Value)
  BY EmptySeq
<1>5. all \in Seq(OptionIds \X Value)
  BY <1>3, <1>4, AddAllTyped
<1>6. Elements(all) = Entries(readers)
  <2>1. Elements(all) = Elements(none) \cup Entries(readers)
    <3> HIDE DEF none
    <3> QED
      BY <1>3, <1>4, AddAllAdds
  <2>2. Elements(none) = {}
    BY DEF Elements
  <2> HIDE DEF all, none
  <2> QED
    BY <2>1, <2>2
<1>7. /\ ulFiles'[entry].attributes = all
      /\ DOMAIN ulFiles' = Listed
      /\ \A e \in Listed : e # entry => ulFiles'[e] = ulFiles[e]
  BY <1>1, <1>2
<1>8. Shown(entry)' = Elements(all)
  BY <1>1, <1>7 DEF Shown, Elements
<1> HIDE DEF all
<1> QED
  BY <1>2, <1>5, <1>6, <1>7, <1>8

LEMMA AddAttributesStep == ASSUME IInv, AddAttributes PROVE IInv'
<1>1. /\ pc = "options" /\ pc' = "next"
      /\ UNCHANGED <<osVars, todo, entry, info, i, filenameLength, readers>>
  BY DEF AddAttributes
<1>2. /\ entry \in Listed
      /\ ulFiles'[entry].attributes \in Seq(OptionIds \X Value)
      /\ DOMAIN ulFiles' = Listed
      /\ \A e \in Listed : e # entry => ulFiles'[e] = ulFiles[e]
      /\ Shown(entry)' = Entries(readers)
  BY AddAttributesAdds
<1>3. \A e \in Listed : e # entry => Shown(e)' = Shown(e)
  BY <1>2 DEF Shown
<1>4. \A a \in Shown(entry)' : a[1] \in DOMAIN readers /\ a[2] = readers[a[1]]
  BY <1>2 DEF Entries
<1>5. \A id \in DOMAIN readers : Collected(id, readers[id])
  BY <1>1 DEF IInv, Visiting
<1>6. TypeOK'
  BY <1>1, <1>2 DEF IInv, TypeOK, OptionIds, osVars, Value
<1>7. LinksHeld' /\ BufferBounded' /\ Visiting'
  BY <1>1 DEF IInv, LinksHeld, BufferBounded, Visiting, osVars
<1>8. Undescribed'
  BY <1>1, <1>2 DEF IInv, Undescribed, Visiting
<1>9. FromItsLink' /\ NameWhole' /\ OneStatPerFile'
  <2>1. ASSUME NEW e \in Listed
        PROVE  /\ \A a \in Shown(e)' : a[2].of \in held[LinkOf(e)] /\ a[2].shown = a[2].whole
               /\ \A a, b \in Shown(e)' :
                    CPHF_ID_FILENAME \notin {a[1], b[1]} => a[2] = b[2]
    <3>1. CASE e = entry
      <4>1. \A a \in Shown(e)' : Collected(a[1], a[2])
        <5> SUFFICES ASSUME NEW a \in Shown(entry)' PROVE Collected(a[1], a[2])
          BY <1>1, <3>1
        <5>1. a[1] \in DOMAIN readers /\ a[2] = readers[a[1]]
          BY <1>4
        <5> QED
          BY <1>5, <5>1
      <4>2. ASSUME NEW a \in Shown(e)', NEW b \in Shown(e)',
                   CPHF_ID_FILENAME \notin {a[1], b[1]}
            PROVE  a[2] = b[2]
        BY <4>1, <4>2 DEF Collected
      <4> QED
        BY <3>1, <4>1, <4>2 DEF Collected
    <3>2. CASE e # entry
      BY <1>3, <3>2 DEF IInv, FromItsLink, NameWhole, OneStatPerFile
    <3> QED
      BY <3>1, <3>2
  <2> QED
    BY <1>1, <2>1 DEF FromItsLink, NameWhole, OneStatPerFile, osVars, LinkOf
<1> QED
  BY <1>6, <1>7, <1>8, <1>9 DEF IInv

LEMMA EndStep == ASSUME IInv, NoMemory \/ Finish PROVE IInv'
<1>1. pc' \in {"segv", "done"} /\ UNCHANGED <<osVars, readVars>>
  BY DEF NoMemory, Finish
<1>2. LinksHeld' /\ FromItsLink' /\ OneStatPerFile' /\ NameWhole' /\ BufferBounded'
  BY <1>1, ShownUnchanged DEF IInv, BufferBounded, readVars
<1>3. TypeOK'
  BY <1>1 DEF IInv, TypeOK, osVars, readVars, Value
<1>4. Visiting' /\ Undescribed'
  BY <1>1 DEF IInv, Visiting, Undescribed, readVars
<1> QED
  BY <1>2, <1>3, <1>4 DEF IInv

(***************************************************************************)
(* What the processes do cannot make anything wrong that has been read: a  *)
(* link only adds to the files it has led to.                              *)
(***************************************************************************)
LEMMA ChangeStep ==
  ASSUME IInv,
         \/ \E link \in Links, file \in Files \cup {NULL} : Relink(link, file)
         \/ \E file \in Files, n \in NameLengths : Rename(file, n)
  PROVE  IInv'
<1>1. UNCHANGED <<pc, readVars>> /\ changes' = changes + 1 /\ changes < MaxChanges
  BY DEF Relink, Rename, Change
<1>2. /\ links' \in [Links -> Files \cup {NULL}]
      /\ length' \in [Files -> NameLengths]
      /\ held' \in [Links -> SUBSET (Files \cup {NULL})]
      /\ \A link \in Links : held[link] \subseteq held'[link] /\ links'[link] \in held'[link]
  <2>1. CASE \E link \in Links, file \in Files \cup {NULL} : Relink(link, file)
    <3>1. PICK link \in Links, file \in Files \cup {NULL} : Relink(link, file)
      BY <2>1
    <3>2. /\ links' = [links EXCEPT ![link] = file]
          /\ held' = [held EXCEPT ![link] = held[link] \cup {file}]
          /\ length' = length
      BY <3>1 DEF Relink
    <3> QED
      BY <3>2 DEF IInv, TypeOK, LinksHeld
  <2>2. CASE \E file \in Files, n \in NameLengths : Rename(file, n)
    <3>1. PICK file \in Files, n \in NameLengths : Rename(file, n)
      BY <2>2
    <3>2. length' = [length EXCEPT ![file] = n] /\ links' = links /\ held' = held
      BY <3>1 DEF Rename
    <3> QED
      BY <3>2 DEF IInv, TypeOK, LinksHeld
  <2> QED
    BY <2>1, <2>2
<1>3. TypeOK'
  <2>1. changes' \in 0..MaxChanges
    BY <1>1, FileStatReaderAssumption DEF IInv, TypeOK
  <2> QED
    BY <1>1, <1>2, <2>1 DEF IInv, TypeOK, readVars, Value
<1>4. LinksHeld' /\ BufferBounded' /\ Undescribed' /\ NameWhole' /\ OneStatPerFile'
  BY <1>1, <1>2 DEF IInv, LinksHeld, BufferBounded, Undescribed, NameWhole, OneStatPerFile,
                    Shown, readVars
<1>5. \A e \in Listed : held[LinkOf(e)] \subseteq held'[LinkOf(e)]
  BY <1>2, FollowedIsLink
<1>6. FromItsLink'
  BY <1>1, <1>5 DEF IInv, FromItsLink, Shown, readVars, LinkOf
<1>7. Visiting'
  <2> SUFFICES ASSUME pc \in {"options", "readlink"} PROVE Visiting'
    BY <1>1 DEF Visiting
  <2>1. entry \in Listed
    BY DEF IInv, TypeOK
  <2>2. \A id \in DOMAIN readers : Collected(id, readers[id])'
    BY <1>1, <1>5, <2>1 DEF IInv, Visiting, Collected, readVars, Stat
  <2> QED
    BY <1>1, <1>5, <2>1, <2>2 DEF IInv, Visiting, readVars, LinkOf, IdOf
<1> QED
  BY <1>3, <1>4, <1>6, <1>7 DEF IInv

LEMMA Consecution == ASSUME IInv, [Next]_vars PROVE IInv'
<1>1. CASE UNCHANGED vars
  <2>1. LinksHeld' /\ FromItsLink' /\ OneStatPerFile' /\ NameWhole' /\ BufferBounded'
    BY <1>1, ShownUnchanged DEF vars, IInv, BufferBounded, readVars
  <2>2. TypeOK'
    BY <1>1 DEF IInv, TypeOK, vars, osVars, readVars, Value
  <2>3. Visiting' /\ Undescribed'
    BY <1>1 DEF IInv, Visiting, Undescribed, Collected, Stat, vars, osVars, readVars, LinkOf, IdOf
  <2> QED
    BY <2>1, <2>2, <2>3 DEF IInv
<1>2. CASE ReaderStep
  BY <1>2, VisitStep, ReadStep, AllocateStep, AddAttributesStep, EndStep DEF ReaderStep
<1> QED
  BY <1>1, <1>2, ChangeStep DEF Next, Terminated

LEMMA Initially == ASSUME Init PROVE IInv
<1>1. \A e \in Listed : ulFiles[e].attributes = << >> /\ Shown(e) = {}
  BY DEF Init, UnlinkedFile, Shown
<1>2. << >> \in Seq(OptionIds \X Value)
  BY EmptySeq
<1>3. DOMAIN readers = {}
  BY DEF Init, EmptyMap
<1>4. TypeOK
  <2>1. i \in 1..(Len(Options) + 1)
    BY OptionsLength DEF Init
  <2>2. filenameLength \in Nat /\ 0 \in 0..MaxChanges
    BY FileStatReaderAssumption DEF Init
  <2>3. held \in [Links -> SUBSET (Files \cup {NULL})]
    BY DEF Init
  <2> QED
    BY <1>1, <1>2, <1>3, <2>1, <2>2, <2>3 DEF Init, TypeOK, OptionIds
<1>5. LinksHeld /\ Visiting /\ Undescribed /\ BufferBounded
  BY <1>1 DEF Init, LinksHeld, Visiting, Undescribed, BufferBounded
<1>6. FromItsLink /\ OneStatPerFile /\ NameWhole
  BY <1>1 DEF FromItsLink, OneStatPerFile, NameWhole
<1> QED
  BY <1>4, <1>5, <1>6 DEF IInv

LEMMA Invariance == Spec => []IInv
BY Initially, Consecution, PTL DEF Spec

-----------------------------------------------------------------------------
(* The theorems. *)

\* Every variable has its type.
THEOREM TypeCorrect == Spec => []TypeOK
<1>1. IInv => TypeOK
  BY DEF IInv
<1> QED
  BY <1>1, Invariance, PTL

\* Nothing is shown of a file that was not read through its own link.
THEOREM LinksCorrect == Spec => []FromItsLink
<1>1. IInv => FromItsLink
  BY DEF IInv
<1> QED
  BY <1>1, Invariance, PTL

\* All that is shown of a file but its name comes from one stat.
THEOREM StatCorrect == Spec => []OneStatPerFile
<1>1. IInv => OneStatPerFile
  BY DEF IInv
<1> QED
  BY <1>1, Invariance, PTL

\* Names are never cut short, whatever the sizes of buffer and names.
THEOREM NamesWhole == Spec => []NameWhole
<1>1. IInv => NameWhole
  BY DEF IInv
<1> QED
  BY <1>1, Invariance, PTL

\* The buffer stays within four times the longest name, or its first size.
THEOREM BufferIsBounded == Spec => []BufferBounded
<1>1. IInv => BufferBounded
  BY DEF IInv
<1> QED
  BY <1>1, Invariance, PTL

(***************************************************************************)
(* The safety part of ImplementsDescription: adding the attributes of a    *)
(* file describes it, finishing and running out of memory end the reader,  *)
(* and every other step is invisible.                                      *)
(***************************************************************************)
LEMMA DescriptionInit == ASSUME Init PROVE AbstractDescription!Init
<1>1. \A e \in Listed : Shown(e) = {}
  BY DEF Init, UnlinkedFile, Shown
<1>2. View = [e \in Listed |-> {}]
  BY <1>1 DEF View
<1>3. Ended = FALSE
  BY DEF Init, Ended
<1> QED
  BY <1>2, <1>3 DEF AbstractDescription!Init

LEMMA DescriptionStep ==
  ASSUME IInv, [Next]_vars
  PROVE  [AbstractDescription!Next]_(AbstractDescription!vars)
<1>1. ASSUME UNCHANGED <<ulFiles, Ended>>
      PROVE  UNCHANGED (AbstractDescription!vars)
  BY <1>1 DEF AbstractDescription!vars, View, Shown
<1>2. CASE AddAttributes
  <2>1. pc = "options" /\ pc' = "next" /\ i > Len(Options) /\ entry' = entry
    BY <1>2 DEF AddAttributes
  <2>2. Ended = FALSE /\ Ended' = FALSE
    BY <2>1 DEF Ended
  <2>3. /\ entry \in Listed
        /\ ulFiles[entry].attributes = << >>
        /\ \A e \in Listed : e # entry => ulFiles'[e] = ulFiles[e]
        /\ Shown(entry)' = Entries(readers)
    BY <1>2, AddAttributesAdds
  <2>4. View[entry] = {}
    BY <2>3 DEF View, Shown
  <2>5. DOMAIN readers = {IdOf(Options[k]) : k \in DOMAIN Options}
    <3>1. i - 1 = Len(Options)
      BY <2>1, OptionsLength DEF IInv, TypeOK
    <3> QED
      BY <2>1, <3>1, OptionsLength DEF IInv, Visiting
  <2>6. View' = [View EXCEPT ![entry] = {IdOf(Options[k]) : k \in DOMAIN Options}]
    <3> DEFINE ids == {IdOf(Options[k]) : k \in DOMAIN Options}
    <3>1. {a[1] : a \in Entries(readers)} = DOMAIN readers
      BY EntryIds
    <3>2. {a[1] : a \in Shown(entry)'} = ids
      BY <2>3, <2>5, <3>1
    <3>3. \A e \in Listed : e # entry => Shown(e)' = Shown(e)
      BY <2>3 DEF Shown
    <3> HIDE DEF ids
    <3>4. View' = [e \in Listed |-> IF e = entry THEN ids ELSE View[e]]
      <4>1. View' = [e \in Listed |-> {a[1] : a \in Shown(e)'}]
        BY DEF View
      <4>2. \A e \in Listed : View[e] = {a[1] : a \in Shown(e)}
        BY DEF View
      <4>3. \A e \in Listed : {a[1] : a \in Shown(e)'} = IF e = entry THEN ids ELSE View[e]
        <5> SUFFICES ASSUME NEW e \in Listed
                     PROVE  {a[1] : a \in Shown(e)'} = IF e = entry THEN ids ELSE View[e]
          OBVIOUS
        <5>1. CASE e = entry
          BY <2>1, <3>2, <5>1
        <5>2. CASE e # entry
          BY <3>3, <4>2, <5>2
        <5> QED
          BY <5>1, <5>2
      <4> HIDE DEF View
      <4> QED
        BY <4>1, <4>3
    <3>5. View' = [View EXCEPT ![entry] = ids]
      BY <2>3, <3>4 DEF View
    <3> QED
      BY <3>5 DEF ids
  <2>7. AbstractDescription!Describe(entry)
    BY <2>2, <2>4, <2>6 DEF AbstractDescription!Describe
  <2> QED
    BY <2>3, <2>7 DEF AbstractDescription!Next
<1>3. CASE NoMemory \/ Finish
  <2>1. /\ pc \in {"next", "options", "readlink"} /\ pc' \in {"segv", "done"}
        /\ UNCHANGED ulFiles
    BY <1>3 DEF NoMemory, Finish, Reading, readVars
  <2>2. Ended = FALSE /\ Ended' = TRUE
    BY <2>1 DEF Ended
  <2>3. UNCHANGED View
    BY <2>1 DEF View, Shown
  <2>4. AbstractDescription!End
    BY <2>2, <2>3 DEF AbstractDescription!End
  <2> QED
    BY <2>4 DEF AbstractDescription!Next
<1>4. CASE StatSucceeds \/ StatFails \/ ReadStat \/ ReadName \/ ReadlinkFull
             \/ ReadlinkFits \/ ReadlinkFails
  <2>1. UNCHANGED ulFiles /\ pc \notin {"done", "segv"} /\ pc' \notin {"done", "segv"}
    BY <1>4 DEF StatSucceeds, StatFails, Visit, ReadStat, Reading, Add, ReadName,
                Allocate, ReadlinkFull, ReadlinkFits, ReadlinkFails
  <2> QED
    BY <1>1, <2>1 DEF Ended
<1>5. CASE \/ UNCHANGED vars \/ Terminated
           \/ \E link \in Links, file \in Files \cup {NULL} : Relink(link, file)
           \/ \E file \in Files, n \in NameLengths : Rename(file, n)
  <2>1. UNCHANGED <<pc, ulFiles>>
    BY <1>5 DEF vars, Terminated, Relink, Rename, Change, readVars
  <2> QED
    BY <1>1, <2>1 DEF Ended
<1> QED
  BY <1>2, <1>3, <1>4, <1>5 DEF Next, ReaderStep

\* Files are described one by one, wholly or not at all, and not again; after
\* the end nothing is.
THEOREM DescriptionImplemented ==
  Spec => AbstractDescription!Init /\ [][AbstractDescription!Next]_(AbstractDescription!vars)
BY DescriptionInit, DescriptionStep, Invariance, PTL DEF Spec

=============================================================================
