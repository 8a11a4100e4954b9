-------------------------- MODULE CphfReader_proofs --------------------------
(***************************************************************************)
(* The helpers, for every number they can be given.                        *)
(***************************************************************************)
EXTENDS CphfReader, CphfFile_proofs

-----------------------------------------------------------------------------
(* readPerms and readMode. *)

\* The letters one by one.
LEMMA Letters ==
  ASSUME NEW mode
  PROVE  LET p == readPerms(mode)
         IN  /\ p[2] = Letter(mode, 8, "r") /\ p[3] = Letter(mode, 7, "w")
             /\ p[4] = IF Has(mode, 10) THEN "s" ELSE Letter(mode, 6, "x")
             /\ p[5] = Letter(mode, 5, "r") /\ p[6] = Letter(mode, 4, "w")
             /\ p[7] = Letter(mode, 3, "x")
             /\ p[8] = Letter(mode, 2, "r") /\ p[9] = Letter(mode, 1, "w")
             /\ p[10] = IF Has(mode, 9) THEN "t" ELSE Letter(mode, 0, "x")
BY DEF readPerms

LEMMA Places ==
  /\ Place(2) = "r" /\ Place(3) = "w" /\ Place(4) = "x"
  /\ Place(5) = "r" /\ Place(6) = "w" /\ Place(7) = "x"
  /\ Place(8) = "r" /\ Place(9) = "w" /\ Place(10) = "x"
BY DEF Place

\* A bit is told when its letter is in its place, or by s or t.
ToldBy(p, bit) ==
  \/ bit <= 8 /\ p[10 - bit] = Place(10 - bit)
  \/ bit = 10 /\ p[4] = "s"
  \/ bit = 9 /\ p[10] = "t"

LEMMA ToldBits ==
  ASSUME NEW p, NEW bit \in 0..10
  PROVE  bit \in Told(p) <=> ToldBy(p, bit)
<1>1. bit \in {10 - k : k \in {l \in 2..10 : p[l] = Place(l)}} <=>
        bit <= 8 /\ p[10 - bit] = Place(10 - bit)
  <2>1. ASSUME NEW k \in 2..10, p[k] = Place(k), bit = 10 - k
        PROVE  bit <= 8 /\ p[10 - bit] = Place(10 - bit)
    <3>1. 10 - bit = k
      BY <2>1
    <3> QED
      BY <2>1, <3>1
  <2>2. ASSUME bit <= 8, p[10 - bit] = Place(10 - bit)
        PROVE  bit \in {10 - k : k \in {l \in 2..10 : p[l] = Place(l)}}
    <3>1. 10 - bit \in 2..10 /\ bit = 10 - (10 - bit)
      BY <2>2
    <3> QED
      BY <2>2, <3>1
  <2> QED
    BY <2>1, <2>2
<1> QED
  BY <1>1 DEF Told, ToldBy

LEMMA PermsAre ==
  ASSUME NEW mode \in Nat
  PROVE  LET p == readPerms(mode)
         IN  /\ \A k \in 2..10 : \/ p[k] \in {Place(k), "-"}
                                 \/ <<k, p[k]>> \in {<<4, "s">>, <<10, "t">>}
             /\ \A bit \in (0..10) \ LeftOpen(p) : Has(mode, bit) <=> bit \in Told(p)
             /\ p[1] = "d" <=> readMode(mode) = "Directory"
<1> DEFINE p == readPerms(mode)
<1>1. p[1] = "d" <=> readMode(mode) = "Directory"
  <2>1. p[1] = "d" <=> mode \div 4096 = 4
    BY DEF readPerms, Type
  <2>2. readMode(mode) = "Directory" <=> mode \div 4096 = 4
    BY DEF readMode, Type
  <2> QED
    BY <2>1, <2>2
<1>2. /\ p[2] = Letter(mode, 8, "r") /\ p[3] = Letter(mode, 7, "w")
      /\ p[4] = IF Has(mode, 10) THEN "s" ELSE Letter(mode, 6, "x")
      /\ p[5] = Letter(mode, 5, "r") /\ p[6] = Letter(mode, 4, "w")
      /\ p[7] = Letter(mode, 3, "x")
      /\ p[8] = Letter(mode, 2, "r") /\ p[9] = Letter(mode, 1, "w")
      /\ p[10] = IF Has(mode, 9) THEN "t" ELSE Letter(mode, 0, "x")
  BY Letters
<1> HIDE DEF p
<1>3. ASSUME NEW k \in 2..10
      PROVE  \/ p[k] \in {Place(k), "-"}
             \/ <<k, p[k]>> \in {<<4, "s">>, <<10, "t">>}
  <2>1. \/ k = 2 \/ k = 3 \/ k = 4 \/ k = 5 \/ k = 6 \/ k = 7 \/ k = 8 \/ k = 9 \/ k = 10
    OBVIOUS
  <2> QED
    BY <1>2, <2>1, Places DEF Letter
<1>4. ASSUME NEW bit \in (0..10) \ LeftOpen(p)
      PROVE  Has(mode, bit) <=> bit \in Told(p)
  <2>1. bit \in Told(p) <=> ToldBy(p, bit)
    BY ToldBits
  <2>2. CASE bit \in {9, 10}
    BY <1>2, <2>1, <2>2 DEF Letter, ToldBy
  <2>3. CASE bit \in {0, 6}
    <3>1. bit = 0 => p[10] # "t"
      BY <1>4 DEF LeftOpen
    <3>2. bit = 6 => p[4] # "s"
      BY <1>4 DEF LeftOpen
    <3> QED
      BY <1>2, <2>1, <2>3, <3>1, <3>2, Places DEF Letter, ToldBy
  <2>4. CASE bit \in {1, 2, 3, 4, 5, 7, 8}
    BY <1>2, <2>1, <2>4, Places DEF Letter, ToldBy
  <2> QED
    BY <2>2, <2>3, <2>4
<1> QED
  BY <1>1, <1>3, <1>4 DEF p

-----------------------------------------------------------------------------
(* readETime and startTime. *)

LEMMA Quotient ==
  ASSUME NEW t \in Nat
  PROVE  /\ t \div CLK \in Nat
         /\ (t \div CLK) * CLK <= t /\ t < (t \div CLK) * CLK + CLK
<1>1. CLK \in Nat \ {0}
  BY CphfReaderAssumption
<1> QED
  BY <1>1

\* Six digits are enough for the hours.
LEMMA HourDigits ==
  ASSUME NEW hour \in Nat, hour < 10^6
  PROVE  Digits(hour) \in Nat /\ Digits(hour) <= 6
<1> DEFINE S == {k \in 1..9 : 10^k <= hour}
<1>1. S \subseteq 1..5
  <2> SUFFICES ASSUME NEW k \in S PROVE k \in 1..5
    OBVIOUS
  <2>1. k \in 1..9 /\ 10^k <= hour
    OBVIOUS
  <2>2. ~(10^6 <= hour) /\ ~(10^7 <= hour) /\ ~(10^8 <= hour) /\ ~(10^9 <= hour)
    BY SMT
  <2>3. k # 6 /\ k # 7 /\ k # 8 /\ k # 9
    BY <2>1, <2>2
  <2> QED
    BY <2>1, <2>3
<1>2. IsFiniteSet(1..5) /\ Cardinality(1..5) = 5
  <2>1. 1 \in Int /\ 5 \in Int /\ ~(1 > 5) /\ (5 - 1) + 1 = 5
    OBVIOUS
  <2> QED
    BY <2>1, FS_Interval
<1> HIDE DEF S
<1>3. IsFiniteSet(S) /\ Cardinality(S) <= 5
  BY <1>1, <1>2, FS_Subset
<1>4. Cardinality(S) \in Nat
  BY <1>3, FS_CardinalityType
<1> QED
  BY <1>3, <1>4 DEF Digits, S

LEMMA TicksFit == Ticks \subseteq {t \in Nat : t \div CLK <= INT_MAX}
BY CphfReaderAssumption, Zenon

LEMMA ETimeIs ==
  ASSUME NEW t \in Ticks
  PROVE  /\ Len(readETime(t)) = 3
         /\ readETime(t)[2] \in 0..59 /\ readETime(t)[3] \in 0..59
         /\ 3600 * readETime(t)[1] + 60 * readETime(t)[2] + readETime(t)[3] = t \div CLK
<1> DEFINE sec  == t \div CLK
           hour == sec \div 3600
<1>1. sec \in Nat /\ sec <= INT_MAX
  <2>1. t \in {u \in Nat : u \div CLK <= INT_MAX}
    BY TicksFit
  <2> QED
    BY <2>1, Quotient
<1> HIDE DEF sec
<1>2. hour \in Nat /\ hour < 10^6
  BY <1>1, SMT DEF INT_MAX
<1>3. /\ (sec % 3600) \div 60 \in 0..59 /\ (sec % 3600) % 60 \in 0..59
      /\ 3600 * hour + 60 * ((sec % 3600) \div 60) + ((sec % 3600) % 60) = sec
  BY <1>1
<1> HIDE DEF hour
<1>4. Digits(hour) \in Nat /\ Digits(hour) <= 6
  BY <1>2, HourDigits
<1>5. Digits(hour) + 6 < charBuff
  BY <1>4 DEF charBuff
<1>6. readETime(t) = <<hour, (sec % 3600) \div 60, (sec % 3600) % 60>>
  BY <1>5 DEF readETime, sec, hour
<1> QED
  BY <1>3, <1>6 DEF sec

LEMMA StartTimeIs ==
  ASSUME NEW boot \in Nat, NEW start \in Nat, NEW opened \in Nat, NEW now \in Nat,
         boot + start <= opened, opened <= now
  PROVE  LET started == boot + start
             between == now - opened
             shown   == startTime(boot, start, opened, now)
         IN  /\ shown * CLK < started + between + CLK
             /\ shown * CLK > started + between - 2 * CLK
<1> DEFINE a == now \div CLK
           b == (opened - boot) \div CLK
           c == start \div CLK
<1>1. CLK \in Nat
  BY CphfReaderAssumption
<1>2. opened - boot \in Nat
  OBVIOUS
<1>3. a \in Nat /\ a * CLK <= now /\ now < a * CLK + CLK
  BY Quotient
<1>4. b \in Nat /\ b * CLK <= opened - boot /\ opened - boot < b * CLK + CLK
  BY <1>2, Quotient
<1>5. c \in Nat /\ c * CLK <= start /\ start < c * CLK + CLK
  BY Quotient
<1>6. startTime(boot, start, opened, now) = a - b + c
  BY DEF startTime
<1> HIDE DEF a, b, c
<1>7. (a - b + c) * CLK = a * CLK - b * CLK + c * CLK
  BY <1>1, <1>3, <1>4, <1>5
<1>8. a * CLK \in Nat /\ b * CLK \in Nat /\ c * CLK \in Nat
  BY <1>1, <1>3, <1>4, <1>5
<1> DEFINE x == a * CLK
           y == b * CLK
           z == c * CLK
<1>9. /\ x - y + z < boot + start + (now - opened) + CLK
      /\ x - y + z > boot + start + (now - opened) - 2 * CLK
  <2>1. /\ x \in Nat /\ y \in Nat /\ z \in Nat
        /\ x <= now /\ now < x + CLK /\ y <= opened - boot /\ opened - boot < y + CLK
        /\ z <= start /\ start < z + CLK
    BY <1>3, <1>4, <1>5, <1>8
  <2> HIDE DEF x, y, z
  <2> QED
    BY <1>1, <2>1
<1> QED
  BY <1>6, <1>7, <1>9

-----------------------------------------------------------------------------
(* buildDeviceMap and readDevice. *)

\* The maps after the first n of N lines.
AreMaps(maps, lines, N) ==
  maps = [n \in 0..N |-> IF n = 0 THEN EmptyMap ELSE AddLine(maps[n - 1], lines[n])]

LEMMA MapsExist ==
  ASSUME NEW lines, NEW N \in Nat
  PROVE  \E maps : AreMaps(maps, lines, N)
<1> DEFINE S == {m \in 0..N : \E maps : AreMaps(maps, lines, m)}
<1>1. 0 \in S
  <2>1. AreMaps([n \in 0..0 |-> EmptyMap], lines, 0)
    BY DEF AreMaps
  <2> QED
    BY <2>1
<1>2. ASSUME NEW m \in 1..N, m - 1 \in S PROVE m \in S
  <2>1. PICK maps : AreMaps(maps, lines, m - 1)
    BY <1>2
  <2> DEFINE more == [n \in 0..m |-> IF n = m THEN AddLine(maps[m - 1], lines[m]) ELSE maps[n]]
  <2>2. ASSUME NEW n \in 0..m
        PROVE  more[n] = IF n = 0 THEN EmptyMap ELSE AddLine(more[n - 1], lines[n])
    <3>1. CASE n = m
      BY <3>1
    <3>2. CASE n # m
      <4>1. n \in 0..(m - 1) /\ (n # 0 => n - 1 \in 0..(m - 1))
        BY <3>2
      <4>2. maps[n] = IF n = 0 THEN EmptyMap ELSE AddLine(maps[n - 1], lines[n])
        BY <2>1, <4>1 DEF AreMaps
      <4>3. n # 0 => more[n - 1] = maps[n - 1]
        BY <4>1
      <4> QED
        BY <3>2, <4>2, <4>3
    <3> QED
      BY <3>1, <3>2
  <2>3. AreMaps(more, lines, m)
    BY <2>2 DEF AreMaps
  <2> QED
    BY <2>3
<1> HIDE DEF S
<1>3. \A m \in 0..N : m \in S
  BY <1>1, <1>2, CountingUp
<1> QED
  BY <1>3 DEF S

\* The map after n lines: each major number has the first line with it.
HoldsFirst(deviceMap, lines, n) ==
  /\ DOMAIN deviceMap = {lines[k].major : k \in 1..n}
  /\ \A k \in 1..n :
       (\A j \in 1..(k - 1) : lines[j].major # lines[k].major)
       => deviceMap[lines[k].major] = [range |-> MinorRange(lines[k]), driver |-> lines[k]]

LEMMA AddLineHolds ==
  ASSUME NEW lines, NEW deviceMap, NEW n \in Nat \ {0}, HoldsFirst(deviceMap, lines, n - 1)
  PROVE  HoldsFirst(AddLine(deviceMap, lines[n]), lines, n)
<1> DEFINE entry == [range |-> MinorRange(lines[n]), driver |-> lines[n]]
           new == MapInsert(deviceMap, lines[n].major, entry)
<1>1. AddLine(deviceMap, lines[n]) = new
  BY DEF AddLine
<1> HIDE DEF entry
<1>2. /\ DOMAIN new = DOMAIN deviceMap \cup {lines[n].major}
      /\ \A x \in DOMAIN deviceMap : new[x] = deviceMap[x]
      /\ lines[n].major \notin DOMAIN deviceMap => new[lines[n].major] = entry
  BY InsertKeeps
<1>3. DOMAIN deviceMap = {lines[k].major : k \in 1..(n - 1)}
  BY DEF HoldsFirst
<1>4. 1..n = (1..(n - 1)) \cup {n}
  OBVIOUS
<1> HIDE DEF new
<1>5. DOMAIN new = {lines[k].major : k \in 1..n}
  BY <1>2, <1>3, <1>4
<1>6. ASSUME NEW k \in 1..n, \A j \in 1..(k - 1) : lines[j].major # lines[k].major
      PROVE  new[lines[k].major] = [range |-> MinorRange(lines[k]), driver |-> lines[k]]
  <2>1. CASE k = n
    <3>1. lines[n].major \notin DOMAIN deviceMap
      BY <1>3, <1>6, <2>1
    <3> QED
      BY <1>2, <2>1, <3>1 DEF entry
  <2>2. CASE k # n
    <3>1. k \in 1..(n - 1)
      BY <2>2
    <3>2. lines[k].major \in DOMAIN deviceMap
      BY <1>3, <3>1
    <3>3. deviceMap[lines[k].major] = [range |-> MinorRange(lines[k]), driver |-> lines[k]]
      BY <1>6, <3>1 DEF HoldsFirst
    <3> QED
      BY <1>2, <3>2, <3>3
  <2> QED
    BY <2>1, <2>2
<1> QED
  BY <1>1, <1>5, <1>6 DEF HoldsFirst

LEMMA DeviceMapHolds ==
  ASSUME NEW lines, Len(lines) \in Nat
  PROVE  HoldsFirst(buildDeviceMap(lines), lines, Len(lines))
<1> DEFINE N == Len(lines)
           maps == CHOOSE m : AreMaps(m, lines, N)
<1>1. AreMaps(maps, lines, N)
  BY MapsExist
<1>2. buildDeviceMap(lines) = maps[N]
  BY DEF buildDeviceMap, AreMaps
<1> HIDE DEF N, maps
<1>3. N \in Nat
  BY DEF N
<1> DEFINE S == {n \in 0..N : HoldsFirst(maps[n], lines, n)}
<1>4. 0 \in S
  <2>1. maps[0] = EmptyMap
    BY <1>1, <1>3 DEF AreMaps
  <2>2. HoldsFirst(maps[0], lines, 0)
    BY <2>1 DEF HoldsFirst, EmptyMap
  <2> QED
    BY <1>3, <2>2
<1>5. ASSUME NEW n \in 1..N, n - 1 \in S PROVE n \in S
  <2>1. maps[n] = AddLine(maps[n - 1], lines[n])
    BY <1>1, <1>3 DEF AreMaps
  <2>2. HoldsFirst(maps[n], lines, n)
    BY <1>5, <2>1, AddLineHolds
  <2> QED
    BY <1>3, <2>2
<1> HIDE DEF S
<1>6. \A n \in 0..N : n \in S
  BY <1>3, <1>4, <1>5, CountingUp
<1>7. HoldsFirst(maps[N], lines, N)
  BY <1>3, <1>6 DEF S
<1> QED
  BY <1>2, <1>7 DEF N

\* What readDevice shows.
Found(lines, device, k) ==
  /\ Covers(lines[k], device)
  /\ \A j \in 1..(k - 1) : lines[j].major # lines[k].major

LEMMA RangeCovers ==
  ASSUME NEW line \in Line, NEW n \in Nat,
         LET range == MinorRange(line)
             minor == [min |-> n, max |-> n]
         IN  ~Before(range, minor) /\ ~Before(minor, range)
  PROVE  n \in MinorRange(line).min..MinorRange(line).max
<1>1. MinorRange(line).min \in Nat /\ MinorRange(line).max \in Nat
      /\ MinorRange(line).min <= MinorRange(line).max
  BY DEF Line, MinorRange
<1> QED
  BY <1>1 DEF Before

LEMMA CoversFound ==
  ASSUME NEW line \in Line, NEW n \in MinorRange(line).min..MinorRange(line).max
  PROVE  LET range == MinorRange(line)
             minor == [min |-> n, max |-> n]
         IN  ~Before(range, minor) /\ ~Before(minor, range)
<1>1. MinorRange(line).min \in Nat /\ MinorRange(line).max \in Nat
  BY DEF Line, MinorRange
<1> QED
  BY <1>1 DEF Before

LEMMA FirstLine ==
  ASSUME NEW lines, Len(lines) \in Nat, NEW major \in {lines[k].major : k \in 1..Len(lines)}
  PROVE  \E k \in 1..Len(lines) : /\ lines[k].major = major
                                  /\ \A j \in 1..(k - 1) : lines[j].major # major
<1> DEFINE N == Len(lines)
           S == {k \in 1..N : lines[k].major = major}
<1>1. PICK k \in S : \A j \in S : k <= j
  <2>1. S \in SUBSET (0..N) /\ S # {}
    OBVIOUS
  <2> HIDE DEF S
  <2> QED
    BY <2>1, SmallestIn
<1>2. ASSUME NEW j \in 1..(k - 1) PROVE lines[j].major # major
  <2>1. j \in 1..N /\ ~(k <= j)
    BY <1>1
  <2>2. j \notin S
    BY <1>1, <2>1
  <2> QED
    BY <2>1, <2>2
<1> QED
  BY <1>1, <1>2

LEMMA DeviceIs ==
  ASSUME NEW lines \in Drivers, NEW dev \in Devices, NEW rdev \in Devices
  PROVE  LET shown == readDevice(dev, rdev, lines)
         IN  /\ shown.label # "?" =>
                  \E k \in DOMAIN lines : /\ Covers(lines[k], shown.device)
                                          /\ ShownLabel(lines[k]) = shown.label
             /\ \A k \in DOMAIN lines :
                  Found(lines, shown.device, k) => shown.label = ShownLabel(lines[k])
<1> DEFINE shown == readDevice(dev, rdev, lines)
           d == shown.device
           N == Len(lines)
           deviceMap == buildDeviceMap(lines)
           minor == [min |-> d[2], max |-> d[2]]
           found == /\ d[1] \in DOMAIN deviceMap
                    /\ ~Before(deviceMap[d[1]].range, minor)
                    /\ ~Before(minor, deviceMap[d[1]].range)
<1>1. d \in Nat \X Nat
  <2>1. dev \in Nat \X Nat /\ rdev \in Nat \X Nat
    BY CphfReaderAssumption
  <2> QED
    BY <2>1 DEF readDevice
<1>2. lines \in Seq(Line) /\ N \in Nat /\ DOMAIN lines = 1..N /\ \A k \in 1..N : lines[k] \in Line
  <2>1. lines \in Seq(Line)
    BY CphfReaderAssumption
  <2> QED
    BY <2>1, LenProperties, ElementOfSeq
<1>3. shown.label = IF found THEN ShownLabel(deviceMap[d[1]].driver) ELSE "?"
  BY DEF readDevice
<1>4. HoldsFirst(deviceMap, lines, N)
  BY <1>2, DeviceMapHolds
<1> HIDE DEF shown, deviceMap, N
<1>5. ASSUME shown.label # "?"
      PROVE  \E k \in DOMAIN lines : Covers(lines[k], d) /\ ShownLabel(lines[k]) = shown.label
  <2>1. found /\ shown.label = ShownLabel(deviceMap[d[1]].driver)
    BY <1>3, <1>5
  <2>2. d[1] \in {lines[k].major : k \in 1..N}
    BY <1>4, <2>1 DEF HoldsFirst
  <2>3. PICK k \in 1..N : lines[k].major = d[1] /\ \A j \in 1..(k - 1) : lines[j].major # d[1]
    BY <1>2, <2>2, FirstLine DEF N
  <2>4. deviceMap[d[1]] = [range |-> MinorRange(lines[k]), driver |-> lines[k]]
    BY <1>4, <2>3 DEF HoldsFirst
  <2>5. lines[k] \in Line /\ d[2] \in Nat
    BY <1>1, <1>2
  <2>6. ~Before(MinorRange(lines[k]), minor) /\ ~Before(minor, MinorRange(lines[k]))
    BY <2>1, <2>4
  <2>7. d[2] \in MinorRange(lines[k]).min..MinorRange(lines[k]).max
    BY <2>5, <2>6, RangeCovers
  <2>8. Covers(lines[k], d)
    BY <2>3, <2>7 DEF Covers
  <2>9. ShownLabel(lines[k]) = shown.label
    BY <2>1, <2>4
  <2> QED
    BY <1>2, <2>8, <2>9
<1>6. ASSUME NEW k \in DOMAIN lines, Found(lines, d, k)
      PROVE  shown.label = ShownLabel(lines[k])
  <2>1. k \in 1..N /\ lines[k] \in Line
    BY <1>2
  <2>2. lines[k].major = d[1] /\ d[2] \in MinorRange(lines[k]).min..MinorRange(lines[k]).max
    BY <1>6 DEF Found, Covers
  <2>3. deviceMap[d[1]] = [range |-> MinorRange(lines[k]), driver |-> lines[k]]
    BY <1>4, <1>6, <2>1, <2>2 DEF HoldsFirst, Found
  <2>4. d[1] \in DOMAIN deviceMap
    BY <1>4, <2>1, <2>2 DEF HoldsFirst
  <2>5. ~Before(MinorRange(lines[k]), minor) /\ ~Before(minor, MinorRange(lines[k]))
    BY <2>1, <2>2, CoversFound
  <2>6. found
    BY <2>3, <2>4, <2>5
  <2> QED
    BY <1>3, <2>3, <2>6
<1> QED
  BY <1>5, <1>6 DEF shown

-----------------------------------------------------------------------------
(* What is answered is what the helper called gives. *)

Answered ==
  \/ call = <<"none">>
  \/ \E mode \in Modes : call = <<"perms", mode>> /\ answer = <<readPerms(mode), readMode(mode)>>
  \/ \E t \in Ticks : call = <<"etime", t>> /\ answer = readETime(t)
  \/ \E value \in Sizes : call = <<"format", value>> /\ answer = format(value)
  \/ \E boot, start, opened, now \in Moments :
       /\ boot + start <= opened /\ opened <= now
       /\ call = <<"start", boot, start, opened, now>>
       /\ answer = startTime(boot, start, opened, now)
  \/ \E dev, rdev \in Devices, lines \in Drivers :
       call = <<"device", dev, rdev, lines>> /\ answer = readDevice(dev, rdev, lines)

LEMMA Invariance == Spec => []Answered
<1>1. Init => Answered
  BY DEF Init, Answered
<1>2. Answered /\ [Next]_vars => Answered'
  <2> SUFFICES ASSUME Answered, [Next]_vars PROVE Answered'
    OBVIOUS
  <2>1. CASE ReadPerms
    BY <2>1 DEF ReadPerms, Answered
  <2>2. CASE ReadETime
    BY <2>2 DEF ReadETime, Answered
  <2>3. CASE Format
    BY <2>3 DEF Format, Answered
  <2>4. CASE ReadTime
    BY <2>4 DEF ReadTime, Answered
  <2>5. CASE ReadDevice
    BY <2>5 DEF ReadDevice, Answered
  <2>6. CASE Return
    BY <2>6 DEF Return, Answered
  <2>7. CASE UNCHANGED vars
    BY <2>7 DEF vars, Answered
  <2> QED
    BY <2>1, <2>2, <2>3, <2>4, <2>5, <2>6, <2>7 DEF Next
<1> QED
  BY <1>1, <1>2, PTL DEF Spec

-----------------------------------------------------------------------------
(* What follows. *)

LEMMA CalledWith ==
  ASSUME Answered
  PROVE  /\ call[1] = "perms" =>
              \E mode \in Modes : call = <<"perms", mode>>
                                  /\ answer = <<readPerms(mode), readMode(mode)>>
         /\ call[1] = "etime" => \E t \in Ticks : call = <<"etime", t>> /\ answer = readETime(t)
         /\ call[1] = "start" =>
              \E boot, start, opened, now \in Moments :
                /\ boot + start <= opened /\ opened <= now
                /\ call = <<"start", boot, start, opened, now>>
                /\ answer = startTime(boot, start, opened, now)
         /\ call[1] = "device" =>
              \E dev, rdev \in Devices, lines \in Drivers :
                call = <<"device", dev, rdev, lines>> /\ answer = readDevice(dev, rdev, lines)
BY DEF Answered

\* By the letters alone one can tell of every bit of every mode but S_ISUID whether
\* it is set, except the x under an s or a t; d stands for a directory
\* (CPHFReader::readPerms, FileStatReader::readMode).
THEOREM PermsCorrect == Spec => []PermsReadBack
<1>1. Answered => PermsReadBack
  <2> SUFFICES ASSUME Answered, call[1] = "perms" PROVE PermsReadBack
    BY DEF PermsReadBack
  <2>1. PICK mode \in Modes : call = <<"perms", mode>>
                              /\ answer = <<readPerms(mode), readMode(mode)>>
    BY CalledWith
  <2>2. mode \in Nat
    <3>1. mode \in 0..(2^16 - 1)
      BY CphfReaderAssumption
    <3> QED
      BY <3>1
  <2>3. answer[1] = readPerms(mode) /\ answer[2] = readMode(mode) /\ call[2] = mode
    BY <2>1
  <2> QED
    BY <2>2, <2>3, PermsAre DEF PermsReadBack
<1> QED
  BY <1>1, Invariance, PTL

\* Hours, minutes and seconds are those of the time given, and fit the buffer of
\* CPHFReader::readETime for every number of seconds an int holds.
THEOREM ETimeCorrect == Spec => []ETimeExact
<1>1. Answered => ETimeExact
  <2> SUFFICES ASSUME Answered, call[1] = "etime" PROVE ETimeExact
    BY DEF ETimeExact
  <2>1. PICK t \in Ticks : call = <<"etime", t>> /\ answer = readETime(t)
    BY CalledWith
  <2>2. call[2] = t
    BY <2>1
  <2> QED
    BY <2>1, <2>2, ETimeIs DEF ETimeExact
<1> QED
  BY <1>1, Invariance, PTL

\* The three roundings of ProcReader::readTime never add up to more than a second
\* late or two early, whatever the clock's ticks a second are.
THEOREM StartTimeCorrect == Spec => []StartTimeClose
<1>1. Answered => StartTimeClose
  <2> SUFFICES ASSUME Answered, call[1] = "start" PROVE StartTimeClose
    BY DEF StartTimeClose
  <2>1. PICK boot, start, opened, now \in Moments :
               /\ boot + start <= opened /\ opened <= now
               /\ call = <<"start", boot, start, opened, now>>
               /\ answer = startTime(boot, start, opened, now)
    BY CalledWith
  <2>2. boot \in Nat /\ start \in Nat /\ opened \in Nat /\ now \in Nat
    BY CphfReaderAssumption
  <2>3. call[2] = boot /\ call[3] = start /\ call[4] = opened /\ call[5] = now
    BY <2>1
  <2> DEFINE shown == startTime(boot, start, opened, now)
  <2>4. /\ shown * CLK < boot + start + (now - opened) + CLK
        /\ shown * CLK > boot + start + (now - opened) - 2 * CLK
    BY <2>1, <2>2, StartTimeIs
  <2> QED
    BY <2>1, <2>3, <2>4 DEF StartTimeClose
<1> QED
  BY <1>1, Invariance, PTL

\* No device is shown under a driver that does not have its number
\* (CPHFReader::readDevice), for every list of drivers.
THEOREM LabelsCorrect == Spec => []LabelIsOfDriver
<1>1. Answered => LabelIsOfDriver
  <2> SUFFICES ASSUME Answered, call[1] = "device" PROVE LabelIsOfDriver
    BY DEF LabelIsOfDriver
  <2>1. PICK dev \in Devices, rdev \in Devices, lines \in Drivers :
               call = <<"device", dev, rdev, lines>> /\ answer = readDevice(dev, rdev, lines)
    BY CalledWith
  <2>2. call[4] = lines
    BY <2>1
  <2> QED
    BY <2>1, <2>2, DeviceIs DEF LabelIsOfDriver
<1> QED
  BY <1>1, Invariance, PTL

\* A device of the driver that comes first with its major number is shown as one of
\* it, however many ranges buildDeviceMap loses after it.
THEOREM FirstDriverCorrect == Spec => []FirstDriverFound
<1>1. Answered => FirstDriverFound
  <2> SUFFICES ASSUME Answered, call[1] = "device" PROVE FirstDriverFound
    BY DEF FirstDriverFound
  <2>1. PICK dev \in Devices, rdev \in Devices, lines \in Drivers :
               call = <<"device", dev, rdev, lines>> /\ answer = readDevice(dev, rdev, lines)
    BY CalledWith
  <2>2. call[4] = lines
    BY <2>1
  <2> QED
    BY <2>1, <2>2, DeviceIs DEF FirstDriverFound, Found
<1> QED
  BY <1>1, Invariance, PTL

=============================================================================
