--------------------------- MODULE CphfFile_proofs ---------------------------
(***************************************************************************)
(* What the operations on entries leave, for the proofs about the readers: *)
(* in which order a map is visited, and what a loop over it adds.          *)
(***************************************************************************)
EXTENDS CphfFile, TLAPS, SequenceTheorems, FiniteSetTheorems, FunctionTheorems

\* std::map::insert keeps what there is.
LEMMA InsertKeeps ==
  ASSUME NEW m, NEW k, NEW v
  PROVE  /\ DOMAIN MapInsert(m, k, v) = DOMAIN m \cup {k}
         /\ \A x \in DOMAIN m : MapInsert(m, k, v)[x] = m[x]
         /\ k \notin DOMAIN m => MapInsert(m, k, v)[k] = v
BY DEF MapInsert

(***************************************************************************)
(* Every key is visited, and a smaller one before a greater one.  The      *)
(* position of a key is the number of smaller ones: as no two keys have    *)
(* the same, and there are as many positions as keys, each position has    *)
(* its key.                                                                *)
(***************************************************************************)
LEMMA AscendingVisits ==
  ASSUME NEW S, IsFiniteSet(S), S \subseteq Int
  PROVE  /\ Cardinality(S) \in Nat
         /\ \A n \in 1..Cardinality(S) : Ascending(S)[n] \in S
         /\ \A x \in S : \E n \in 1..Cardinality(S) : Ascending(S)[n] = x
         /\ \A m, n \in 1..Cardinality(S) : m < n => Ascending(S)[m] < Ascending(S)[n]
<1> DEFINE Below(x) == {y \in S : y < x}
           rank == [x \in S |-> Cardinality(Below(x))]
           N == Cardinality(S)
<1>1. N \in Nat
  BY FS_CardinalityType
<1>2. \A x \in S : /\ IsFiniteSet(Below(x))
                   /\ Cardinality(Below(x)) \in Nat
                   /\ Cardinality(Below(x)) < N
  <2> TAKE x \in S
  <2>1. Below(x) \in SUBSET S /\ x \notin Below(x)
    OBVIOUS
  <2>2. IsFiniteSet(Below(x)) /\ Cardinality(Below(x)) <= N /\ (N = Cardinality(Below(x)) => S = Below(x))
    BY <2>1, FS_Subset
  <2>3. Cardinality(Below(x)) \in Nat
    BY <2>2, FS_CardinalityType
  <2> QED
    BY <1>1, <2>1, <2>2, <2>3
<1>3. \A x, z \in S : x < z => Cardinality(Below(x)) < Cardinality(Below(z))
  <2> TAKE x, z \in S
  <2> HAVE x < z
  <2>1. ~(x < x) /\ \A y \in S : y < x => y < z
    OBVIOUS
  <2>2. Below(x) \in SUBSET Below(z) /\ x \in Below(z) /\ x \notin Below(x)
    <3>1. \A y \in Below(x) : y \in Below(z)
      BY <2>1
    <3> QED
      BY <2>1, <3>1
  <2>3. /\ Cardinality(Below(x)) <= Cardinality(Below(z))
        /\ Cardinality(Below(z)) = Cardinality(Below(x)) => Below(z) = Below(x)
    BY <1>2, <2>2, FS_Subset
  <2> QED
    BY <1>2, <2>2, <2>3
<1>4. rank \in [S -> 0..(N - 1)]
  BY <1>1, <1>2
<1>5. \A x, z \in S : rank[x] = rank[z] => x = z
  BY <1>2, <1>3
<1>6. rank \in Injection(S, 0..(N - 1))
  BY <1>4, <1>5, Fun_IsInj
<1>7. IsFiniteSet(0..(N - 1)) /\ Cardinality(0..(N - 1)) = N
  BY <1>1, FS_Interval
<1>8. rank \in Surjection(S, 0..(N - 1))
  BY <1>6, <1>7, FS_Injection
<1>9. \A n \in 1..N : \E x \in S : Cardinality(Below(x)) = n - 1
  <2>1. \A t \in 0..(N - 1) : \E x \in S : rank[x] = t
    <3> HIDE DEF rank, N
    <3> QED
      BY <1>8, Fun_SurjectionProperties
  <2> TAKE n \in 1..N
  <2>2. n - 1 \in 0..(N - 1)
    BY <1>1
  <2> QED
    BY <2>1, <2>2
<1>10. \A n \in 1..N : /\ Ascending(S)[n] \in S
                       /\ Cardinality(Below(Ascending(S)[n])) = n - 1
  BY <1>9 DEF Ascending
<1> HIDE DEF Below, N, rank
<1>11. \A x \in S : \E n \in 1..N : Ascending(S)[n] = x
  <2> TAKE x \in S
  <2>1. Cardinality(Below(x)) + 1 \in 1..N
    BY <1>1, <1>2
  <2>2. Cardinality(Below(Ascending(S)[Cardinality(Below(x)) + 1])) = Cardinality(Below(x))
    BY <1>2, <1>10, <2>1
  <2>3. Ascending(S)[Cardinality(Below(x)) + 1] = x
    <3> DEFINE z == Ascending(S)[Cardinality(Below(x)) + 1]
    <3>1. z \in S /\ z \in Int /\ x \in Int
      BY <1>10, <2>1
    <3>2. ~(z < x) /\ ~(x < z)
      BY <1>2, <1>3, <2>2, <3>1
    <3> QED
      BY <3>1, <3>2
  <2> QED
    BY <2>1, <2>3
<1>12. \A m, n \in 1..N : m < n => Ascending(S)[m] < Ascending(S)[n]
  <2> TAKE m, n \in 1..N
  <2> HAVE m < n
  <2> DEFINE x == Ascending(S)[m]
             z == Ascending(S)[n]
  <2>1. x \in S /\ z \in S /\ x \in Int /\ z \in Int
    BY <1>10
  <2>2. Cardinality(Below(x)) = m - 1 /\ Cardinality(Below(z)) = n - 1
    BY <1>10
  <2>3. ~(z < x) /\ z # x
    BY <1>1, <1>3, <2>1, <2>2
  <2> QED
    BY <2>1, <2>3
<1> QED
  BY <1>1, <1>10, <1>11, <1>12 DEF N

\* The first key is the smallest.
LEMMA SmallestExists ==
  ASSUME NEW S, IsFiniteSet(S), S \subseteq Int, S # {}
  PROVE  \E x \in S : \A y \in S : x <= y
<1> DEFINE N == Cardinality(S)
           at == Ascending(S)
<1>1. /\ N \in Nat
      /\ \A n \in 1..N : at[n] \in S
      /\ \A x \in S : \E n \in 1..N : at[n] = x
      /\ \A m, n \in 1..N : m < n => at[m] < at[n]
  BY AscendingVisits
<1> HIDE DEF N, at
<1>2. 1 \in 1..N
  <2>1. PICK x \in S : TRUE
    OBVIOUS
  <2>2. PICK n \in 1..N : at[n] = x
    BY <1>1
  <2> QED
    BY <1>1, <2>2
<1>3. ASSUME NEW y \in S PROVE at[1] <= y
  <2>1. PICK n \in 1..N : at[n] = y
    BY <1>1
  <2>2. CASE n = 1
    BY <1>1, <1>2, <2>1, <2>2
  <2>3. CASE 1 < n
    <3>1. at[1] < at[n] /\ at[1] \in Int /\ at[n] \in Int
      BY <1>1, <1>2, <2>3
    <3> QED
      BY <2>1, <3>1
  <2> QED
    BY <2>2, <2>3
<1> QED
  BY <1>1, <1>2, <1>3

LEMMA SmallestIn ==
  ASSUME NEW N \in Nat, NEW S \in SUBSET (0..N), S # {}
  PROVE  \E x \in S : \A y \in S : x <= y
<1>1. IsFiniteSet(0..N)
  BY FS_Interval
<1>2. IsFiniteSet(S)
  BY <1>1, FS_Subset
<1>3. S \subseteq Int
  OBVIOUS
<1> QED
  BY <1>2, <1>3, SmallestExists

\* What holds of 0, and of n if of n - 1, holds up to N.
LEMMA CountingUp ==
  ASSUME NEW N \in Nat, NEW S, 0 \in S, \A n \in 1..N : n - 1 \in S => n \in S
  PROVE  \A n \in 0..N : n \in S
<1> DEFINE T == {n \in 0..N : n \notin S}
<1> SUFFICES ASSUME T # {} PROVE FALSE
  OBVIOUS
<1>1. PICK n \in T : \A k \in T : n <= k
  <2>1. T \in SUBSET (0..N)
    OBVIOUS
  <2> HIDE DEF T
  <2> QED
    BY <2>1, SmallestIn
<1>2. n \in 1..N /\ n - 1 \in 0..N /\ ~(n <= n - 1)
  BY <1>1
<1>3. n - 1 \in S
  BY <1>1, <1>2
<1> QED
  BY <1>1, <1>2, <1>3

\* And of pairs, the smallest first and then second component.
LEMMA FirstExists ==
  ASSUME NEW S, IsFiniteSet(S), S \subseteq Nat \X Nat, S # {}
  PROVE  \E e \in S : \A f \in S : e[1] < f[1] \/ (e[1] = f[1] /\ e[2] <= f[2])
<1> DEFINE image(T, k) == {e[k] : e \in T}
<1>1. ASSUME NEW T \in SUBSET S, NEW k \in 1..2, T # {}
      PROVE  \E x \in image(T, k) : \A y \in image(T, k) : x <= y
  <2> DEFINE at == [e \in T |-> e[k]]
  <2>1. IsFiniteSet(T)
    BY FS_Subset
  <2>2. at \in Surjection(T, image(T, k))
    <3>1. at \in [T -> image(T, k)]
      OBVIOUS
    <3>2. \A y \in image(T, k) : \E e \in T : at[e] = y
      OBVIOUS
    <3> QED
      BY <3>1, <3>2, Fun_IsSurj
  <2>3. IsFiniteSet(image(T, k))
    <3> HIDE DEF at, image
    <3> QED
      BY <2>1, <2>2, FS_Surjection
  <2>4. image(T, k) \subseteq Int /\ image(T, k) # {}
    <3>1. ASSUME NEW e \in T PROVE e[k] \in Nat
      <4>1. e \in Nat \X Nat /\ (k = 1 \/ k = 2)
        OBVIOUS
      <4> QED
        BY <4>1
    <3>2. PICK e \in T : TRUE
      BY <1>1
    <3>3. e[k] \in image(T, k)
      OBVIOUS
    <3> QED
      BY <3>1, <3>3
  <2> HIDE DEF image
  <2> QED
    BY <2>3, <2>4, SmallestExists
<1>2. PICK x \in image(S, 1) : \A y \in image(S, 1) : x <= y
  BY <1>1
<1> DEFINE T == {e \in S : e[1] = x}
<1>3. T \in SUBSET S /\ T # {}
  BY <1>2
<1>4. PICK z \in image(T, 2) : \A y \in image(T, 2) : z <= y
  <2>1. 2 \in 1..2
    OBVIOUS
  <2> HIDE DEF T, image
  <2> QED
    BY <1>1, <1>3, <2>1
<1>5. PICK e \in T : e[2] = z
  BY <1>4
<1>6. ASSUME NEW f \in S PROVE e[1] < f[1] \/ (e[1] = f[1] /\ e[2] <= f[2])
  <2>1. e[1] = x /\ x <= f[1] /\ x \in Nat /\ f[1] \in Nat
    BY <1>2, <1>5
  <2>2. f[1] = x => z <= f[2]
    BY <1>4
  <2> QED
    BY <1>5, <2>1, <2>2
<1> QED
  BY <1>5, <1>6

\* A map of attributes, with ids of I and values of V.
IsMap(m, I, V) ==
  /\ I \subseteq Int
  /\ IsFiniteSet(DOMAIN m)
  /\ DOMAIN m \subseteq I
  /\ \A id \in DOMAIN m : m[id] \in V

(***************************************************************************)
(* One attribute more: it is there, the others are still there, and it is  *)
(* before all of them or behind.                                           *)
(***************************************************************************)
Elements(attributes) == {attributes[k] : k \in DOMAIN attributes}

LEMMA AddAttributeAdds ==
  ASSUME NEW A, NEW attributes \in Seq(A), NEW id, NEW value, <<id, value>> \in A, NEW front
  PROVE  LET new == AddAttribute(attributes, id, value, front)
             L == Len(attributes)
         IN  /\ new \in Seq(A)
             /\ L \in Nat /\ DOMAIN attributes = 1..L /\ DOMAIN new = 1..(L + 1)
             /\ id = front => /\ new[1] = <<id, value>>
                              /\ \A k \in 2..(L + 1) : new[k] = attributes[k - 1]
             /\ id # front => /\ new[L + 1] = <<id, value>>
                              /\ \A k \in 1..L : new[k] = attributes[k]
             /\ Elements(new) = Elements(attributes) \cup {<<id, value>>}
<1> DEFINE new == AddAttribute(attributes, id, value, front)
           L == Len(attributes)
           a == <<id, value>>
           one == <<a>>
<1>1. L \in Nat /\ DOMAIN attributes = 1..L
  BY LenProperties
<1>2. new = IF id = front THEN one \o attributes ELSE Append(attributes, a)
  BY DEF AddAttribute
<1>3. one \in Seq(A) /\ Len(one) = 1 /\ one[1] = a
  OBVIOUS
<1> HIDE DEF L, one, new, a
<1>4. CASE id = front
  <2>1. /\ new \in Seq(A)
        /\ Len(new) = 1 + L
        /\ \A k \in 1..(1 + L) : new[k] = IF k <= 1 THEN one[k] ELSE attributes[k - 1]
    <3>1. new = one \o attributes
      BY <1>2, <1>4
    <3>2. /\ one \o attributes \in Seq(A)
          /\ Len(one \o attributes) = Len(one) + L
          /\ \A k \in 1..(Len(one) + L) :
               (one \o attributes)[k] = IF k <= Len(one) THEN one[k] ELSE attributes[k - Len(one)]
      BY <1>3, ConcatProperties DEF L
    <3> QED
      BY <1>3, <3>1, <3>2
  <2>2. DOMAIN new = 1..(L + 1)
    BY <1>1, <2>1, LenProperties
  <2>3. new[1] = a /\ \A k \in 2..(L + 1) : new[k] = attributes[k - 1]
    BY <1>1, <1>3, <2>1
  <2>4. \A k \in 1..(L + 1) : new[k] = a \/ \E j \in 1..L : new[k] = attributes[j]
    <3> TAKE k \in 1..(L + 1)
    <3>1. k # 1 => k \in 2..(L + 1) /\ k - 1 \in 1..L
      BY <1>1
    <3> QED
      BY <2>3, <3>1
  <2>5. \A j \in 1..L : \E k \in 1..(L + 1) : new[k] = attributes[j]
    <3> TAKE j \in 1..L
    <3>1. j + 1 \in 2..(L + 1) /\ j + 1 \in 1..(L + 1) /\ (j + 1) - 1 = j
      BY <1>1
    <3> QED
      BY <2>3, <3>1
  <2>6. 1 \in 1..(L + 1)
    BY <1>1
  <2>7. Elements(new) = Elements(attributes) \cup {a}
    <3>1. \A x \in Elements(new) : x \in Elements(attributes) \cup {a}
      BY <1>1, <2>2, <2>4 DEF Elements
    <3>2. \A x \in Elements(attributes) \cup {a} : x \in Elements(new)
      <4>1. Elements(new) = {new[k] : k \in 1..(L + 1)}
        BY <2>2 DEF Elements
      <4>2. \A x \in Elements(attributes) : x \in Elements(new)
        BY <1>1, <2>5, <4>1 DEF Elements
      <4>3. a \in Elements(new)
        BY <2>3, <2>6, <4>1
      <4> QED
        BY <4>2, <4>3
    <3> QED
      BY <3>1, <3>2
  <2> QED
    BY <1>1, <1>4, <2>1, <2>2, <2>3, <2>7 DEF a, L, new
<1>5. CASE id # front
  <2>1. /\ new \in Seq(A)
        /\ Len(new) = L + 1
        /\ \A k \in 1..L : new[k] = attributes[k]
        /\ new[L + 1] = a
    BY <1>2, <1>5, AppendProperties DEF L, a
  <2>2. DOMAIN new = 1..(L + 1)
    BY <1>1, <2>1, LenProperties
  <2>3. /\ 1..(L + 1) = (1..L) \cup {L + 1}
        /\ L + 1 \in 1..(L + 1)
    BY <1>1
  <2>4. Elements(new) = Elements(attributes) \cup {a}
    BY <1>1, <2>1, <2>2, <2>3 DEF Elements
  <2> QED
    BY <1>1, <1>5, <2>1, <2>2, <2>4 DEF a, L, new
<1> QED
  BY <1>4, <1>5

(***************************************************************************)
(* The loop: after n elements, `added[n]' has been made of `added[n - 1]'. *)
(***************************************************************************)
IsAdded(added, attributes, m, ids, N, front) ==
  added = [n \in 0..N |-> IF n = 0 THEN attributes
                                   ELSE AddAttribute(added[n - 1], ids[n], m[ids[n]], front)]

LEMMA LoopRuns ==
  ASSUME NEW attributes, NEW m, NEW ids, NEW N \in Nat, NEW front
  PROVE  \E added : IsAdded(added, attributes, m, ids, N, front)
<1> DEFINE S == {n \in 0..N : \E added : IsAdded(added, attributes, m, ids, n, front)}
<1>1. 0 \in S
  <2>1. IsAdded([n \in 0..0 |-> attributes], attributes, m, ids, 0, front)
    BY DEF IsAdded
  <2> QED
    BY <2>1
<1>2. ASSUME NEW n \in 1..N, n - 1 \in S PROVE n \in S
  <2>1. PICK added : IsAdded(added, attributes, m, ids, n - 1, front)
    BY <1>2
  <2> DEFINE more == [k \in 0..n |-> IF k = n THEN AddAttribute(added[n - 1], ids[n], m[ids[n]], front)
                                              ELSE added[k]]
  <2>2. ASSUME NEW k \in 0..n
        PROVE  more[k] = IF k = 0 THEN attributes
                                  ELSE AddAttribute(more[k - 1], ids[k], m[ids[k]], front)
    <3>1. CASE k = n
      BY <3>1
    <3>2. CASE k # n
      <4>1. k \in 0..(n - 1) /\ (k # 0 => k - 1 \in 0..(n - 1))
        BY <3>2
      <4>2. added[k] = IF k = 0 THEN attributes
                                ELSE AddAttribute(added[k - 1], ids[k], m[ids[k]], front)
        BY <2>1, <4>1 DEF IsAdded
      <4>3. k # 0 => more[k - 1] = added[k - 1]
        BY <4>1
      <4> QED
        BY <3>2, <4>2, <4>3
    <3> QED
      BY <3>1, <3>2
  <2>3. IsAdded(more, attributes, m, ids, n, front)
    BY <2>2 DEF IsAdded
  <2> QED
    BY <2>3
<1> HIDE DEF S
<1>3. \A n \in 0..N : n \in S
  BY <1>1, <1>2, CountingUp
<1> QED
  BY <1>3 DEF S

LEMMA AddAllRuns ==
  ASSUME NEW attributes, NEW m, NEW front, Cardinality(DOMAIN m) \in Nat
  PROVE  LET N   == Cardinality(DOMAIN m)
             ids == Ascending(DOMAIN m)
         IN  \E added :
               /\ added[0] = attributes
               /\ \A n \in 1..N : added[n] = AddAttribute(added[n - 1], ids[n], m[ids[n]], front)
               /\ AddAll(attributes, m, front) = added[N]
<1> DEFINE N == Cardinality(DOMAIN m)
           ids == Ascending(DOMAIN m)
           added == CHOOSE f : IsAdded(f, attributes, m, ids, N, front)
<1>1. N \in Nat
  OBVIOUS
<1>2. AddAll(attributes, m, front) = added[N]
  BY DEF AddAll, IsAdded
<1> HIDE DEF N, ids
<1>3. \E f : IsAdded(f, attributes, m, ids, N, front)
  BY <1>1, LoopRuns
<1>4. IsAdded(added, attributes, m, ids, N, front)
  BY <1>3
<1> HIDE DEF added
<1>5. added[0] = attributes
  BY <1>1, <1>4 DEF IsAdded
<1>6. \A n \in 1..N : added[n] = AddAttribute(added[n - 1], ids[n], m[ids[n]], front)
  BY <1>1, <1>4 DEF IsAdded
<1> QED
  BY <1>2, <1>5, <1>6 DEF N, ids

\* What the loop leaves: nothing is lost or made up.
Entries(m) == {<<id, m[id]>> : id \in DOMAIN m}

LEMMA EntryIds == ASSUME NEW m PROVE {a[1] : a \in Entries(m)} = DOMAIN m
<1>1. \A a \in Entries(m) : a[1] \in DOMAIN m
  BY DEF Entries
<1>2. ASSUME NEW id \in DOMAIN m PROVE \E a \in Entries(m) : a[1] = id
  <2>1. <<id, m[id]>> \in Entries(m) /\ <<id, m[id]>>[1] = id
    BY DEF Entries
  <2> QED
    BY <2>1
<1> QED
  BY <1>1, <1>2

LEMMA LoopAdds ==
  ASSUME NEW I, NEW V, NEW m, IsMap(m, I, V), NEW front,
         NEW attributes \in Seq(I \X V)
  PROVE  /\ AddAll(attributes, m, front) \in Seq(I \X V)
         /\ \A a : a \in Elements(AddAll(attributes, m, front))
                   <=> a \in Elements(attributes) \/ a \in Entries(m)
<1> DEFINE N == Cardinality(DOMAIN m)
           ids == Ascending(DOMAIN m)
           A == I \X V
           entry(n) == <<ids[n], m[ids[n]]>>
           Before(n) == {entry(k) : k \in 1..n}
<1>1. /\ N \in Nat
      /\ \A n \in 1..N : ids[n] \in DOMAIN m
      /\ \A id \in DOMAIN m : \E n \in 1..N : ids[n] = id
  BY AscendingVisits DEF IsMap
<1>2. PICK added : /\ added[0] = attributes
                   /\ \A n \in 1..N : added[n] = AddAttribute(added[n - 1], ids[n], m[ids[n]], front)
                   /\ AddAll(attributes, m, front) = added[N]
  BY <1>1, AddAllRuns
<1> HIDE DEF N, ids
<1>3. \A n \in 1..N : entry(n) \in A
  BY <1>1 DEF IsMap
<1> DEFINE S == {n \in 0..N : /\ added[n] \in Seq(A)
                              /\ Elements(added[n]) = Elements(attributes) \cup Before(n)}
<1>4. 0 \in S
  <2>1. Before(0) = {}
    OBVIOUS
  <2> HIDE DEF Before
  <2> QED
    BY <1>1, <1>2, <2>1
<1>5. ASSUME NEW n \in 1..N, n - 1 \in S PROVE n \in S
  <2>1. added[n] = AddAttribute(added[n - 1], ids[n], m[ids[n]], front)
    BY <1>2
  <2>2. added[n - 1] \in Seq(A) /\ Elements(added[n - 1]) = Elements(attributes) \cup Before(n - 1)
    BY <1>5
  <2>3. <<ids[n], m[ids[n]]>> \in A
    BY <1>3
  <2>4. /\ added[n] \in Seq(A)
        /\ Elements(added[n]) = Elements(added[n - 1]) \cup {entry(n)}
    <3> HIDE DEF A
    <3> QED
      BY <2>1, <2>2, <2>3, AddAttributeAdds
  <2>5. Before(n) = Before(n - 1) \cup {entry(n)}
    <3>1. 1..n = (1..(n - 1)) \cup {n}
      OBVIOUS
    <3> QED
      BY <3>1
  <2>6. n \in 0..N
    BY <1>1
  <2> HIDE DEF Before, entry, A
  <2> QED
    BY <2>2, <2>4, <2>5, <2>6
<1> HIDE DEF S, A
<1>6. \A n \in 0..N : n \in S
  BY <1>1, <1>4, <1>5, CountingUp
<1>7. N \in S
  BY <1>1, <1>6
<1>8. Before(N) = Entries(m)
  BY <1>1 DEF Entries
<1> QED
  BY <1>2, <1>7, <1>8 DEF S, A

LEMMA AddAllTyped ==
  ASSUME NEW I, NEW V, NEW m, IsMap(m, I, V), NEW front,
         NEW attributes \in Seq(I \X V)
  PROVE  AddAll(attributes, m, front) \in Seq(I \X V)
BY LoopAdds

LEMMA AddAllAdds ==
  ASSUME NEW I, NEW V, NEW m, IsMap(m, I, V), NEW front,
         NEW attributes \in Seq(I \X V)
  PROVE  Elements(AddAll(attributes, m, front)) = Elements(attributes) \cup Entries(m)
BY LoopAdds

(***************************************************************************)
(* Nor is the order: attributes in the order of a rank stay so when the    *)
(* one added in front ranks before all others, and the ones added behind   *)
(* rank behind those there are, in the order of their ids.                 *)
(***************************************************************************)
InOrder(attributes, rank) ==
  \A k, l \in DOMAIN attributes : k < l => rank[attributes[k][1]] < rank[attributes[l][1]]

LEMMA AddAttributeOrders ==
  ASSUME NEW I, NEW V, NEW attributes \in Seq(I \X V), NEW id \in I, NEW value \in V, NEW front,
         NEW rank \in [I -> Int], InOrder(attributes, rank),
         \A a \in Elements(attributes) : IF id = front THEN rank[id] < rank[a[1]]
                                                       ELSE rank[a[1]] < rank[id]
  PROVE  InOrder(AddAttribute(attributes, id, value, front), rank)
<1> DEFINE new == AddAttribute(attributes, id, value, front)
           L == Len(attributes)
           A == I \X V
<1>1. <<id, value>> \in A /\ attributes \in Seq(A)
  OBVIOUS
<1> HIDE DEF A
<1>2. /\ L \in Nat /\ DOMAIN attributes = 1..L /\ DOMAIN new = 1..(L + 1)
      /\ id = front => /\ new[1] = <<id, value>>
                       /\ \A k \in 2..(L + 1) : new[k] = attributes[k - 1]
      /\ id # front => /\ new[L + 1] = <<id, value>>
                       /\ \A k \in 1..L : new[k] = attributes[k]
  BY <1>1, AddAttributeAdds
<1> HIDE DEF new, L
<1>3. <<id, value>>[1] = id
  OBVIOUS
<1>4. \A k \in 1..L : attributes[k] \in Elements(attributes)
  BY <1>2 DEF Elements
<1> SUFFICES ASSUME NEW k \in 1..(L + 1), NEW l \in 1..(L + 1), k < l
             PROVE  rank[new[k][1]] < rank[new[l][1]]
  BY <1>2 DEF InOrder, new
<1>5. CASE id = front
  <2>1. l \in 2..(L + 1) /\ l - 1 \in 1..L /\ new[l] = attributes[l - 1]
    BY <1>2, <1>5
  <2>2. CASE k = 1
    BY <1>2, <1>3, <1>4, <1>5, <2>1, <2>2
  <2>3. CASE k # 1
    <3>1. k - 1 \in 1..L /\ k - 1 < l - 1 /\ new[k] = attributes[k - 1]
      BY <1>2, <1>5, <2>3
    <3> QED
      BY <1>2, <2>1, <3>1 DEF InOrder
  <2> QED
    BY <2>2, <2>3
<1>6. CASE id # front
  <2>1. k \in 1..L /\ new[k] = attributes[k]
    BY <1>2, <1>6
  <2>2. CASE l = L + 1
    BY <1>2, <1>3, <1>4, <1>6, <2>1, <2>2
  <2>3. CASE l # L + 1
    <3>1. l \in 1..L /\ new[l] = attributes[l]
      BY <1>2, <1>6, <2>3
    <3> QED
      BY <1>2, <2>1, <3>1 DEF InOrder
  <2> QED
    BY <2>2, <2>3
<1> QED
  BY <1>5, <1>6

LEMMA AddAllOrders ==
  ASSUME NEW I, NEW V, NEW m, IsMap(m, I, V), NEW front,
         NEW attributes \in Seq(I \X V),
         NEW rank \in [I -> Int], InOrder(attributes, rank),
         \A a \in Elements(attributes), id \in DOMAIN m :
           IF id = front THEN rank[id] < rank[a[1]] ELSE rank[a[1]] < rank[id],
         \A id, other \in DOMAIN m :
           id # front /\ (other = front \/ other < id) => rank[other] < rank[id]
  PROVE  InOrder(AddAll(attributes, m, front), rank)
<1> DEFINE N == Cardinality(DOMAIN m)
           ids == Ascending(DOMAIN m)
           A == I \X V
           entry(n) == <<ids[n], m[ids[n]]>>
           Before(n) == {entry(k) : k \in 1..n}
<1>1. /\ N \in Nat
      /\ \A n \in 1..N : ids[n] \in DOMAIN m
      /\ \A k, n \in 1..N : k < n => ids[k] < ids[n]
  BY AscendingVisits DEF IsMap
<1>2. PICK added : /\ added[0] = attributes
                   /\ \A n \in 1..N : added[n] = AddAttribute(added[n - 1], ids[n], m[ids[n]], front)
                   /\ AddAll(attributes, m, front) = added[N]
  <2> USE DEF N, ids
  <2> HIDE DEF entry, Before, A
  <2>1. Cardinality(DOMAIN m) \in Nat
    BY <1>1
  <2> QED
    BY ONLY <2>1, AddAllRuns
<1> HIDE DEF N, ids
<1>3. \A n \in 1..N : /\ ids[n] \in I /\ ids[n] \in Int /\ m[ids[n]] \in V
                      /\ entry(n) \in A /\ entry(n)[1] = ids[n]
  BY <1>1 DEF IsMap
<1> DEFINE S == {n \in 0..N : /\ added[n] \in Seq(A)
                              /\ Elements(added[n]) = Elements(attributes) \cup Before(n)
                              /\ InOrder(added[n], rank)}
<1>4. 0 \in S
  <2>1. Before(0) = {}
    OBVIOUS
  <2> HIDE DEF Before
  <2> QED
    BY <1>1, <1>2, <2>1
<1>5. ASSUME NEW n \in 1..N, n - 1 \in S PROVE n \in S
  <2>1. added[n] = AddAttribute(added[n - 1], ids[n], m[ids[n]], front)
    BY <1>2
  <2>2. /\ added[n - 1] \in Seq(A)
        /\ Elements(added[n - 1]) = Elements(attributes) \cup Before(n - 1)
        /\ InOrder(added[n - 1], rank)
    BY <1>5
  <2>3. <<ids[n], m[ids[n]]>> \in A
    BY <1>3
  <2>4. /\ added[n] \in Seq(A)
        /\ Elements(added[n]) = Elements(added[n - 1]) \cup {entry(n)}
    <3> HIDE DEF A
    <3> QED
      BY <2>1, <2>2, <2>3, AddAttributeAdds
  <2>5. Before(n) = Before(n - 1) \cup {entry(n)}
    <3>1. 1..n = (1..(n - 1)) \cup {n}
      OBVIOUS
    <3> QED
      BY <3>1
  <2>6. n \in 0..N
    BY <1>1
  <2>7. ASSUME NEW a \in Elements(added[n - 1])
        PROVE  IF ids[n] = front THEN rank[ids[n]] < rank[a[1]] ELSE rank[a[1]] < rank[ids[n]]
    <3>1. CASE a \in Elements(attributes)
      BY <1>1, <3>1
    <3>2. CASE a \in Before(n - 1)
      <4>1. PICK k \in 1..(n - 1) : a = entry(k)
        BY <3>2
      <4>2. k \in 1..N /\ k < n
        BY <1>1
      <4>3. /\ ids[k] < ids[n] /\ ids[k] \in DOMAIN m /\ ids[n] \in DOMAIN m
            /\ a[1] = ids[k] /\ ids[k] \in Int /\ ids[n] \in Int
        BY <1>1, <1>3, <4>1, <4>2
      <4>4. ids[k] # ids[n]
        BY <4>3
      <4> HIDE DEF entry
      <4>5. CASE ids[n] = front
        BY <4>3, <4>4, <4>5
      <4>6. CASE ids[n] # front
        BY <4>3, <4>6
      <4> QED
        BY <4>5, <4>6
    <3> QED
      BY <2>2, <3>1, <3>2
  <2>8. InOrder(added[n], rank)
    <3> DEFINE now == added[n - 1]
               id  == ids[n]
    <3>1. now \in Seq(I \X V) /\ InOrder(now, rank) /\ id \in I /\ m[id] \in V
      BY <1>3, <2>2
    <3>2. \A a \in Elements(now) : IF id = front THEN rank[id] < rank[a[1]]
                                               ELSE rank[a[1]] < rank[id]
      BY <2>7
    <3> HIDE DEF now, id, Before, entry
    <3>3. InOrder(AddAttribute(now, id, m[id], front), rank)
      BY <3>1, <3>2, AddAttributeOrders
    <3> QED
      BY <2>1, <3>3 DEF now, id
  <2> HIDE DEF Before, entry, A
  <2> QED
    BY <2>2, <2>4, <2>5, <2>6, <2>8
<1> HIDE DEF S, A
<1>6. \A n \in 0..N : n \in S
  BY <1>1, <1>4, <1>5, CountingUp
<1>7. N \in S
  BY <1>1, <1>6
<1> QED
  BY <1>2, <1>7 DEF S

=============================================================================
