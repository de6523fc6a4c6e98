-------------------------- MODULE InternerProofs --------------------------
(***************************************************************************)
(* The interner is correct for every hash function, every set of strings   *)
(* and every table size from 4 on: probes end, slots hold live strings, a  *)
(* live string is found, and each step is one of the abstract table.       *)
(*                                                                         *)
(* The invariant says of an array a that it stores the ids I (Stores): it  *)
(* holds nothing else, no id twice, and no empty slot lies before an id on *)
(* the probe for its string.  It holds of the slots with all live strings, *)
(* and of the array that grow fills with those moved so far.               *)
(***************************************************************************)
EXTENDS Interner, CountLemmas

OccupiedIn(a) == {i \in DOMAIN a : Occupied(a[i])}
TombsIn(a) == {i \in DOMAIN a : a[i] = Tombstone}

Array(a, n) == n \in Nat \ {0} /\ a \in [0 .. n - 1 -> Int] /\ \A i \in 0 .. n - 1 : a[i] >= -1

\* The probe in a, of size n, for id p with the bytes s passes no empty slot.
Reaches(s, a, n, p) ==
    \E k \in 0 .. n - 1 :
        /\ a[At(s, k, n)] = p
        /\ \A j \in 0 .. k - 1 : a[At(s, j, n)] # Empty

\* a stores the ids in I, whose bytes are in t.
Stores(t, a, n, I) ==
    /\ Array(a, n)
    /\ I \subseteq Nat \ {0} /\ \A p \in I : t[p] \in Strings
    /\ \A i \in 0 .. n - 1 : Occupied(a[i]) => a[i] \in I
    /\ \A i, j \in 0 .. n - 1 : Occupied(a[i]) /\ a[i] = a[j] => i = j
    /\ \A p \in I : Reaches(t[p], a, n, p)

\* The positions that grow has been over, and the ids it has moved.
Passed(m) == {i \in 0 .. m - 1 : Occupied(slots[i])}
MovedIds(m) == {slots[i] : i \in Passed(m)}

StringsOK ==
    /\ text \in Seq(Strings)
    /\ pool \subseteq 1 .. Len(text)
    /\ \A p, q \in pool : text[p] = text[q] => p = q
    /\ dead \subseteq pool
    /\ \A p \in dead : text[p] # EmptyStr

SlotsOK ==
    /\ Stores(text, slots, Cap, pool)
    /\ Cap >= 4
    /\ nuse = Cardinality(OccupiedIn(slots))
    /\ ndead = Cardinality(TombsIn(slots))
    /\ (nuse + ndead) * 10 < Cap * 7 + 10

JobOK ==
    job # NoJob =>
        /\ job = [str |-> job.str, new |-> job.new, next |-> job.next]
        /\ dead = {}
        /\ job.str \in Strings /\ \A p \in pool : text[p] # job.str
        /\ job.next \in 0 .. Cap
        /\ Stores(text, job.new, Cap * 2, MovedIds(job.next))
        /\ TombsIn(job.new) = {}
        /\ Cardinality(OccupiedIn(job.new)) = Cardinality(Passed(job.next))

InternerInv == StringsOK /\ SlotsOK /\ JobOK

---------------------------------------------------------------------------
(* Positions and arrays *)

\* A probe position is a position of the array.
LEMMA AtRange ==
  ASSUME NEW s \in Strings, NEW k \in Nat, NEW n \in Nat \ {0}
  PROVE  At(s, k, n) \in 0 .. n - 1
<1>1. Hash[s] \in Nat
  BY InternerAssumption
<1>2. Hash[s] + k \in Nat
  BY <1>1
<1> HIDE DEF At
<1> QED
  BY <1>2 DEF At

\* So are all the positions of a probe sequence.
LEMMA AtRanges ==
  ASSUME NEW s \in Strings, NEW n \in Nat \ {0}, NEW m \in 0 .. n - 1
  PROVE  \A j \in 0 .. m : At(s, j, n) \in 0 .. n - 1
<1> SUFFICES ASSUME NEW j \in 0 .. m PROVE At(s, j, n) \in 0 .. n - 1
  OBVIOUS
<1>1. j \in Nat
  OBVIOUS
<1> QED
  BY <1>1, AtRange

\* Division leaves one remainder.
LEMMA ModUnique ==
  ASSUME NEW n \in Nat \ {0}, NEW q \in Nat, NEW i \in 0 .. n - 1
  PROVE  (n * q + i) % n = i
  OBVIOUS

\* Quotient and remainder give the number back.
LEMMA DivMod ==
  ASSUME NEW h \in Nat, NEW n \in Nat \ {0}
  PROVE  h = n * (h \div n) + (h % n) /\ h % n \in 0 .. n - 1 /\ h \div n \in Nat
  OBVIOUS

\* A probe looks at every position.
LEMMA AtOnto ==
  ASSUME NEW s \in Strings, NEW n \in Nat \ {0}, NEW i \in 0 .. n - 1
  PROVE  \E k \in 0 .. n - 1 : At(s, k, n) = i
<1> DEFINE h == Hash[s]
           q == h \div n
           r == h % n
<1>1. h \in Nat
  BY InternerAssumption
<1>2. h = n * q + r /\ r \in 0 .. n - 1 /\ q \in Nat
  BY <1>1, DivMod
<1> HIDE DEF q, r
<1>3. CASE i >= r
  <2>1. h + (i - r) = n * q + i
    BY <1>1, <1>2, <1>3
  <2>2. (h + (i - r)) % n = i
    BY <1>2, <2>1, ModUnique
  <2>3. i - r \in 0 .. n - 1
    BY <1>2, <1>3
  <2> QED
    BY <2>2, <2>3 DEF At
<1>4. CASE i < r
  <2>1. h + (i + n - r) = n * (q + 1) + i /\ q + 1 \in Nat
    BY <1>1, <1>2, <1>4
  <2>2. (h + (i + n - r)) % n = i
    BY <1>2, <2>1, ModUnique
  <2>3. i + n - r \in 0 .. n - 1
    BY <1>2, <1>4
  <2> QED
    BY <2>2, <2>3 DEF At
<1> QED
  BY <1>2, <1>3, <1>4

\* A slot array is finite, and so is what is occupied and buried in it.
LEMMA ArraySize ==
  ASSUME NEW a, NEW n, Array(a, n)
  PROVE  /\ DOMAIN a = 0 .. n - 1 /\ Size(a) = n /\ IsFiniteSet(DOMAIN a)
         /\ IsFiniteSet(OccupiedIn(a)) /\ IsFiniteSet(TombsIn(a))
<1>1. DOMAIN a = 0 .. n - 1 /\ n \in Nat /\ 0 \in Int /\ n - 1 \in Int
  BY DEF Array
<1>2. IsFiniteSet(DOMAIN a) /\ Cardinality(DOMAIN a) = n
  BY <1>1, FS_Interval
<1>3. OccupiedIn(a) \in SUBSET DOMAIN a /\ TombsIn(a) \in SUBSET DOMAIN a
  BY DEF OccupiedIn, TombsIn
<1>4. IsFiniteSet(OccupiedIn(a)) /\ IsFiniteSet(TombsIn(a))
  BY <1>2, <1>3, FS_Subset
<1> QED
  BY <1>1, <1>2, <1>4 DEF Size

\* Fewer strings and tombstones than slots leave an empty slot.
LEMMA EmptySlot ==
  ASSUME NEW a, NEW n, Array(a, n), Cardinality(OccupiedIn(a)) + Cardinality(TombsIn(a)) < n
  PROVE  \E i \in 0 .. n - 1 : a[i] = Empty
<1> SUFFICES ASSUME \A i \in 0 .. n - 1 : a[i] # Empty PROVE FALSE
  OBVIOUS
<1> DEFINE A == OccupiedIn(a)
           B == TombsIn(a)
<1>1. /\ DOMAIN a = 0 .. n - 1 /\ Cardinality(DOMAIN a) = n /\ n \in Nat
      /\ IsFiniteSet(A) /\ IsFiniteSet(B)
  BY ArraySize DEF Size, Array
<1>2. A \cup B = DOMAIN a
  <2>1. \A i \in 0 .. n - 1 : a[i] \in Int /\ a[i] >= -1
    BY DEF Array
  <2>2. \A i \in 0 .. n - 1 : a[i] > 0 \/ a[i] = -1
    BY <2>1 DEF Empty
  <2> QED
    BY <1>1, <2>2 DEF OccupiedIn, TombsIn, Occupied, Tombstone
<1>3. A \cap B = {}
  <2>1. \A i \in A : a[i] > 0
    BY DEF OccupiedIn, Occupied
  <2>2. \A i \in B : a[i] = -1
    BY DEF TombsIn, Tombstone
  <2> QED
    BY <2>1, <2>2
<1>0. Cardinality(A) + Cardinality(B) < n
  OBVIOUS
<1> HIDE DEF A, B
<1>4. Cardinality(A \cup B) = Cardinality(A) + Cardinality(B) - Cardinality(A \cap B)
  BY <1>1, FS_Union
<1>5. Cardinality(A \cap B) = 0 /\ Cardinality(A) \in Nat /\ Cardinality(B) \in Nat
  BY <1>1, <1>3, FS_EmptySet, FS_CardinalityType
<1>6. Cardinality(A \cup B) = n
  BY <1>1, <1>2
<1> QED
  BY <1>0, <1>4, <1>5, <1>6

---------------------------------------------------------------------------
(* Probes *)

\* A probe that hits at all hits for a first time.
LEMMA FirstHit ==
  ASSUME NEW n \in Nat \ {0}, NEW J \in SUBSET (0 .. n - 1), J # {}
  PROVE  \E k \in J : \A j \in 0 .. k - 1 : j \notin J
<1>1. J \in SUBSET Nat
  OBVIOUS
<1>2. PICK k \in J : \A j \in J : ~(j < k)
  BY <1>1, LeastIndex
<1> QED
  BY <1>1, <1>2

\* With an empty slot left, the probe for s ends at its first stop.
LEMMA ProbeEnds ==
  ASSUME NEW s \in Strings, Array(slots, Cap), \E i \in 0 .. Cap - 1 : slots[i] = Empty
  PROVE  /\ ProbeStep(s) \in 0 .. Cap - 1
         /\ Stops(s, At(s, ProbeStep(s), Cap))
         /\ \A j \in 0 .. ProbeStep(s) - 1 : ~Stops(s, At(s, j, Cap))
<1> DEFINE n == Cap
           J == {k \in 0 .. n - 1 : Stops(s, At(s, k, n))}
<1>1. n \in Nat \ {0}
  BY DEF Array
<1>2. PICK i \in 0 .. n - 1 : slots[i] = Empty
  OBVIOUS
<1> HIDE DEF n
<1>3. J # {}
  <2>1. PICK k \in 0 .. n - 1 : At(s, k, n) = i
    BY <1>1, AtOnto
  <2> QED
    BY <1>2, <2>1 DEF Stops
<1>4. PICK k \in J : \A j \in 0 .. k - 1 : j \notin J
  BY <1>1, <1>3, FirstHit
<1> DEFINE First(x) == Stops(s, At(s, x, n)) /\ \A j \in 0 .. x - 1 : ~Stops(s, At(s, j, n))
<1>5. k \in 0 .. n - 1 /\ First(k)
  BY <1>1, <1>4
<1>6. ProbeStep(s) = CHOOSE x \in 0 .. n - 1 : First(x)
  BY DEF ProbeStep, FirstStep, n
<1>7. (CHOOSE x \in 0 .. n - 1 : First(x)) \in 0 .. n - 1 /\ First(CHOOSE x \in 0 .. n - 1 : First(x))
  <2> HIDE DEF First
  <2> QED
    BY <1>5
<1> QED
  BY <1>6, <1>7 DEF n

\* So does the search of grow for a free slot.
LEMMA FreeEnds ==
  ASSUME NEW s \in Strings, NEW a, NEW n, Array(a, n), \E i \in 0 .. n - 1 : a[i] = Empty
  PROVE  \E k \in 0 .. n - 1 :
            /\ FreePos(s, a) = At(s, k, n)
            /\ a[At(s, k, n)] <= 0
            /\ \A j \in 0 .. k - 1 : a[At(s, j, n)] # Empty
<1> DEFINE J == {k \in 0 .. n - 1 : a[At(s, k, n)] <= 0}
<1>1. n \in Nat \ {0} /\ Size(a) = n
  BY ArraySize DEF Array
<1>2. PICK i \in 0 .. n - 1 : a[i] = Empty
  OBVIOUS
<1>3. J # {}
  <2>1. PICK k \in 0 .. n - 1 : At(s, k, n) = i
    BY <1>1, AtOnto
  <2> QED
    BY <1>2, <2>1 DEF Empty
<1>4. PICK k \in J : \A j \in 0 .. k - 1 : j \notin J
  BY <1>1, <1>3, FirstHit
<1> DEFINE First(x) == a[At(s, x, n)] <= 0 /\ \A j \in 0 .. x - 1 : ~(a[At(s, j, n)] <= 0)
           c == CHOOSE x \in 0 .. n - 1 : First(x)
<1>5. k \in 0 .. n - 1 /\ First(k)
  BY <1>1, <1>4
<1>6. FreePos(s, a) = At(s, c, n)
  BY <1>1 DEF FreePos, FirstStep
<1>7. c \in 0 .. n - 1 /\ First(c)
  <2> HIDE DEF First
  <2> QED
    BY <1>5
<1>8. \A j \in 0 .. c - 1 : a[At(s, j, n)] # Empty
  BY <1>7 DEF Empty
<1> HIDE DEF c
<1> QED
  BY <1>6, <1>7, <1>8

---------------------------------------------------------------------------
(* Arrays that change in one slot *)

\* Entering id p, with the bytes s, at a free position that its probe reaches.
LEMMA StoreNew ==
  ASSUME NEW t, NEW u, NEW a, NEW n, NEW I, Stores(t, a, n, I),
         NEW s \in Strings, NEW k \in 0 .. n - 1, NEW p \in Nat \ {0}, p \notin I,
         \A q \in I : u[q] = t[q], u[p] = s,
         a[At(s, k, n)] <= 0, \A j \in 0 .. k - 1 : a[At(s, j, n)] # Empty
  PROVE  Stores(u, [a EXCEPT ![At(s, k, n)] = p], n, I \cup {p})
<1> DEFINE i0 == At(s, k, n)
           b == [a EXCEPT ![i0] = p]
<1>0. n \in Nat \ {0} /\ a \in [0 .. n - 1 -> Int] /\ I \subseteq Nat \ {0}
  BY DEF Stores, Array
<1>1. i0 \in 0 .. n - 1
  BY <1>0, AtRange
<1>2. /\ b \in [0 .. n - 1 -> Int] /\ b[i0] = p
      /\ \A i \in 0 .. n - 1 : i # i0 => b[i] = a[i]
  BY <1>0, <1>1
<1>3. a[i0] <= 0 /\ \A j \in 0 .. k - 1 : a[At(s, j, n)] # Empty
  OBVIOUS
<1> HIDE DEF i0, b
<1>4. \A i \in 0 .. n - 1 : a[i] # Empty => b[i] # Empty
  BY <1>2 DEF Empty
<1>5. Array(b, n)
  BY <1>0, <1>2 DEF Stores, Array
<1>6. I \cup {p} \subseteq Nat \ {0} /\ \A q \in I \cup {p} : u[q] \in Strings
  BY DEF Stores
<1>7. \A i \in 0 .. n - 1 : Occupied(b[i]) => b[i] \in I \cup {p}
  BY <1>2 DEF Stores
<1>8. ASSUME NEW i \in 0 .. n - 1, NEW j \in 0 .. n - 1, Occupied(b[i]), b[i] = b[j]
      PROVE  i = j
  <2>1. \A x \in 0 .. n - 1 : x # i0 => b[x] # p
    BY <1>2 DEF Stores, Occupied
  <2> QED
    BY <1>2, <1>8, <2>1 DEF Stores
<1>9. ASSUME NEW q \in I
      PROVE  Reaches(u[q], b, n, q)
  <2>1. PICK m \in 0 .. n - 1 :
           a[At(t[q], m, n)] = q /\ \A j \in 0 .. m - 1 : a[At(t[q], j, n)] # Empty
    BY DEF Stores, Reaches
  <2>2. t[q] \in Strings /\ u[q] = t[q] /\ q > 0 /\ q \in Nat
    BY <1>0 DEF Stores
  <2>3. \A j \in 0 .. m : At(t[q], j, n) \in 0 .. n - 1
    BY <1>0, <2>2, AtRanges
  <2>4. At(t[q], m, n) # i0
    BY <1>3, <2>1, <2>2
  <2>5. b[At(t[q], m, n)] = q
    BY <1>2, <2>1, <2>3, <2>4
  <2>6. \A j \in 0 .. m - 1 : b[At(t[q], j, n)] # Empty
    BY <1>4, <2>1, <2>3
  <2> QED
    BY <2>2, <2>5, <2>6 DEF Reaches
<1>10. Reaches(u[p], b, n, p)
  <2>1. \A j \in 0 .. k : At(s, j, n) \in 0 .. n - 1
    BY <1>0, AtRanges
  <2>2. \A j \in 0 .. k - 1 : b[At(s, j, n)] # Empty
    BY <1>3, <1>4, <2>1
  <2> QED
    BY <1>2, <2>2 DEF Reaches, i0
<1>11. \A q \in I \cup {p} : Reaches(u[q], b, n, q)
  BY <1>9, <1>10
<1>12. Stores(u, b, n, I \cup {p})
  BY <1>5, <1>6, <1>7, <1>8, <1>11 DEF Stores
<1> QED
  BY <1>12 DEF b, i0

\* A tombstone in the place of an id takes only that id away.
LEMMA StoreBuried ==
  ASSUME NEW t, NEW a, NEW n, NEW I, Stores(t, a, n, I),
         NEW i0 \in 0 .. n - 1, NEW p \in I, a[i0] = p
  PROVE  Stores(t, [a EXCEPT ![i0] = Tombstone], n, I \ {p})
<1> DEFINE b == [a EXCEPT ![i0] = Tombstone]
<1>0. n \in Nat \ {0} /\ a \in [0 .. n - 1 -> Int] /\ I \subseteq Nat \ {0}
  BY DEF Stores, Array
<1>1. Tombstone = -1 /\ Empty = 0
  BY DEF Tombstone, Empty
<1>2. /\ b \in [0 .. n - 1 -> Int] /\ b[i0] = -1
      /\ \A i \in 0 .. n - 1 : i # i0 => b[i] = a[i]
  BY <1>0, <1>1
<1> HIDE DEF b
<1>4. \A i \in 0 .. n - 1 : a[i] # Empty => b[i] # Empty
  BY <1>1, <1>2
<1>5. Array(b, n)
  BY <1>0, <1>2 DEF Stores, Array
<1>6. I \ {p} \subseteq Nat \ {0} /\ \A q \in I \ {p} : t[q] \in Strings
  BY DEF Stores
<1>7. \A i \in 0 .. n - 1 : Occupied(b[i]) => i # i0 /\ Occupied(a[i]) /\ b[i] = a[i]
  BY <1>2 DEF Occupied
<1>8. \A i \in 0 .. n - 1 : Occupied(b[i]) => b[i] \in I \ {p}
  <2> SUFFICES ASSUME NEW i \in 0 .. n - 1, Occupied(b[i]) PROVE b[i] \in I \ {p}
    OBVIOUS
  <2>1. a[i] \in I /\ (a[i] = a[i0] => i = i0)
    BY <1>7 DEF Stores
  <2> QED
    BY <1>7, <2>1
<1>9. \A i, j \in 0 .. n - 1 : Occupied(b[i]) /\ b[i] = b[j] => i = j
  <2> SUFFICES ASSUME NEW i \in 0 .. n - 1, NEW j \in 0 .. n - 1, Occupied(b[i]), b[i] = b[j]
               PROVE  i = j
    OBVIOUS
  <2>1. Occupied(b[j])
    OBVIOUS
  <2> QED
    BY <1>7, <2>1 DEF Stores
<1>10. ASSUME NEW q \in I \ {p}
      PROVE  Reaches(t[q], b, n, q)
  <2>1. PICK m \in 0 .. n - 1 :
           a[At(t[q], m, n)] = q /\ \A j \in 0 .. m - 1 : a[At(t[q], j, n)] # Empty
    BY DEF Stores, Reaches
  <2>2. t[q] \in Strings
    BY <1>0 DEF Stores
  <2>3. \A j \in 0 .. m : At(t[q], j, n) \in 0 .. n - 1
    BY <1>0, <2>2, AtRanges
  <2>5. b[At(t[q], m, n)] = q
    BY <1>2, <2>1, <2>3
  <2>6. \A j \in 0 .. m - 1 : b[At(t[q], j, n)] # Empty
    BY <1>4, <2>1, <2>3
  <2> QED
    BY <2>5, <2>6 DEF Reaches
<1>12. Stores(t, b, n, I \ {p})
  BY <1>5, <1>6, <1>8, <1>9, <1>10 DEF Stores
<1> QED
  BY <1>12 DEF b

\* What a slot's change does to the counts.
LEMMA CountNew ==
  ASSUME NEW a, NEW n, Array(a, n), NEW i0 \in 0 .. n - 1, NEW p \in Nat \ {0}, a[i0] <= 0
  PROVE  LET b == [a EXCEPT ![i0] = p] IN
         /\ Array(b, n)
         /\ Cardinality(OccupiedIn(b)) = Cardinality(OccupiedIn(a)) + 1
         /\ Cardinality(TombsIn(b)) = (IF a[i0] = Tombstone THEN Cardinality(TombsIn(a)) - 1
                                                           ELSE Cardinality(TombsIn(a)))
         /\ TombsIn(a) = {} => TombsIn(b) = {}
<1> DEFINE b == [a EXCEPT ![i0] = p]
<1>0. n \in Nat \ {0} /\ a \in [0 .. n - 1 -> Int] /\ DOMAIN a = 0 .. n - 1
  BY DEF Array
<1>2. /\ b \in [0 .. n - 1 -> Int] /\ b[i0] = p /\ DOMAIN b = 0 .. n - 1
      /\ \A i \in 0 .. n - 1 : i # i0 => b[i] = a[i]
  BY <1>0
<1>3. IsFiniteSet(OccupiedIn(a)) /\ IsFiniteSet(TombsIn(a))
  BY ArraySize
<1> HIDE DEF b
<1>4. OccupiedIn(b) = OccupiedIn(a) \cup {i0} /\ i0 \notin OccupiedIn(a)
  BY <1>0, <1>2 DEF OccupiedIn, Occupied
<1>5. TombsIn(b) = TombsIn(a) \ {i0} /\ (a[i0] = Tombstone <=> i0 \in TombsIn(a))
  BY <1>0, <1>2 DEF TombsIn, Tombstone
<1>6. Array(b, n)
  BY <1>0, <1>2 DEF Array
<1>7. Cardinality(OccupiedIn(b)) = Cardinality(OccupiedIn(a)) + 1
  BY <1>3, <1>4, FS_AddElement
<1>8. CASE i0 \in TombsIn(a)
  <2>1. Cardinality(TombsIn(b)) = Cardinality(TombsIn(a)) - 1
    BY <1>3, <1>5, <1>8, FS_RemoveElement
  <2> QED
    BY <1>5, <1>6, <1>7, <1>8, <2>1 DEF b
<1>9. CASE i0 \notin TombsIn(a)
  <2>1. TombsIn(b) = TombsIn(a)
    BY <1>5, <1>9
  <2> QED
    BY <1>5, <1>6, <1>7, <1>9, <2>1 DEF b
<1> QED
  BY <1>8, <1>9

\* free_string buries a slot: one occupied less, one tombstone more.
LEMMA CountBuried ==
  ASSUME NEW a, NEW n, Array(a, n), NEW i0 \in 0 .. n - 1, a[i0] > 0
  PROVE  LET b == [a EXCEPT ![i0] = Tombstone] IN
         /\ Array(b, n)
         /\ Cardinality(OccupiedIn(b)) = Cardinality(OccupiedIn(a)) - 1
         /\ Cardinality(TombsIn(b)) = Cardinality(TombsIn(a)) + 1
<1> DEFINE b == [a EXCEPT ![i0] = Tombstone]
<1>0. n \in Nat \ {0} /\ a \in [0 .. n - 1 -> Int] /\ DOMAIN a = 0 .. n - 1 /\ Tombstone = -1
  BY DEF Array, Tombstone
<1>2. /\ b \in [0 .. n - 1 -> Int] /\ b[i0] = -1 /\ DOMAIN b = 0 .. n - 1
      /\ \A i \in 0 .. n - 1 : i # i0 => b[i] = a[i]
  BY <1>0
<1>3. IsFiniteSet(OccupiedIn(a)) /\ IsFiniteSet(TombsIn(a))
  BY ArraySize
<1> HIDE DEF b
<1>4. OccupiedIn(b) = OccupiedIn(a) \ {i0} /\ i0 \in OccupiedIn(a)
  BY <1>0, <1>2 DEF OccupiedIn, Occupied
<1>5. TombsIn(b) = TombsIn(a) \cup {i0} /\ i0 \notin TombsIn(a)
  BY <1>0, <1>2 DEF TombsIn
<1>6. Array(b, n)
  BY <1>0, <1>2 DEF Array
<1>7. Cardinality(OccupiedIn(b)) = Cardinality(OccupiedIn(a)) - 1
  BY <1>3, <1>4, FS_RemoveElement
<1>8. Cardinality(TombsIn(b)) = Cardinality(TombsIn(a)) + 1
  BY <1>3, <1>5, FS_AddElement
<1> QED
  BY <1>6, <1>7, <1>8 DEF b

---------------------------------------------------------------------------
(* What the invariant says of probes *)

\* The load that should_grow allows leaves an empty slot.
LEMMA SlotsLeft ==
  ASSUME SlotsOK
  PROVE  /\ Array(slots, Cap) /\ Cap \in Nat /\ nuse \in Nat /\ ndead \in Nat
         /\ \E i \in 0 .. Cap - 1 : slots[i] = Empty
<1>1. Array(slots, Cap)
  BY DEF SlotsOK, Stores
<1>2. IsFiniteSet(OccupiedIn(slots)) /\ IsFiniteSet(TombsIn(slots))
  BY <1>1, ArraySize
<1>3. nuse \in Nat /\ ndead \in Nat
  BY <1>2, FS_CardinalityType DEF SlotsOK
<1>4. Cap \in Nat /\ Cap >= 4
  BY <1>1 DEF SlotsOK, Array
<1>5. nuse + ndead < Cap
  BY <1>3, <1>4 DEF SlotsOK
<1>6. \E i \in 0 .. Cap - 1 : slots[i] = Empty
  BY <1>1, <1>5, EmptySlot DEF SlotsOK
<1> QED
  BY <1>1, <1>3, <1>4, <1>6

\* The probe for a live string ends at it.
LEMMA Found ==
  ASSUME StringsOK, SlotsOK, NEW p \in pool
  PROVE  slots[ProbePos(text[p])] = p
<1> DEFINE s == text[p]
           n == Cap
           ks == ProbeStep(s)
<1>1. s \in Strings /\ Reaches(s, slots, n, p) /\ n \in Nat \ {0} /\ p \in Nat \ {0}
  BY DEF SlotsOK, Stores, Array
<1>2. /\ ks \in 0 .. n - 1
      /\ Stops(s, At(s, ks, n))
      /\ \A j \in 0 .. ks - 1 : ~Stops(s, At(s, j, n))
  BY <1>1, SlotsLeft, ProbeEnds
<1>3. PICK k \in 0 .. n - 1 : slots[At(s, k, n)] = p /\ \A j \in 0 .. k - 1 : slots[At(s, j, n)] # Empty
  BY <1>1 DEF Reaches
<1>4. Stops(s, At(s, k, n))
  BY <1>1, <1>3 DEF Stops, Holds, Occupied
<1>5. At(s, ks, n) \in 0 .. n - 1
  BY <1>1, <1>2, AtRanges
<1>6. ProbePos(s) = At(s, ks, n)
  BY DEF ProbePos
<1> HIDE DEF s, n, ks
<1>7. k = ks \/ ks < k
  BY <1>1, <1>2, <1>3, <1>4
<1>8. CASE ks < k
  <2>1. slots[At(s, ks, n)] # Empty
    BY <1>2, <1>3, <1>8
  <2>2. Occupied(slots[At(s, ks, n)]) /\ text[slots[At(s, ks, n)]] = s
    BY <1>2, <2>1 DEF Stops, Holds
  <2>3. slots[At(s, ks, n)] \in pool
    BY <1>5, <2>2 DEF SlotsOK, Stores, n
  <2> QED
    BY <1>6, <2>2, <2>3 DEF StringsOK, s
<1> QED
  BY <1>3, <1>6, <1>7, <1>8 DEF s

\* A string whose probe ends at an empty slot is not live; it goes to a free
\* position that its probe reaches.
LEMMA InsertAt ==
  ASSUME SlotsOK, NEW s \in Strings, slots[ProbePos(s)] = Empty
  PROVE  \E k \in 0 .. Cap - 1 :
            /\ InsertPos(s) = At(s, k, Cap)
            /\ slots[At(s, k, Cap)] <= 0
            /\ \A j \in 0 .. k - 1 : slots[At(s, j, Cap)] # Empty
<1> DEFINE n == Cap
           ks == ProbeStep(s)
           passed == {k \in 0 .. ks : slots[At(s, k, n)] = Tombstone}
<1>1. /\ ks \in 0 .. n - 1
      /\ \A j \in 0 .. ks - 1 : ~Stops(s, At(s, j, n))
  BY SlotsLeft, ProbeEnds
<1>2. \A j \in 0 .. ks - 1 : slots[At(s, j, n)] # Empty
  BY <1>1 DEF Stops
<1>3. n \in Nat
  BY SlotsLeft
<1>4. InsertPos(s) = IF passed = {} THEN At(s, ks, n) ELSE At(s, Min(passed), n)
  BY DEF InsertPos, ProbePos
<1>5. slots[At(s, ks, n)] = Empty
  BY DEF ProbePos
<1> HIDE DEF n, ks
<1>6. CASE passed = {}
  BY <1>1, <1>2, <1>4, <1>5, <1>6 DEF Empty, n
<1>7. CASE passed # {}
  <2>1. passed \in SUBSET Nat
    BY <1>1, <1>3
  <2>2. PICK m \in passed : \A j \in passed : ~(j < m)
    BY <1>7, <2>1, LeastIndex
  <2>3. \A j \in passed : m <= j
    BY <2>1, <2>2
  <2> DEFINE c == Min(passed)
  <2>4. c \in passed
    <3> HIDE DEF passed
    <3> QED
      BY <2>2, <2>3 DEF Min
  <2> HIDE DEF c
  <2>5. c \in 0 .. n - 1 /\ slots[At(s, c, n)] = -1 /\ c <= ks
    BY <1>1, <1>3, <2>4 DEF Tombstone
  <2>6. \A j \in 0 .. c - 1 : j \in 0 .. ks - 1
    BY <1>1, <2>5
  <2>7. InsertPos(s) = At(s, c, n)
    BY <1>4, <1>7 DEF c
  <2> QED
    BY <1>2, <2>5, <2>6, <2>7 DEF n
<1> QED
  BY <1>6, <1>7

\* A probe that ends at an empty slot proves the string absent: it never
\* stops before the slot of a live one.
LEMMA NotLive ==
  ASSUME StringsOK, SlotsOK, NEW s \in Strings, slots[ProbePos(s)] = Empty
  PROVE  \A p \in pool : text[p] # s
<1> SUFFICES ASSUME NEW p \in pool, text[p] = s PROVE FALSE
  OBVIOUS
<1>1. slots[ProbePos(s)] = p
  BY Found
<1>2. p \in Nat \ {0}
  BY DEF SlotsOK, Stores
<1> QED
  BY <1>1, <1>2 DEF Empty

\* The array that grow fills has room.
LEMMA NewLeft ==
  ASSUME SlotsOK, JobOK, job # NoJob
  PROVE  /\ Array(job.new, Cap * 2) /\ IsFiniteSet(Passed(job.next))
         /\ \E i \in 0 .. Cap * 2 - 1 : job.new[i] = Empty
<1>1. Array(job.new, Cap * 2) /\ job.next \in 0 .. Cap /\ TombsIn(job.new) = {}
      /\ Cardinality(OccupiedIn(job.new)) = Cardinality(Passed(job.next))
  BY DEF JobOK, Stores
<1>2. Cap \in Nat /\ Cap >= 4
  BY SlotsLeft DEF SlotsOK
<1> DEFINE n == Cap
           A == Passed(job.next)
           B == 0 .. n - 1
<1>3. A \in SUBSET B
  BY <1>1, <1>2 DEF Passed
<1>4. IsFiniteSet(B) /\ Cardinality(B) = n
  <2>1. n \in Nat /\ 0 \in Int /\ n - 1 \in Int
    BY <1>2
  <2> QED
    BY <2>1, FS_Interval
<1> HIDE DEF A, B, n
<1>5. IsFiniteSet(A) /\ Cardinality(A) <= Cardinality(B) /\ Cardinality(A) \in Nat
  BY <1>3, <1>4, FS_Subset, FS_CardinalityType
<1>6. Cardinality(TombsIn(job.new)) = 0
  BY <1>1, FS_EmptySet
<1>7. Cardinality(OccupiedIn(job.new)) = Cardinality(A) /\ n \in Nat /\ n >= 4
  BY <1>1, <1>2 DEF A, n
<1>8. Cardinality(OccupiedIn(job.new)) + Cardinality(TombsIn(job.new)) < n * 2
  BY <1>4, <1>5, <1>6, <1>7
<1>9. \E i \in 0 .. Cap * 2 - 1 : job.new[i] = Empty
  BY <1>1, <1>8, EmptySlot DEF n
<1> QED
  BY <1>1, <1>5, <1>9 DEF A

---------------------------------------------------------------------------
(* The steps *)

\* The initial interner is empty.
LEMMA InitInternerInv ==
  ASSUME Init
  PROVE  InternerInv
<1> DEFINE n == InitCap
           z == At(EmptyStr, 0, n)
           e == [i \in 0 .. n - 1 |-> Empty]
           a == [e EXCEPT ![z] = 1]
<1>1. n \in Nat \ {0} /\ n >= 4 /\ EmptyStr \in Strings /\ Empty = 0
  BY InternerAssumption DEF Empty
<1>2. z \in 0 .. n - 1
  BY <1>1, AtRange
<1>3. text = <<EmptyStr>> /\ text[1] = EmptyStr /\ Len(text) = 1 /\ pool = {1}
      /\ job = NoJob /\ dead = {} /\ nuse = 1 /\ ndead = 0
  BY DEF Init
<1>4. slots = a
  BY <1>1 DEF Init
<1>5. Array(e, n) /\ \A i \in 0 .. n - 1 : e[i] = 0
  BY <1>1 DEF Array
<1>6. OccupiedIn(e) = {} /\ TombsIn(e) = {}
  BY <1>1, <1>5 DEF OccupiedIn, TombsIn, Occupied, Tombstone
<1> HIDE DEF e
<1>7. Stores(text, e, n, {})
  BY <1>5 DEF Stores, Occupied
<1>8. e[z] = 0 /\ 0 \in 0 .. n - 1
  BY <1>1, <1>2, <1>5
<1>9. Stores(text, a, n, {} \cup {1})
  BY <1>1, <1>3, <1>7, <1>8, StoreNew
<1>10. /\ Array(a, n) /\ Cardinality(OccupiedIn(a)) = Cardinality(OccupiedIn(e)) + 1
       /\ Cardinality(TombsIn(a)) = Cardinality(TombsIn(e))
  BY <1>1, <1>2, <1>5, <1>8, CountNew DEF Tombstone
<1>11. Cardinality(OccupiedIn(a)) = 1 /\ Cardinality(TombsIn(a)) = 0
  BY <1>6, <1>10, FS_EmptySet
<1>12. Size(a) = n
  BY <1>10, ArraySize
<1> HIDE DEF a, n
<1>13. StringsOK
  BY <1>1, <1>3 DEF StringsOK
<1>14. SlotsOK
  BY <1>1, <1>3, <1>4, <1>9, <1>11, <1>12 DEF SlotsOK, Cap
<1> QED
  BY <1>3, <1>13, <1>14 DEF InternerInv, JobOK

\* A string object appended to by_id.
LEMMA TextGrows ==
  ASSUME StringsOK, NEW s \in Strings, \A p \in pool : text[p] # s,
         text' = Append(text, s), pool' = pool \cup {Len(text) + 1}
  PROVE  /\ text' \in Seq(Strings) /\ Len(text') = Len(text) + 1 /\ Len(text) \in Nat
         /\ text'[Len(text) + 1] = s /\ \A q \in pool : text'[q] = text[q]
         /\ pool' \subseteq 1 .. Len(text') /\ Len(text) + 1 \notin pool
         /\ \A p, q \in pool' : text'[p] = text'[q] => p = q
<1>1. text \in Seq(Strings) /\ pool \subseteq 1 .. Len(text) /\ Len(text) \in Nat
  BY DEF StringsOK
<1>2. /\ text' \in Seq(Strings) /\ Len(text') = Len(text) + 1
      /\ text'[Len(text) + 1] = s /\ \A q \in 1 .. Len(text) : text'[q] = text[q]
  BY <1>1
<1>3. pool' \subseteq 1 .. Len(text') /\ Len(text) + 1 \notin pool
  <2> DEFINE m == Len(text)
  <2>1. m \in Nat /\ pool \subseteq 1 .. m /\ Len(text') = m + 1 /\ pool' = pool \cup {m + 1}
    BY <1>1, <1>2
  <2> HIDE DEF m
  <2>2. \A q \in pool : q \in 1 .. m /\ q \in 1 .. m + 1 /\ q # m + 1
    BY <2>1
  <2>3. m + 1 \in 1 .. m + 1 /\ pool' = pool \cup {m + 1}
    BY <2>1
  <2>4. pool' \subseteq 1 .. m + 1 /\ m + 1 \notin pool
    BY <2>2, <2>3, Zenon
  <2> QED
    BY <2>1, <2>4 DEF m
<1>4. \A q \in pool : text'[q] = text[q]
  BY <1>1, <1>2
<1>5. \A p, q \in pool' : text'[p] = text'[q] => p = q
  BY <1>2, <1>4 DEF StringsOK
<1> QED
  BY <1>1, <1>2, <1>3, <1>4, <1>5

\* Entering a string that is not live, at a free position its probe reaches,
\* in an array that stores the live ones and is not too full.
LEMMA EnterKeeps ==
  ASSUME StringsOK, dead = {}, dead' = {}, job' = NoJob,
         NEW s \in Strings, \A p \in pool : text[p] # s,
         NEW a, NEW n \in Nat, n >= 4, Stores(text, a, n, pool),
         NEW k \in 0 .. n - 1, a[At(s, k, n)] <= 0, \A j \in 0 .. k - 1 : a[At(s, j, n)] # Empty,
         NEW tombs \in Nat, nuse \in Nat,
         nuse = Cardinality(OccupiedIn(a)), tombs = Cardinality(TombsIn(a)),
         (nuse + tombs) * 10 < n * 7,
         Enter(s, a, At(s, k, n), tombs)
  PROVE  InternerInv'
<1> DEFINE i == At(s, k, n)
           p == Len(text) + 1
           b == [a EXCEPT ![i] = p]
<1>1. /\ text' = Append(text, s) /\ pool' = pool \cup {p}
      /\ ndead' = IF a[i] = Tombstone THEN tombs - 1 ELSE tombs
      /\ slots' = b /\ nuse' = nuse + 1
  BY DEF Enter
<1>2. /\ text' \in Seq(Strings) /\ Len(text') = Len(text) + 1 /\ Len(text) \in Nat
      /\ text'[p] = s /\ \A q \in pool : text'[q] = text[q]
      /\ pool' \subseteq 1 .. Len(text') /\ p \notin pool
      /\ \A x, y \in pool' : text'[x] = text'[y] => x = y
  BY <1>1, TextGrows
<1>3. StringsOK'
  BY <1>2 DEF StringsOK
<1>4. p \in Nat \ {0}
  BY <1>2
<1>5. i \in 0 .. n - 1 /\ a[i] <= 0
  BY AtRanges
<1> HIDE DEF p
<1>6. Stores(text', b, n, pool \cup {p})
  BY <1>2, <1>4, StoreNew
<1> HIDE DEF i
<1>7. Array(a, n)
  BY DEF Stores
<1>8. /\ Array(b, n) /\ Cardinality(OccupiedIn(b)) = nuse + 1
      /\ Cardinality(TombsIn(b)) = (IF a[i] = Tombstone THEN tombs - 1 ELSE tombs)
  BY <1>4, <1>5, <1>7, CountNew
<1>9. Size(b) = n
  BY <1>8, ArraySize
<1> HIDE DEF b
<1>10. Cap' = n
  BY <1>1, <1>9 DEF Cap
<1>11. nuse' = Cardinality(OccupiedIn(slots')) /\ ndead' = Cardinality(TombsIn(slots'))
  BY <1>1, <1>8
<1>12. (nuse' + ndead') * 10 < n * 7 + 10
  <2>1. nuse' = nuse + 1 /\ (ndead' = tombs \/ ndead' = tombs - 1)
    BY <1>1
  <2> QED
    BY <2>1
<1>13. SlotsOK'
  BY <1>1, <1>6, <1>10, <1>11, <1>12 DEF SlotsOK
<1> QED
  BY <1>3, <1>13 DEF InternerInv, JobOK

\* A new string goes to the slot that the probe proposes.
LEMMA InternNewKeeps ==
  ASSUME InternerInv, NEW s \in Strings, InternNew(s)
  PROVE  InternerInv'
<1>1. StringsOK /\ SlotsOK
  BY DEF InternerInv
<1>2. /\ job = NoJob /\ dead = {} /\ job' = NoJob /\ dead' = {}
      /\ slots[ProbePos(s)] = Empty /\ ~should_grow /\ Enter(s, slots, InsertPos(s), ndead)
  BY DEF InternNew, Idle
<1>3. \A p \in pool : text[p] # s
  BY <1>1, <1>2, NotLive
<1> DEFINE n == Cap
<1>4. PICK k \in 0 .. n - 1 :
        /\ InsertPos(s) = At(s, k, n)
        /\ slots[At(s, k, n)] <= 0
        /\ \A j \in 0 .. k - 1 : slots[At(s, j, n)] # Empty
  BY <1>1, <1>2, InsertAt
<1>5. n \in Nat /\ n >= 4 /\ nuse \in Nat /\ ndead \in Nat /\ (nuse + ndead) * 10 < n * 7
  BY <1>1, <1>2, SlotsLeft DEF SlotsOK, should_grow
<1>6. Stores(text, slots, n, pool) /\ nuse = Cardinality(OccupiedIn(slots)) /\ ndead = Cardinality(TombsIn(slots))
  BY <1>1 DEF SlotsOK
<1>7. Enter(s, slots, At(s, k, n), ndead)
  BY <1>2, <1>4
<1> HIDE DEF n
<1> QED
  BY <1>1, <1>2, <1>3, <1>4, <1>5, <1>6, <1>7, EnterKeeps

\* A new string that first makes the slot array grow.
LEMMA InternGrowKeeps ==
  ASSUME InternerInv, NEW s \in Strings, InternGrow(s)
  PROVE  InternerInv'
<1> DEFINE n == Cap
           a == [i \in 0 .. n * 2 - 1 |-> Empty]
<1>1. StringsOK /\ SlotsOK /\ n \in Nat /\ n >= 4
  BY SlotsLeft DEF InternerInv, SlotsOK
<1>2. /\ dead' = {} /\ job' = [str |-> s, new |-> a, next |-> 0]
      /\ slots[ProbePos(s)] = Empty /\ UNCHANGED <<slots, nuse, ndead, text, pool>>
  BY DEF InternGrow, Idle
<1>3. \A p \in pool : text[p] # s
  BY <1>1, <1>2, NotLive
<1>4. StringsOK'
  BY <1>1, <1>2 DEF StringsOK
<1>5. SlotsOK' /\ Cap' = n
  BY <1>1, <1>2 DEF SlotsOK, Cap
<1>6. Array(a, n * 2) /\ \A i \in 0 .. n * 2 - 1 : a[i] = 0
  BY <1>1 DEF Array, Empty
<1>7. OccupiedIn(a) = {} /\ TombsIn(a) = {}
  BY <1>1, <1>6 DEF OccupiedIn, TombsIn, Occupied, Tombstone, Empty
<1> HIDE DEF a
<1>8. Passed(0)' = {} /\ MovedIds(0)' = {}
  BY DEF Passed, MovedIds
<1>9. Stores(text', a, n * 2, {})
  BY <1>6 DEF Stores, Occupied
<1>10. job'.str = s /\ job'.new = a /\ job'.next = 0 /\ 0 \in 0 .. n
  BY <1>1, <1>2
<1> HIDE DEF n
<1>11. Stores(text', job'.new, Cap' * 2, MovedIds(0)')
  BY <1>5, <1>8, <1>9, <1>10
<1>12. JobOK'
  BY <1>2, <1>3, <1>5, <1>7, <1>8, <1>9, <1>10, <1>11 DEF JobOK, MovedIds, Passed
<1> QED
  BY <1>4, <1>5, <1>12 DEF InternerInv

\* One turn of grow's loop enters the id at position job.next, if there is one.
LEMMA GrowStepKeeps ==
  ASSUME InternerInv, GrowStep
  PROVE  InternerInv'
<1> DEFINE n == Cap
           m == job.next
           a == job.new
           p == slots[m]
           s == text[p]
           b == Moved(a, m)
<1>1. StringsOK /\ SlotsOK /\ JobOK /\ n \in Nat /\ n >= 4 /\ Array(slots, n) /\ DOMAIN slots = 0 .. n - 1
  BY SlotsLeft, ArraySize DEF InternerInv, SlotsOK
<1>2. /\ m \in 0 .. n - 1 /\ job' = [job EXCEPT !.new = b, !.next = m + 1]
      /\ UNCHANGED <<slots, nuse, ndead, text, pool, dead>>
  BY <1>1 DEF GrowStep
<1>3. job # NoJob
  <2>1. NoJob.next = -1
    BY DEF NoJob
  <2> QED
    BY <1>2, <2>1
<1>4. /\ job = [str |-> job.str, new |-> a, next |-> m] /\ dead = {}
      /\ job.str \in Strings /\ \A q \in pool : text[q] # job.str
      /\ Stores(text, a, n * 2, MovedIds(m)) /\ TombsIn(a) = {}
      /\ Cardinality(OccupiedIn(a)) = Cardinality(Passed(m))
  BY <1>1, <1>3 DEF JobOK
<1>5. job' = [str |-> job.str, new |-> b, next |-> m + 1]
  BY <1>2, <1>4
<1>6. job'.str = job.str /\ job'.new = b /\ job'.next = m + 1 /\ m + 1 \in 0 .. n
  BY <1>1, <1>2, <1>5
<1>7. Array(a, n * 2) /\ IsFiniteSet(Passed(m)) /\ \E i \in 0 .. n * 2 - 1 : a[i] = Empty
  BY <1>1, <1>3, NewLeft
<1>8. StringsOK'
  BY <1>1, <1>2 DEF StringsOK
<1>9. SlotsOK' /\ Cap' = n
  BY <1>1, <1>2 DEF SlotsOK, Cap
<1>10. /\ Stores(text, b, n * 2, MovedIds(m + 1)) /\ TombsIn(b) = {}
       /\ Cardinality(OccupiedIn(b)) = Cardinality(Passed(m + 1))
  <2>1. CASE Occupied(p)
    <3>1. p \in pool /\ s \in Strings /\ p \in Nat \ {0}
      BY <1>1, <1>2, <2>1 DEF SlotsOK, Stores
    <3>2. Passed(m + 1) = Passed(m) \cup {m} /\ m \notin Passed(m)
      BY <1>1, <1>2, <2>1 DEF Passed
    <3>3. MovedIds(m + 1) = MovedIds(m) \cup {p}
      BY <3>2 DEF MovedIds
    <3>4. p \notin MovedIds(m)
      <4>1. \A i \in Passed(m) : i \in 0 .. n - 1 /\ i # m
        BY <1>1, <1>2 DEF Passed
      <4>2. \A i \in Passed(m) : slots[i] # p
        BY <1>1, <1>2, <2>1, <4>1 DEF SlotsOK, Stores
      <4> QED
        BY <4>2 DEF MovedIds
    <3>5. PICK k \in 0 .. n * 2 - 1 :
             /\ FreePos(s, a) = At(s, k, n * 2)
             /\ a[At(s, k, n * 2)] <= 0
             /\ \A j \in 0 .. k - 1 : a[At(s, j, n * 2)] # Empty
      BY <1>7, <3>1, FreeEnds
    <3> DEFINE i0 == At(s, k, n * 2)
    <3>6. b = [a EXCEPT ![i0] = p]
      BY <2>1, <3>5 DEF Moved
    <3>7. n * 2 \in Nat \ {0} /\ i0 \in 0 .. n * 2 - 1 /\ a[i0] <= 0
      BY <1>1, <3>1, <3>5, AtRanges
    <3> HIDE DEF a, b, m, n, p, s
    <3>8. Stores(text, b, n * 2, MovedIds(m) \cup {p})
      BY <1>4, <3>1, <3>4, <3>5, <3>6, StoreNew DEF s
    <3>9. /\ Cardinality(OccupiedIn(b)) = Cardinality(OccupiedIn(a)) + 1
          /\ TombsIn(b) = {}
      <4> DEFINE w == n * 2
      <4>1. Array(a, w) /\ i0 \in 0 .. w - 1 /\ a[i0] <= 0 /\ p \in Nat \ {0} /\ TombsIn(a) = {}
        BY <1>4, <1>7, <3>1, <3>7
      <4> HIDE DEF i0, w
      <4> DEFINE c == [a EXCEPT ![i0] = p]
      <4>2. Cardinality(OccupiedIn(c)) = Cardinality(OccupiedIn(a)) + 1
        BY <4>1, CountNew
      <4>3. TombsIn(a) = {} => TombsIn(c) = {}
        BY <4>1, CountNew
      <4> QED
        BY <3>6, <4>1, <4>2, <4>3
    <3>10. Cardinality(Passed(m + 1)) = Cardinality(Passed(m)) + 1
      BY <1>7, <3>2, FS_AddElement
    <3> QED
      BY <1>4, <3>3, <3>8, <3>9, <3>10
  <2>2. CASE ~Occupied(p)
    <3>1. Passed(m + 1) = Passed(m)
      BY <1>1, <1>2, <2>2 DEF Passed
    <3>2. MovedIds(m + 1) = MovedIds(m)
      BY <3>1 DEF MovedIds
    <3>3. b = a
      BY <2>2 DEF Moved
    <3> QED
      BY <1>4, <3>1, <3>2, <3>3
  <2> QED
    BY <2>1, <2>2
<1> HIDE DEF n, m, a, b
<1>11. Passed(job.next)' = Passed(m + 1) /\ MovedIds(job.next)' = MovedIds(m + 1)
  BY <1>2, <1>6 DEF Passed, MovedIds
<1>12. JobOK'
  BY <1>2, <1>4, <1>5, <1>6, <1>9, <1>10, <1>11 DEF JobOK
<1> QED
  BY <1>8, <1>9, <1>12 DEF InternerInv

\* After the last turn the new array stores what the old one does.
LEMMA AllMoved ==
  ASSUME SlotsOK
  PROVE  MovedIds(Cap) = pool /\ Passed(Cap) = OccupiedIn(slots)
<1>1. /\ Array(slots, Cap) /\ DOMAIN slots = 0 .. Cap - 1 /\ Cap \in Nat \ {0}
      /\ \A i \in 0 .. Cap - 1 : Occupied(slots[i]) => slots[i] \in pool
      /\ \A p \in pool : text[p] \in Strings /\ p \in Nat \ {0} /\ Reaches(text[p], slots, Cap, p)
  BY ArraySize DEF SlotsOK, Stores, Array
<1>2. Passed(Cap) = OccupiedIn(slots)
  BY <1>1 DEF Passed, OccupiedIn
<1>3. MovedIds(Cap) \subseteq pool
  BY <1>1 DEF MovedIds, Passed
<1>4. ASSUME NEW p \in pool
      PROVE  p \in MovedIds(Cap)
  <2>1. PICK k \in 0 .. Cap - 1 : slots[At(text[p], k, Cap)] = p
    BY <1>1 DEF Reaches
  <2>2. At(text[p], k, Cap) \in 0 .. Cap - 1
    BY <1>1, AtRanges
  <2> QED
    BY <1>1, <2>1, <2>2 DEF MovedIds, Passed, Occupied
<1> QED
  BY <1>2, <1>3, <1>4

\* The rebuilt array takes over with every live string in it.
LEMMA GrowEndKeeps ==
  ASSUME InternerInv, GrowEnd
  PROVE  InternerInv'
<1> DEFINE n == Cap * 2
           a == job.new
           s == job.str
<1>1. StringsOK /\ SlotsOK /\ JobOK /\ Cap \in Nat /\ Cap >= 4 /\ nuse \in Nat /\ ndead \in Nat
      /\ (nuse + ndead) * 10 < Cap * 7 + 10
  BY SlotsLeft DEF InternerInv, SlotsOK
<1>2. /\ job # NoJob /\ job.next = Cap /\ job' = NoJob /\ dead' = dead
      /\ Enter(s, a, FreePos(s, a), 0)
  BY DEF GrowEnd
<1>3. /\ dead = {} /\ s \in Strings /\ \A q \in pool : text[q] # s
      /\ Stores(text, a, n, pool) /\ TombsIn(a) = {} /\ Cardinality(OccupiedIn(a)) = nuse
  BY <1>1, <1>2, AllMoved DEF JobOK, SlotsOK
<1>4. Array(a, n) /\ \E i \in 0 .. n - 1 : a[i] = Empty
  BY <1>1, <1>2, NewLeft
<1>5. PICK k \in 0 .. n - 1 :
         /\ FreePos(s, a) = At(s, k, n)
         /\ a[At(s, k, n)] <= 0
         /\ \A j \in 0 .. k - 1 : a[At(s, j, n)] # Empty
  BY <1>3, <1>4, FreeEnds
<1>6. n \in Nat /\ n >= 4 /\ (nuse + 0) * 10 < n * 7
  BY <1>1
<1>7. 0 = Cardinality(TombsIn(a)) /\ 0 \in Nat
  BY <1>3, FS_EmptySet
<1>8. Enter(s, a, At(s, k, n), 0) /\ dead' = {}
  BY <1>2, <1>3, <1>5
<1> HIDE DEF n, a, s
<1> QED
  BY <1>1, <1>2, <1>3, <1>5, <1>6, <1>7, <1>8, EnterKeeps

\* The sweep frees a dead string and buries its slot.
LEMMA SweepFreeKeeps ==
  ASSUME InternerInv, NEW p \in dead, SweepFree(p)
  PROVE  InternerInv'
<1> DEFINE n == Cap
           i == ProbePos(text[p])
           b == [slots EXCEPT ![i] = Tombstone]
<1>1. /\ StringsOK /\ SlotsOK /\ JobOK /\ n \in Nat /\ n >= 4 /\ Array(slots, n)
      /\ nuse \in Nat /\ ndead \in Nat /\ \E j \in 0 .. n - 1 : slots[j] = Empty
  BY SlotsLeft DEF InternerInv, SlotsOK
<1>2. p \in pool /\ p \in Nat \ {0} /\ text[p] \in Strings /\ job = NoJob
  BY <1>1 DEF StringsOK, SlotsOK, Stores, JobOK
<1>3. slots[i] = p
  BY <1>1, <1>2, Found
<1>4. i \in 0 .. n - 1
  <2>1. ProbeStep(text[p]) \in 0 .. n - 1
    BY <1>1, <1>2, ProbeEnds
  <2> QED
    BY <1>1, <1>2, <2>1, AtRanges DEF ProbePos
<1>5. /\ slots' = b /\ nuse' = nuse - 1 /\ ndead' = ndead + 1
      /\ pool' = pool \ {p} /\ dead' = dead \ {p} /\ text' = text /\ job' = job
  BY <1>2, <1>3 DEF SweepFree, Unlinked, Empty
<1> HIDE DEF i
<1>6. Stores(text, b, n, pool \ {p})
  BY <1>1, <1>2, <1>3, <1>4, StoreBuried DEF SlotsOK
<1>7. /\ Array(b, n) /\ Cardinality(OccupiedIn(b)) = nuse - 1
      /\ Cardinality(TombsIn(b)) = ndead + 1
  BY <1>1, <1>2, <1>3, <1>4, CountBuried DEF SlotsOK
<1>8. Size(b) = n
  BY <1>7, ArraySize
<1> HIDE DEF b
<1>9. Cap' = n
  BY <1>5, <1>8 DEF Cap
<1>10. (nuse' + ndead') * 10 < n * 7 + 10
  BY <1>1, <1>5 DEF SlotsOK
<1>11. SlotsOK'
  BY <1>1, <1>5, <1>6, <1>7, <1>9, <1>10 DEF SlotsOK
<1>12. StringsOK'
  BY <1>1, <1>5 DEF StringsOK
<1> QED
  BY <1>2, <1>5, <1>11, <1>12 DEF InternerInv, JobOK

\* InternerInv is inductive.
LEMMA NextKeeps ==
  ASSUME InternerInv, [Next]_vars
  PROVE  InternerInv'
<1>1. CASE \E s \in Strings : InternNew(s)
  BY <1>1, InternNewKeeps
<1>2. CASE \E s \in Strings : InternGrow(s)
  BY <1>2, InternGrowKeeps
<1>3. CASE GrowStep
  BY <1>3, GrowStepKeeps
<1>4. CASE GrowEnd
  BY <1>4, GrowEndKeeps
<1>5. ASSUME NEW D \in SUBSET pool, SweepBegin(D)
      PROVE  InternerInv'
  <2>1. /\ job = NoJob /\ dead' = D /\ \A p \in D : p \in pool /\ text[p] # EmptyStr
        /\ UNCHANGED <<slots, nuse, ndead, text, pool, job>>
    BY <1>5 DEF SweepBegin, Idle, Pinned
  <2>2. StringsOK'
    BY <2>1 DEF InternerInv, StringsOK
  <2>3. SlotsOK'
    BY <2>1 DEF InternerInv, SlotsOK, Cap
  <2>4. JobOK'
    BY <2>1 DEF JobOK
  <2> QED
    BY <2>2, <2>3, <2>4 DEF InternerInv
<1>6. CASE \E p \in dead : SweepFree(p)
  BY <1>6, SweepFreeKeeps
<1>7. CASE UNCHANGED vars
  <2>1. UNCHANGED <<slots, nuse, ndead, text, pool, job, dead>>
    BY <1>7 DEF vars
  <2>2. StringsOK'
    BY <2>1 DEF InternerInv, StringsOK
  <2>3. SlotsOK'
    BY <2>1 DEF InternerInv, SlotsOK, Cap
  <2>4. JobOK'
    BY <2>1 DEF InternerInv, JobOK, Cap, MovedIds, Passed
  <2> QED
    BY <2>2, <2>3, <2>4 DEF InternerInv
<1> QED
  BY <1>1, <1>2, <1>3, <1>4, <1>5, <1>6, <1>7 DEF Next

---------------------------------------------------------------------------
(* Theorems *)

\* The arrays store the live strings, and nuse and ndead count them, in every
\* state of the interner, a rehash and a sweep included.
THEOREM InternerSafe == Spec => []InternerInv
<1>1. Init => InternerInv
  BY InitInternerInv
<1>2. InternerInv /\ [Next]_vars => InternerInv'
  BY NextKeeps
<1> QED
  BY <1>1, <1>2, PTL DEF Spec

\* The probes of intern_with_hash, of grow and of on_free end.
THEOREM ProbesAlwaysEnd == Spec => []ProbesEnd
<1>1. InternerInv => ProbesEnd
  <2> SUFFICES ASSUME InternerInv PROVE ProbesEnd
    OBVIOUS
  <2>1. Array(slots, Cap) /\ \E i \in 0 .. Cap - 1 : slots[i] = Empty
    BY SlotsLeft DEF InternerInv
  <2>2. \E i \in DOMAIN slots : slots[i] = Empty
    BY <2>1, ArraySize
  <2>3. ASSUME job # NoJob
        PROVE  \E i \in DOMAIN job.new : job.new[i] = Empty
    <3>1. Array(job.new, Cap * 2) /\ \E i \in 0 .. Cap * 2 - 1 : job.new[i] = Empty
      BY <2>3, NewLeft DEF InternerInv
    <3> QED
      BY <3>1, ArraySize
  <2> QED
    BY <2>2, <2>3 DEF ProbesEnd
<1> QED
  BY <1>1, InternerSafe, PTL

\* No slot holds a freed string, and nuse and ndead are exact.
THEOREM SlotsAlwaysLive == Spec => []SlotsLive
<1>1. InternerInv => SlotsLive
  <2> SUFFICES ASSUME InternerInv PROVE SlotsLive
    OBVIOUS
  <2>1. SlotsOK /\ DOMAIN slots = 0 .. Cap - 1
    BY SlotsLeft, ArraySize DEF InternerInv
  <2>2. \A i \in DOMAIN slots : Occupied(slots[i]) => slots[i] \in pool
    BY <2>1 DEF SlotsOK, Stores
  <2> QED
    BY <2>1, <2>2 DEF SlotsOK, SlotsLive, OccupiedIn, TombsIn
<1> QED
  BY <1>1, InternerSafe, PTL

\* Every live string is found, whatever was buried or moved before it.
THEOREM AlwaysFindable == Spec => []Findable
<1>1. InternerInv => Findable
  BY Found DEF InternerInv, Findable
<1> QED
  BY <1>1, InternerSafe, PTL

---------------------------------------------------------------------------
(* The refinement *)

\* The mapping of Table, for the bytes t of the ids in P.
BytesOf(t, P) == {t[p] : p \in P}
IdMap(t, P) == [s \in BytesOf(t, P) |-> CHOOSE p \in P : t[p] = s]

Extended(f, s, m) == [x \in DOMAIN f \cup {s} |-> IF x = s THEN m ELSE f[x]]

\* u has the string s of the new id m besides those of the ids in P.
Longer(t, u, P, s, m) ==
    m \notin P /\ u[m] = s /\ \A p \in P : t[p] # s /\ u[p] = t[p]

Distinct(t, P) == \A p, q \in P : t[p] = t[q] => p = q

\* It gives each live string its own id.
LEMMA IdMapOf ==
  ASSUME NEW t, NEW P, Distinct(t, P)
  PROVE  /\ IdMap(t, P) = [s \in BytesOf(t, P) |-> IdMap(t, P)[s]]
         /\ \A p \in P : t[p] \in BytesOf(t, P) /\ IdMap(t, P)[t[p]] = p
<1>1. ASSUME NEW p \in P
      PROVE  t[p] \in BytesOf(t, P) /\ IdMap(t, P)[t[p]] = p
  <2>1. t[p] \in BytesOf(t, P)
    BY DEF BytesOf
  <2> DEFINE c == CHOOSE q \in P : t[q] = t[p]
  <2>2. c \in P /\ t[c] = t[p]
    OBVIOUS
  <2>3. c = p
    BY <2>2 DEF Distinct
  <2> QED
    BY <2>1, <2>3 DEF IdMap
<1> QED
  BY <1>1 DEF IdMap

\* A new string extends it.
LEMMA IdMapAdd ==
  ASSUME NEW t, NEW u, NEW P, NEW s, NEW m, Distinct(t, P), Longer(t, u, P, s, m)
  PROVE  IdMap(u, P \cup {m}) = Extended(IdMap(t, P), s, m) /\ s \notin BytesOf(t, P)
<1>0. m \notin P /\ u[m] = s /\ \A p \in P : t[p] # s /\ u[p] = t[p]
  BY DEF Longer
<1> DEFINE Q == P \cup {m}
           f == IdMap(u, Q)
<1>1. Distinct(u, Q)
  BY <1>0 DEF Distinct
<1> HIDE DEF Q
<1>2. /\ f = [x \in BytesOf(u, Q) |-> f[x]]
      /\ \A p \in Q : f[u[p]] = p
  BY <1>1, IdMapOf
<1>3. BytesOf(u, Q) = BytesOf(t, P) \cup {s} /\ s \notin BytesOf(t, P)
  BY <1>0 DEF BytesOf, Q
<1>4. \A p \in P : IdMap(t, P)[t[p]] = p
  BY IdMapOf
<1> HIDE DEF f
<1>5. \A x \in BytesOf(t, P) \cup {s} : f[x] = IF x = s THEN m ELSE IdMap(t, P)[x]
  <2>1. f[s] = m
    BY <1>0, <1>2 DEF Q
  <2>2. ASSUME NEW x \in BytesOf(t, P)
        PROVE  f[x] = IdMap(t, P)[x]
    <3>1. PICK p \in P : x = t[p]
      BY DEF BytesOf
    <3> QED
      BY <1>0, <1>2, <1>4, <3>1 DEF Q
  <2> QED
    BY <1>3, <2>1, <2>2
<1>6. f = [x \in BytesOf(t, P) \cup {s} |-> IF x = s THEN m ELSE IdMap(t, P)[x]]
  BY <1>2, <1>3, <1>5
<1> QED
  BY <1>3, <1>6 DEF f, Q, Extended, IdMap

\* A freed string leaves it.
LEMMA IdMapFree ==
  ASSUME NEW t, NEW P, Distinct(t, P), NEW m \in P
  PROVE  IdMap(t, P \ {m}) = [x \in BytesOf(t, P) \ {t[m]} |-> IdMap(t, P)[x]]
<1> DEFINE Q == P \ {m}
           f == IdMap(t, Q)
<1>1. Distinct(t, Q)
  BY DEF Distinct
<1> HIDE DEF Q
<1>2. /\ f = [x \in BytesOf(t, Q) |-> f[x]]
      /\ \A p \in Q : f[t[p]] = p
  BY <1>1, IdMapOf
<1>3. BytesOf(t, Q) = BytesOf(t, P) \ {t[m]}
  BY DEF BytesOf, Q, Distinct
<1>4. \A p \in P : IdMap(t, P)[t[p]] = p
  BY IdMapOf
<1> HIDE DEF f
<1>5. ASSUME NEW x \in BytesOf(t, Q)
      PROVE  f[x] = IdMap(t, P)[x]
  <2>1. PICK p \in Q : x = t[p]
    BY DEF BytesOf
  <2> QED
    BY <1>2, <1>4, <2>1 DEF Q
<1>6. f = [x \in BytesOf(t, P) \ {t[m]} |-> IdMap(t, P)[x]]
  BY <1>2, <1>3, <1>5
<1> QED
  BY <1>6 DEF f, Q

\* InternNew and GrowEnd add a string.
LEMMA EnterAdds ==
  ASSUME StringsOK, NEW s \in Strings, \A p \in pool : text[p] # s,
         text' = Append(text, s), pool' = pool \cup {Len(text) + 1}
  PROVE  Table!Add(s)
<1> DEFINE m == Len(text) + 1
<1>1. /\ Len(text') = m /\ text'[m] = s /\ pool' = pool \cup {m}
      /\ (\A q \in pool : text'[q] = text[q]) /\ m \notin pool
  BY TextGrows
<1>2. Distinct(text, pool)
  BY DEF StringsOK, Distinct
<1> HIDE DEF m
<1>3. IdMap(text', pool \cup {m}) = Extended(IdMap(text, pool), s, m) /\ s \notin BytesOf(text, pool)
  <2>1. Longer(text, text', pool, s, m)
    BY <1>1 DEF Longer
  <2> QED
    BY <1>2, <2>1, IdMapAdd
<1>4. DOMAIN IdMap(text, pool) = BytesOf(text, pool)
  BY DEF IdMap
<1>5. /\ IdMap(text', pool') = Extended(IdMap(text, pool), s, Len(text) + 1)
      /\ s \in Strings \ DOMAIN IdMap(text, pool) /\ Len(text') = Len(text) + 1
  BY <1>1, <1>3, <1>4 DEF m
<1> QED
  BY <1>5 DEF Table!Add, IdMap, BytesOf, Extended

\* Freeing a pool entry removes its string from the table.
LEMMA FreeFrees ==
  ASSUME StringsOK, NEW p \in dead, NEW s, s = text[p], pool' = pool \ {p}, UNCHANGED text
  PROVE  Table!Free(s)
<1>1. Distinct(text, pool) /\ p \in pool /\ text[p] # EmptyStr
  BY DEF StringsOK, Distinct
<1>2. IdMap(text, pool \ {p}) = [x \in BytesOf(text, pool) \ {text[p]} |-> IdMap(text, pool)[x]]
  BY <1>1, IdMapFree
<1>3. DOMAIN IdMap(text, pool) = BytesOf(text, pool) /\ text[p] \in BytesOf(text, pool)
  BY <1>1 DEF IdMap, BytesOf
<1>4. /\ IdMap(text', pool') = [x \in DOMAIN IdMap(text, pool) \ {s} |-> IdMap(text, pool)[x]]
      /\ s \in DOMAIN IdMap(text, pool) \ {EmptyStr} /\ Len(text') = Len(text)
  BY <1>1, <1>2, <1>3
<1> QED
  BY <1>4 DEF Table!Free, IdMap, BytesOf

\* The empty interner is the empty table.
LEMMA InitMaps ==
  ASSUME Init
  PROVE  Table!TableInit
<1>1. text = <<EmptyStr>> /\ text[1] = EmptyStr /\ Len(text) = 1 /\ pool = {1}
  BY DEF Init
<1>2. BytesOf(text, pool) = {EmptyStr}
  BY <1>1 DEF BytesOf
<1>3. /\ IdMap(text, pool) = [s \in BytesOf(text, pool) |-> IdMap(text, pool)[s]]
      /\ IdMap(text, pool)[EmptyStr] = 1
  <2>1. Distinct(text, pool)
    BY <1>1 DEF Distinct
  <2> QED
    BY <1>1, <2>1, IdMapOf
<1>4. IdMap(text, pool) = [s \in {EmptyStr} |-> 1]
  BY <1>2, <1>3
<1> QED
  BY <1>1, <1>4 DEF Table!TableInit, IdMap, BytesOf

\* A step of the interner is a step of the table, or none.
LEMMA StepMaps ==
  ASSUME InternerInv, [Next]_vars
  PROVE  [Table!TableNext]_(Table!tableVars)
<1>0. StringsOK /\ SlotsOK /\ JobOK
  BY DEF InternerInv
<1>1. ASSUME UNCHANGED <<text, pool>>
      PROVE  UNCHANGED Table!tableVars
  BY <1>1 DEF Table!tableVars
<1>2. ASSUME NEW s \in Strings, InternNew(s)
      PROVE  Table!TableNext
  <2>1. slots[ProbePos(s)] = Empty /\ text' = Append(text, s) /\ pool' = pool \cup {Len(text) + 1}
    BY <1>2 DEF InternNew, Enter
  <2>2. \A p \in pool : text[p] # s
    BY <1>0, <2>1, NotLive
  <2>3. Table!Add(s)
    BY <1>0, <2>1, <2>2, EnterAdds
  <2> QED
    BY <2>3 DEF Table!TableNext
<1>3. ASSUME GrowEnd
      PROVE  Table!TableNext
  <2>0. PICK s : s = job.str
    OBVIOUS
  <2>1. job # NoJob /\ text' = Append(text, s) /\ pool' = pool \cup {Len(text) + 1}
    BY <1>3, <2>0 DEF GrowEnd, Enter
  <2>2. s \in Strings /\ \A p \in pool : text[p] # s
    BY <1>0, <2>0, <2>1 DEF JobOK
  <2>3. Table!Add(s)
    BY <1>0, <2>1, <2>2, EnterAdds
  <2> QED
    BY <2>2, <2>3 DEF Table!TableNext
<1>4. ASSUME NEW p \in dead, SweepFree(p)
      PROVE  Table!TableNext
  <2>1. pool' = pool \ {p} /\ UNCHANGED text
    BY <1>4 DEF SweepFree
  <2>2. PICK s \in Strings : s = text[p]
    BY <1>0 DEF StringsOK, SlotsOK, Stores
  <2>3. Table!Free(s)
    BY <1>0, <2>1, <2>2, FreeFrees
  <2> QED
    BY <2>3 DEF Table!TableNext
<1>5. CASE \E s \in Strings : InternGrow(s)
  BY <1>1, <1>5 DEF InternGrow
<1>6. CASE GrowStep
  BY <1>1, <1>6 DEF GrowStep
<1>7. CASE \E D \in SUBSET pool : SweepBegin(D)
  BY <1>1, <1>7 DEF SweepBegin
<1>8. CASE UNCHANGED vars
  BY <1>1, <1>8 DEF vars
<1> QED
  BY <1>2, <1>3, <1>4, <1>5, <1>6, <1>7, <1>8 DEF Next

\* The interner implements the table of live strings: interning makes no
\* second object for a live string, ids are fresh, and "" is never freed.
THEOREM InternerImplements == Spec => ImplementsTable
<1>1. Init => Table!TableInit
  BY InitMaps
<1>2. InternerInv /\ [Next]_vars => [Table!TableNext]_(Table!tableVars)
  BY StepMaps
<1> QED
  BY <1>1, <1>2, InternerSafe, PTL DEF Spec, ImplementsTable, Table!TableSpec
=============================================================================
