--------------------------- MODULE HashMapProofs ---------------------------
(***************************************************************************)
(* Machine-checked proofs about the table of hashmap.c (module HashMap),   *)
(* for any keys, values and threads and any size of the table.             *)
(***************************************************************************)
EXTENDS HashMap, FiniteSetTheorems, WellFoundedInduction, TLAPS

\* The keys that callers believe to be in the map.
Known == {k \in Key : dict[k] # NULL}

\* Only the thread that is stuck in a rehash keeps the lock, and before the
\* first rehash the table has its first size.
LockInv ==
  /\ \A t \in Thread : pc[t] = "rehash" <=> owner = t
  /\ owner = NULL => table_size = INITIAL_SIZE
  /\ owner # NULL => table_size = 2 * INITIAL_SIZE

\* What the slots say of a key that was not put again after a removal: it is in
\* one slot or in none, with the value put last; and unless another key was
\* removed meanwhile, no slot on the way to it is free.
KeyInv ==
  /\ \A k \in Key : dict[k] = NULL /\ k \notin replaced => Slots(k) = {}
  /\ \A k \in Key : dict[k] # NULL => k \notin replaced
  /\ \A k \in Key : dict[k] # NULL =>
       \E s \in Slot :
         /\ Slots(k) = {s} /\ data[s].val = dict[k]
         /\ k \notin moved => \A r \in Slot : Distance(k, r) < Distance(k, s) => data[r] # NULL

\* Until a key is put twice, the size is the number of keys in the map.
CountInv ==
  /\ IsFiniteSet(Known)
  /\ moved \subseteq Known
  /\ ~twice => replaced = {} /\ size = Cardinality(Known)

MInv ==
  /\ TypeOK /\ LockInv /\ SizeCoversEntries /\ StuckOnlyWhenCounted
  /\ owner = NULL => KeyInv /\ CountInv
----------------------------------------------------------------------------
(* Probing *)

\* x % n by its two cases, for the operands that occur in Distance.
LEMMA ModCases ==
  /\ \A n \in Nat \ {0} : \A k \in Nat : k % n \in 0 .. n - 1
  /\ \A n \in Nat \ {0} : \A x \in 0 .. n - 1 : x % n = x
  /\ \A n \in Nat \ {0} : \A x \in n .. 2 * n - 1 : x % n = x - n
<1>1. ASSUME NEW n \in Nat \ {0}, NEW k \in Nat PROVE k % n \in 0 .. n - 1
  OBVIOUS
<1>2. ASSUME NEW n \in Nat \ {0}, NEW x \in 0 .. n - 1 PROVE x % n = x
  OBVIOUS
<1>3. ASSUME NEW n \in Nat \ {0}, NEW x \in n .. 2 * n - 1 PROVE x % n = x - n
  OBVIOUS
<1> QED BY <1>1, <1>2, <1>3

\* Linear probing meets every slot of the table, each at a distance of its own.
LEMMA DistanceInjective ==
  ASSUME table_size \in Nat \ {0}, NEW k \in Nat,
         NEW r \in 0 .. table_size - 1, NEW s \in 0 .. table_size - 1
  PROVE  /\ Distance(k, s) \in Nat
         /\ Distance(k, r) = Distance(k, s) => r = s
<1> DEFINE h == k % table_size
<1>1. h \in 0 .. table_size - 1
  BY ModCases
<1> HIDE DEF h
<1>2. ASSUME NEW x \in 0 .. table_size - 1
      PROVE  (x + table_size - h) % table_size = IF x < h THEN x + table_size - h ELSE x - h
  <2>1. CASE x < h
    <3>1. x + table_size - h \in 0 .. table_size - 1
      BY <1>1, <2>1
    <3> QED BY <2>1, <3>1, ModCases
  <2>2. CASE ~(x < h)
    <3>1. x + table_size - h \in table_size .. 2 * table_size - 1
      BY <1>1, <2>2
    <3>2. (x + table_size - h) % table_size = (x + table_size - h) - table_size
      BY <3>1, ModCases
    <3> QED BY <1>1, <2>2, <3>2
  <2> QED BY <2>1, <2>2
<1>3. \A x \in 0 .. table_size - 1 :
        Distance(k, x) = IF x < h THEN x + table_size - h ELSE x - h
  BY <1>2 DEF Distance, h
<1> QED BY <1>1, <1>3

LEMMA LeastNat ==
  ASSUME NEW T, T \subseteq Nat, T # {}
  PROVE  \E n \in T : \A m \in T : n <= m
<1>1. PICK n \in T : \A m \in T : ~(<<m, n>> \in OpToRel(<, Nat))
  BY NatLessThanWellFounded, WFMin
<1>2. ASSUME NEW m \in T PROVE n <= m
  <2>1. <<m, n>> \in Nat \X Nat => ~(m < n)
    BY <1>1 DEF OpToRel
  <2> QED BY <2>1
<1> QED BY <1>2

\* FirstOf finds a slot of every set of slots that has one, and the nearest.
LEMMA FirstOfNearest ==
  ASSUME HashMapAssumption, table_size \in Nat \ {0}, NEW k \in Key,
         NEW S \in SUBSET (0 .. table_size - 1), S # {}
  PROVE  /\ FirstOf(k, S) \in S
         /\ FirstOf(k, S) # NULL
         /\ \A r \in S : Distance(k, FirstOf(k, S)) <= Distance(k, r)
<1>1. \A s \in S : Distance(k, s) \in Nat
  BY DistanceInjective DEF HashMapAssumption
<1> DEFINE D == {Distance(k, s) : s \in S}
<1>2. PICK d \in D : \A e \in D : d <= e
  <2>1. D \subseteq Nat
    BY <1>1
  <2>2. D # {}
    OBVIOUS
  <2> HIDE DEF D
  <2> QED BY <2>1, <2>2, LeastNat
<1>3. PICK s \in S : d = Distance(k, s)
  OBVIOUS
<1>4. \A r \in S : Distance(k, s) <= Distance(k, r)
  BY <1>2, <1>3
<1>5. FirstOf(k, S) = CHOOSE x \in S : \A r \in S : Distance(k, x) <= Distance(k, r)
  BY DEF FirstOf
<1> HIDE DEF D
<1>6. FirstOf(k, S) \in S /\ \A r \in S : Distance(k, FirstOf(k, S)) <= Distance(k, r)
  BY <1>4, <1>5
<1>7. FirstOf(k, S) \in Nat
  BY <1>6
<1> QED BY <1>6, <1>7 DEF HashMapAssumption

\* The table is finite, and its slots are numbered from 0.
LEMMA TableFacts ==
  ASSUME HashMapAssumption, TypeOK
  PROVE  /\ table_size \in Nat \ {0} /\ Slot = 0 .. table_size - 1
         /\ IsFiniteSet(Slot) /\ Cardinality(Slot) = table_size
         /\ InUse \subseteq Slot /\ IsFiniteSet(InUse) /\ Cardinality(InUse) \in Nat
         /\ Cardinality(InUse) <= table_size
         /\ InUse # Slot => Cardinality(InUse) < table_size
<1>1. table_size \in Nat \ {0} /\ Slot = 0 .. table_size - 1 /\ InUse \subseteq Slot
  BY DEF HashMapAssumption, TypeOK, Slot, InUse
<1>2. IsFiniteSet(Slot) /\ Cardinality(Slot) = table_size
  <2>1. 0 \in Int /\ table_size - 1 \in Int /\ ~(0 > table_size - 1)
    BY <1>1
  <2>2. /\ IsFiniteSet(0 .. table_size - 1)
        /\ Cardinality(0 .. table_size - 1) = (table_size - 1) - 0 + 1
    BY <2>1, FS_Interval
  <2> QED BY <1>1, <2>2
<1>3. IsFiniteSet(InUse) /\ Cardinality(InUse) <= table_size
      /\ (Cardinality(Slot) = Cardinality(InUse) => Slot = InUse)
  BY <1>1, <1>2, FS_Subset
<1>4. Cardinality(InUse) \in Nat
  BY <1>3, FS_CardinalityType
<1> QED BY <1>1, <1>2, <1>3, <1>4

\* hashmap_hash answers MAP_FULL only when the table is counted as full, and
\* otherwise with the nearest slot that is free or has the key.
LEMMA HashFinds ==
  ASSUME HashMapAssumption, TypeOK, SizeCoversEntries, NEW k \in Key
  PROVE  /\ hashmap_hash(k) = NULL <=> size = table_size
         /\ hashmap_hash(k) # NULL =>
              /\ hashmap_hash(k) \in Slots(k) \cup (Slot \ InUse)
              /\ \A r \in Slots(k) \cup (Slot \ InUse) :
                   Distance(k, hashmap_hash(k)) <= Distance(k, r)
<1> DEFINE S == Slots(k) \cup (Slot \ InUse)
<1>1. S \in SUBSET (0 .. table_size - 1) /\ table_size \in Nat \ {0}
  BY TableFacts DEF Slots
<1>2. size # table_size => S # {}
  <2>1. size # table_size => Cardinality(InUse) < table_size
    BY TableFacts DEF SizeCoversEntries, TypeOK
  <2>2. size # table_size => InUse # Slot
    BY <2>1, TableFacts
  <2> QED BY <2>2, TableFacts
<1>3. hashmap_hash(k) = IF size = table_size THEN NULL ELSE FirstOf(k, S)
  BY DEF hashmap_hash
<1> HIDE DEF S
<1>4. size # table_size =>
        /\ FirstOf(k, S) \in S /\ FirstOf(k, S) # NULL
        /\ \A r \in S : Distance(k, FirstOf(k, S)) <= Distance(k, r)
  BY <1>1, <1>2, FirstOfNearest
<1>5. /\ hashmap_hash(k) = NULL <=> size = table_size
      /\ hashmap_hash(k) # NULL => hashmap_hash(k) \in S
      /\ hashmap_hash(k) # NULL => \A r \in S : Distance(k, hashmap_hash(k)) <= Distance(k, r)
  BY <1>3, <1>4
<1> QED BY <1>5 DEF S

\* Find finds a slot with the key if there is one.
LEMMA FindFinds ==
  ASSUME HashMapAssumption, TypeOK, NEW k \in Key
  PROVE  IF Slots(k) = {} THEN Find(k) = NULL ELSE Find(k) \in Slots(k) /\ Find(k) # NULL
<1>1. Slots(k) \in SUBSET (0 .. table_size - 1) /\ table_size \in Nat \ {0}
  BY TableFacts DEF Slots
<1>2. CASE Slots(k) = {}
  BY <1>2 DEF Find, FirstOf
<1>3. CASE Slots(k) # {}
  BY <1>1, <1>3, FirstOfNearest DEF Find
<1> QED BY <1>2, <1>3
----------------------------------------------------------------------------
(* The inductive invariant *)

LEMMA InitMInv == HashMapAssumption /\ Init => MInv
<1> SUFFICES ASSUME HashMapAssumption, Init PROVE MInv
  OBVIOUS
<1> USE DEF Init, HashMapAssumption
<1>1. TypeOK
  <2>1. data \in [0 .. table_size - 1 -> [key : Key, val : Val] \cup {NULL}]
    BY DEF Empty
  <2>2. size \in 0 .. table_size
    OBVIOUS
  <2>3. twice \in BOOLEAN
    OBVIOUS
  <2> QED BY <2>1, <2>2, <2>3 DEF TypeOK
<1>2. LockInv
  BY DEF LockInv
<1>3. InUse = {} /\ \A k \in Key : Slots(k) = {}
  BY DEF InUse, Slots, Slot, Empty
<1>4. SizeCoversEntries
  BY <1>3, FS_EmptySet DEF SizeCoversEntries
<1>5. StuckOnlyWhenCounted
  BY DEF StuckOnlyWhenCounted, Rehashing
<1>6. KeyInv
  BY <1>3 DEF KeyInv
<1>7. Known = {}
  BY DEF Known
<1>8. CountInv
  BY <1>7, FS_EmptySet DEF CountInv
<1> QED BY <1>1, <1>2, <1>4, <1>5, <1>6, <1>8 DEF MInv

\* A step that leaves the table, the lock and the history alone and no thread
\* in a rehash that was not.
LEMMA MoveMInv ==
  ASSUME HashMapAssumption, MInv, UNCHANGED <<map, hist>>,
         pc' \in [Thread -> {"out", "length", "lock", "rehash"}],
         call' \in [Thread -> Op \cup {NULL}],
         \A t \in Thread : pc'[t] = "rehash" <=> pc[t] = "rehash"
  PROVE  MInv'
<1> USE DEF MInv, map, hist
<1>1. TypeOK'
  BY DEF TypeOK
<1>2. LockInv'
  BY DEF LockInv
<1>3. InUse' = InUse /\ Slot' = Slot /\ Known' = Known /\ \A k \in Key : Slots(k)' = Slots(k)
  BY DEF InUse, Slot, Slots, Known
<1>4. SizeCoversEntries'
  BY <1>3 DEF SizeCoversEntries
<1>5. StuckOnlyWhenCounted'
  BY DEF StuckOnlyWhenCounted, Rehashing
<1>6. owner = NULL => KeyInv'
  BY <1>3 DEF KeyInv, Distance
<1>7. owner = NULL => CountInv'
  BY <1>3 DEF CountInv
<1> QED BY <1>1, <1>2, <1>4, <1>5, <1>6, <1>7

LEMMA ReturnTypes ==
  ASSUME HashMapAssumption, MInv, NEW t \in Thread, Return(t) \/ \E op \in Op : Enter(t, op) \/ ReadLength(t),
         pc[t] # "rehash"
  PROVE  /\ pc' \in [Thread -> {"out", "length", "lock", "rehash"}]
         /\ call' \in [Thread -> Op \cup {NULL}]
         /\ \A u \in Thread : pc'[u] = "rehash" <=> pc[u] = "rehash"
<1>1. CASE Return(t)
  BY <1>1 DEF MInv, TypeOK, Return
<1>2. ASSUME NEW op \in Op, Enter(t, op)
      PROVE  /\ pc' \in [Thread -> {"out", "length", "lock", "rehash"}]
             /\ call' \in [Thread -> Op \cup {NULL}]
             /\ \A u \in Thread : pc'[u] = "rehash" <=> pc[u] = "rehash"
  BY <1>2 DEF MInv, TypeOK, Enter
<1>3. CASE ReadLength(t)
  BY <1>3 DEF MInv, TypeOK, ReadLength, Return
<1> QED BY <1>1, <1>2, <1>3

\* hashmap_put finds the slot of a key that is in the map, unless a gap may have
\* opened before it, and a free slot for a key that is not.
LEMMA PutSlot ==
  ASSUME HashMapAssumption, MInv, owner = NULL, NEW k \in Key, k \notin replaced,
         k \notin moved, hashmap_hash(k) # NULL
  PROVE  \/ dict[k] = NULL /\ hashmap_hash(k) \notin InUse /\ Slots(k) = {}
         \/ dict[k] # NULL /\ Slots(k) = {hashmap_hash(k)}
<1> DEFINE h == hashmap_hash(k)
<1>1. /\ h \in Slots(k) \cup (Slot \ InUse)
      /\ \A r \in Slots(k) \cup (Slot \ InUse) : Distance(k, h) <= Distance(k, r)
  BY HashFinds DEF MInv
<1> HIDE DEF h
<1>2. CASE dict[k] = NULL
  BY <1>1, <1>2 DEF MInv, KeyInv, h
<1>3. CASE dict[k] # NULL
  <2>1. PICK s \in Slot :
          /\ Slots(k) = {s}
          /\ \A r \in Slot : Distance(k, r) < Distance(k, s) => data[r] # NULL
    BY <1>3 DEF MInv, KeyInv
  <2>2. table_size \in Nat \ {0} /\ k \in Nat /\ s \in 0 .. table_size - 1
        /\ h \in 0 .. table_size - 1 /\ h \in Slot
    BY <1>1, <2>1, TableFacts DEF MInv, HashMapAssumption, Slots
  <2>3. Distance(k, h) \in Nat /\ Distance(k, s) \in Nat /\ (Distance(k, h) = Distance(k, s) => h = s)
    BY <2>2, DistanceInjective
  <2>4. Distance(k, h) <= Distance(k, s)
    BY <1>1, <2>1
  <2>5. ASSUME h # s PROVE FALSE
    <3>1. Distance(k, h) < Distance(k, s)
      BY <2>3, <2>4, <2>5
    <3>2. data[h] # NULL
      BY <2>1, <2>2, <3>1
    <3>3. h \in InUse
      BY <2>2, <3>2 DEF InUse
    <3> QED BY <1>1, <2>1, <2>5, <3>3
  <2> QED BY <1>3, <2>1, <2>5 DEF h
<1> QED BY <1>2, <1>3

LEMMA PutMInv ==
  ASSUME HashMapAssumption, MInv, NEW t \in Thread, NEW k \in Key, NEW v \in Val, Put(t, k, v)
  PROVE  MInv'
<1> DEFINE s == hashmap_hash(k)
<1> DEFINE e == [key |-> k, val |-> v]
<1>1. /\ s # NULL /\ owner = NULL /\ pc[t] = "lock"
      /\ data' = [data EXCEPT ![s] = e]
      /\ size' = size + 1
      /\ replaced' = replaced \cup ({k} \cap moved)
      /\ dict' = [dict EXCEPT ![k] = IF k \in replaced' THEN NULL ELSE v]
      /\ twice' = (twice \/ dict[k] # NULL)
      /\ moved' = moved \ {k}
      /\ Return(t)
      /\ table_size' = table_size /\ owner' = owner
  BY DEF Put, Locked
<1>2. /\ s \in Slots(k) \cup (Slot \ InUse) /\ size # table_size
      /\ \A r \in Slots(k) \cup (Slot \ InUse) : Distance(k, s) <= Distance(k, r)
  BY <1>1, HashFinds DEF MInv
<1>3. s \in Slot /\ Slot = 0 .. table_size - 1 /\ table_size \in Nat \ {0}
      /\ data \in [Slot -> [key : Key, val : Val] \cup {NULL}]
      /\ e \in [key : Key, val : Val] /\ e # NULL /\ v # NULL
  BY <1>2, TableFacts DEF MInv, TypeOK, Slots, InUse, HashMapAssumption
<1> HIDE DEF s
<1>4. /\ pc' \in [Thread -> {"out", "length", "lock", "rehash"}]
      /\ call' \in [Thread -> Op \cup {NULL}]
      /\ \A u \in Thread : pc'[u] = "rehash" <=> pc[u] = "rehash"
  BY <1>1, ReturnTypes
<1>5. TypeOK'
  <2>1. data' \in [0 .. table_size' - 1 -> [key : Key, val : Val] \cup {NULL}]
    BY <1>1, <1>3
  <2>2. size' \in 0 .. table_size'
    BY <1>1, <1>2, <1>3 DEF MInv, TypeOK
  <2>3. replaced' \in SUBSET Key /\ moved' \in SUBSET Key
    BY <1>1 DEF MInv, TypeOK
  <2>4. dict' \in [Key -> Val \cup {NULL}]
    BY <1>1 DEF MInv, TypeOK
  <2>5. twice' \in BOOLEAN
    BY <1>1, Zenon
  <2>6. table_size' \in {INITIAL_SIZE, 2 * INITIAL_SIZE} /\ owner' \in Thread \cup {NULL}
    BY <1>1 DEF MInv, TypeOK
  <2> QED BY <1>4, <2>1, <2>2, <2>3, <2>4, <2>5, <2>6 DEF TypeOK
<1>6. LockInv'
  BY <1>1, <1>4 DEF MInv, LockInv
<1>7. /\ Slot' = Slot /\ InUse' = InUse \cup {s}
      /\ \A q \in Key : Slots(q)' = IF q = k THEN Slots(k) \cup {s} ELSE Slots(q)
  <2>1. Slot' = Slot /\ InUse' = InUse \cup {s}
    BY <1>1, <1>3 DEF Slot, InUse
  <2>2. ASSUME NEW q \in Key, q # k PROVE Slots(q)' = Slots(q)
    <3>1. s \notin Slots(q)
      BY <1>2, <2>2 DEF Slots
    <3>2. ASSUME NEW r \in Slot PROVE r \in Slots(q)' <=> r \in Slots(q)
      BY <1>1, <1>3, <2>1, <2>2, <3>1 DEF Slots, InUse
    <3> QED BY <2>1, <3>2 DEF Slots, InUse
  <2>3. Slots(k)' = Slots(k) \cup {s}
    <3>1. ASSUME NEW r \in Slot PROVE r \in Slots(k)' <=> r \in Slots(k) \/ r = s
      BY <1>1, <1>3, <2>1 DEF Slots, InUse
    <3> QED BY <1>3, <2>1, <3>1 DEF Slots, InUse
  <2> QED BY <2>1, <2>2, <2>3
<1>8. SizeCoversEntries'
  <2>1. Cardinality(InUse \cup {s}) = IF s \in InUse THEN Cardinality(InUse) ELSE Cardinality(InUse) + 1
    BY TableFacts, FS_AddElement DEF MInv
  <2> QED BY <1>1, <1>7, <2>1, TableFacts DEF MInv, SizeCoversEntries, TypeOK
<1>9. StuckOnlyWhenCounted'
  BY <1>1, <1>6, <1>5 DEF StuckOnlyWhenCounted, Rehashing, LockInv, TypeOK, HashMapAssumption
<1>10. \A q \in Key : \A r \in Slot : Distance(q, r)' = Distance(q, r)
  BY <1>1 DEF Distance
<1>11. dict \in [Key -> Val \cup {NULL}]
  BY DEF MInv, TypeOK
<1>12. KeyInv'
  <2>1. ASSUME NEW q \in Key, dict'[q] = NULL, q \notin replaced' PROVE Slots(q)' = {}
    <3>1. q # k
      BY <1>1, <1>3, <1>11, <2>1
    <3> QED BY <1>1, <1>7, <1>11, <2>1, <3>1 DEF MInv, KeyInv
  <2>2. ASSUME NEW q \in Key, dict'[q] # NULL PROVE q \notin replaced'
    BY <1>1, <1>11, <2>2 DEF MInv, KeyInv
  <2>3. ASSUME NEW q \in Key, dict'[q] # NULL
        PROVE  \E x \in Slot' :
                 /\ Slots(q)' = {x} /\ data'[x].val = dict'[q]
                 /\ q \notin moved' => \A r \in Slot' : Distance(q, r)' < Distance(q, x)' => data'[r] # NULL
    <3>1. CASE q = k
      <4>1. k \notin replaced /\ k \notin moved /\ dict'[k] = v
        BY <1>1, <1>11, <2>2, <2>3, <3>1
      <4>2. Slots(k)' = {s}
        BY <1>1, <1>7, <4>1, PutSlot DEF s
      <4>3. data'[s].val = v
        BY <1>1, <1>3
      <4>4. ASSUME NEW r \in Slot, Distance(k, r) < Distance(k, s) PROVE data'[r] # NULL
        <5>1. Distance(k, r) \in Nat /\ Distance(k, s) \in Nat
          BY <1>3, DistanceInjective DEF HashMapAssumption
        <5>2. r \in InUse /\ r # s
          BY <1>2, <4>4, <5>1
        <5> QED BY <1>1, <1>3, <5>2 DEF InUse
      <4> QED BY <1>3, <1>7, <1>10, <3>1, <4>1, <4>2, <4>3, <4>4
    <3>2. CASE q # k
      <4>1. dict[q] # NULL /\ dict'[q] = dict[q] /\ (q \in moved' <=> q \in moved)
        BY <1>1, <1>11, <2>3, <3>2
      <4>2. PICK x \in Slot :
              /\ Slots(q) = {x} /\ data[x].val = dict[q]
              /\ q \notin moved => \A r \in Slot : Distance(q, r) < Distance(q, x) => data[r] # NULL
        BY <1>1, <4>1 DEF MInv, KeyInv
      <4>3. x # s
        BY <1>2, <3>2, <4>2 DEF Slots
      <4>4. data'[x] = data[x] /\ \A r \in Slot : data[r] # NULL => data'[r] # NULL
        BY <1>1, <1>3, <4>2, <4>3
      <4> QED BY <1>7, <1>10, <3>2, <4>1, <4>2, <4>4
    <3> QED BY <3>1, <3>2
  <2> QED BY <2>1, <2>2, <2>3 DEF KeyInv
<1>13. CountInv'
  <2>1. Known' = IF k \in replaced' THEN Known \ {k} ELSE Known \cup {k}
    BY <1>1, <1>3, <1>11 DEF Known
  <2>2. IsFiniteSet(Known) /\ moved \subseteq Known /\ (~twice => replaced = {} /\ size = Cardinality(Known))
    BY <1>1 DEF MInv, CountInv
  <2>3. IsFiniteSet(Known') /\ moved' \subseteq Known'
    BY <1>1, <2>1, <2>2, FS_AddElement, FS_RemoveElement
  <2>4. ASSUME ~twice' PROVE replaced' = {} /\ size' = Cardinality(Known')
    <3>1. ~twice /\ dict[k] = NULL
      BY <1>1, <2>4
    <3>2. k \notin Known /\ k \notin moved
      BY <2>2, <3>1 DEF Known
    <3>3. replaced' = {} /\ Known' = Known \cup {k}
      BY <1>1, <2>1, <2>2, <3>1, <3>2
    <3>4. Cardinality(Known') = Cardinality(Known) + 1
      BY <2>2, <3>2, <3>3, FS_AddElement
    <3> QED BY <1>1, <2>2, <3>1, <3>3, <3>4
  <2> QED BY <2>3, <2>4 DEF CountInv
<1> QED BY <1>5, <1>6, <1>8, <1>9, <1>12, <1>13 DEF MInv

\* The rehash begins with the size at INITIAL_SIZE, which counts the keys of the
\* map unless one was put twice.
LEMMA PutRehashMInv ==
  ASSUME HashMapAssumption, MInv, NEW t \in Thread, NEW k \in Key, PutRehash(t, k)
  PROVE  MInv'
<1>1. /\ owner = NULL /\ size = table_size /\ table_size = INITIAL_SIZE
      /\ data' = Empty(2 * table_size) /\ table_size' = 2 * table_size /\ size' = 0
      /\ owner' = t /\ pc' = [pc EXCEPT ![t] = "rehash"]
      /\ UNCHANGED <<call, dict, moved, replaced, twice>>
  BY HashFinds DEF PutRehash, Locked, MInv, LockInv, hist
<1>2. INITIAL_SIZE \in Nat \ {0} /\ owner' # NULL
  BY <1>1 DEF HashMapAssumption
<1>3. TypeOK'
  <2>1. data' \in [0 .. table_size' - 1 -> [key : Key, val : Val] \cup {NULL}]
    BY <1>1 DEF Empty
  <2>2. size' \in 0 .. table_size' /\ table_size' \in {INITIAL_SIZE, 2 * INITIAL_SIZE}
    BY <1>1, <1>2
  <2> QED BY <1>1, <2>1, <2>2 DEF MInv, TypeOK
<1>4. LockInv'
  BY <1>1, <1>2 DEF MInv, LockInv, TypeOK
<1>5. SizeCoversEntries'
  <2>1. InUse' = {}
    BY <1>1 DEF InUse, Slot, Empty
  <2> QED BY <1>1, <2>1, FS_EmptySet DEF SizeCoversEntries
<1>6. StuckOnlyWhenCounted'
  BY <1>1 DEF StuckOnlyWhenCounted, MInv, CountInv, Known
<1> QED BY <1>2, <1>3, <1>4, <1>5, <1>6 DEF MInv

LEMMA BlankMInv ==
  ASSUME HashMapAssumption, MInv, owner = NULL, NEW t \in Thread, pc[t] # "rehash",
         NEW s \in InUse, Blank(s), Return(t)
  PROVE  MInv'
<1> DEFINE k == data[s].key
<1>1. /\ data' = [data EXCEPT ![s] = NULL]
      /\ size' = size - 1
      /\ dict' = [dict EXCEPT ![k] = NULL]
      /\ moved' = (moved \cup Known) \ {k}
      /\ UNCHANGED <<table_size, owner, replaced, twice>>
  BY DEF Blank, Known
<1>2. /\ s \in Slot /\ Slot = 0 .. table_size - 1 /\ table_size \in Nat \ {0}
      /\ data \in [Slot -> [key : Key, val : Val] \cup {NULL}]
      /\ k \in Key /\ data[s] # NULL
      /\ dict \in [Key -> Val \cup {NULL}]
  BY TableFacts DEF MInv, TypeOK, InUse, Slot
<1> HIDE DEF k
<1>3. /\ pc' \in [Thread -> {"out", "length", "lock", "rehash"}]
      /\ call' \in [Thread -> Op \cup {NULL}]
      /\ \A u \in Thread : pc'[u] = "rehash" <=> pc[u] = "rehash"
  BY ReturnTypes
<1>4. Slot' = Slot /\ InUse' = InUse \ {s} /\ \A q \in Key : Slots(q)' = Slots(q) \ {s}
  BY <1>1, <1>2 DEF Slot, InUse, Slots
<1>5. s \in Slots(k) /\ \A q \in Key : s \in Slots(q) => q = k
  BY <1>2 DEF Slots, k
<1>6. Cardinality(InUse') = Cardinality(InUse) - 1 /\ Cardinality(InUse) \in Nat /\ Cardinality(InUse') \in Nat
  <2>1. IsFiniteSet(InUse) /\ Cardinality(InUse) \in Nat
    BY TableFacts DEF MInv
  <2>2. IsFiniteSet(InUse') /\ Cardinality(InUse') = Cardinality(InUse) - 1
    BY <1>4, <2>1, FS_RemoveElement
  <2> QED BY <2>1, <2>2, FS_CardinalityType
<1>7. TypeOK'
  <2>1. data' \in [0 .. table_size' - 1 -> [key : Key, val : Val] \cup {NULL}]
    BY <1>1, <1>2
  <2>2. size' \in 0 .. table_size'
    BY <1>1, <1>6 DEF MInv, TypeOK, SizeCoversEntries
  <2>3. dict' \in [Key -> Val \cup {NULL}] /\ moved' \in SUBSET Key
    BY <1>1, <1>2 DEF MInv, TypeOK, Known
  <2> QED BY <1>1, <1>3, <2>1, <2>2, <2>3 DEF MInv, TypeOK
<1>8. LockInv'
  BY <1>1, <1>3 DEF MInv, LockInv
<1>9. SizeCoversEntries'
  BY <1>1, <1>6 DEF MInv, TypeOK, SizeCoversEntries
<1>10. StuckOnlyWhenCounted'
  BY <1>1, <1>7, <1>8 DEF StuckOnlyWhenCounted, Rehashing, LockInv, TypeOK, HashMapAssumption
<1>11. KeyInv'
  <2>1. ASSUME NEW q \in Key, dict'[q] = NULL, q \notin replaced' PROVE Slots(q)' = {}
    <3>1. CASE dict[q] = NULL
      BY <1>1, <1>4, <2>1, <3>1 DEF MInv, KeyInv
    <3>2. CASE dict[q] # NULL
      <4>1. q = k
        BY <1>1, <1>2, <2>1, <3>2
      <4>2. \E x \in Slot : Slots(q) = {x}
        BY <3>2 DEF MInv, KeyInv
      <4> QED BY <1>4, <1>5, <4>1, <4>2
    <3> QED BY <3>1, <3>2
  <2>2. ASSUME NEW q \in Key, dict'[q] # NULL
        PROVE  q # k /\ dict'[q] = dict[q] /\ dict[q] # NULL /\ q \in moved'
    BY <1>1, <1>2, <2>2 DEF Known
  <2>3. ASSUME NEW q \in Key, dict'[q] # NULL
        PROVE  /\ q \notin replaced'
               /\ \E x \in Slot' : Slots(q)' = {x} /\ data'[x].val = dict'[q] /\ q \in moved'
    <3>1. q # k /\ dict'[q] = dict[q] /\ dict[q] # NULL /\ q \in moved'
      BY <2>2, <2>3
    <3>2. PICK x \in Slot : Slots(q) = {x} /\ data[x].val = dict[q]
      BY <3>1 DEF MInv, KeyInv
    <3>3. x # s
      BY <1>5, <3>1, <3>2
    <3>4. data'[x] = data[x]
      BY <1>1, <1>2, <3>3
    <3>5. q \notin replaced
      BY <3>1 DEF MInv, KeyInv
    <3> QED BY <1>1, <1>4, <3>1, <3>2, <3>3, <3>4, <3>5
  <2> QED BY <2>1, <2>3 DEF KeyInv
<1>12. CountInv'
  <2>1. Known' = Known \ {k}
    BY <1>1, <1>2 DEF Known
  <2>2. IsFiniteSet(Known) /\ moved \subseteq Known /\ (~twice => replaced = {} /\ size = Cardinality(Known))
    BY DEF MInv, CountInv
  <2>3. IsFiniteSet(Known')
    BY <2>1, <2>2, FS_RemoveElement
  <2>4. moved' \subseteq Known'
    BY <1>1, <2>1, <2>2
  <2>5. ASSUME ~twice' PROVE replaced' = {} /\ size' = Cardinality(Known')
    <3>1. replaced = {} /\ size = Cardinality(Known)
      BY <1>1, <2>2, <2>5
    <3>2. k \in Known
      BY <1>2, <1>5, <3>1 DEF MInv, KeyInv, Known
    <3>3. Cardinality(Known') = Cardinality(Known) - 1
      BY <2>1, <2>2, <3>2, FS_RemoveElement
    <3> QED BY <1>1, <3>1, <3>3
  <2> QED BY <2>3, <2>4, <2>5 DEF CountInv
<1> QED BY <1>7, <1>8, <1>9, <1>10, <1>11, <1>12 DEF MInv

LEMMA RemoveMInv ==
  ASSUME HashMapAssumption, MInv, NEW t \in Thread,
         GetOne(t) \/ \E k \in Key : Remove(t, k)
  PROVE  MInv'
<1>1. owner = NULL /\ pc[t] = "lock" /\ Return(t)
  BY DEF GetOne, Remove, Locked
<1>2. CASE UNCHANGED <<map, hist>>
  BY <1>1, <1>2, ReturnTypes, MoveMInv
<1>3. ASSUME NEW s \in InUse, Blank(s) PROVE MInv'
  BY <1>1, <1>3, BlankMInv
<1>4. ASSUME NEW k \in Key, Remove(t, k)
      PROVE  UNCHANGED <<map, hist>> \/ \E s \in InUse : Blank(s)
  <2>1. Find(k) # NULL => Find(k) \in InUse
    BY FindFinds DEF MInv, Slots
  <2> QED BY <1>4, <2>1 DEF Remove
<1>5. GetOne(t) => UNCHANGED <<map, hist>> \/ \E s \in InUse : Blank(s)
  <2>1. InUse # {} => \E s \in InUse : \A r \in InUse : s <= r
    <3>1. InUse \subseteq Nat
      BY TableFacts DEF MInv
    <3> QED BY <3>1, LeastNat
  <2>2. InUse # {} => (CHOOSE s \in InUse : \A r \in InUse : s <= r) \in InUse
    BY <2>1
  <2> QED BY <2>2 DEF GetOne
<1> QED BY <1>2, <1>3, <1>4, <1>5

LEMMA NextMInv ==
  ASSUME HashMapAssumption, MInv, [Next]_vars
  PROVE  MInv'
<1>1. CASE UNCHANGED vars
  BY <1>1, MoveMInv DEF vars, MInv, TypeOK
<1>2. ASSUME NEW t \in Thread, NEW op \in Op, Enter(t, op) PROVE MInv'
  BY <1>2, ReturnTypes, MoveMInv DEF Enter
<1>3. ASSUME NEW t \in Thread, ReadLength(t) PROVE MInv'
  <2>1. "get" \in Op
    BY DEF Op
  <2> QED BY <1>3, <2>1, ReturnTypes, MoveMInv DEF ReadLength
<1>4. ASSUME NEW t \in Thread,
             Get(t) \/ Iterate(t) \/ \E k \in Key : PutNoMemory(t, k)
      PROVE  MInv'
  <2>1. Return(t) /\ pc[t] # "rehash" /\ UNCHANGED <<map, hist>>
    BY <1>4 DEF Get, Iterate, PutNoMemory, Locked
  <2> QED BY <2>1, ReturnTypes, MoveMInv
<1>5. ASSUME NEW t \in Thread, NEW k \in Key, PutRehash(t, k) \/ \E v \in Val : Put(t, k, v)
      PROVE  MInv'
  BY <1>5, PutMInv, PutRehashMInv
<1> QED BY <1>1, <1>2, <1>3, <1>4, <1>5, RemoveMInv DEF Next, Run
----------------------------------------------------------------------------
(* Theorems *)

\* The inductive invariant of the table.
THEOREM MapInvariance == Spec => []MInv
<1>1. Init => MInv
  BY HashMapAssumption, InitMInv
<1>2. MInv /\ [Next]_vars => MInv'
  BY HashMapAssumption, NextMInv
<1> QED BY <1>1, <1>2, PTL DEF Spec

\* The table, its counters and the history keep their types; in particular the
\* size of hashmap.c stays between 0 and the size of the table.
THEOREM MapTypeCorrect == Spec => []TypeOK
<1>1. MInv => TypeOK
  BY DEF MInv
<1> QED BY <1>1, MapInvariance, PTL

\* hashmap_length never says that a map is empty that has an entry, and
\* hashmap_hash always has a free slot in a table not counted as full.
THEOREM SizeCorrect == Spec => []SizeCoversEntries
<1>1. MInv => SizeCoversEntries
  BY DEF MInv
<1> QED BY <1>1, MapInvariance, PTL

\* A thread is stuck in hashmap_rehash only when INITIAL_SIZE keys were in the
\* map or some key had been put while it was there.
THEOREM StuckCorrect == Spec => []StuckOnlyWhenCounted
<1>1. MInv => StuckOnlyWhenCounted
  BY DEF MInv
<1> QED BY <1>1, MapInvariance, PTL

\* hashmap_get and hashmap_remove find exactly what was put last, for every key
\* that was not put again after another one was removed.
THEOREM ExactCorrect == Spec => []ExactUnlessReplaced
<1>1. MInv => ExactUnlessReplaced
  <2> SUFFICES ASSUME MInv, ~Rehashing, NEW k \in Key \ replaced
               PROVE  IF dict[k] = NULL THEN Find(k) = NULL
                      ELSE Find(k) # NULL /\ Slots(k) = {Find(k)} /\ data[Find(k)].val = dict[k]
    BY DEF ExactUnlessReplaced
  <2>1. owner = NULL
    BY DEF MInv, LockInv, Rehashing, TypeOK
  <2>2. IF Slots(k) = {} THEN Find(k) = NULL ELSE Find(k) \in Slots(k) /\ Find(k) # NULL
    BY HashMapAssumption, FindFinds DEF MInv
  <2>3. dict[k] = NULL => Slots(k) = {}
    BY <2>1 DEF MInv, KeyInv
  <2>4. dict[k] # NULL => \E s \in Slot : Slots(k) = {s} /\ data[s].val = dict[k]
    BY <2>1 DEF MInv, KeyInv
  <2> QED BY <2>2, <2>3, <2>4
<1> QED BY <1>1, MapInvariance, PTL
============================================================================
