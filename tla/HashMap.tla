------------------------------ MODULE HashMap ------------------------------
(***************************************************************************)
(* hashmap.c: the open addressing table behind the server's active_sockets *)
(* and the client's group_mapping.                                         *)
(*                                                                         *)
(* Every function takes m->lock, except that hashmap_length and the tests  *)
(* made with it come before; a call is waiting for the lock, then runs in  *)
(* one step, unless it has to rehash; its arguments are chosen there.  A   *)
(* key is the number that hashmap_hash_int has mixed before its last line; *)
(* a slot that is not in use is NULL, since nothing reads its fields.      *)
(*                                                                         *)
(* dict, moved, replaced and twice are history: dict is the map the        *)
(* callers believe in, moved the keys that were in it when another key was *)
(* taken out, replaced those of them that were put again, which dict gives *)
(* up, and twice says that some key was put while it was in the map.       *)
(***************************************************************************)
EXTENDS Integers, FiniteSets

CONSTANTS Thread, Key, Val, NULL, INITIAL_SIZE

ASSUME HashMapAssumption ==
  /\ Key \subseteq Nat
  /\ NULL \notin Val /\ NULL \notin Thread /\ NULL \notin Nat
  /\ NULL \notin [key : Key, val : Val]
  /\ INITIAL_SIZE \in Nat \ {0}

VARIABLES data, table_size, size,   \* the table and its counters
          owner,                    \* the thread that keeps m->lock
          pc, call,                 \* per thread: where it is in which call
          dict, moved, replaced, twice

map == <<data, table_size, size, owner>>
hist == <<dict, moved, replaced, twice>>
vars == <<map, pc, call, hist>>

Scan == {"get_one", "take_one", "iterate"}     \* take_one is get_one with remove
Op == {"put", "get", "remove"} \cup Scan

Empty(n) == [s \in 0 .. n - 1 |-> NULL]

Init ==
  /\ data = Empty(INITIAL_SIZE) /\ table_size = INITIAL_SIZE /\ size = 0
  /\ owner = NULL
  /\ pc = [t \in Thread |-> "out"] /\ call = [t \in Thread |-> NULL]
  /\ dict = [k \in Key |-> NULL]
  /\ moved = {} /\ replaced = {} /\ twice = FALSE
----------------------------------------------------------------------------
(* Probing *)

Slot == DOMAIN data
InUse == {s \in Slot : data[s] # NULL}
Slots(k) == {s \in InUse : data[s].key = k}

\* How far slot s is from where the probing for k starts.
Distance(k, s) == (s + table_size - (k % table_size)) % table_size

\* The first slot of S that linear probing for k meets.
FirstOf(k, S) ==
  IF S = {} THEN NULL
  ELSE CHOOSE s \in S : \A r \in S : Distance(k, s) <= Distance(k, r)

\* A mistaken Find that stops at a slot not in use.
FindStops(k) ==
  LET s == FirstOf(k, Slots(k) \cup (Slot \ InUse)) IN
  IF s # NULL /\ data[s] # NULL THEN s ELSE NULL

\* The slot that hashmap_get and hashmap_remove find.
Find(k) == FirstOf(k, Slots(k))

\* A mistaken hashmap_hash that keeps one slot free.
HashKeepsOneFree(k) ==
  IF size + 1 >= table_size THEN NULL ELSE FirstOf(k, Slots(k) \cup (Slot \ InUse))

\* The slot for a put, or NULL for MAP_FULL.
hashmap_hash(k) ==
  IF size = table_size THEN NULL ELSE FirstOf(k, Slots(k) \cup (Slot \ InUse))
----------------------------------------------------------------------------
(* Calls *)

Enter(t, op) ==
  /\ pc[t] = "out"
  /\ call' = [call EXCEPT ![t] = op]
  /\ pc' = [pc EXCEPT ![t] = IF op \in Scan THEN "length" ELSE "lock"]
  /\ UNCHANGED <<map, hist>>

Locked(t, ops) == pc[t] = "lock" /\ owner = NULL /\ call[t] \in ops
Return(t) ==
  /\ pc' = [pc EXCEPT ![t] = "out"]
  /\ call' = [call EXCEPT ![t] = NULL]

\* hashmap_length, read without the lock; the empty map is left at once.
ReadLength(t) ==
  /\ pc[t] = "length"
  /\ IF size <= 0 THEN Return(t) ELSE pc' = [pc EXCEPT ![t] = "lock"] /\ UNCHANGED call
  /\ UNCHANGED <<map, hist>>

\* hashmap_put counts the entry also when it overwrites one.
Put(t, k, v) ==
  LET s == hashmap_hash(k)
  IN /\ Locked(t, {"put"})
     /\ s # NULL
     /\ data' = [data EXCEPT ![s] = [key |-> k, val |-> v]]
     /\ size' = size + 1
     /\ replaced' = replaced \cup ({k} \cap moved)
     /\ dict' = [dict EXCEPT ![k] = IF k \in replaced' THEN NULL ELSE v]
     /\ twice' = (twice \/ dict[k] # NULL)
     /\ moved' = moved \ {k}
     /\ Return(t)
     /\ UNCHANGED <<table_size, owner>>

\* A mistaken PutNoMemory that returns with the lock.
PutNoMemoryLocked(t, k) ==
  /\ Locked(t, {"put"})
  /\ hashmap_hash(k) = NULL
  /\ owner' = t
  /\ Return(t)
  /\ UNCHANGED <<data, table_size, size, hist>>

\* MAP_FULL, and hashmap_rehash gets no memory: MAP_OMEM.
PutNoMemory(t, k) ==
  /\ Locked(t, {"put"})
  /\ hashmap_hash(k) = NULL
  /\ Return(t)
  /\ UNCHANGED <<map, hist>>

\* MAP_FULL: hashmap_rehash puts an empty table in place and calls hashmap_put
\* for the first old slot, which locks m->lock.  Its owner is this very thread,
\* and the mutex is not recursive: no step leads out of "rehash".
PutRehash(t, k) ==
  /\ Locked(t, {"put"})
  /\ hashmap_hash(k) = NULL
  /\ data' = Empty(2 * table_size) /\ table_size' = 2 * table_size /\ size' = 0
  /\ owner' = t
  /\ pc' = [pc EXCEPT ![t] = "rehash"]
  /\ UNCHANGED <<call, hist>>

Get(t) ==
  /\ Locked(t, {"get"})
  /\ Return(t)
  /\ UNCHANGED <<map, hist>>

\* Slot s is given up.
Blank(s) ==
  /\ data' = [data EXCEPT ![s] = NULL]
  /\ size' = size - 1
  /\ dict' = [dict EXCEPT ![data[s].key] = NULL]
  /\ moved' = (moved \cup {k \in Key : dict[k] # NULL}) \ {data[s].key}
  /\ UNCHANGED <<table_size, owner, replaced, twice>>

\* A mistaken hashmap_remove that counts down for a missing key too.
RemoveCountsMisses(t, k) ==
  LET s == Find(k) IN
  /\ Locked(t, {"remove"})
  /\ IF s = NULL THEN size' = size - 1 /\ UNCHANGED <<data, table_size, owner, hist>> ELSE Blank(s)
  /\ Return(t)

Remove(t, k) ==
  LET s == Find(k) IN
  /\ Locked(t, {"remove"})
  /\ IF s = NULL THEN UNCHANGED <<map, hist>> ELSE Blank(s)
  /\ Return(t)

\* A mistaken hashmap_get_one that counts down although it removes nothing.
GetOneCountsDown(t) ==
  /\ Locked(t, {"get_one", "take_one"})
  /\ IF InUse # {} /\ call[t] = "take_one"
     THEN Blank(CHOOSE s \in InUse : \A r \in InUse : s <= r)
     ELSE size' = size - 1 /\ UNCHANGED <<data, table_size, owner, hist>>
  /\ Return(t)

\* hashmap_get_one without and with remove: the first slot in use, if there
\* still is one.
GetOne(t) ==
  /\ Locked(t, {"get_one", "take_one"})
  /\ IF InUse # {} /\ call[t] = "take_one"
     THEN Blank(CHOOSE s \in InUse : \A r \in InUse : s <= r)
     ELSE UNCHANGED <<map, hist>>
  /\ Return(t)

\* hashmap_iterate: f sees the slots in use, under the lock.
Iterate(t) ==
  /\ Locked(t, {"iterate"})
  /\ Return(t)
  /\ UNCHANGED <<map, hist>>
----------------------------------------------------------------------------
Run(t) ==
  \/ \E k \in Key :
       \/ \E v \in Val : Put(t, k, v)
       \/ PutNoMemory(t, k) \/ PutRehash(t, k) \/ Remove(t, k)
  \/ ReadLength(t) \/ Get(t) \/ GetOne(t) \/ Iterate(t)

Next == \E t \in Thread : Run(t) \/ \E op \in Op : Enter(t, op)

Spec == Init /\ [][Next]_vars

\* A thread inside a call runs on when it can take the lock.
FairSpec == Spec /\ \A t \in Thread : WF_vars(Run(t))
----------------------------------------------------------------------------
(* Properties *)

\* The type of the state.
TypeOK ==
  /\ table_size \in {INITIAL_SIZE, 2 * INITIAL_SIZE}
  /\ data \in [0 .. table_size - 1 -> [key : Key, val : Val] \cup {NULL}]
  /\ size \in 0 .. table_size
  /\ owner \in Thread \cup {NULL}
  /\ pc \in [Thread -> {"out", "length", "lock", "rehash"}]
  /\ call \in [Thread -> Op \cup {NULL}]
  /\ dict \in [Key -> Val \cup {NULL}]
  /\ moved \in SUBSET Key /\ replaced \in SUBSET Key /\ twice \in BOOLEAN

Rehashing == \E t \in Thread : pc[t] = "rehash"

\* hashmap_get finds what was put last (191-201), and hashmap_iterate and
\* hashmap_remove meet one slot per key, although removals leave gaps that the
\* probing of hashmap_hash (91-97) stops at.  The one exception is a key that is
\* put again after another key was removed while it was in the map.
ExactUnlessReplaced ==
  ~Rehashing => \A k \in Key \ replaced :
    IF dict[k] = NULL THEN Find(k) = NULL
    ELSE Find(k) # NULL /\ Slots(k) = {Find(k)} /\ data[Find(k)].val = dict[k]

\* m->size is never less than the slots in use: the unlocked tests for an empty
\* map (223, 260) do not hide an entry, and a table that is not counted as full
\* has a free slot for hashmap_hash.
SizeCoversEntries == size >= Cardinality(InUse)

\* hashmap_put gets stuck in hashmap_rehash only if INITIAL_SIZE keys were in the
\* map, or if some key was put while it was in the map: such a put is counted
\* (166) and never uncounted.
StuckOnlyWhenCounted ==
  Rehashing => twice \/ Cardinality({k \in Key : dict[k] # NULL}) = INITIAL_SIZE

\* Every call returns, whoever else uses the map, unless a rehash has begun.
CallReturns == \A t \in Thread : (pc[t] # "out") ~> (pc[t] = "out" \/ Rehashing)
============================================================================
