------------------------- MODULE ThreadQueueProofs -------------------------
(***************************************************************************)
(* Machine-checked proofs about queue.c (module ThreadQueue), for any      *)
(* number of threads, messages and records and any MSGPOOL_SIZE.           *)
(***************************************************************************)
EXTENDS ThreadQueue, SequenceTheorems, FiniteSetTheorems, WellFoundedInduction, TLAPS

\* A nonempty set of naturals has a least element: the form in which the
\* induction along a chain of records is used below.
LEMMA LeastNat ==
  ASSUME NEW T \in SUBSET Nat, T # {}
  PROVE  \E x \in T : \A y \in T : x <= y
<1>1. \E x \in T : \A y \in T : ~ (<<y, x>> \in OpToRel(<, Nat))
  BY NatLessThanWellFounded, WFMin
<1>2. PICK x \in T : \A y \in T : ~ (<<y, x>> \in OpToRel(<, Nat))
  BY <1>1
<1>3. \A y \in T : ~(y < x)
  BY <1>2 DEF OpToRel
<1> QED BY <1>3

\* If next links the records of s in order and ends with NULL, then Chain
\* started at the head of s reaches exactly the records of s.
LEMMA ChainOfList ==
  ASSUME NEW s \in Seq(Node), QueueAssumption,
         next \in [Node -> Node \cup {NULL}],
         Linked(s)
  PROVE  Chain(HeadOf(s)) = Range(s)
<1> DEFINE h == HeadOf(s)
<1> USE DEF HeadOf, Linked
<1>0. Range(s) = {s[i] : i \in 1 .. Len(s)}
  BY RangeEquality
<1>1. CASE s = <<>>
  BY <1>0, <1>1, EmptySeq DEF Chain
<1>2. CASE s # <<>>
  <2>1. Len(s) \in Nat \ {0} /\ \A i \in 1 .. Len(s) : s[i] \in Node
    BY <1>2, EmptySeq, ElementOfSeq
  <2>2. h = s[1] /\ h # NULL
    BY <1>2, <2>1 DEF QueueAssumption
  <2>3. Range(s) \in SUBSET Node /\ h \in Range(s)
    BY <1>0, <2>1, <2>2
  <2>4. \A x \in Range(s) : next[x] \in Range(s) \cup {NULL}
    <3> TAKE x \in Range(s)
    <3>1. PICK i \in 1 .. Len(s) : x = s[i]
      BY <1>0
    <3>2. CASE i = Len(s)
      BY <3>1, <3>2
    <3>3. CASE i # Len(s)
      <4>1. i + 1 \in 1 .. Len(s)
        BY <3>3, <2>1
      <4>2. next[x] = s[i + 1]
        BY <3>1, <3>3
      <4> QED BY <4>1, <4>2, <1>0
    <3> QED BY <3>2, <3>3
  <2>5. Chain(h) \subseteq Range(s)
    BY <2>3, <2>4 DEF Chain
  <2>6. ASSUME NEW S \in SUBSET Node, h \in S, \A x \in S : next[x] \in S \cup {NULL}
        PROVE  Range(s) \subseteq S
    <3> DEFINE T == {i \in 1 .. Len(s) : s[i] \notin S}
    <3>1. T = {}
      <4> SUFFICES ASSUME T # {} PROVE FALSE
        OBVIOUS
      <4>0. T \in SUBSET Nat
        BY <2>1
      <4>1. PICK i \in T : \A j \in T : i <= j
        <5> HIDE DEF T
        <5> QED BY LeastNat, <4>0
      <4>2. i # 1
        BY <2>2, <2>6
      <4>3. i - 1 \in 1 .. Len(s) /\ i - 1 \notin T
        BY <4>1, <4>2, <2>1
      <4>4. s[i - 1] \in S /\ next[s[i - 1]] = s[i]
        BY <4>3, <2>1
      <4>5. s[i] \in S
        BY <4>4, <2>6, <2>1 DEF QueueAssumption
      <4> QED BY <4>5
    <3> QED BY <3>1, <1>0
  <2>7. Range(s) \subseteq Chain(h)
    BY <2>2, <2>3, <2>6 DEF Chain
  <2> QED BY <2>5, <2>7
<1> QED BY <1>1, <1>2

----------------------------------------------------------------------------
(* The inductive invariant *)

\* A queue is destroyed only while no getter is inside thread_queue_get.
QuietWhenDestroyed == status = "destroyed" => \A t \in Getters : pc[t] = "out"

IInv == TypeOK /\ QueueShape /\ NoLostWakeup /\ QuietWhenDestroyed

LEMMA InitIInv == Init => IInv
<1> SUFFICES ASSUME Init PROVE IInv
  OBVIOUS
<1> USE DEF Init
<1>1. TypeOK
  BY EmptySeq DEF TypeOK, Where
<1>2. QueueShape
  <2>1. Len(<<>>) = 0 /\ Range(<<>>) = {}
    BY EmptySeq DEF Range
  <2> QED BY <2>1 DEF QueueShape, ListShape, PoolShape, RecordsOwnedOnce, QueuedData, Linked, HeadOf
<1>3. NoLostWakeup /\ QuietWhenDestroyed
  BY DEF NoLostWakeup, QuietWhenDestroyed
<1> QED BY <1>1, <1>2, <1>3 DEF IInv

\* The content of a sequence after a record is put behind or before it, or
\* its first one is taken away.
LEMMA AppendContent ==
  ASSUME NEW s \in Seq(Node), NEW n \in Node
  PROVE  /\ Append(s, n) \in Seq(Node)
         /\ Len(Append(s, n)) = Len(s) + 1
         /\ Append(s, n) # <<>>
         /\ \A i \in 1 .. Len(s) + 1 : Append(s, n)[i] = IF i = Len(s) + 1 THEN n ELSE s[i]
         /\ Range(Append(s, n)) = Range(s) \cup {n}
<1>1. /\ Append(s, n) \in Seq(Node) /\ Len(Append(s, n)) = Len(s) + 1 /\ Append(s, n) # <<>>
      /\ Len(s) \in Nat
  BY AppendProperties, LenProperties
<1>2. \A i \in 1 .. Len(s) + 1 : Append(s, n)[i] = IF i = Len(s) + 1 THEN n ELSE s[i]
  BY AppendProperties, <1>1
<1>3. Range(Append(s, n)) = {Append(s, n)[i] : i \in 1 .. Len(s) + 1}
  BY <1>1, RangeEquality
<1>4. Range(s) = {s[i] : i \in 1 .. Len(s)}
  BY RangeEquality
<1>5. Range(Append(s, n)) \subseteq Range(s) \cup {n}
  BY <1>1, <1>2, <1>3, <1>4
<1>6. Range(s) \cup {n} \subseteq Range(Append(s, n))
  BY <1>1, <1>2, <1>3, <1>4
<1> QED BY <1>1, <1>2, <1>5, <1>6

LEMMA PushContent ==
  ASSUME NEW s \in Seq(Node), NEW n \in Node
  PROVE  /\ <<n>> \o s \in Seq(Node)
         /\ Len(<<n>> \o s) = Len(s) + 1
         /\ <<n>> \o s # <<>>
         /\ \A i \in 1 .. Len(s) + 1 : (<<n>> \o s)[i] = IF i = 1 THEN n ELSE s[i - 1]
         /\ Tail(<<n>> \o s) = s
         /\ Range(<<n>> \o s) = Range(s) \cup {n}
<1> DEFINE p == <<n>> \o s
<1>1. <<n>> \in Seq(Node) /\ Len(<<n>>) = 1 /\ <<n>>[1] = n /\ Len(s) \in Nat
  BY LenProperties
<1>2. p \in Seq(Node) /\ Len(p) = Len(s) + 1
  BY <1>1, ConcatProperties
<1>3. \A i \in 1 .. Len(s) + 1 : p[i] = IF i = 1 THEN n ELSE s[i - 1]
  BY <1>1, ConcatProperties
<1>4. p # <<>>
  BY <1>1, <1>2, EmptySeq
<1>5. Tail(p) \in Seq(Node) /\ Len(Tail(p)) = Len(s) /\ \A i \in 1 .. Len(s) : Tail(p)[i] = s[i]
  <2> HIDE DEF p
  <2> QED BY <1>1, <1>2, <1>3, <1>4, HeadTailProperties
<1>6. Tail(p) = s
  <2> HIDE DEF p
  <2> QED BY <1>5, SeqEqual
<1>7. Range(p) = Range(s) \cup {n}
  <2>1. Range(p) = {p[i] : i \in 1 .. Len(s) + 1} /\ Range(s) = {s[i] : i \in 1 .. Len(s)}
    BY <1>2, RangeEquality
  <2> HIDE DEF p
  <2>2. p[1] = n /\ \A i \in 1 .. Len(s) : p[i + 1] = s[i] /\ i + 1 \in 1 .. Len(s) + 1
    BY <1>1, <1>3
  <2>3. Range(s) \cup {n} \subseteq Range(p)
    BY <1>1, <2>1, <2>2
  <2>4. Range(p) \subseteq Range(s) \cup {n}
    BY <1>1, <1>3, <2>1
  <2> QED BY <2>3, <2>4
<1> QED BY <1>2, <1>3, <1>4, <1>6, <1>7

LEMMA TailContent ==
  ASSUME NEW s \in Seq(Node), s # <<>>
  PROVE  /\ Tail(s) \in Seq(Node)
         /\ Len(s) \in Nat \ {0}
         /\ Len(Tail(s)) = Len(s) - 1
         /\ \A i \in 1 .. Len(s) - 1 : Tail(s)[i] = s[i + 1]
         /\ s[1] \in Node
         /\ Tail(s) = <<>> <=> Len(s) = 1
         /\ Range(s) = Range(Tail(s)) \cup {s[1]}
         /\ Range(Tail(s)) = {Tail(s)[i] : i \in 1 .. Len(s) - 1}
<1>1. Len(s) \in Nat \ {0}
  BY EmptySeq
<1>2. /\ Tail(s) \in Seq(Node) /\ Len(Tail(s)) = Len(s) - 1
      /\ \A i \in 1 .. Len(s) - 1 : Tail(s)[i] = s[i + 1]
  BY HeadTailProperties
<1>3. s[1] \in Node
  BY <1>1, ElementOfSeq
<1>4. Tail(s) = <<>> <=> Len(s) = 1
  BY <1>1, <1>2, EmptySeq
<1>5. Range(s) = {s[i] : i \in 1 .. Len(s)} /\ Range(Tail(s)) = {Tail(s)[i] : i \in 1 .. Len(s) - 1}
  BY <1>2, RangeEquality
<1>6. Range(s) = Range(Tail(s)) \cup {s[1]}
  <2>2. \A i \in 1 .. Len(s) : i = 1 \/ (i - 1 \in 1 .. Len(s) - 1 /\ s[i] = Tail(s)[i - 1])
    BY <1>1, <1>2
  <2>3. ASSUME NEW x \in Range(s) PROVE x \in Range(Tail(s)) \cup {s[1]}
    <3>1. PICK i \in 1 .. Len(s) : x = s[i]
      BY <1>5
    <3> QED BY <3>1, <1>5, <2>2
  <2>4. Range(Tail(s)) \cup {s[1]} \subseteq Range(s)
    BY <1>1, <1>2, <1>5
  <2> QED BY <2>3, <2>4
<1> QED BY <1>1, <1>2, <1>3, <1>4, <1>5, <1>6

\* What get_msglist leaves behind: a record that is in neither chain, and a
\* pool that is still well formed.
LEMMA GetMsglist ==
  ASSUME QueueAssumption, TypeOK, QueueShape, status = "ready", NEW n \in Node, get_msglist(n)
  PROVE  /\ pool' \in Seq(Node)
         /\ msgpool' = HeadOf(pool')
         /\ msgpool_length' = Len(pool')
         /\ \A i \in 1 .. Len(pool') : /\ pool'[i] # n
                                       /\ data[pool'[i]] = NULL
                                       /\ next[pool'[i]] = IF i = Len(pool') THEN NULL ELSE pool'[i + 1]
         /\ \A i \in 1 .. Len(list) : list[i] # n
         /\ \A i, j \in 1 .. Len(pool') : pool'[i] = pool'[j] => i = j
         /\ \A i \in 1 .. Len(list), j \in 1 .. Len(pool') : list[i] # pool'[j]
         /\ heap' = Range(list) \cup Range(pool') \cup {n}
<1> USE DEF QueueShape, PoolShape, RecordsOwnedOnce, Linked, HeadOf
<1>1. list \in Seq(Node) /\ pool \in Seq(Node) /\ Len(list) \in Nat /\ Len(pool) \in Nat
  BY LenProperties DEF TypeOK
<1>2. Range(list) = {list[i] : i \in 1 .. Len(list)} /\ Range(pool) = {pool[i] : i \in 1 .. Len(pool)}
  BY <1>1, RangeEquality
<1>3. CASE msgpool # NULL
  <2>1. pool # <<>> /\ n = pool[1] /\ msgpool' = next[n] /\ msgpool_length' = msgpool_length - 1
        /\ pool' = Tail(pool) /\ heap' = heap
    BY <1>3 DEF get_msglist
  <2>2. /\ Len(pool) \in Nat \ {0} /\ pool' \in Seq(Node) /\ Len(pool') = Len(pool) - 1
        /\ \A i \in 1 .. Len(pool) - 1 : pool'[i] = pool[i + 1]
        /\ pool' = <<>> <=> Len(pool) = 1
        /\ Range(pool) = Range(pool') \cup {n}
    BY <1>1, <2>1, TailContent
  <2>3. msgpool' = HeadOf(pool') /\ msgpool_length' = Len(pool')
    BY <2>1, <2>2
  <2>4. \A i \in 1 .. Len(pool') : /\ pool'[i] # n
                                   /\ data[pool'[i]] = NULL
                                   /\ next[pool'[i]] = IF i = Len(pool') THEN NULL ELSE pool'[i + 1]
    BY <2>1, <2>2
  <2>5. \A i \in 1 .. Len(list) : list[i] # n
    BY <1>1, <2>1, <2>2
  <2>6. /\ \A i, j \in 1 .. Len(pool') : pool'[i] = pool'[j] => i = j
        /\ \A i \in 1 .. Len(list), j \in 1 .. Len(pool') : list[i] # pool'[j]
    BY <1>1, <2>2
  <2>7. heap' = Range(list) \cup Range(pool') \cup {n}
    BY <2>1, <2>2
  <2> QED BY <2>2, <2>3, <2>4, <2>5, <2>6, <2>7
<1>4. CASE msgpool = NULL
  <2>1. n \notin heap /\ heap' = heap \cup {n} /\ pool' = pool /\ msgpool' = msgpool
        /\ msgpool_length' = msgpool_length
    BY <1>4 DEF get_msglist
  <2>2. \A i \in 1 .. Len(pool) : pool[i] # n
    BY <1>2, <2>1
  <2>3. \A i \in 1 .. Len(list) : list[i] # n
    BY <1>2, <2>1
  <2> QED BY <1>1, <2>1, <2>2, <2>3
<1> QED BY <1>3, <1>4

\* thread_queue_add keeps the invariant.
LEMMA AddIInv ==
  ASSUME QueueAssumption, IInv, NEW m \in Msg, Add(m)
  PROVE  IInv'
<1> USE DEF IInv
<1>1. PICK n \in Node : /\ get_msglist(n) /\ Link(n)
                        /\ data' = [data EXCEPT ![n] = m]
                        /\ list' = Append(list, n)
  BY DEF Add
<1>2. /\ status = "ready" /\ status' = status /\ fate[m] = "new"
      /\ length' = length + 1 /\ fate' = [fate EXCEPT ![m] = "queued"]
      /\ Broadcast
  BY DEF Add
<1>3. ListShape /\ RecordsOwnedOnce /\ QueuedData
  BY <1>2 DEF QueueShape
<1>4. /\ pool' \in Seq(Node)
      /\ msgpool' = HeadOf(pool')
      /\ msgpool_length' = Len(pool')
      /\ \A i \in 1 .. Len(pool') : /\ pool'[i] # n
                                    /\ data[pool'[i]] = NULL
                                    /\ next[pool'[i]] = IF i = Len(pool') THEN NULL ELSE pool'[i + 1]
      /\ \A i \in 1 .. Len(list) : list[i] # n
      /\ \A i, j \in 1 .. Len(pool') : pool'[i] = pool'[j] => i = j
      /\ \A i \in 1 .. Len(list), j \in 1 .. Len(pool') : list[i] # pool'[j]
      /\ heap' = Range(list) \cup Range(pool') \cup {n}
  BY <1>1, <1>2, GetMsglist
<1>5. /\ list \in Seq(Node) /\ Len(list) \in Nat /\ Len(pool') \in Nat
      /\ \A i \in 1 .. Len(list) : list[i] \in Node
      /\ \A i \in 1 .. Len(pool') : pool'[i] \in Node
  BY <1>4, LenProperties, ElementOfSeq DEF TypeOK
<1>6. /\ list' \in Seq(Node) /\ Len(list') = Len(list) + 1 /\ list' # <<>>
      /\ \A i \in 1 .. Len(list) + 1 : list'[i] = IF i = Len(list) + 1 THEN n ELSE list[i]
      /\ Range(list') = Range(list) \cup {n}
  BY <1>1, <1>5, AppendContent
<1>7. /\ last = NULL <=> list = <<>>
      /\ list = <<>> <=> Len(list) = 0
      /\ list # <<>> => last = list[Len(list)] /\ first = list[1] /\ first # NULL
  BY <1>3, <1>5, EmptySeq DEF ListShape, HeadOf, QueueAssumption
<1>8. TypeOK'
  <2>1. data' \in [Node -> Msg \cup {NULL}] /\ fate' \in [Msg -> {"new", "queued", "got", "refused", "freed", "left"}]
    BY <1>1, <1>2 DEF TypeOK
  <2>2. next' \in [Node -> Node \cup {NULL}] /\ first' \in Node \cup {NULL} /\ last' \in Node \cup {NULL}
    BY <1>1 DEF TypeOK, Link
  <2>3. pc' \in [Getters -> Where]
    BY <1>2 DEF TypeOK, Broadcast, Where
  <2>4. msgpool' \in Node \cup {NULL} /\ msgpool_length' \in Nat /\ length' \in Nat
    BY <1>2, <1>4, <1>5, EmptySeq DEF TypeOK, HeadOf
  <2>5. heap' \in SUBSET Node
    BY <1>1 DEF get_msglist, TypeOK
  <2> QED BY <1>2, <1>4, <1>6, <2>1, <2>2, <2>3, <2>4, <2>5 DEF TypeOK
<1>9. ListShape'
  <2>1. last' = list'[Len(list')] /\ length' = Len(list')
    BY <1>1, <1>2, <1>3, <1>5, <1>6 DEF Link, ListShape
  <2>2. first' = list'[1]
    BY <1>1, <1>5, <1>6, <1>7 DEF Link
  <2>3. ASSUME NEW i \in 1 .. Len(list')
        PROVE  next'[list'[i]] = IF i = Len(list') THEN NULL ELSE list'[i + 1]
    <3>1. CASE i = Len(list) + 1
      BY <3>1, <1>1, <1>5, <1>6 DEF Link
    <3>2. CASE i = Len(list)
      BY <3>2, <1>1, <1>4, <1>5, <1>6, <1>7 DEF Link
    <3>3. CASE i \in 1 .. Len(list) - 1
      <4>1. list'[i] = list[i] /\ list[i] \in Node /\ list[i] # n /\ list'[i + 1] = list[i + 1]
        BY <3>3, <1>4, <1>5, <1>6
      <4>2. next[list[i]] = list[i + 1]
        BY <3>3, <1>3, <1>5 DEF ListShape, Linked
      <4>3. list[i] # last
        BY <3>3, <1>3, <1>5, <1>7 DEF RecordsOwnedOnce
      <4> QED BY <3>3, <1>1, <1>5, <1>6, <4>1, <4>2, <4>3 DEF Link
    <3> QED BY <3>1, <3>2, <3>3, <1>5, <1>6
  <2> QED BY <1>6, <2>1, <2>2, <2>3 DEF ListShape, Linked, HeadOf
<1>10. PoolShape'
  <2>1. \A i \in 1 .. Len(pool') : pool'[i] # last
    BY <1>4, <1>5, <1>7 DEF QueueAssumption
  <2>2. \A i \in 1 .. Len(pool') : next'[pool'[i]] = next[pool'[i]] /\ data'[pool'[i]] = data[pool'[i]]
    BY <1>1, <1>4, <1>5, <2>1 DEF Link, TypeOK
  <2> QED BY <1>4, <2>2 DEF PoolShape, Linked, HeadOf
<1>11. RecordsOwnedOnce'
  <2>1. \A i, j \in 1 .. Len(list') : list'[i] = list'[j] => i = j
    BY <1>3, <1>4, <1>5, <1>6 DEF RecordsOwnedOnce
  <2>2. \A i \in 1 .. Len(list'), j \in 1 .. Len(pool') : list'[i] # pool'[j]
    BY <1>4, <1>5, <1>6
  <2>3. heap' = Range(list') \cup Range(pool')
    BY <1>4, <1>6
  <2> QED BY <1>4, <2>1, <2>2, <2>3 DEF RecordsOwnedOnce
<1>12. QueuedData'
  <2>1. \A i \in 1 .. Len(list) : /\ data'[list[i]] = data[list[i]]
                                  /\ data[list[i]] \in Msg
                                  /\ data[list[i]] # m
                                  /\ fate'[data[list[i]]] = "queued"
    BY <1>1, <1>2, <1>3, <1>4, <1>5 DEF QueuedData, TypeOK
  <2>2. data'[n] = m /\ fate'[m] = "queued"
    BY <1>1, <1>2 DEF TypeOK
  <2>3. \A i, j \in 1 .. Len(list) : data[list[i]] = data[list[j]] => i = j
    BY <1>3 DEF QueuedData
  <2> QED BY <1>5, <1>6, <2>1, <2>2, <2>3 DEF QueuedData
<1>13. NoLostWakeup'
  <2>1. ASSUME NEW t \in Getters PROVE pc'[t] # "waiting"
    <3>1. CASE length = 0
      BY <1>2, <3>1 DEF Broadcast
    <3>2. CASE length # 0
      <4>1. first # NULL
        BY <3>2, <1>3, <1>5, <1>7 DEF ListShape
      <4> QED BY <1>2, <3>2, <4>1 DEF Broadcast, NoLostWakeup
    <3> QED BY <3>1, <3>2
  <2> QED BY <2>1 DEF NoLostWakeup
<1>14. QuietWhenDestroyed'
  BY <1>2 DEF QuietWhenDestroyed
<1> QED BY <1>2, <1>8, <1>9, <1>10, <1>11, <1>12, <1>13, <1>14 DEF QueueShape

\* What release_msglist leaves behind: the released record is the top spare
\* record or is freed, perhaps a spare record is freed, and nothing else moves.
LEMMA ReleaseMsglist ==
  ASSUME QueueAssumption, TypeOK, PoolShape,
         \A i, j \in 1 .. Len(pool) : pool[i] = pool[j] => i = j,
         NEW n \in heap, \A i \in 1 .. Len(pool) : pool[i] # n,
         NEW len \in Nat, release_msglist(n, len, next)
  PROVE  /\ pool' \in Seq(Node)
         /\ next' \in [Node -> Node \cup {NULL}]
         /\ data' \in [Node -> Msg \cup {NULL}]
         /\ PoolShape'
         /\ \A i, j \in 1 .. Len(pool') : pool'[i] = pool'[j] => i = j
         /\ Range(pool') \subseteq Range(pool) \cup {n}
         /\ heap' = heap \ ((Range(pool) \cup {n}) \ Range(pool'))
         /\ \A x \in Node : x # n => next'[x] = next[x] /\ data'[x] = data[x]
<1> USE DEF PoolShape, Linked, HeadOf
<1> DEFINE keep == msgpool_length <= KeepLimit(len)
           cnt == IF keep THEN msgpool_length + 1 ELSE msgpool_length
           trim == cnt > TrimLimit(len)
<1>1. /\ pool \in Seq(Node) /\ Len(pool) \in Nat /\ n \in Node
      /\ \A i \in 1 .. Len(pool) : pool[i] \in Node
      /\ pool = <<>> <=> Len(pool) = 0
      /\ Range(pool) = {pool[i] : i \in 1 .. Len(pool)}
  BY LenProperties, ElementOfSeq, EmptySeq, RangeEquality DEF TypeOK
<1>2. KeepLimit(len) \in Nat /\ TrimLimit(len) \in Nat
  BY DEF KeepLimit, TrimLimit, QueueAssumption
<1>3. n \notin Range(pool)
  BY <1>1
<1>4. CASE keep
  <2> DEFINE p == <<n>> \o pool
             nx == [next EXCEPT ![n] = msgpool]
  <2>1. /\ p \in Seq(Node) /\ Len(p) = Len(pool) + 1 /\ p # <<>>
        /\ \A i \in 1 .. Len(pool) + 1 : p[i] = IF i = 1 THEN n ELSE pool[i - 1]
        /\ Tail(p) = pool
        /\ Range(p) = Range(pool) \cup {n}
    BY <1>1, PushContent
  <2>2. /\ data' = [data EXCEPT ![n] = NULL] /\ next' = nx
        /\ msgpool' = IF trim THEN nx[n] ELSE n
        /\ msgpool_length' = IF trim THEN msgpool_length ELSE msgpool_length + 1
        /\ heap' = heap \ (IF trim THEN {n} ELSE {})
        /\ pool' = IF trim THEN Tail(p) ELSE p
    BY <1>1, <1>4 DEF release_msglist, TypeOK
  <2>3. /\ next' \in [Node -> Node \cup {NULL}] /\ data' \in [Node -> Msg \cup {NULL}]
        /\ next'[n] = msgpool /\ data'[n] = NULL
        /\ \A x \in Node : x # n => next'[x] = next[x] /\ data'[x] = data[x]
    BY <1>1, <2>2 DEF TypeOK
  <2> HIDE DEF p, trim
  <2>4. CASE trim
    <3>1. pool' = pool /\ msgpool' = msgpool /\ msgpool_length' = msgpool_length /\ heap' = heap \ {n}
      BY <2>1, <2>2, <2>4, <1>1 DEF TypeOK
    <3>2. \A i \in 1 .. Len(pool) : next'[pool[i]] = next[pool[i]] /\ data'[pool[i]] = data[pool[i]]
      BY <1>1, <2>3
    <3>3. PoolShape'
      BY <3>1, <3>2
    <3> QED BY <1>1, <1>3, <2>3, <3>1, <3>3
  <2>5. CASE ~trim
    <3>1. pool' = p /\ msgpool' = n /\ msgpool_length' = msgpool_length + 1 /\ heap' = heap
      BY <2>2, <2>5
    <3>2. ASSUME NEW i \in 1 .. Len(p)
          PROVE  next'[p[i]] = (IF i = Len(p) THEN NULL ELSE p[i + 1]) /\ data'[p[i]] = NULL
      <4>1. CASE i = 1
        BY <4>1, <1>1, <2>1, <2>3
      <4>2. CASE i # 1
        <5>1. i - 1 \in 1 .. Len(pool) /\ p[i] = pool[i - 1]
          BY <4>2, <1>1, <2>1
        <5>2. next'[p[i]] = next[pool[i - 1]] /\ data'[p[i]] = data[pool[i - 1]]
          BY <5>1, <1>1, <2>3
        <5> QED BY <5>1, <5>2, <1>1, <2>1
      <4> QED BY <4>1, <4>2
    <3>3. PoolShape'
      BY <3>1, <3>2, <1>1, <2>1
    <3>4. \A i, j \in 1 .. Len(p) : p[i] = p[j] => i = j
      BY <1>1, <2>1
    <3> QED BY <1>1, <2>1, <2>3, <3>1, <3>3, <3>4
  <2> QED BY <2>4, <2>5
<1>5. CASE ~keep
  <2>1. /\ data' = data /\ next' = next
        /\ msgpool' = IF trim THEN next[msgpool] ELSE msgpool
        /\ msgpool_length' = IF trim THEN msgpool_length - 1 ELSE msgpool_length
        /\ heap' = (heap \ {n}) \ (IF trim THEN {msgpool} ELSE {})
        /\ pool' = IF trim THEN Tail(pool) ELSE pool
    BY <1>5 DEF release_msglist
  <2>2. pool # <<>>
    BY <1>1, <1>2, <1>5
  <2>3. /\ Len(pool) \in Nat \ {0} /\ Tail(pool) \in Seq(Node) /\ Len(Tail(pool)) = Len(pool) - 1
        /\ \A i \in 1 .. Len(pool) - 1 : Tail(pool)[i] = pool[i + 1]
        /\ Tail(pool) = <<>> <=> Len(pool) = 1
        /\ Range(pool) = Range(Tail(pool)) \cup {pool[1]}
        /\ Range(Tail(pool)) = {Tail(pool)[i] : i \in 1 .. Len(pool) - 1}
    BY <1>1, <2>2, TailContent
  <2> HIDE DEF trim
  <2>4. CASE trim
    <3>1. pool' = Tail(pool) /\ msgpool' = next[msgpool] /\ msgpool_length' = msgpool_length - 1
          /\ heap' = (heap \ {n}) \ {pool[1]}
      BY <2>1, <2>2, <2>4
    <3>2. PoolShape'
      BY <3>1, <1>1, <2>1, <2>2, <2>3
    <3>3. \A i, j \in 1 .. Len(pool') : pool'[i] = pool'[j] => i = j
      BY <3>1, <1>1, <2>3
    <3>4. pool[1] \notin Range(Tail(pool))
      BY <1>1, <2>3
    <3>5. heap' = heap \ ((Range(pool) \cup {n}) \ Range(pool'))
      BY <1>3, <2>3, <3>1, <3>4
    <3> QED BY <2>1, <2>3, <3>1, <3>2, <3>3, <3>5 DEF TypeOK
  <2>5. CASE ~trim
    <3>1. pool' = pool /\ msgpool' = msgpool /\ msgpool_length' = msgpool_length /\ heap' = heap \ {n}
      BY <2>1, <2>5
    <3> QED BY <1>1, <1>3, <2>1, <3>1 DEF TypeOK
  <2> QED BY <2>4, <2>5
<1> QED BY <1>4, <1>5

\* A getter that takes the first message keeps the invariant.
LEMMA TakeFirstIInv ==
  ASSUME QueueAssumption, IInv, status = "ready", first # NULL,
         NEW t \in Getters, TakeFirst(t)
  PROVE  IInv'
<1> USE DEF IInv
<1> DEFINE n == list[1]
           len == Len(list) - 1
<1>1. ListShape /\ PoolShape /\ RecordsOwnedOnce /\ QueuedData
  BY DEF QueueShape
<1>2. list # <<>> /\ first = n
  BY <1>1 DEF ListShape, HeadOf
<1>3. /\ list \in Seq(Node) /\ list' = Tail(list) /\ list' \in Seq(Node)
      /\ Len(list) \in Nat \ {0} /\ Len(list') = Len(list) - 1
      /\ \A i \in 1 .. Len(list) - 1 : list'[i] = list[i + 1]
      /\ n \in Node
      /\ list' = <<>> <=> Len(list) = 1
      /\ Range(list) = Range(list') \cup {n}
      /\ Range(list') = {list'[i] : i \in 1 .. Len(list) - 1}
      /\ \A i \in 1 .. Len(list) : list[i] \in Node
  <2>1. list \in Seq(Node) /\ list' = Tail(list)
    BY DEF TypeOK, TakeFirst
  <2>2. \A i \in 1 .. Len(list) : list[i] \in Node
    BY <2>1, ElementOfSeq
  <2> QED BY <1>2, <2>1, <2>2, TailContent
<1>4. next[n] = HeadOf(list') /\ (next[n] = NULL <=> list' = <<>>)
  BY <1>1, <1>3 DEF ListShape, Linked, HeadOf, QueueAssumption
<1>5. /\ first' = HeadOf(list') /\ last' = (IF list' = <<>> THEN NULL ELSE last)
      /\ length' = len /\ fate' = [fate EXCEPT ![data[n]] = "got"]
      /\ pc' = [pc EXCEPT ![t] = "out"] /\ status' = status
      /\ release_msglist(n, len, next)
  <2>1. (IF next[n] = NULL THEN 0 ELSE length - 1) = len
    BY <1>1, <1>3, <1>4 DEF ListShape
  <2> QED BY <1>2, <1>4, <2>1 DEF TakeFirst
<1>6. /\ Range(list) = {list[i] : i \in 1 .. Len(list)}
      /\ Range(list') = {list'[i] : i \in 1 .. Len(list')}
      /\ pool \in Seq(Node) /\ Len(pool) \in Nat
      /\ Range(pool) = {pool[i] : i \in 1 .. Len(pool)}
  BY <1>3, RangeEquality, LenProperties DEF TypeOK
<1>7. n \in heap /\ \A i \in 1 .. Len(pool) : pool[i] # n
  BY <1>1, <1>3, <1>6 DEF RecordsOwnedOnce
<1>8. n \notin Range(list')
  BY <1>1, <1>3, <1>6 DEF RecordsOwnedOnce
<1>9. /\ pool' \in Seq(Node)
      /\ next' \in [Node -> Node \cup {NULL}]
      /\ data' \in [Node -> Msg \cup {NULL}]
      /\ PoolShape'
      /\ \A i, j \in 1 .. Len(pool') : pool'[i] = pool'[j] => i = j
      /\ Range(pool') \subseteq Range(pool) \cup {n}
      /\ heap' = heap \ ((Range(pool) \cup {n}) \ Range(pool'))
      /\ \A x \in Node : x # n => next'[x] = next[x] /\ data'[x] = data[x]
  <2>1. len \in Nat
    BY <1>3
  <2>2. \A i, j \in 1 .. Len(pool) : pool[i] = pool[j] => i = j
    BY <1>1 DEF RecordsOwnedOnce
  <2> HIDE DEF n, len
  <2> QED BY <1>1, <1>5, <1>7, <2>1, <2>2, ReleaseMsglist
<1>10. /\ Len(pool') \in Nat /\ Range(pool') = {pool'[i] : i \in 1 .. Len(pool')}
       /\ \A i \in 1 .. Len(pool') : pool'[i] \in Node
  BY <1>9, LenProperties, RangeEquality, ElementOfSeq
<1>11. \A i \in 1 .. Len(list') : /\ list'[i] = list[i + 1] /\ i + 1 \in 1 .. Len(list)
                                  /\ list'[i] \in Node /\ list'[i] # n
                                  /\ next'[list'[i]] = next[list[i + 1]]
                                  /\ data'[list'[i]] = data[list[i + 1]]
  BY <1>3, <1>6, <1>8, <1>9
<1>12. TypeOK'
  <2>1. fate' \in [Msg -> {"new", "queued", "got", "refused", "freed", "left"}]
    BY <1>1, <1>3, <1>5 DEF TypeOK, QueuedData
  <2>2. first' \in Node \cup {NULL} /\ last' \in Node \cup {NULL} /\ length' \in Nat
    BY <1>3, <1>5, <1>11 DEF TypeOK, HeadOf
  <2>3. pc' \in [Getters -> Where]
    BY <1>5 DEF TypeOK, Where
  <2>4. msgpool' \in Node \cup {NULL} /\ msgpool_length' \in Nat
    BY <1>9, <1>10, EmptySeq DEF PoolShape, HeadOf
  <2>5. heap' \in SUBSET Node
    BY <1>9 DEF TypeOK
  <2> QED BY <1>3, <1>5, <1>9, <2>1, <2>2, <2>3, <2>4, <2>5 DEF TypeOK
<1>13. ListShape'
  <2>1. ASSUME NEW i \in 1 .. Len(list')
        PROVE  next'[list'[i]] = IF i = Len(list') THEN NULL ELSE list'[i + 1]
    <3> DEFINE j == i + 1
    <3>1. j \in 1 .. Len(list) /\ next'[list'[i]] = next[list[j]]
      BY <1>11
    <3>2. next[list[j]] = IF j = Len(list) THEN NULL ELSE list[j + 1]
      BY <1>1, <3>1 DEF ListShape, Linked
    <3>3. i # Len(list') => list'[j] = list[j + 1]
      <4>0. Len(list) \in Nat \ {0} /\ Len(list') = Len(list) - 1
        BY <1>3
      <4>1. i # Len(list') => j \in 1 .. Len(list) - 1
        BY ONLY <4>0, i \in 1 .. Len(list'), j = i + 1
      <4> HIDE DEF j
      <4> QED BY <1>3, <4>1
    <3>4. i = Len(list') <=> j = Len(list)
      BY <1>3
    <3> QED BY <3>1, <3>2, <3>3, <3>4
  <2>2. last' = IF list' = <<>> THEN NULL ELSE list'[Len(list')]
    BY <1>1, <1>2, <1>3, <1>5 DEF ListShape
  <2> QED BY <1>3, <1>5, <2>1, <2>2 DEF ListShape, Linked, HeadOf
<1>14. RecordsOwnedOnce'
  <2>1. \A i, j \in 1 .. Len(list') : list'[i] = list'[j] => i = j
    BY <1>1, <1>3 DEF RecordsOwnedOnce
  <2>2. Range(list') \cap (Range(pool) \cup {n}) = {}
    BY <1>1, <1>3, <1>6, <1>8 DEF RecordsOwnedOnce
  <2>3. \A i \in 1 .. Len(list'), j \in 1 .. Len(pool') : list'[i] # pool'[j]
    BY <1>6, <1>9, <1>10, <2>2
  <2>4. heap' = Range(list') \cup Range(pool')
    BY <1>1, <1>3, <1>9, <2>2 DEF RecordsOwnedOnce
  <2> QED BY <1>9, <2>1, <2>3, <2>4 DEF RecordsOwnedOnce
<1>15. QueuedData'
  <2>1. data[n] \in Msg /\ \A i \in 1 .. Len(list) : i # 1 => data[list[i]] # data[n]
    BY <1>1, <1>3 DEF QueuedData
  <2>2. \A i \in 1 .. Len(list') : /\ data'[list'[i]] \in Msg
                                   /\ fate'[data'[list'[i]]] = "queued"
    BY <1>1, <1>3, <1>5, <1>11, <2>1 DEF QueuedData, TypeOK
  <2>3. ASSUME NEW i \in 1 .. Len(list'), NEW j \in 1 .. Len(list'), data'[list'[i]] = data'[list'[j]]
        PROVE  i = j
    <3>1. data[list[i + 1]] = data[list[j + 1]] /\ i + 1 \in 1 .. Len(list) /\ j + 1 \in 1 .. Len(list)
      BY <1>11, <2>3
    <3>2. i + 1 = j + 1
      BY <1>1, <3>1 DEF QueuedData
    <3> QED BY <1>3, <3>2
  <2> QED BY <2>2, <2>3 DEF QueuedData
<1>16. NoLostWakeup'
  BY <1>5 DEF NoLostWakeup, TypeOK
<1>17. QuietWhenDestroyed'
  BY <1>5 DEF QuietWhenDestroyed
<1> QED BY <1>5, <1>9, <1>12, <1>13, <1>14, <1>15, <1>16, <1>17 DEF QueueShape

\* What thread_queue_cleanup frees: every allocated record, and of the data
\* exactly the messages that are still queued.
LEMMA CleanupFrees ==
  ASSUME QueueAssumption, TypeOK, QueueShape, status = "ready"
  PROVE  /\ Chain(first) \cup Chain(msgpool) = heap
         /\ {data[n] : n \in Chain(first) \cup Chain(msgpool)} \ {NULL}
              = {data[list[i]] : i \in 1 .. Len(list)}
<1>1. ListShape /\ PoolShape /\ RecordsOwnedOnce /\ QueuedData
  BY DEF QueueShape
<1>2. Chain(first) = Range(list) /\ Chain(msgpool) = Range(pool)
  BY <1>1, ChainOfList DEF ListShape, PoolShape, TypeOK
<1>3. Range(list) = {list[i] : i \in 1 .. Len(list)} /\ Range(pool) = {pool[i] : i \in 1 .. Len(pool)}
  BY RangeEquality DEF TypeOK
<1>4. \A n \in Range(pool) : data[n] = NULL
  BY <1>1, <1>3 DEF PoolShape
<1>5. \A n \in Range(list) : data[n] # NULL
  BY <1>1, <1>3 DEF QueuedData, QueueAssumption
<1>6. {data[n] : n \in Range(list) \cup Range(pool)} \ {NULL} = {data[n] : n \in Range(list)}
  BY <1>4, <1>5
<1>7. {data[n] : n \in Range(list)} = {data[list[i]] : i \in 1 .. Len(list)}
  BY <1>3
<1> QED BY <1>1, <1>2, <1>6, <1>7 DEF RecordsOwnedOnce

LEMMA CleanupIInv ==
  ASSUME QueueAssumption, IInv, NEW freedata \in BOOLEAN, Cleanup(freedata)
  PROVE  IInv'
<1> USE DEF IInv
<1>1. /\ status = "ready" /\ status' = "destroyed" /\ list' = <<>> /\ pool' = <<>>
      /\ heap' = heap \ (Chain(first) \cup Chain(msgpool))
      /\ \A t \in Getters : pc[t] = "out"
      /\ UNCHANGED <<first, last, next, data, length, msgpool, msgpool_length, pc>>
      /\ fate' = [m \in Msg |-> IF m \notin {data[n] : n \in Chain(first) \cup Chain(msgpool)} \ {NULL}
                                THEN fate[m] ELSE IF freedata THEN "freed" ELSE "left"]
  BY DEF Cleanup
<1>2. heap' = {}
  BY <1>1, CleanupFrees
<1>3. fate' \in [Msg -> {"new", "queued", "got", "refused", "freed", "left"}]
  BY <1>1 DEF TypeOK
<1>4. TypeOK'
  BY <1>1, <1>2, <1>3, EmptySeq DEF TypeOK
<1> QED BY <1>1, <1>2, <1>4 DEF QueueShape, NoLostWakeup, QuietWhenDestroyed

LEMMA ReInitIInv ==
  ASSUME QueueAssumption, IInv, ReInit
  PROVE  IInv'
<1> USE DEF IInv, ReInit
<1>1. TypeOK'
  BY DEF TypeOK
<1>2. QueueShape'
  <2>1. list' = <<>> /\ pool' = <<>> /\ heap' = {} /\ Len(<<>>) = 0 /\ Range(<<>>) = {}
    BY EmptySeq DEF QueueShape, Range
  <2> QED BY <2>1 DEF QueueShape, ListShape, PoolShape, RecordsOwnedOnce, QueuedData, Linked, HeadOf
<1> QED BY <1>1, <1>2 DEF NoLostWakeup, QuietWhenDestroyed

\* A step that moves one getter and leaves the queue alone keeps the shape.
LEMMA MoveIInv ==
  ASSUME IInv, NEW t \in Getters, NEW w \in Where, pc' = [pc EXCEPT ![t] = w],
         UNCHANGED <<ptrs, status, fate, list, pool>>,
         w = "waiting" => first = NULL, status = "destroyed" => w = "out"
  PROVE  IInv'
<1> USE DEF IInv, ptrs
<1>1. TypeOK'
  BY DEF TypeOK
<1>2. QueueShape'
  BY DEF QueueShape, ListShape, PoolShape, RecordsOwnedOnce, QueuedData, Linked, HeadOf
<1>3. NoLostWakeup' /\ QuietWhenDestroyed'
  BY DEF NoLostWakeup, QuietWhenDestroyed, TypeOK
<1> QED BY <1>1, <1>2, <1>3

LEMMA NextIInv ==
  ASSUME QueueAssumption, IInv, [Next]_vars
  PROVE  IInv'
<1>1. CASE UNCHANGED vars
  BY <1>1 DEF vars, ptrs, IInv, TypeOK, QueueShape, ListShape, PoolShape, RecordsOwnedOnce,
              QueuedData, Linked, HeadOf, NoLostWakeup, QuietWhenDestroyed
<1>2. ASSUME NEW m \in Msg, Add(m) PROVE IInv'
  BY <1>2, AddIInv
<1>3. ASSUME NEW m \in Msg, AddNoMemory(m) PROVE IInv'
  <2>1. TypeOK'
    BY <1>3 DEF AddNoMemory, IInv, TypeOK, ptrs
  <2>2. QueueShape'
    <3>1. status = "ready" /\ ListShape /\ PoolShape /\ RecordsOwnedOnce /\ QueuedData
      BY <1>3 DEF AddNoMemory, IInv, QueueShape
    <3>2. ListShape' /\ PoolShape' /\ RecordsOwnedOnce'
      BY <1>3, <3>1 DEF AddNoMemory, ptrs, ListShape, PoolShape, RecordsOwnedOnce, Linked, HeadOf
    <3>3. QueuedData'
      BY <1>3, <3>1 DEF AddNoMemory, ptrs, QueuedData, IInv, TypeOK
    <3> QED BY <1>3, <3>1, <3>2, <3>3 DEF AddNoMemory, QueueShape
  <2> QED BY <1>3, <2>1, <2>2 DEF AddNoMemory, IInv, ptrs, NoLostWakeup, QuietWhenDestroyed
<1>4. ASSUME NEW t \in Getters, Get(t) PROVE IInv'
  <2>1. CASE first # NULL
    BY <1>4, <2>1, TakeFirstIInv DEF Get
  <2>2. CASE first = NULL
    BY <1>4, <2>2, MoveIInv DEF Get, Block, Where
  <2> QED BY <2>1, <2>2
<1>5. ASSUME NEW t \in Getters, Rewake(t) PROVE IInv'
  <2>1. status = "ready"
    BY <1>5 DEF Rewake, IInv, QuietWhenDestroyed, TypeOK
  <2>2. CASE first # NULL
    BY <1>5, <2>1, <2>2, TakeFirstIInv DEF Rewake
  <2>3. CASE first = NULL
    BY <1>5, <2>1, <2>3, MoveIInv DEF Rewake, Block, Where
  <2> QED BY <2>2, <2>3
<1>6. ASSUME NEW t \in Getters, SpuriousWakeup(t) \/ Expire(t) \/ ReturnTimedOut(t) PROVE IInv'
  <2>1. status = "ready"
    BY <1>6 DEF SpuriousWakeup, Expire, ReturnTimedOut, IInv, QuietWhenDestroyed, TypeOK
  <2> QED BY <1>6, <2>1, MoveIInv DEF SpuriousWakeup, Expire, ReturnTimedOut, Where
<1>7. ASSUME NEW freedata \in BOOLEAN, Cleanup(freedata) PROVE IInv'
  BY <1>7, CleanupIInv
<1>8. ASSUME ReInit PROVE IInv'
  BY <1>8, ReInitIInv
<1> QED BY <1>1, <1>2, <1>3, <1>4, <1>5, <1>6, <1>7, <1>8 DEF Next
----------------------------------------------------------------------------
(* The theorems *)

\* The inductive invariant holds in every state of queue.c.
THEOREM Invariance == Spec => []IInv
<1>1. Init => IInv
  BY InitIInv
<1>2. IInv /\ [Next]_vars => IInv'
  BY QueueAssumption, NextIInv
<1> QED BY <1>1, <1>2, PTL DEF Spec

\* The pointers, counters and states of queue.c keep their types.
THEOREM TypeCorrect == Spec => []TypeOK
<1>1. IInv => TypeOK
  BY DEF IInv
<1> QED BY <1>1, Invariance, PTL

\* The pointers of the queue chain exactly the records they are meant to, the
\* counters count them, and thread_queue_cleanup frees all of them.
THEOREM ShapeCorrect == Spec => []QueueShape
<1>1. IInv => QueueShape
  BY DEF IInv
<1> QED BY <1>1, Invariance, PTL

\* A broadcast on the empty-to-filled edge alone (thread_queue_add) leaves no
\* getter asleep beside a message.
THEOREM WakeupCorrect == Spec => []NoLostWakeup
<1>1. IInv => NoLostWakeup
  BY DEF IInv
<1> QED BY <1>1, Invariance, PTL

\* The messages in the list, oldest first: the queue of MsgFifo.
Content == [i \in 1 .. Len(list) |-> data[list[i]]]

\* Taking the first record hands out the message at the head of Content.
LEMMA TakeFirstTakes ==
  ASSUME QueueAssumption, IInv, status = "ready", first # NULL,
         NEW t \in Getters, TakeFirst(t)
  PROVE  /\ data[list[1]] \in Msg /\ fate[data[list[1]]] = "queued"
         /\ fate' = [fate EXCEPT ![data[list[1]]] = "got"]
         /\ Content # <<>> /\ Head(Content) = data[list[1]]
         /\ Content' = Tail(Content)
<1>1. ListShape /\ RecordsOwnedOnce /\ QueuedData /\ PoolShape
  BY DEF IInv, QueueShape
<1>2. list # <<>> /\ first = list[1] /\ list \in Seq(Node) /\ list' = Tail(list)
  BY <1>1 DEF ListShape, HeadOf, IInv, TypeOK, TakeFirst
<1>3. /\ Len(list) \in Nat \ {0} /\ Len(list') = Len(list) - 1
      /\ \A i \in 1 .. Len(list) - 1 : list'[i] = list[i + 1]
  BY <1>2, TailContent
<1>4. \A i \in 1 .. Len(list) : list[i] \in Node /\ data[list[i]] \in Msg
  BY <1>1, <1>2, ElementOfSeq DEF QueuedData
<1>5. data[list[1]] \in Msg /\ fate[data[list[1]]] = "queued"
  BY <1>1, <1>3 DEF QueuedData
<1>6. fate' = [fate EXCEPT ![data[list[1]]] = "got"]
  BY <1>2 DEF TakeFirst
<1>7. \A x \in Node : x # list[1] => data'[x] = data[x]
  <2>1. data' = data \/ data' = [data EXCEPT ![list[1]] = NULL]
    BY <1>2 DEF TakeFirst, release_msglist
  <2> QED BY <2>1 DEF IInv, TypeOK
<1>8. \A i \in 1 .. Len(list) - 1 : data'[list'[i]] = data[list[i + 1]]
  <2> TAKE i \in 1 .. Len(list) - 1
  <2>1. list'[i] = list[i + 1] /\ i + 1 \in 1 .. Len(list) /\ i + 1 # 1 /\ 1 \in 1 .. Len(list)
    BY <1>3
  <2>2. list[i + 1] # list[1]
    BY <1>1, <2>1 DEF RecordsOwnedOnce
  <2> QED BY <1>4, <1>7, <2>1, <2>2
<1>9. /\ Content \in Seq(Msg) /\ Len(Content) = Len(list) /\ Content # <<>>
      /\ \A i \in 1 .. Len(list) : Content[i] = data[list[i]]
  BY <1>3, <1>4 DEF Content
<1>10. Head(Content) = data[list[1]]
  BY <1>3, <1>9
<1>11. Content' = [i \in 1 .. Len(list) - 1 |-> data[list[i + 1]]]
  BY <1>3, <1>8 DEF Content
<1>12. /\ Tail(Content) \in Seq(Msg) /\ Len(Tail(Content)) = Len(list) - 1
       /\ \A i \in 1 .. Len(list) - 1 : Tail(Content)[i] = data[list[i + 1]]
  <2>1. /\ Tail(Content) \in Seq(Msg) /\ Len(Tail(Content)) = Len(Content) - 1
        /\ \A i \in 1 .. Len(Tail(Content)) : Tail(Content)[i] = Content[i + 1]
    BY <1>9, HeadTailProperties
  <2>2. \A i \in 1 .. Len(list) - 1 : i + 1 \in 1 .. Len(list)
    BY <1>3
  <2> QED BY <1>9, <2>1, <2>2
<1>13. Content' = Tail(Content)
  <2>1. Tail(Content) = [i \in 1 .. Len(list) - 1 |-> Tail(Content)[i]]
    BY <1>12, LenProperties
  <2> QED BY <1>11, <1>12, <2>1
<1> QED BY <1>5, <1>6, <1>9, <1>10, <1>13

\* The messages that cleanup frees or leaves are those of Content.
LEMMA ContentRange ==
  ASSUME TypeOK
  PROVE  \A m : (\E i \in DOMAIN Content : Content[i] = m) <=> m \in {data[list[i]] : i \in 1 .. Len(list)}
BY DEF Content

\* A step of queue.c is a step of MsgFifo or leaves its variables alone.
LEMMA StepSimulation ==
  ASSUME QueueAssumption, IInv, IInv', [Next]_vars
  PROVE  [Fifo!FifoNext]_(Fifo!fifoVars)
<1> USE DEF Fifo!fifoVars
<1>0. Content = [i \in 1 .. Len(list) |-> data[list[i]]]
  BY DEF Content
<1>1. CASE UNCHANGED vars
  BY <1>1 DEF vars, ptrs
<1>2. ASSUME NEW m \in Msg, Add(m) PROVE Fifo!Put(m)
  <2>1. PICK n \in Node : /\ get_msglist(n)
                          /\ data' = [data EXCEPT ![n] = m]
                          /\ list' = Append(list, n)
    BY <1>2 DEF Add
  <2>2. status = "ready" /\ fate[m] = "new" /\ fate' = [fate EXCEPT ![m] = "queued"]
    BY <1>2 DEF Add
  <2>3. \A i \in 1 .. Len(list) : list[i] # n
    BY <2>1, <2>2, GetMsglist DEF IInv
  <2>4. ListShape /\ QueuedData /\ list \in Seq(Node) /\ Len(list) \in Nat
        /\ \A i \in 1 .. Len(list) : list[i] \in Node /\ data[list[i]] \in Msg
    BY <2>2, LenProperties, ElementOfSeq DEF IInv, QueueShape, TypeOK, QueuedData
  <2>5. /\ Len(list') = Len(list) + 1
        /\ \A i \in 1 .. Len(list) + 1 : list'[i] = IF i = Len(list) + 1 THEN n ELSE list[i]
    BY <2>1, <2>4, AppendContent
  <2>6. \A i \in 1 .. Len(list) + 1 : data'[list'[i]] = IF i = Len(list) + 1 THEN m ELSE data[list[i]]
    BY <2>1, <2>3, <2>4, <2>5 DEF IInv, TypeOK
  <2>7. Content' = [i \in 1 .. Len(list) + 1 |-> IF i = Len(list) + 1 THEN m ELSE data[list[i]]]
    BY <2>5, <2>6 DEF Content
  <2>8. Content \in Seq(Msg) /\ Len(Content) = Len(list) /\ \A i \in 1 .. Len(list) : Content[i] = data[list[i]]
    BY <2>4 DEF Content
  <2>9. Content' = Append(Content, m)
    <3>1. Append(Content, m) \in Seq(Msg) /\ Len(Append(Content, m)) = Len(list) + 1
      BY <2>8, AppendProperties
    <3>2. Append(Content, m) = [i \in 1 .. Len(list) + 1 |-> Append(Content, m)[i]]
      BY <3>1, LenProperties
    <3>3. \A i \in 1 .. Len(list) + 1 : Append(Content, m)[i] = IF i = Len(list) + 1 THEN m ELSE data[list[i]]
      BY <2>4, <2>8, AppendProperties
    <3> QED BY <2>7, <3>2, <3>3
  <2> QED BY <2>2, <2>9 DEF Fifo!Put, Content
<1>3. ASSUME NEW m \in Msg, AddNoMemory(m) PROVE Fifo!Refuse(m)
  BY <1>3 DEF AddNoMemory, Fifo!Refuse, ptrs
<1>4. ASSUME NEW t \in Getters, Get(t) \/ Rewake(t) PROVE Fifo!Take \/ UNCHANGED Fifo!fifoVars
  <2>1. status = "ready"
    BY <1>4 DEF Get, Rewake, IInv, QuietWhenDestroyed, TypeOK
  <2>2. CASE first # NULL
    <3>1. TakeFirst(t)
      BY <1>4, <2>2 DEF Get, Rewake
    <3> QED BY <2>1, <2>2, <3>1, TakeFirstTakes DEF Fifo!Take, Content
  <2>3. CASE first = NULL
    BY <1>4, <2>3 DEF Get, Rewake, Block, ptrs
  <2> QED BY <2>2, <2>3
<1>5. ASSUME NEW t \in Getters, SpuriousWakeup(t) \/ Expire(t) \/ ReturnTimedOut(t)
      PROVE  UNCHANGED Fifo!fifoVars
  BY <1>5 DEF SpuriousWakeup, Expire, ReturnTimedOut, ptrs
<1>6. ASSUME NEW freedata \in BOOLEAN, Cleanup(freedata) PROVE Fifo!Discard
  <2> DEFINE held == {data[n] : n \in Chain(first) \cup Chain(msgpool)} \ {NULL}
  <2>1. status = "ready" /\ list' = <<>>
        /\ fate' = [m \in Msg |-> IF m \notin held THEN fate[m] ELSE IF freedata THEN "freed" ELSE "left"]
    BY <1>6 DEF Cleanup
  <2>2. held = {data[list[i]] : i \in 1 .. Len(list)}
    BY <2>1, CleanupFrees DEF IInv
  <2>3. \A m : m \in held <=> \E i \in DOMAIN Content : Content[i] = m
    BY <2>2, ContentRange DEF IInv
  <2>4. Content' = <<>>
    BY <2>1, EmptySeq DEF Content
  <2> HIDE DEF held
  <2>5. \E end \in {"freed", "left"} :
          fate' = [m \in Msg |-> IF \E i \in DOMAIN Content : Content[i] = m THEN end ELSE fate[m]]
    BY <2>1, <2>3
  <2> QED BY <2>4, <2>5 DEF Fifo!Discard, Content
<1>7. ASSUME ReInit PROVE UNCHANGED Fifo!fifoVars
  BY <1>7 DEF ReInit
<1> QED BY <1>1, <1>2, <1>3, <1>4, <1>5, <1>6, <1>7 DEF Next, Fifo!FifoNext

\* queue.c implements the FIFO of queue.h: every message that thread_queue_get
\* returns, found through the pointers, is the oldest one not yet returned.
THEOREM Refinement == Spec => ImplementsFifo
<1>1. Init => Fifo!FifoInit
  BY EmptySeq DEF Init, Fifo!FifoInit
<1>2. IInv /\ IInv' /\ [Next]_vars => [Fifo!FifoNext]_(Fifo!fifoVars)
  BY QueueAssumption, StepSimulation
<1> QED BY <1>1, <1>2, Invariance, PTL DEF Spec, ImplementsFifo, Fifo!FifoSpec

\* A message that was delivered, refused or freed is not touched again.
THEOREM DeliveryCorrect == Spec => DeliveredForGood
<1> DEFINE A == \A m \in Msg : fate[m] \in {"got", "refused", "freed", "left"} => fate'[m] = fate[m]
<1>1. ASSUME QueueAssumption, IInv, [Next]_vars PROVE A
  <2>1. CASE UNCHANGED vars
    BY <2>1 DEF vars
  <2>2. ASSUME NEW m \in Msg, Add(m) \/ AddNoMemory(m) PROVE A
    BY <1>1, <2>2 DEF Add, AddNoMemory, IInv, TypeOK
  <2>3. ASSUME NEW t \in Getters, Get(t) \/ Rewake(t) PROVE A
    <3>1. status = "ready"
      BY <1>1, <2>3 DEF Get, Rewake, IInv, QuietWhenDestroyed, TypeOK
    <3>2. CASE first # NULL
      <4>1. data[list[1]] \in Msg /\ fate[data[list[1]]] = "queued"
            /\ fate' = [fate EXCEPT ![data[list[1]]] = "got"]
        BY <1>1, <2>3, <3>1, <3>2, TakeFirstTakes DEF Get, Rewake
      <4> QED BY <1>1, <4>1 DEF IInv, TypeOK
    <3>3. CASE first = NULL
      BY <2>3, <3>3 DEF Get, Rewake, Block
    <3> QED BY <3>2, <3>3
  <2>4. ASSUME NEW t \in Getters, SpuriousWakeup(t) \/ Expire(t) \/ ReturnTimedOut(t) PROVE A
    BY <2>4 DEF SpuriousWakeup, Expire, ReturnTimedOut
  <2>5. ASSUME NEW freedata \in BOOLEAN, Cleanup(freedata) PROVE A
    <3> DEFINE held == {data[n] : n \in Chain(first) \cup Chain(msgpool)} \ {NULL}
    <3>1. status = "ready"
          /\ fate' = [m \in Msg |-> IF m \notin held THEN fate[m] ELSE IF freedata THEN "freed" ELSE "left"]
      BY <2>5 DEF Cleanup
    <3>2. held = {data[list[i]] : i \in 1 .. Len(list)}
      BY <1>1, <3>1, CleanupFrees DEF IInv
    <3>3. \A m \in held : fate[m] = "queued"
      BY <1>1, <3>1, <3>2 DEF IInv, QueueShape, QueuedData
    <3> HIDE DEF held
    <3> QED BY <3>1, <3>3
  <2>6. CASE ReInit
    BY <2>6 DEF ReInit
  <2> QED BY <1>1, <2>1, <2>2, <2>3, <2>4, <2>5, <2>6 DEF Next
<1>2. IInv /\ [Next]_vars => [A]_vars
  BY QueueAssumption, <1>1
<1> QED BY <1>2, Invariance, PTL DEF Spec, DeliveredForGood
----------------------------------------------------------------------------
(* The size of the pool *)

\* The list holds distinct messages, so there are no more than Msg has.
LEMMA LengthBound ==
  ASSUME IInv, status = "ready", IsFiniteSet(Msg)
  PROVE  Len(list) <= Cardinality(Msg) /\ Cardinality(Msg) \in Nat /\ length = Len(list) /\ Len(list) \in Nat
<1>1. QueuedData /\ length = Len(list) /\ Len(list) \in Nat
  BY LenProperties DEF IInv, TypeOK, QueueShape, ListShape
<1>2. Content \in Injection(1 .. Len(list), Msg)
  BY <1>1 DEF Injection, IsInjective, Content, QueuedData
<1>3. Cardinality(1 .. Len(list)) <= Cardinality(Msg)
  BY <1>2, FS_Injection
<1>4. Cardinality(1 .. Len(list)) = Len(list)
  <2>1. Cardinality(1 .. Len(list)) = IF 1 > Len(list) THEN 0 ELSE Len(list) - 1 + 1
    <3>1. 1 \in Int /\ Len(list) \in Int
      BY <1>1
    <3> QED BY <3>1, FS_Interval
  <2> QED BY <1>1, <2>1
<1>5. Cardinality(Msg) \in Nat
  BY FS_CardinalityType
<1> QED BY <1>1, <1>3, <1>4, <1>5

LEMMA KeepLimitGrows ==
  ASSUME QueueAssumption, NEW a \in Nat, NEW b \in Nat, a <= b
  PROVE  KeepLimit(a) \in Nat /\ KeepLimit(b) \in Nat /\ KeepLimit(a) <= KeepLimit(b)
BY DEF KeepLimit, QueueAssumption

\* release_msglist keeps a record only below the limit for the length that the
\* queue has, which is never longer than there are messages.
LEMMA TakeFirstPool ==
  ASSUME QueueAssumption, IInv, IsFiniteSet(Msg), status = "ready", first # NULL,
         NEW t \in Getters, TakeFirst(t), PoolBounded
  PROVE  PoolBounded'
<1> DEFINE f == next[first]
           len == IF f = NULL THEN 0 ELSE length - 1
           cnt == IF msgpool_length <= KeepLimit(len) THEN msgpool_length + 1 ELSE msgpool_length
<1>1. Len(list) <= Cardinality(Msg) /\ Cardinality(Msg) \in Nat /\ length = Len(list) /\ Len(list) \in Nat
  BY LengthBound
<1>2. Len(list) # 0
  BY EmptySeq DEF IInv, TypeOK, QueueShape, ListShape, HeadOf
<1>3. len \in Nat /\ len <= Cardinality(Msg)
  BY <1>1, <1>2
<1>4. msgpool_length' = IF cnt > TrimLimit(len) THEN cnt - 1 ELSE cnt
  BY DEF TakeFirst, release_msglist
<1>5. msgpool_length \in Nat
  BY DEF IInv, TypeOK
<1> HIDE DEF len
<1>6. KeepLimit(len) \in Nat /\ KeepLimit(Cardinality(Msg)) \in Nat /\ KeepLimit(len) <= KeepLimit(Cardinality(Msg))
  BY <1>1, <1>3, KeepLimitGrows
<1>7. cnt \in Nat /\ cnt <= KeepLimit(Cardinality(Msg)) + 1
  BY <1>5, <1>6 DEF PoolBounded
<1>8. msgpool_length' = cnt \/ msgpool_length' = cnt - 1
  BY <1>4
<1> QED BY <1>6, <1>7, <1>8 DEF PoolBounded

\* The pool of spare records stays within the limit that release_msglist sets,
\* whatever the order of adds, gets and cleanups.
THEOREM PoolCorrect ==
  ASSUME IsFiniteSet(Msg)
  PROVE  Spec => []PoolBounded
<1>1. ASSUME IsFiniteSet(Msg), Init PROVE PoolBounded
  <2>1. Cardinality(Msg) \in Nat
    BY <1>1, FS_CardinalityType
  <2>2. KeepLimit(Cardinality(Msg)) \in Nat
    BY <2>1, QueueAssumption, KeepLimitGrows
  <2> QED BY <1>1, <2>2 DEF Init, PoolBounded
<1>2. ASSUME IsFiniteSet(Msg), IInv, PoolBounded, [Next]_vars PROVE PoolBounded'
  <2>1. Cardinality(Msg) \in Nat
    BY <1>2, FS_CardinalityType
  <2>2. KeepLimit(Cardinality(Msg)) \in Nat /\ msgpool_length \in Nat
    BY <1>2, <2>1, QueueAssumption, KeepLimitGrows DEF IInv, TypeOK
  <2>3. CASE UNCHANGED vars
    BY <1>2, <2>3 DEF vars, ptrs, PoolBounded
  <2>4. ASSUME NEW m \in Msg, Add(m) PROVE PoolBounded'
    <3>1. msgpool_length' = msgpool_length \/ msgpool_length' = msgpool_length - 1
      BY <2>4 DEF Add, get_msglist
    <3> QED BY <1>2, <2>2, <3>1 DEF PoolBounded
  <2>5. ASSUME NEW m \in Msg, AddNoMemory(m) PROVE PoolBounded'
    BY <1>2, <2>5 DEF AddNoMemory, ptrs, PoolBounded
  <2>6. ASSUME NEW t \in Getters, Get(t) \/ Rewake(t) PROVE PoolBounded'
    <3>1. status = "ready"
      BY <1>2, <2>6 DEF Get, Rewake, IInv, QuietWhenDestroyed, TypeOK
    <3>2. CASE first # NULL
      BY <1>2, <2>6, <3>1, <3>2, QueueAssumption, TakeFirstPool DEF Get, Rewake
    <3>3. CASE first = NULL
      BY <1>2, <2>6, <3>3 DEF Get, Rewake, Block, ptrs, PoolBounded
    <3> QED BY <3>2, <3>3
  <2>7. ASSUME NEW t \in Getters, SpuriousWakeup(t) \/ Expire(t) \/ ReturnTimedOut(t) PROVE PoolBounded'
    BY <1>2, <2>7 DEF SpuriousWakeup, Expire, ReturnTimedOut, ptrs, PoolBounded
  <2>8. ASSUME NEW freedata \in BOOLEAN, Cleanup(freedata) PROVE PoolBounded'
    BY <1>2, <2>8 DEF Cleanup, PoolBounded
  <2>9. CASE ReInit
    BY <2>2, <2>9 DEF ReInit, PoolBounded
  <2> QED BY <1>2, <2>3, <2>4, <2>5, <2>6, <2>7, <2>8, <2>9 DEF Next
<1>3. Init => PoolBounded
  BY <1>1
<1>4. IInv /\ PoolBounded /\ [Next]_vars => PoolBounded'
  BY <1>2
<1> QED BY <1>3, <1>4, Invariance, PTL DEF Spec
============================================================================
