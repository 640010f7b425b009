---------------------------- MODULE ThreadQueue ----------------------------
(***************************************************************************)
(* queue.c: the waitable message queue between the client's threads.       *)
(*                                                                         *)
(* Every function of queue.c works under queue->mutex, which only          *)
(* pthread_cond_wait and pthread_cond_timedwait release on the way, so one *)
(* critical section is one action and a getter that has to wait is split   *)
(* where it gives the mutex up.  The list and the pool of spare records    *)
(* are kept as in the code, by pointers.  Memory is the set Node: malloc   *)
(* returns a record that is not allocated, or fails.                       *)
(*                                                                         *)
(* list and pool are history variables: the records that the pointers are  *)
(* meant to chain, oldest first and topmost first.  No action reads them.   *)
(***************************************************************************)
EXTENDS Naturals, Sequences, FiniteSets, Functions

CONSTANTS Waiters,       \* threads that call thread_queue_get without a timeout
          Pollers,       \* threads that call it with one
          Msg,           \* the data pointers; each is added once
          Node,          \* struct msglist records
          NULL,
          MSGPOOL_SIZE

Getters == Waiters \cup Pollers

ASSUME QueueAssumption ==
  /\ MSGPOOL_SIZE \in Nat
  /\ Waiters \cap Pollers = {}
  /\ NULL \notin Node
  /\ NULL \notin Msg

VARIABLES
  first, last, next, data,   \* the list: queue->first/last, record->next, record->msg.data
  length,                    \* queue->length
  msgpool, msgpool_length,   \* the spare records, chained by next too
  heap,                      \* the allocated records
  status,                    \* between thread_queue_init and _cleanup or not
  pc,                        \* where each getter is
  fate,                      \* what has become of each message
  list, pool                 \* history: the intended content of both chains

ptrs == <<first, last, next, data, length, msgpool, msgpool_length, heap>>
vars == <<ptrs, status, pc, fate, list, pool>>

Where == {"out", "waiting", "woken", "expired"}

Init ==
  /\ first = NULL /\ last = NULL /\ length = 0
  /\ msgpool = NULL /\ msgpool_length = 0
  /\ next = [n \in Node |-> NULL] /\ data = [n \in Node |-> NULL]
  /\ heap = {}
  /\ status = "ready"
  /\ pc = [t \in Getters |-> "out"]
  /\ fate = [m \in Msg |-> "new"]
  /\ list = <<>> /\ pool = <<>>
----------------------------------------------------------------------------
(* thread_queue_add *)

\* A mistaken get_msglist that also counts a fresh record as taken from the pool.
GetAlwaysCounts(n) ==
  /\ n = IF msgpool # NULL THEN msgpool ELSE CHOOSE x \in Node \ heap : TRUE
  /\ msgpool' = IF msgpool # NULL THEN next[n] ELSE NULL
  /\ msgpool_length' = msgpool_length - 1
  /\ heap' = heap \cup {n}
  /\ pool' = IF pool = <<>> THEN pool ELSE Tail(pool)

\* get_msglist hands out a spare record, or a fresh one.
get_msglist(n) ==
  \/ /\ msgpool # NULL
     /\ n = msgpool
     /\ msgpool' = next[n]
     /\ msgpool_length' = msgpool_length - 1
     /\ pool' = Tail(pool)
     /\ UNCHANGED heap
  \/ /\ msgpool = NULL
     /\ n \in Node \ heap
     /\ heap' = heap \cup {n}
     /\ UNCHANGED <<msgpool, msgpool_length, pool>>

\* A mistaken Link that forgets the end of the list.
LinkForgetsLast(n) ==
  /\ first' = IF last = NULL THEN n ELSE first
  /\ last' = IF last = NULL THEN n ELSE last
  /\ next' = [x \in Node |-> IF x = n THEN NULL
                             ELSE IF x = last THEN n ELSE next[x]]

\* The record goes behind queue->last.
Link(n) ==
  /\ first' = IF last = NULL THEN n ELSE first
  /\ last' = n
  /\ next' = [x \in Node |-> IF x = n THEN NULL
                             ELSE IF x = last THEN n ELSE next[x]]

\* A mistaken Broadcast: pthread_cond_signal instead.
SignalOne ==
  IF length = 0 /\ \E t \in Getters : pc[t] = "waiting"
  THEN \E t \in Getters : pc[t] = "waiting" /\ pc' = [pc EXCEPT ![t] = "woken"]
  ELSE UNCHANGED pc

\* All waiting getters are woken, when the queue was empty only.
Broadcast ==
  pc' = [t \in Getters |-> IF length = 0 /\ pc[t] = "waiting" THEN "woken" ELSE pc[t]]

Add(m) ==
  /\ status = "ready"
  /\ fate[m] = "new"
  /\ \E n \in Node :
       /\ get_msglist(n)
       /\ Link(n)
       /\ data' = [data EXCEPT ![n] = m]
       /\ list' = Append(list, n)
  /\ Broadcast
  /\ length' = length + 1
  /\ fate' = [fate EXCEPT ![m] = "queued"]
  /\ UNCHANGED status

\* malloc failed: ENOMEM, nothing is queued.
AddNoMemory(m) ==
  /\ status = "ready"
  /\ fate[m] = "new"
  /\ msgpool = NULL
  /\ fate' = [fate EXCEPT ![m] = "refused"]
  /\ UNCHANGED <<ptrs, status, pc, list, pool>>
----------------------------------------------------------------------------
(* thread_queue_get *)

\* The spare records may not outnumber these two limits, at queue length len.
KeepLimit(len) == len \div 8 + MSGPOOL_SIZE
TrimLimit(len) == len \div 4 + MSGPOOL_SIZE * 10

\* A mistaken release_msglist that keeps every record.
ReleaseAlwaysKeeps(n, len, nx) ==
  /\ data' = [data EXCEPT ![n] = NULL]
  /\ next' = [nx EXCEPT ![n] = msgpool]
  /\ msgpool' = n
  /\ msgpool_length' = msgpool_length + 1
  /\ heap' = heap
  /\ pool' = <<n>> \o pool

\* A mistaken release_msglist that keeps the data pointer in the spare record.
ReleaseKeepsData(n, len, nx) ==
  LET keep == msgpool_length <= KeepLimit(len)
      nx2  == IF keep THEN [nx EXCEPT ![n] = msgpool] ELSE nx
  IN /\ UNCHANGED data
     /\ next' = nx2
     /\ msgpool' = IF keep THEN n ELSE msgpool
     /\ msgpool_length' = IF keep THEN msgpool_length + 1 ELSE msgpool_length
     /\ heap' = heap \ (IF keep THEN {} ELSE {n})
     /\ pool' = IF keep THEN <<n>> \o pool ELSE pool

\* release_msglist(n): n becomes a spare record or is freed; then, when there
\* are far too many spare records, the top one is freed.  nx is next so far.
release_msglist(n, len, nx) ==
  LET keep == msgpool_length <= KeepLimit(len)
      top  == IF keep THEN n ELSE msgpool
      cnt  == IF keep THEN msgpool_length + 1 ELSE msgpool_length
      nx2  == IF keep THEN [nx EXCEPT ![n] = msgpool] ELSE nx
      trim == cnt > TrimLimit(len)
      rest == IF keep THEN <<n>> \o pool ELSE pool
  IN /\ data' = IF keep THEN [data EXCEPT ![n] = NULL] ELSE data
     /\ next' = nx2
     /\ msgpool' = IF trim THEN nx2[top] ELSE top
     /\ msgpool_length' = IF trim THEN cnt - 1 ELSE cnt
     /\ heap' = (heap \ (IF keep THEN {} ELSE {n})) \ (IF trim THEN {top} ELSE {})
     /\ pool' = IF trim THEN Tail(rest) ELSE rest

\* The getter unlinks the first record and returns its data.
TakeFirst(t) ==
  LET n == first
      f == next[n]
      len == IF f = NULL THEN 0 ELSE length - 1
  IN /\ first' = f
     /\ last' = IF f = NULL THEN NULL ELSE last
     /\ length' = len
     /\ fate' = [fate EXCEPT ![data[n]] = "got"]
     /\ release_msglist(n, len, next)
     /\ list' = Tail(list)
     /\ pc' = [pc EXCEPT ![t] = "out"]
     /\ UNCHANGED status

\* The getter finds the queue empty and gives the mutex up in pthread_cond_wait.
Block(t) ==
  /\ pc' = [pc EXCEPT ![t] = "waiting"]
  /\ UNCHANGED <<ptrs, status, fate, list, pool>>

\* The getter holds the mutex and tests queue->first: on entry ...
Get(t) ==
  /\ status = "ready" /\ pc[t] = "out"
  /\ IF first # NULL THEN TakeFirst(t) ELSE Block(t)

\* ... and again after it was woken ("need to loop to handle spurious wakeups").
Rewake(t) ==
  /\ pc[t] = "woken"
  /\ IF first # NULL THEN TakeFirst(t) ELSE Block(t)

\* pthread_cond_wait may return without a signal.
SpuriousWakeup(t) ==
  /\ pc[t] = "waiting"
  /\ pc' = [pc EXCEPT ![t] = "woken"]
  /\ UNCHANGED <<ptrs, status, fate, list, pool>>

\* The deadline of a timed wait passes; the getter still has to take the mutex.
Expire(t) ==
  /\ t \in Pollers
  /\ pc[t] = "waiting"
  /\ pc' = [pc EXCEPT ![t] = "expired"]
  /\ UNCHANGED <<ptrs, status, fate, list, pool>>

\* A mistaken ReturnTimedOut whose loop tests queue->first alone.
ReturnOnlyIfFilled(t) ==
  /\ pc[t] = "expired"
  /\ IF first # NULL THEN TakeFirst(t) ELSE Block(t)

\* ETIMEDOUT ends the loop and the call, whatever the queue holds by now.
ReturnTimedOut(t) ==
  /\ pc[t] = "expired"
  /\ pc' = [pc EXCEPT ![t] = "out"]
  /\ UNCHANGED <<ptrs, status, fate, list, pool>>
----------------------------------------------------------------------------
(* thread_queue_cleanup and a new thread_queue_init *)

\* The records reached from h along next: the loop over rec = rec->next.
Chain(h) ==
  {n \in Node :
     /\ h # NULL
     /\ \A S \in SUBSET Node :
          h \in S /\ (\A x \in S : next[x] \in S \cup {NULL}) => n \in S}

\* A mistaken Cleanup that walks the list and forgets the pool.
CleanupForgetsPool(freedata) ==
  LET recs == Chain(first)
      held == {data[n] : n \in recs} \ {NULL}
  IN /\ status = "ready"
     /\ \A t \in Getters : pc[t] = "out"
     /\ heap' = heap \ recs
     /\ fate' = [m \in Msg |-> IF m \notin held THEN fate[m]
                               ELSE IF freedata THEN "freed" ELSE "left"]
     /\ status' = "destroyed"
     /\ list' = <<>> /\ pool' = <<>>
     /\ UNCHANGED <<first, last, next, data, length, msgpool, msgpool_length, pc>>

\* queue.h: not while somebody is adding or getting.  Both chains are freed,
\* with the data of their records if asked; the pointers stay as they were.
Cleanup(freedata) ==
  LET recs == Chain(first) \cup Chain(msgpool)
      held == {data[n] : n \in recs} \ {NULL}
  IN /\ status = "ready"
     /\ \A t \in Getters : pc[t] = "out"
     /\ heap' = heap \ recs
     /\ fate' = [m \in Msg |-> IF m \notin held THEN fate[m]
                               ELSE IF freedata THEN "freed" ELSE "left"]
     /\ status' = "destroyed"
     /\ list' = <<>> /\ pool' = <<>>
     /\ UNCHANGED <<first, last, next, data, length, msgpool, msgpool_length, pc>>

\* memset to zero, a new mutex and a new condition variable.
ReInit ==
  /\ status = "destroyed"
  /\ status' = "ready"
  /\ first' = NULL /\ last' = NULL /\ length' = 0
  /\ msgpool' = NULL /\ msgpool_length' = 0
  /\ UNCHANGED <<next, data, heap, pc, fate, list, pool>>
----------------------------------------------------------------------------
Next ==
  \/ \E m \in Msg : Add(m) \/ AddNoMemory(m)
  \/ \E t \in Getters :
       \/ Get(t) \/ Rewake(t)
       \/ SpuriousWakeup(t)
       \/ Expire(t) \/ ReturnTimedOut(t)
  \/ \E freedata \in BOOLEAN : Cleanup(freedata)
  \/ ReInit

Spec == Init /\ [][Next]_vars

\* The getters' loops call thread_queue_get again and again
\* (server_write_function, gui_group_function), a woken thread gets the mutex,
\* and time passes.  abstimeout is absolute, so a spurious wakeup does not
\* postpone the deadline: Expire is strongly fair.
Fairness ==
  \A t \in Getters :
    /\ WF_vars(Get(t))
    /\ WF_vars(Rewake(t))
    /\ SF_vars(Expire(t))
    /\ WF_vars(ReturnTimedOut(t))

FairSpec == Spec /\ Fairness
----------------------------------------------------------------------------
(* Properties *)

TypeOK ==
  /\ first \in Node \cup {NULL} /\ last \in Node \cup {NULL}
  /\ msgpool \in Node \cup {NULL}
  /\ next \in [Node -> Node \cup {NULL}]
  /\ data \in [Node -> Msg \cup {NULL}]
  /\ length \in Nat /\ msgpool_length \in Nat
  /\ heap \in SUBSET Node
  /\ status \in {"ready", "destroyed"}
  /\ pc \in [Getters -> Where]
  /\ fate \in [Msg -> {"new", "queued", "got", "refused", "freed", "left"}]
  /\ list \in Seq(Node) /\ pool \in Seq(Node)

\* next chains the records of s, and HeadOf(s) is where the chain starts.
HeadOf(s) == IF s = <<>> THEN NULL ELSE s[1]
Linked(s) ==
  \A i \in 1 .. Len(s) : next[s[i]] = IF i = Len(s) THEN NULL ELSE s[i + 1]

\* The list is the chain first ... last, queue->length long.
ListShape ==
  /\ Linked(list)
  /\ first = HeadOf(list)
  /\ last = IF list = <<>> THEN NULL ELSE list[Len(list)]
  /\ length = Len(list)

\* The pool is the chain from msgpool, msgpool_length long, without data.
PoolShape ==
  /\ Linked(pool)
  /\ msgpool = HeadOf(pool)
  /\ msgpool_length = Len(pool)
  /\ \A i \in 1 .. Len(pool) : data[pool[i]] = NULL

\* No record is in two places, and every allocated record is in one.
RecordsOwnedOnce ==
  /\ \A i, j \in 1 .. Len(list) : list[i] = list[j] => i = j
  /\ \A i, j \in 1 .. Len(pool) : pool[i] = pool[j] => i = j
  /\ \A i \in 1 .. Len(list), j \in 1 .. Len(pool) : list[i] # pool[j]
  /\ heap = Range(list) \cup Range(pool)

\* The list holds distinct messages, those that are accepted and not delivered.
QueuedData ==
  /\ \A i \in 1 .. Len(list) : data[list[i]] \in Msg /\ fate[data[list[i]]] = "queued"
  /\ \A i, j \in 1 .. Len(list) : data[list[i]] = data[list[j]] => i = j

\* Between init and cleanup the pointers of queue.c chain exactly the records
\* they are meant to, the two counters count them, and no record is leaked or
\* in both chains; after a cleanup nothing stays allocated (release_msglist,
\* thread_queue_add, thread_queue_get and thread_queue_cleanup together).
QueueShape ==
  IF status = "ready"
  THEN ListShape /\ PoolShape /\ RecordsOwnedOnce /\ QueuedData
  ELSE heap = {} /\ list = <<>> /\ pool = <<>>

\* Nobody sleeps on the condition variable while the queue holds a message,
\* although thread_queue_add broadcasts only when the length was 0.
NoLostWakeup == status = "ready" /\ first # NULL => \A t \in Getters : pc[t] # "waiting"

\* The cache of spare records stays within its limit for the longest queue
\* there has been (no more than Msg messages): release_msglist.
PoolBounded == msgpool_length <= KeepLimit(Cardinality(Msg)) + 1

\* A message that a getter received is never freed or delivered by the queue
\* again, and a refused one is never touched: a thread_queue_cleanup that frees
\* data does not free what a spare record last carried.
DeliveredForGood ==
  [][\A m \in Msg : fate[m] \in {"got", "refused", "freed", "left"} => fate'[m] = fate[m]]_vars

\* queue.c implements the FIFO of queue.h: what thread_queue_get returns, found
\* through the pointers, is always the oldest message accepted and not returned.
Fifo == INSTANCE MsgFifo WITH q <- [i \in 1 .. Len(list) |-> data[list[i]]]
ImplementsFifo == Fifo!FifoSpec

\* An accepted message leaves the queue in the end: it is not stranded by a
\* missed wakeup or by a timeout that races its arrival.
EventuallyDelivered == \A m \in Msg : (fate[m] = "queued") ~> (fate[m] # "queued")

\* thread_queue_get with a timeout comes back, message or not.
PollReturns == \A t \in Pollers : (pc[t] # "out") ~> (pc[t] = "out")
============================================================================
