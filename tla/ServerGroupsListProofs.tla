----------------------- MODULE ServerGroupsListProofs -----------------------
(***************************************************************************)
(* Machine-checked proofs of what the walks along the unlocked group lists *)
(* find (module ServerGroups): nobody is listed twice who is not joined by *)
(* two connections at once, who joined stays a member, and a chat reaches  *)
(* every member once.  They stand on GInv of ServerGroupsProofs, which     *)
(* says to which group a node belongs.                                     *)
(***************************************************************************)
EXTENDS ServerGroupsProofs

(* Chains of nodes *)

Closed(nx, S) == \A x \in S : nx[x] \in S \cup {NULL, GARBAGE}

\* Reach, as a function of the pointers: what a walk from h can come to.
From(nx, h) ==
  {n \in Node : h # NULL /\ \A S \in SUBSET Node : h \in S /\ Closed(nx, S) => n \in S}

LEMMA ReachFrom ==
  ASSUME NEW h
  PROVE  Reach(h) = From(next, h)
BY DEF Reach, From, Closed

Pointers == [Node -> Node \cup {NULL, GARBAGE}]

LEMMA FromLeast ==
  ASSUME NEW nx, NEW h, NEW S \in SUBSET Node, h \in S \cup {NULL}, Closed(nx, S)
  PROVE  From(nx, h) \subseteq S
BY DEF From

LEMMA FromStart ==
  ASSUME GroupsAssumption, NEW nx, NEW h \in Node
  PROVE  h \in From(nx, h)
BY DEF From, GroupsAssumption

LEMMA FromClosed ==
  ASSUME GroupsAssumption, NEW nx \in Pointers, NEW h
  PROVE  From(nx, h) \in SUBSET Node /\ Closed(nx, From(nx, h))
<1>1. ASSUME NEW x \in From(nx, h), nx[x] \in Node PROVE nx[x] \in From(nx, h)
  <2>1. ASSUME NEW S \in SUBSET Node, h \in S, Closed(nx, S) PROVE nx[x] \in S
    BY <1>1, <2>1 DEF From, Closed, GroupsAssumption
  <2> QED BY <1>1, <2>1 DEF From
<1> QED BY <1>1 DEF From, Closed, Pointers

\* What is behind a node of the chain is in the chain.
LEMMA FromTrans ==
  ASSUME GroupsAssumption, NEW nx \in Pointers, NEW h, NEW x \in From(nx, h)
  PROVE  x \in Node /\ From(nx, x) \subseteq From(nx, h)
<1>1. From(nx, h) \in SUBSET Node /\ Closed(nx, From(nx, h))
  BY FromClosed
<1>2. x \in From(nx, h) \cup {NULL}
  OBVIOUS
<1> QED BY <1>1, <1>2, FromLeast

\* A chain is its first node and what is behind it.
LEMMA FromUnfold ==
  ASSUME GroupsAssumption, NEW nx \in Pointers, NEW h \in Node, NEW n \in From(nx, h)
  PROVE  n = h \/ (nx[h] \in Node /\ n \in From(nx, nx[h]))
<1>1. CASE nx[h] \in Node
  <2>1. /\ From(nx, nx[h]) \in SUBSET Node /\ Closed(nx, From(nx, nx[h]))
        /\ nx[h] \in From(nx, nx[h])
    BY <1>1, FromClosed, FromStart
  <2>2. {h} \cup From(nx, nx[h]) \in SUBSET Node /\ Closed(nx, {h} \cup From(nx, nx[h]))
    BY <2>1 DEF Closed
  <2>3. From(nx, h) \subseteq {h} \cup From(nx, nx[h])
    BY <2>2, FromLeast
  <2> QED BY <1>1, <2>3
<1>2. CASE nx[h] \notin Node
  <2>1. {h} \in SUBSET Node /\ Closed(nx, {h})
    BY <1>2 DEF Closed, Pointers
  <2>2. From(nx, h) \subseteq {h}
    BY <2>1, FromLeast
  <2> QED BY <2>2
<1> QED BY <1>1, <1>2

\* A step that changes pointers only to NULL or to new nodes, and so adds at most
\* those to a chain ...
LEMMA FromAdds ==
  ASSUME GroupsAssumption, NEW nx \in Pointers, NEW ny, NEW h, NEW Y \in SUBSET Node,
         \A x \in Node : ny[x] \in {nx[x], NULL} \cup Y,
         \A y \in Y : ny[y] = GARBAGE,
         NEW k \in {h} \cup Y, h \in Node \cup {NULL}
  PROVE  From(ny, k) \subseteq From(nx, h) \cup Y
<1>1. From(nx, h) \in SUBSET Node /\ Closed(nx, From(nx, h)) /\ (h \in Node => h \in From(nx, h))
  BY FromClosed, FromStart
<1> DEFINE S == From(nx, h) \cup Y
<1>2. S \in SUBSET Node /\ k \in S \cup {NULL}
  BY <1>1
<1>3. Closed(ny, S)
  <2> SUFFICES ASSUME NEW x \in S PROVE ny[x] \in S \cup {NULL, GARBAGE}
    BY DEF Closed
  <2>1. CASE x \in Y
    BY <2>1
  <2>2. CASE x \in From(nx, h)
    BY <1>1, <2>2 DEF Closed
  <2> QED BY <2>1, <2>2
<1> HIDE DEF S
<1>4. From(ny, k) \subseteq S
  BY <1>2, <1>3, FromLeast
<1> QED BY <1>4 DEF S

\* ... and one that leaves the pointers between the nodes of a chain alone, and
\* so keeps the chain.
LEMMA FromKeeps ==
  ASSUME GroupsAssumption, NEW nx \in Pointers, NEW ny, NEW h,
         \A x \in From(nx, h) : nx[x] \in Node => ny[x] = nx[x]
  PROVE  From(nx, h) \subseteq From(ny, h)
<1> SUFFICES ASSUME NEW n \in From(nx, h) PROVE n \in From(ny, h)
  OBVIOUS
<1>1. n \in Node /\ h # NULL
  BY DEF From
<1>2. ASSUME NEW S \in SUBSET Node, h \in S, Closed(ny, S) PROVE n \in S
  <2>1. From(nx, h) \in SUBSET Node /\ Closed(nx, From(nx, h)) /\ h \in From(nx, h)
    BY <1>2, FromClosed, FromStart
  <2> DEFINE T == S \cap From(nx, h)
  <2>2. T \in SUBSET Node /\ h \in T \cup {NULL}
    BY <1>2, <2>1
  <2>3. Closed(nx, T)
    <3> SUFFICES ASSUME NEW x \in T, nx[x] \in Node PROVE nx[x] \in T
      BY <2>1 DEF Closed, Pointers
    <3>1. nx[x] \in From(nx, h)
      BY <2>1 DEF Closed, GroupsAssumption
    <3>2. ny[x] = nx[x] /\ ny[x] \in S \cup {NULL, GARBAGE}
      BY <1>2 DEF Closed
    <3> QED BY <3>1, <3>2 DEF GroupsAssumption
  <2> HIDE DEF T
  <2>4. From(nx, h) \subseteq T
    BY <2>2, <2>3, FromLeast
  <2> QED BY <2>4 DEF T
<1> QED BY <1>1, <1>2 DEF From
-----------------------------------------------------------------------------
(* The invariant *)

Changers == InList \cup {"link", "setuid", "setnext"}
List(g) == From(next, groups[g])

\* Thread t is joining its user to its group (Joining).
Joins(t) == pc[t] \in Changers \/ (pc[t] = "check" /\ req[t].op = "INVITE_RESP")
Pair(t) == <<req[t].uid, req[t].gid>>

\* Two threads change the same list only if it is among the raced, and join the
\* same user to it only if the pair is among the twice.
OneChanger ==
  \A s, t \in Thread :
    s # t /\ pc[s] \in Changers /\ pc[t] \in Changers /\ req[s].gid = req[t].gid => req[t].gid \in raced
OneJoiner ==
  \A s, t \in Thread :
    s # t /\ Joins(s) /\ Joins(t) /\ req[s].uid = req[t].uid /\ req[s].gid = req[t].gid => Pair(t) \in twice

\* check_user_in_group has passed the nodes of A: none of them is the user's in
\* that group, and from the head of the list there is no way around them but by
\* cur.
Seen(t, A) ==
  /\ groups[req[t].gid] \in A \cup {cur[t]}
  /\ \A x \in A : /\ home[x] = req[t].gid => uid[x] # req[t].uid
                  /\ next[x] \in A \cup {cur[t], NULL, GARBAGE}
WalkOK(t) ==
  pc[t] = "check" /\ req[t].op = "INVITE_RESP" /\ Pair(t) \notin twice => \E A \in SUBSET Node : Seen(t, A)

\* Whose uid is about to be written into the list is not in it.
AbsentOK(t) ==
  pc[t] \in {"tail", "append", "appenduid", "setuid"} /\ Pair(t) \notin twice =>
    \A n \in List(req[t].gid) : uid[n] # req[t].uid

\* The only thread that changes a list is at its end.
ChangeOK(t) ==
  req[t].gid \notin raced =>
    /\ pc[t] = "link" /\ req[t].gid \in Gid => groups[req[t].gid] = NULL
    /\ pc[t] \in {"setuid", "setnext"} => next[groups[req[t].gid]] = GARBAGE
    /\ pc[t] = "setuid" => uid[groups[req[t].gid]] = GARBAGE
    /\ pc[t] = "setnext" => uid[groups[req[t].gid]] = req[t].uid
    /\ pc[t] \in InList => cur[t] \in List(req[t].gid)
    /\ pc[t] = "append" => next[cur[t]] \notin Node
    /\ pc[t] \in {"appenduid", "appendnext"} /\ next[cur[t]] \in Node => next[next[cur[t]]] = GARBAGE
    /\ pc[t] = "appenduid" /\ next[cur[t]] \in Node => uid[next[cur[t]]] = GARBAGE
    /\ pc[t] = "appendnext" => next[cur[t]] \in Node /\ uid[next[cur[t]]] = req[t].uid

\* s names nobody twice, but those whom two threads joined to g at once.
OnceIn(s, g) == \A i, j \in DOMAIN s : s[i] = s[j] => i = j \/ <<s[i], g>> \in twice

\* What forward_to_group has sent, and what is still ahead of it.
ForwardOK(t) ==
  /\ pc[t] # "forward" => copies[t] = <<>>
  /\ pc[t] = "forward" /\ req[t].gid \notin raced =>
       /\ cur[t] # NULL => cur[t] \in List(req[t].gid)
       /\ OnceIn(copies[t], req[t].gid)
       /\ \A v \in Range(copies[t]) : \E n \in List(req[t].gid) : uid[n] = v
       /\ \A n \in From(next, cur[t]) : uid[n] \in Range(copies[t]) => <<uid[n], req[t].gid>> \in twice
       /\ \A v \in must[t] : v \in Range(copies[t]) \/ \E n \in From(next, cur[t]) : uid[n] = v

OnceInv ==
  \A g \in Gid : \A m, n \in List(g) :
    uid[m] = uid[n] /\ uid[m] \in User => m = n \/ <<uid[m], g>> \in twice
JoinInv == \A v \in User, g \in Gid : <<v, g>> \in joined /\ g \notin raced => \E n \in List(g) : uid[n] = v
ThreadOK(t) == WalkOK(t) /\ AbsentOK(t) /\ ChangeOK(t) /\ ForwardOK(t)

\* No list goes in a circle, since only new nodes are linked.
AcyclicInv == \A x \in Node : next[x] \in Node => x \notin From(next, next[x])

LInv == OneChanger /\ OneJoiner /\ OnceInv /\ JoinInv /\ AcyclicInv /\ \A t \in Thread : ThreadOK(t)

\* The list of a group holds only nodes that were allocated for it.
LEMMA ListHome ==
  ASSUME GroupsAssumption, GInv, NEW g \in Gid
  PROVE  /\ next \in Pointers /\ groups[g] \in Node \cup {NULL}
         /\ \A n \in List(g) : n \in Node /\ n \in heap /\ home[n] = g
<1> DEFINE S == {n \in Node : n \in heap /\ home[n] = g}
<1>1. next \in Pointers /\ groups[g] \in Node \cup {NULL}
  BY DEF GInv, TypeOK, Pointers
<1>2. S \in SUBSET Node /\ groups[g] \in S \cup {NULL}
  BY <1>1 DEF GInv, HomeInv
<1>3. Closed(next, S)
  BY <1>1 DEF GInv, HomeInv, Closed, Pointers
<1> HIDE DEF S
<1>4. List(g) \subseteq S
  BY <1>2, <1>3, FromLeast DEF List
<1> QED BY <1>1, <1>4 DEF S
-----------------------------------------------------------------------------
(* What a step of a thread does to memory *)

\* A step of t writes pointers only of its own group, to NULL or to the new nodes
\* Y, and writes its user's uid into at most the node z; only a changer writes,
\* and the uid only if it is not in the list.
MemStep(t, Y, z) ==
  /\ \A y \in Y : next'[y] = GARBAGE /\ uid'[y] = GARBAGE /\ y \notin heap
  /\ \A h \in Gid : groups'[h] \in {groups[h]} \cup Y /\ (h # req[t].gid => groups'[h] = groups[h])
  /\ \A x \in Node : next'[x] \in {next[x], NULL} \cup Y
  /\ \A x \in Node : uid'[x] = uid[x] \/ (x = z /\ home[x] = req[t].gid /\ uid'[x] = req[t].uid)
  /\ \A x \in Node : x \in Y \/ home'[x] = home[x]
  /\ \A x \in heap : home[x] # req[t].gid => next'[x] = next[x] /\ uid'[x] = uid[x]
  /\ pc[t] \notin Changers => UNCHANGED <<groups, next, uid>>
  /\ uid' = uid \/ Pair(t) \in twice \/ (req[t].gid \in Gid /\ \A n \in List(req[t].gid) : uid[n] # req[t].uid)

\* The members of g stay where they are.
KeepStep(g) ==
  /\ groups[g] # NULL => groups'[g] = groups[g]
  /\ \A x \in List(g) : (next[x] \in Node => next'[x] = next[x]) /\ (uid[x] \in User => uid'[x] = uid[x])

\* The other threads, and the history.
Alone(t) ==
  /\ \A v \in Thread : v # t =>
       pc'[v] = pc[v] /\ req'[v] = req[v] /\ cur'[v] = cur[v] /\ copies'[v] = copies[v] /\ must'[v] = must[v]
  /\ raced \subseteq raced' /\ twice \subseteq twice'

ListStep(t, Y, z) ==
  /\ MemStep(t, Y, z) /\ Alone(t)
  /\ req[t].gid \in Gid /\ req[t].gid \notin raced' => KeepStep(req[t].gid)

LEMMA KeepAll ==
  ASSUME GroupsAssumption, GInv, NEW t \in Thread, NEW Y \in SUBSET Node, NEW z, ListStep(t, Y, z),
         NEW g \in Gid, g \notin raced'
  PROVE  /\ KeepStep(g)
         /\ List(g) \subseteq From(next', groups'[g])
         /\ \A h \in List(g) : From(next, h) \subseteq From(next', h)
<1>1. /\ next \in Pointers /\ groups[g] \in Node \cup {NULL}
      /\ \A n \in List(g) : n \in Node /\ n \in heap /\ home[n] = g
  BY ListHome
<1>2. KeepStep(g)
  <2>1. CASE g = req[t].gid
    BY <2>1 DEF ListStep
  <2>2. CASE g # req[t].gid
    BY <1>1, <2>2 DEF ListStep, MemStep, KeepStep
  <2> QED BY <2>1, <2>2
<1>3. List(g) \subseteq From(next', groups'[g])
  <2>1. CASE groups[g] = NULL
    BY <2>1 DEF List, From
  <2>2. CASE groups[g] # NULL
    <3>1. groups'[g] = groups[g]
      BY <1>2, <2>2 DEF KeepStep
    <3>2. \A x \in From(next, groups[g]) : next[x] \in Node => next'[x] = next[x]
      BY <1>2 DEF KeepStep, List
    <3> QED BY <1>1, <3>1, <3>2, FromKeeps DEF List
  <2> QED BY <2>1, <2>2
<1>4. ASSUME NEW h \in List(g) PROVE From(next, h) \subseteq From(next', h)
  <2>1. From(next, h) \subseteq List(g)
    BY <1>1, FromTrans DEF List
  <2>2. \A x \in From(next, h) : next[x] \in Node => next'[x] = next[x]
    BY <1>2, <2>1 DEF KeepStep
  <2> QED BY <1>1, <2>2, FromKeeps
<1> QED BY <1>2, <1>3, <1>4

LEMMA AddsAll ==
  ASSUME GroupsAssumption, GInv, NEW t \in Thread, NEW Y \in SUBSET Node, NEW z, MemStep(t, Y, z)
  PROVE  /\ \A g \in Gid : From(next', groups'[g]) \subseteq List(g) \cup Y
         /\ \A h \in Node \cup {NULL} : From(next', h) \subseteq From(next, h) \cup Y
<1>1. next \in Pointers /\ \A g \in Gid : groups[g] \in Node \cup {NULL}
  BY DEF GInv, TypeOK, Pointers
<1>2. /\ \A x \in Node : next'[x] \in {next[x], NULL} \cup Y
      /\ \A y \in Y : next'[y] = GARBAGE
      /\ \A h \in Gid : groups'[h] \in {groups[h]} \cup Y
  BY DEF MemStep
<1>3. ASSUME NEW g \in Gid PROVE From(next', groups'[g]) \subseteq List(g) \cup Y
  BY <1>1, <1>2, FromAdds DEF List
<1>4. ASSUME NEW h \in Node \cup {NULL} PROVE From(next', h) \subseteq From(next, h) \cup Y
  <2>1. h \in {h} \cup Y
    OBVIOUS
  <2> QED BY <1>1, <1>2, <2>1, FromAdds
<1> QED BY <1>3, <1>4

\* A user is listed once after the step too: the uid is written when it is not in
\* the list, and new nodes have none.
LEMMA OnceStep ==
  ASSUME GroupsAssumption, GInv, LInv, NEW t \in Thread, NEW Y \in SUBSET Node, NEW z, ListStep(t, Y, z)
  PROVE  OnceInv'
<1> SUFFICES ASSUME NEW g \in Gid, NEW m \in From(next', groups'[g]), NEW n \in From(next', groups'[g]),
                    uid'[m] = uid'[n], uid'[m] \in User, <<uid'[m], g>> \notin twice'
             PROVE  m = n
  BY DEF OnceInv, List
<1>0. MemStep(t, Y, z) /\ <<uid'[m], g>> \notin twice
  BY DEF ListStep, Alone
<1>1. m \notin Y /\ n \notin Y
  BY <1>0 DEF MemStep, GroupsAssumption
<1>2. m \in List(g) /\ n \in List(g)
  BY <1>0, <1>1, AddsAll
<1>3. /\ m \in Node /\ m \in heap /\ home[m] = g
      /\ n \in Node /\ n \in heap /\ home[n] = g
  BY <1>2, ListHome
<1>4. CASE uid'[m] = uid[m] /\ uid'[n] = uid[n]
  BY <1>0, <1>2, <1>4 DEF LInv, OnceInv
<1>5. CASE uid'[m] # uid[m] \/ uid'[n] # uid[n]
  <2>1. uid' # uid /\ g = req[t].gid /\ uid'[m] = req[t].uid
    BY <1>0, <1>3, <1>5 DEF MemStep
  <2>2. uid[m] # req[t].uid /\ uid[n] # req[t].uid
    BY <1>0, <1>2, <2>1 DEF MemStep, Pair
  <2>3. m = z /\ n = z
    BY <1>0, <1>3, <2>1, <2>2 DEF MemStep
  <2> QED BY <2>3
<1> QED BY <1>4, <1>5

\* A uid that v is joining to its group is not written there by another thread.
LEMMA ForeignUid ==
  ASSUME LInv, NEW t \in Thread, NEW Y, NEW z, MemStep(t, Y, z),
         NEW v \in Thread, v # t, Joins(v), Pair(v) \notin twice,
         NEW x \in Node, home[x] = req[v].gid, uid[x] # req[v].uid
  PROVE  uid'[x] # req[v].uid
<1> SUFFICES ASSUME uid'[x] = req[v].uid PROVE FALSE
  OBVIOUS
<1>1. home[x] = req[t].gid /\ uid'[x] = req[t].uid /\ pc[t] \in Changers
  BY DEF MemStep
<1> QED BY <1>1 DEF LInv, OneJoiner, Joins

LEMMA JoinStep ==
  ASSUME GroupsAssumption, GInv, LInv, NEW t \in Thread, NEW Y \in SUBSET Node, NEW z, ListStep(t, Y, z),
         NEW v \in User, NEW g \in Gid, g \notin raced', <<v, g>> \in joined
  PROVE  \E n \in From(next', groups'[g]) : uid'[n] = v
<1>1. PICK n \in List(g) : uid[n] = v
  BY DEF LInv, JoinInv, ListStep, Alone
<1>2. KeepStep(g) /\ List(g) \subseteq From(next', groups'[g])
  BY KeepAll
<1> QED BY <1>1, <1>2 DEF KeepStep

LEMMA WalkOther ==
  ASSUME GroupsAssumption, GInv, LInv, NEW t \in Thread, NEW Y \in SUBSET Node, NEW z, ListStep(t, Y, z),
         NEW v \in Thread, v # t
  PROVE  WalkOK(v)'
<1> SUFFICES ASSUME pc'[v] = "check", req'[v].op = "INVITE_RESP", Pair(v)' \notin twice'
             PROVE \E A \in SUBSET Node : Seen(v, A)'
  BY DEF WalkOK
<1>1. pc[v] = "check" /\ req'[v] = req[v] /\ cur'[v] = cur[v] /\ Pair(v) \notin twice /\ Joins(v)
  BY DEF ListStep, Alone, Pair, Joins
<1>2. PICK A \in SUBSET Node : Seen(v, A)
  BY <1>1 DEF LInv, ThreadOK, WalkOK
<1>3. req[v].gid \in Gid
  BY <1>1 DEF GInv, StepInv, Named
<1>4. groups'[req[v].gid] \in (A \cup Y) \cup {cur[v]}
  BY <1>2, <1>3 DEF Seen, ListStep, MemStep
<1>5. ASSUME NEW x \in A \cup Y
      PROVE  /\ home'[x] = req[v].gid => uid'[x] # req[v].uid
             /\ next'[x] \in (A \cup Y) \cup {cur[v], NULL, GARBAGE}
  <2>1. CASE x \in Y
    <3>1. req[v].uid # GARBAGE
      BY <1>1 DEF GInv, StepInv, GroupsAssumption
    <3> QED BY <2>1, <3>1 DEF ListStep, MemStep
  <2>2. CASE x \in A /\ x \notin Y
    <3>1. home'[x] = home[x]
      BY <2>2 DEF ListStep, MemStep
    <3>2. home[x] = req[v].gid => uid'[x] # req[v].uid
      BY <1>1, <1>2, <2>2, ForeignUid DEF Seen, ListStep
    <3> QED BY <1>2, <2>2, <3>1, <3>2 DEF ListStep, MemStep, Seen
  <2> QED BY <2>1, <2>2
<1>6. Seen(v, A \cup Y)'
  BY <1>1, <1>4, <1>5 DEF Seen
<1> QED BY <1>6

LEMMA AbsentOther ==
  ASSUME GroupsAssumption, GInv, LInv, NEW t \in Thread, NEW Y \in SUBSET Node, NEW z, ListStep(t, Y, z),
         NEW v \in Thread, v # t
  PROVE  AbsentOK(v)'
<1> SUFFICES ASSUME pc'[v] \in {"tail", "append", "appenduid", "setuid"}, Pair(v)' \notin twice',
                    NEW n \in From(next', groups'[req'[v].gid])
             PROVE  uid'[n] # req'[v].uid
  BY DEF AbsentOK, List
<1>1. /\ pc[v] \in {"tail", "append", "appenduid", "setuid"} /\ req'[v] = req[v]
      /\ Pair(v) \notin twice /\ Joins(v)
  BY DEF ListStep, Alone, Pair, Joins, Changers, InList
<1>2. req[v].gid \in Gid /\ req[v].uid # GARBAGE
  BY <1>1 DEF GInv, StepInv, Named, Writing, InList, GroupsAssumption
<1>3. n \in List(req[v].gid) \/ n \in Y
  BY <1>1, <1>2, AddsAll DEF ListStep
<1>4. CASE n \in Y
  BY <1>1, <1>2, <1>4 DEF ListStep, MemStep
<1>5. CASE n \in List(req[v].gid)
  <2>1. uid[n] # req[v].uid /\ n \in Node /\ home[n] = req[v].gid
    BY <1>1, <1>2, <1>5, ListHome DEF LInv, ThreadOK, AbsentOK
  <2> QED BY <1>1, <2>1, ForeignUid DEF ListStep
<1> QED BY <1>3, <1>4, <1>5

\* Another thread at the end of its list is undisturbed: it is in another group,
\* or the step writes nothing.
LEMMA ChangeOther ==
  ASSUME GroupsAssumption, GInv, LInv, NEW t \in Thread, NEW Y \in SUBSET Node, NEW z, ListStep(t, Y, z),
         NEW v \in Thread, v # t
  PROVE  ChangeOK(v)'
<1> DEFINE g == req[v].gid
<1>1. pc'[v] = pc[v] /\ req'[v] = req[v] /\ cur'[v] = cur[v]
  BY DEF ListStep, Alone
<1>2. CASE pc[v] \notin Changers
  BY <1>1, <1>2 DEF ChangeOK, Changers, InList
<1>3. CASE pc[v] \in Changers /\ g \in raced'
  BY <1>1, <1>3 DEF ChangeOK
<1>4. CASE pc[v] \in Changers /\ g \notin raced'
  <2>1. g \notin raced
    BY <1>4 DEF ListStep, Alone
  <2>2. ChangeOK(v)
    BY DEF LInv, ThreadOK
  <2>3. CASE g \notin Gid
    <3>1. pc[v] = "link"
      BY <1>4, <2>3 DEF GInv, StepInv, Named, Writing, Changers
    <3> QED BY <1>1, <2>3, <3>1 DEF ChangeOK, InList
  <2>4. CASE g \in Gid
    <3>1. /\ groups'[g] = groups[g]
          /\ \A x \in heap : home[x] = g => next'[x] = next[x] /\ uid'[x] = uid[x]
      <4>1. CASE pc[t] \notin Changers
        BY <4>1 DEF ListStep, MemStep
      <4>2. CASE pc[t] \in Changers
        <5>1. g # req[t].gid
          BY <1>4, <2>1, <4>2 DEF LInv, OneChanger
        <5> QED BY <2>4, <5>1 DEF ListStep, MemStep
      <4> QED BY <4>1, <4>2
    <3>2. /\ pc[v] \in InList => cur[v] \in Node /\ cur[v] \in heap /\ home[cur[v]] = g
          /\ pc[v] \in {"setuid", "setnext"} => groups[g] \in heap /\ home[groups[g]] = g
      BY <2>4 DEF GInv, StepInv, HomeInv, TypeOK
    <3>3. pc[v] \in InList /\ next[cur[v]] \in Node => next[cur[v]] \in heap /\ home[next[cur[v]]] = g
      BY <3>2 DEF GInv, HomeInv
    <3>4. List(g) \subseteq From(next', groups'[g])
      BY <1>4, <2>4, KeepAll
    <3>5. pc[v] \in InList => next'[cur[v]] = next[cur[v]]
      BY <3>1, <3>2
    <3>6. pc[v] \in InList /\ next[cur[v]] \in Node =>
            next'[next[cur[v]]] = next[next[cur[v]]] /\ uid'[next[cur[v]]] = uid[next[cur[v]]]
      BY <3>1, <3>3
    <3>7. pc[v] \in {"setuid", "setnext"} =>
            next'[groups[g]] = next[groups[g]] /\ uid'[groups[g]] = uid[groups[g]]
      BY <3>1, <3>2
    <3>8. "append" \in InList /\ "appenduid" \in InList /\ "appendnext" \in InList
      BY DEF InList
    <3> HIDE DEF g
    <3>9. /\ pc[v] = "link" /\ g \in Gid => groups'[g] = NULL
          /\ pc[v] \in {"setuid", "setnext"} => next'[groups'[g]] = GARBAGE
          /\ pc[v] = "setuid" => uid'[groups'[g]] = GARBAGE
          /\ pc[v] = "setnext" => uid'[groups'[g]] = req[v].uid
      BY <2>1, <2>2, <3>1, <3>7 DEF ChangeOK, g
    <3>10. /\ pc[v] \in InList => cur[v] \in From(next', groups'[g])
           /\ pc[v] = "append" => next'[cur[v]] \notin Node
      BY <2>1, <2>2, <3>4, <3>5, <3>8 DEF ChangeOK, g
    <3>11. /\ pc[v] \in {"appenduid", "appendnext"} /\ next'[cur[v]] \in Node => next'[next'[cur[v]]] = GARBAGE
           /\ pc[v] = "appenduid" /\ next'[cur[v]] \in Node => uid'[next'[cur[v]]] = GARBAGE
           /\ pc[v] = "appendnext" => next'[cur[v]] \in Node /\ uid'[next'[cur[v]]] = req[v].uid
      BY <2>1, <2>2, <3>5, <3>6, <3>8 DEF ChangeOK, g
    <3> QED BY <1>1, <3>9, <3>10, <3>11 DEF ChangeOK, List, g
  <2> QED BY <2>3, <2>4
<1> QED BY <1>2, <1>3, <1>4

LEMMA RangeUser ==
  ASSUME NEW s \in Seq(User)
  PROVE  \A w \in Range(s) : w \in User
<1>1. DOMAIN s = 1 .. Len(s) /\ \A i \in 1 .. Len(s) : s[i] \in User
  BY ElementOfSeq, LenProperties
<1> QED BY <1>1 DEF Range

\* A walk of forward_to_group sees the list at most grow ahead of it, by users it
\* has not served.
LEMMA ForwardOther ==
  ASSUME GroupsAssumption, GInv, LInv, NEW t \in Thread, NEW Y \in SUBSET Node, NEW z, ListStep(t, Y, z),
         NEW v \in Thread, v # t
  PROVE  ForwardOK(v)'
<1> DEFINE g == req[v].gid
<1>1. pc'[v] = pc[v] /\ req'[v] = req[v] /\ cur'[v] = cur[v] /\ copies'[v] = copies[v] /\ must'[v] = must[v]
  BY DEF ListStep, Alone
<1>2. ForwardOK(v)
  BY DEF LInv, ThreadOK
<1>3. CASE pc[v] # "forward"
  BY <1>1, <1>2, <1>3 DEF ForwardOK
<1>4. CASE pc[v] = "forward" /\ g \in raced'
  BY <1>1, <1>4 DEF ForwardOK
<1>5. CASE pc[v] = "forward" /\ g \notin raced'
  <2>1. g \notin raced /\ g \in Gid
    BY <1>5 DEF ListStep, Alone, GInv, StepInv, Named
  <2>2. /\ cur[v] # NULL => cur[v] \in List(g)
        /\ OnceIn(copies[v], g)
        /\ \A w \in Range(copies[v]) : \E n \in List(g) : uid[n] = w
        /\ \A n \in From(next, cur[v]) : uid[n] \in Range(copies[v]) => <<uid[n], g>> \in twice
        /\ \A w \in must[v] : w \in Range(copies[v]) \/ \E n \in From(next, cur[v]) : uid[n] = w
    BY <1>2, <1>5, <2>1 DEF ForwardOK
  <2>3. /\ KeepStep(g) /\ List(g) \subseteq From(next', groups'[g])
        /\ \A h \in List(g) : From(next, h) \subseteq From(next', h)
    BY <1>5, <2>1, KeepAll
  <2>4. /\ next \in Pointers /\ \A n \in List(g) : n \in Node /\ n \in heap /\ home[n] = g
    BY <2>1, ListHome
  <2>5. From(next, cur[v]) \subseteq List(g) /\ From(next, cur[v]) \subseteq From(next', cur[v])
    <3>1. CASE cur[v] = NULL
      BY <3>1 DEF From
    <3>2. CASE cur[v] # NULL
      BY <2>2, <2>3, <2>4, <3>2, FromTrans DEF List
    <3> QED BY <3>1, <3>2
  <2>6. From(next', cur[v]) \subseteq From(next, cur[v]) \cup Y
    <3>1. cur[v] \in Node \cup {NULL}
      BY DEF GInv, TypeOK
    <3> QED BY <3>1, AddsAll DEF ListStep
  <2>7. \A w \in Range(copies[v]) : w \in User
    BY RangeUser DEF GInv, TypeOK
  <2>8. ASSUME NEW w \in Range(copies[v]) PROVE \E n \in From(next', groups'[g]) : uid'[n] = w
    BY <2>2, <2>3, <2>7 DEF KeepStep
  <2>9. ASSUME NEW n \in From(next', cur[v]), uid'[n] \in Range(copies[v])
        PROVE  <<uid'[n], g>> \in twice'
    <3>0. twice \subseteq twice'
      BY DEF ListStep, Alone
    <3>1. CASE n \in Y
      BY <2>7, <2>9, <3>1 DEF ListStep, MemStep, GroupsAssumption
    <3>2. CASE n \in From(next, cur[v]) /\ uid'[n] = uid[n]
      BY <2>2, <2>9, <3>0, <3>2
    <3>3. CASE n \in From(next, cur[v]) /\ uid'[n] # uid[n]
      <4>1. n \in Node /\ n \in heap /\ home[n] = g
        BY <2>4, <2>5, <3>3
      <4>2. uid'[n] = req[t].uid /\ g = req[t].gid /\ uid' # uid
        BY <3>3, <4>1 DEF ListStep, MemStep
      <4>3. Pair(t) \in twice \/ \A x \in List(g) : uid[x] # req[t].uid
        BY <4>2 DEF ListStep, MemStep
      <4> QED BY <2>2, <2>9, <3>0, <4>2, <4>3 DEF Pair
    <3> QED BY <2>6, <3>1, <3>2, <3>3
  <2>10. ASSUME NEW w \in must[v]
         PROVE  w \in Range(copies[v]) \/ \E n \in From(next', cur[v]) : uid'[n] = w
    <3>1. w \in User
      BY DEF GInv, TypeOK
    <3>2. CASE w \notin Range(copies[v])
      <4>1. PICK n \in From(next, cur[v]) : uid[n] = w
        BY <2>2, <3>2
      <4>2. uid'[n] = w /\ n \in From(next', cur[v])
        BY <2>3, <2>5, <3>1, <4>1 DEF KeepStep
      <4> QED BY <4>2
    <3> QED BY <3>2
  <2>11. cur[v] # NULL => cur[v] \in From(next', groups'[g])
    BY <2>2, <2>3
  <2>12. OnceIn(copies[v], g)'
    BY <1>1, <2>2 DEF OnceIn, ListStep, Alone
  <2> HIDE DEF g
  <2> QED BY <1>1, <1>5, <2>8, <2>9, <2>10, <2>11, <2>12 DEF ForwardOK, List, g
<1> QED BY <1>3, <1>4, <1>5

LEMMA AcyclicStep ==
  ASSUME GroupsAssumption, GInv, LInv, NEW t \in Thread, NEW Y \in SUBSET Node, NEW z, MemStep(t, Y, z)
  PROVE  AcyclicInv'
<1> SUFFICES ASSUME NEW x \in Node, next'[x] \in Node, x \in From(next', next'[x]) PROVE FALSE
  BY DEF AcyclicInv
<1>1. x \notin Y
  BY DEF MemStep, GroupsAssumption
<1>2. CASE next'[x] \in Y
  <2>1. Closed(next', {next'[x]}) /\ {next'[x]} \in SUBSET Node
    BY <1>2 DEF Closed, MemStep
  <2>2. x \in {next'[x]}
    BY <2>1, FromLeast
  <2> QED BY <1>1, <1>2, <2>2
<1>3. CASE next'[x] = next[x]
  <2>1. x \in From(next, next[x])
    BY <1>1, <1>3, AddsAll
  <2> QED BY <1>3, <2>1 DEF LInv, AcyclicInv
<1> QED BY <1>2, <1>3 DEF MemStep, GroupsAssumption

\* What is left to show of a step: the thread itself, and who joins.
LEMMA StepLInv ==
  ASSUME GroupsAssumption, GInv, LInv, NEW t \in Thread, NEW Y \in SUBSET Node, NEW z, ListStep(t, Y, z),
         ThreadOK(t)', OneChanger', OneJoiner',
         \A v \in User, g \in Gid : <<v, g>> \in joined' /\ g \notin raced' =>
           <<v, g>> \in joined \/ \E n \in From(next', groups'[g]) : uid'[n] = v
  PROVE  LInv'
<1>1. OnceInv' /\ AcyclicInv'
  BY OnceStep, AcyclicStep DEF ListStep
<1>2. ASSUME NEW v \in User, NEW g \in Gid, <<v, g>> \in joined', g \notin raced'
      PROVE  \E n \in From(next', groups'[g]) : uid'[n] = v
  BY <1>2, JoinStep
<1>3. JoinInv'
  BY <1>2 DEF JoinInv, List
<1>4. ASSUME NEW v \in Thread PROVE ThreadOK(v)'
  <2>1. CASE v # t
    BY <2>1, WalkOther, AbsentOther, ChangeOther, ForwardOther DEF ThreadOK
  <2> QED BY <2>1
<1> QED BY <1>1, <1>3, <1>4 DEF LInv

\* A step that reads memory only.
LEMMA QuietStep ==
  ASSUME NEW t \in Thread, UNCHANGED <<groups, next, uid, home>>, Alone(t)
  PROVE  ListStep(t, {}, NULL)
BY DEF ListStep, MemStep, KeepStep

LEMMA ChangerStays ==
  ASSUME LInv, NEW t \in Thread, Alone(t),
         pc'[t] \in Changers => pc[t] \in Changers /\ req'[t].gid = req[t].gid
  PROVE  OneChanger'
BY DEF LInv, OneChanger, Alone

LEMMA JoinerStays ==
  ASSUME LInv, NEW t \in Thread, Alone(t),
         Joins(t)' => Joins(t) /\ req'[t].uid = req[t].uid /\ req'[t].gid = req[t].gid
  PROVE  OneJoiner'
BY DEF LInv, OneJoiner, Joins, Pair, Alone

LEMMA PlainThread ==
  ASSUME NEW t \in Thread, pc'[t] \notin Changers, pc'[t] \notin {"check", "forward"}, copies'[t] = <<>>
  PROVE  ThreadOK(t)'
BY DEF ThreadOK, WalkOK, AbsentOK, ChangeOK, ForwardOK, Changers, InList

\* The handler ends, or goes on to a step that has nothing to do with lists.
LEMMA PlainStep ==
  ASSUME GroupsAssumption, GInv, LInv, NEW t \in Thread, UNCHANGED <<groups, next, uid, joined, raced, twice, home>>, Alone(t),
         pc'[t] \notin Changers, pc'[t] \notin {"check", "forward"}, copies'[t] = <<>>
  PROVE  LInv'
<1>1. ListStep(t, {}, NULL)
  BY QuietStep
<1>2. ThreadOK(t)' /\ OneChanger' /\ OneJoiner'
  BY PlainThread, ChangerStays, JoinerStays DEF Joins
<1> QED BY <1>1, <1>2, StepLInv

LEMMA DoneFacts ==
  ASSUME GInv, NEW t \in Thread, Done(t), raced \subseteq raced', twice \subseteq twice'
  PROVE  Alone(t) /\ pc'[t] = "idle" /\ copies'[t] = <<>>
BY DEF GInv, TypeOK, Done, Goto, Alone

LEMMA NoCopies ==
  ASSUME LInv, NEW t \in Thread, pc[t] # "forward"
  PROVE  copies[t] = <<>>
BY DEF LInv, ThreadOK, ForwardOK

LEMMA DoneLInv ==
  ASSUME GroupsAssumption, GInv, LInv, NEW t \in Thread, Done(t), UNCHANGED <<groups, next, uid, joined, raced, twice, home>>
  PROVE  LInv'
<1>1. Alone(t) /\ pc'[t] = "idle" /\ copies'[t] = <<>>
  BY DoneFacts
<1>2. "idle" \notin Changers
  BY DEF Changers, InList
<1> QED BY <1>1, <1>2, PlainStep

\* Nothing that the invariant speaks of changes.
LEMMA SameLInv ==
  ASSUME LInv, UNCHANGED <<groups, next, uid, pc, req, cur, copies, must, joined, raced, twice, home>>
  PROVE  LInv'
<1>1. OneChanger' /\ OneJoiner' /\ AcyclicInv' /\ OnceInv' /\ JoinInv'
  BY DEF LInv, OneChanger, OneJoiner, Joins, Pair, AcyclicInv, OnceInv, JoinInv, List
<1>2. ASSUME NEW t \in Thread PROVE ThreadOK(t)'
  <2>1. WalkOK(t)' /\ AbsentOK(t)'
    BY DEF LInv, ThreadOK, WalkOK, Seen, Pair, AbsentOK, List
  <2>2. ChangeOK(t)' /\ ForwardOK(t)'
    BY DEF LInv, ThreadOK, ChangeOK, ForwardOK, OnceIn, List
  <2> QED BY <2>1, <2>2 DEF ThreadOK
<1> QED BY <1>1, <1>2 DEF LInv

LEMMA CrashLInv ==
  ASSUME LInv, Crash
  PROVE  LInv'
BY SameLInv DEF Crash, mem, local, hist

LEMMA InitLInv == GroupsAssumption /\ Init => LInv
<1> SUFFICES ASSUME GroupsAssumption, Init PROVE LInv
  OBVIOUS
<1>1. OneChanger /\ OneJoiner /\ JoinInv
  BY DEF Init, OneChanger, OneJoiner, Joins, Changers, InList, JoinInv
<1>2. OnceInv
  BY DEF Init, OnceInv, List, From
<1>3. AcyclicInv
  BY DEF Init, AcyclicInv, GroupsAssumption
<1>4. \A t \in Thread : ThreadOK(t)
  BY DEF Init, ThreadOK, WalkOK, AbsentOK, ChangeOK, ForwardOK, InList
<1> QED BY <1>1, <1>2, <1>3, <1>4 DEF LInv
-----------------------------------------------------------------------------
(* CREATE_GROUP *)

LEMMA ReceiveLInv ==
  ASSUME GroupsAssumption, GInv, LInv, NEW t \in Thread,
         (\E r \in Requests : Receive(t, r)) \/ ScanTest(t) \/ IncLoad(t) \/ IncStore(t) \/ Capacity(t)
  PROVE  LInv'
<1> DEFINE Steps == {"scan", "announce", "entry", "load", "cap", "store", "gid", "reply"}
<1>1. /\ pc[t] # "forward" /\ UNCHANGED <<groups, next, uid, joined, raced, twice, home, cur, copies, must>>
      /\ \E step \in Steps : pc' = [pc EXCEPT ![t] = step]
  BY DEF Receive, ScanTest, IncLoad, IncStore, Capacity, Goto, Stay, mem, local, hist
<1>2. \A v \in Thread : v # t => req'[v] = req[v]
  BY DEF Receive, ScanTest, IncLoad, IncStore, Capacity, Stay, local, GInv, TypeOK
<1>3. Alone(t) /\ pc'[t] \in Steps
  BY <1>1, <1>2 DEF GInv, TypeOK, Alone
<1>4. copies'[t] = <<>>
  BY <1>1, NoCopies
<1>5. pc'[t] \notin Changers /\ pc'[t] \notin {"check", "forward"}
  BY <1>3 DEF Changers, InList
<1> QED BY <1>1, <1>3, <1>4, <1>5, PlainStep

LEMMA TakeGidLInv ==
  ASSUME GroupsAssumption, GInv, LInv, NEW t \in Thread, TakeGid(t)
  PROVE  LInv'
<1> DEFINE g == group_cnt % (GROUP_NUM_MAX + 1)
<1>1. /\ pc[t] = "gid" /\ req' = [req EXCEPT ![t].gid = g] /\ pc' = [pc EXCEPT ![t] = "link"]
      /\ raced' = (IF Changing(t, g) \/ (g \in Gid /\ groups[g] # NULL) THEN raced \cup {g} ELSE raced)
      /\ twice' = TwiceWith(t, g)
      /\ UNCHANGED <<groups, next, uid, joined, home, cur, copies, must>>
  BY DEF TakeGid, Goto, mem
<1> HIDE DEF g
<1>2. pc'[t] = "link" /\ req'[t].gid = g /\ req'[t].uid = req[t].uid /\ Alone(t)
  <2>1. req \in [Thread -> Request] /\ req[t] \in [op : Ops, uid : User \cup {NULL}, gid : 0 .. GROUP_NUM_MAX, accept : BOOLEAN]
    BY DEF GInv, TypeOK, Request
  <2>2. req' = [req EXCEPT ![t] = [req[t] EXCEPT !.gid = g]]
    BY <1>1
  <2>3. req'[t].gid = g /\ req'[t].uid = req[t].uid /\ \A v \in Thread : v # t => req'[v] = req[v]
    BY <2>1, <2>2
  <2> QED BY <1>1, <2>3 DEF GInv, TypeOK, Alone, TwiceWith
<1>3. ListStep(t, {}, NULL)
  BY <1>1, <1>2, QuietStep
<1>4. copies'[t] = <<>>
  BY <1>1, NoCopies
<1>5. ThreadOK(t)'
  <2>1. g \notin raced' => (g \in Gid => groups[g] = NULL)
    BY <1>1
  <2> QED BY <1>1, <1>2, <1>4, <2>1 DEF ThreadOK, WalkOK, AbsentOK, ChangeOK, ForwardOK, InList
<1>6. OneChanger'
  <2>1. ASSUME NEW v \in Thread, v # t, pc'[v] \in Changers, req'[v].gid = g PROVE g \in raced'
    <3>1. pc[v] \in Changers /\ req[v].gid = g
      BY <1>2, <2>1 DEF Alone
    <3>2. Changing(t, g)
      BY <2>1, <3>1 DEF Changing, Changers, InList
    <3> QED BY <1>1, <3>2
  <2> QED BY <1>2, <2>1 DEF LInv, OneChanger, Alone
<1>7. OneJoiner'
  <2>1. ASSUME NEW v \in Thread, v # t, Joins(v)', req'[v].uid = req[t].uid, req'[v].gid = g
        PROVE  <<req[t].uid, g>> \in twice'
    <3>1. Joining(v, req[t].uid, g)
      BY <1>2, <2>1 DEF Alone, Joins, Joining, Changers, InList
    <3> QED BY <1>1, <2>1, <3>1 DEF TwiceWith
  <2> QED BY <1>2, <2>1 DEF LInv, OneJoiner, Joins, Pair, Alone
<1> QED BY <1>1, <1>3, <1>5, <1>6, <1>7, StepLInv

LEMMA CreateLinkLInv ==
  ASSUME GroupsAssumption, GInv, LInv, NEW t \in Thread, CreateLink(t)
  PROVE  LInv'
<1> DEFINE g == req[t].gid
           n == Malloc
<1>1. CASE Crash
  BY <1>1, CrashLInv
<1>2. CASE ~Crash
  <2>1. /\ pc[t] = "link" /\ g \in Gid /\ heap # Node /\ groups' = [groups EXCEPT ![g] = n]
        /\ pc' = [pc EXCEPT ![t] = "setuid"]
        /\ home' = [home EXCEPT ![n] = g]
        /\ UNCHANGED <<uid, next, req, cur, copies, must, joined, raced, twice>>
    BY <1>2 DEF CreateLink, Goto, local
  <2>2. n \in Node /\ n \notin heap
    BY <2>1, MallocFresh DEF GInv, TypeOK
  <2> HIDE DEF n
  <2>3. next[n] = GARBAGE /\ uid[n] = GARBAGE
    BY <2>2 DEF GInv, HomeInv
  <2>4. pc'[t] = "setuid" /\ Alone(t)
    BY <2>1 DEF GInv, TypeOK, Alone
  <2>5. groups'[g] = n /\ \A h \in Gid : h # g => groups'[h] = groups[h]
    BY <2>1 DEF GInv, TypeOK
  <2>6. MemStep(t, {n}, NULL)
    <3>1. \A x \in Node : x # n => home'[x] = home[x]
      BY <2>1 DEF GInv, TypeOK
    <3> QED BY <2>1, <2>2, <2>3, <2>5, <3>1 DEF MemStep, Changers
  <2>7. ASSUME g \notin raced' PROVE KeepStep(g)
    <3>1. groups[g] = NULL
      BY <2>1, <2>7 DEF LInv, ThreadOK, ChangeOK
    <3> QED BY <3>1 DEF KeepStep, List, From
  <2>8. ListStep(t, {n}, NULL)
    BY <2>4, <2>6, <2>7 DEF ListStep
  <2>9. \A x \in From(next, n) : uid[x] = GARBAGE
    <3>1. Closed(next, {n}) /\ {n} \in SUBSET Node
      BY <2>2, <2>3 DEF Closed
    <3>2. From(next, n) \subseteq {n}
      BY <3>1, FromLeast
    <3> QED BY <2>3, <3>2
  <2>10. copies'[t] = <<>>
    BY <2>1, NoCopies
  <2>11. ThreadOK(t)'
    <3>1. req[t].uid # GARBAGE
      BY <2>1 DEF GInv, StepInv, GroupsAssumption
    <3> QED BY <2>1, <2>3, <2>4, <2>5, <2>9, <2>10, <3>1
            DEF ThreadOK, WalkOK, AbsentOK, ChangeOK, ForwardOK, InList, List
  <2>12. OneChanger' /\ OneJoiner'
    BY <2>1, <2>4, ChangerStays, JoinerStays DEF Changers, Joins
  <2>13. {n} \in SUBSET Node
    BY <2>2
  <2> QED BY <2>1, <2>8, <2>11, <2>12, <2>13, StepLInv
<1> QED BY <1>1, <1>2

LEMMA CreateUidLInv ==
  ASSUME GroupsAssumption, GInv, LInv, NEW t \in Thread, CreateUid(t)
  PROVE  LInv'
<1> DEFINE g == req[t].gid
           n == groups[g]
<1>1. /\ pc[t] = "setuid" /\ uid' = [uid EXCEPT ![n] = req[t].uid] /\ pc' = [pc EXCEPT ![t] = "setnext"]
      /\ UNCHANGED <<groups, next, req, cur, copies, must, joined, raced, twice, home>>
  BY DEF CreateUid, Goto, local, hist
<1>2. g \in Gid /\ n \in Node /\ n \in heap /\ home[n] = g
  BY <1>1 DEF GInv, StepInv, Named, Writing, HomeInv, TypeOK
<1>3. uid'[n] = req[t].uid /\ \A x \in Node : x # n => uid'[x] = uid[x]
  BY <1>1, <1>2 DEF GInv, TypeOK
<1>4. pc'[t] = "setnext" /\ Alone(t)
  BY <1>1 DEF GInv, TypeOK, Alone
<1>5. MemStep(t, {}, n)
  <2>1. Pair(t) \in twice \/ \A x \in List(g) : uid[x] # req[t].uid
    BY <1>1 DEF LInv, ThreadOK, AbsentOK
  <2>2. \A x \in heap : home[x] # g => x \in Node /\ x # n
    BY <1>2 DEF GInv, TypeOK
  <2> QED BY <1>1, <1>2, <1>3, <2>1, <2>2 DEF MemStep, Changers
<1>6. g \notin raced => next[n] = GARBAGE /\ uid[n] = GARBAGE
  BY <1>1 DEF LInv, ThreadOK, ChangeOK
<1>7. ASSUME g \notin raced' PROVE KeepStep(g)
  <2>1. \A x \in List(g) : x \in Node
    BY <1>2, ListHome
  <2> QED BY <1>1, <1>3, <1>6, <1>7, <2>1 DEF KeepStep, GroupsAssumption
<1>8. ListStep(t, {}, n)
  BY <1>4, <1>5, <1>7 DEF ListStep
<1>9. copies'[t] = <<>>
  BY <1>1, NoCopies
<1>10. ThreadOK(t)'
  BY <1>1, <1>3, <1>4, <1>6, <1>9 DEF ThreadOK, WalkOK, AbsentOK, ChangeOK, ForwardOK, InList
<1>11. OneChanger' /\ OneJoiner'
  BY <1>1, <1>4, ChangerStays, JoinerStays DEF Changers, Joins
<1> QED BY <1>1, <1>8, <1>10, <1>11, StepLInv

LEMMA CreateNextLInv ==
  ASSUME GroupsAssumption, GInv, LInv, NEW t \in Thread, CreateNext(t)
  PROVE  LInv'
<1> DEFINE g == req[t].gid
           n == groups[g]
<1>1. /\ pc[t] = "setnext" /\ next' = [next EXCEPT ![n] = NULL] /\ pc' = [pc EXCEPT ![t] = "reply"]
      /\ joined' = joined \cup {<<req[t].uid, g>>}
      /\ UNCHANGED <<groups, uid, raced, twice, home, req, cur, copies, must>>
  BY DEF CreateNext, Goto, local
<1>2. g \in Gid /\ n \in Node /\ n \in heap /\ home[n] = g
  BY <1>1 DEF GInv, StepInv, Named, Writing, HomeInv, TypeOK
<1>3. next'[n] = NULL /\ \A x \in Node : x # n => next'[x] = next[x]
  BY <1>1, <1>2 DEF GInv, TypeOK
<1>4. Alone(t) /\ pc'[t] = "reply" /\ copies'[t] = <<>>
  BY <1>1, NoCopies DEF GInv, TypeOK, Alone
<1>5. MemStep(t, {}, NULL)
  <2>1. \A x \in heap : home[x] # g => x \in Node /\ x # n
    BY <1>2 DEF GInv, TypeOK
  <2> QED BY <1>1, <1>3, <2>1 DEF MemStep, Changers
<1>6. g \notin raced => next[n] = GARBAGE /\ uid[n] = req[t].uid
  BY <1>1 DEF LInv, ThreadOK, ChangeOK
<1>7. ASSUME g \notin raced' PROVE KeepStep(g)
  <2>1. \A x \in List(g) : x \in Node
    BY <1>2, ListHome
  <2> QED BY <1>1, <1>3, <1>6, <1>7, <2>1 DEF KeepStep, GroupsAssumption
<1>8. ListStep(t, {}, NULL)
  BY <1>4, <1>5, <1>7 DEF ListStep
<1>9. "reply" \notin Changers
  BY DEF Changers, InList
<1>10. ThreadOK(t)' /\ OneChanger' /\ OneJoiner'
  BY <1>4, <1>9, PlainThread, ChangerStays, JoinerStays DEF Joins
<1>11. ASSUME NEW v \in User, NEW h \in Gid, <<v, h>> \in joined', h \notin raced'
       PROVE  <<v, h>> \in joined \/ \E x \in From(next', groups'[h]) : uid'[x] = v
  <2>1. CASE v = req[t].uid /\ h = g
    <3>1. n \in From(next', n)
      BY <1>2, FromStart
    <3> QED BY <1>1, <1>6, <1>11, <2>1, <3>1
  <2> QED BY <1>1, <1>11, <2>1
<1> QED BY <1>8, <1>10, <1>11, StepLInv
-----------------------------------------------------------------------------
(* The walk of check_user_in_group, and what follows it *)

LEMMA EntryLInv ==
  ASSUME GroupsAssumption, GInv, LInv, NEW t \in Thread, Entry(t)
  PROVE  LInv'
<1> DEFINE g == req[t].gid
<1>1. CASE Done(t)
  <2>1. UNCHANGED twice
    BY <1>1 DEF Entry, Done, Goto, GInv, TypeOK
  <2> QED BY <1>1, <2>1, DoneLInv DEF Entry, mem
<1>2. CASE ~Done(t)
  <2>1. /\ pc[t] = "entry" /\ cur' = [cur EXCEPT ![t] = groups[g]] /\ pc' = [pc EXCEPT ![t] = "check"]
        /\ twice' = (IF req[t].op = "INVITE_RESP" THEN TwiceWith(t, g) ELSE twice)
        /\ UNCHANGED <<groups, next, uid, req, copies, must, joined, raced, home>>
    BY <1>2 DEF Entry, Goto, mem
  <2>2. pc'[t] = "check" /\ cur'[t] = groups[g] /\ Alone(t)
    BY <2>1 DEF GInv, TypeOK, Alone, TwiceWith
  <2>3. ListStep(t, {}, NULL)
    BY <2>1, <2>2, QuietStep
  <2>4. Seen(t, {})'
    BY <2>1, <2>2 DEF Seen
  <2>5. copies'[t] = <<>>
    BY <2>1, NoCopies
  <2>6. ThreadOK(t)'
    BY <2>2, <2>4, <2>5 DEF ThreadOK, WalkOK, AbsentOK, ChangeOK, ForwardOK, InList
  <2>7. OneChanger'
    BY <2>2, ChangerStays DEF Changers, InList
  <2>8. OneJoiner'
    <3>1. ASSUME NEW v \in Thread, v # t, Joins(v)', Joins(t)', req'[v].uid = req[t].uid, req'[v].gid = g
          PROVE  <<req[t].uid, g>> \in twice'
      <4>1. Joining(v, req[t].uid, g) /\ req[t].op = "INVITE_RESP"
        BY <2>1, <2>2, <3>1 DEF Alone, Joins, Joining, Changers, InList
      <4> QED BY <2>1, <3>1, <4>1 DEF TwiceWith
    <3> QED BY <2>1, <2>2, <3>1 DEF LInv, OneJoiner, Joins, Pair, Alone
  <2> QED BY <2>1, <2>3, <2>6, <2>7, <2>8, StepLInv
<1> QED BY <1>1, <1>2

LEMMA CheckNextLInv ==
  ASSUME GroupsAssumption, GInv, LInv, NEW t \in Thread, CheckNext(t)
  PROVE  LInv'
<1>1. CASE Crash
  BY <1>1, CrashLInv
<1>2. CASE ~Crash
  <2>1. /\ pc[t] = "check" /\ cur[t] # NULL /\ uid[cur[t]] # req[t].uid
        /\ \/ next[cur[t]] # GARBAGE /\ cur' = [cur EXCEPT ![t] = next[cur[t]]]
           \/ next[cur[t]] = GARBAGE /\ cur' = [cur EXCEPT ![t] = NULL]
        /\ UNCHANGED <<groups, next, uid, pc, req, copies, must, joined, raced, twice, home>>
    BY <1>2 DEF CheckNext, Advance, StrayNext, mem, hist
  <2>2. cur[t] \in Node
    BY <2>1 DEF GInv, TypeOK
  <2>3. Alone(t) /\ (next[cur[t]] # GARBAGE => cur'[t] = next[cur[t]])
    BY <2>1 DEF GInv, TypeOK, Alone
  <2>4. ListStep(t, {}, NULL)
    BY <2>1, <2>3, QuietStep
  <2>7. ASSUME req[t].op = "INVITE_RESP", Pair(t) \notin twice PROVE \E B \in SUBSET Node : Seen(t, B)'
    <3>1. PICK A \in SUBSET Node : Seen(t, A)
      BY <2>1, <2>7 DEF LInv, ThreadOK, WalkOK
    <3>2. PICK B \in SUBSET Node : B = A \cup {cur[t]}
      BY <2>2
    <3>3. Seen(t, B)'
      BY <2>1, <2>3, <3>1, <3>2 DEF Seen
    <3> QED BY <3>3
  <2>8. copies'[t] = <<>>
    BY <2>1, NoCopies
  <2>9. WalkOK(t)'
    BY <2>1, <2>7 DEF WalkOK, Pair
  <2>10. ThreadOK(t)'
    BY <2>1, <2>8, <2>9 DEF ThreadOK, AbsentOK, ChangeOK, ForwardOK, InList
  <2>11. OneChanger' /\ OneJoiner'
    BY <2>1, <2>3, ChangerStays, JoinerStays DEF Changers, InList, Joins
  <2> QED BY <2>1, <2>4, <2>10, <2>11, StepLInv
<1> QED BY <1>1, <1>2

\* The walk has passed the whole list, so the user is not in it.
LEMMA NotFoundLInv ==
  ASSUME GroupsAssumption, GInv, LInv, NEW t \in Thread, NotFound(t)
  PROVE  LInv'
<1> DEFINE g == req[t].gid
<1>1. CASE ~(req[t].op = "INVITE_RESP" /\ req[t].accept)
  BY <1>1, DoneLInv DEF NotFound, mem
<1>2. CASE req[t].op = "INVITE_RESP" /\ req[t].accept
  <2>1. /\ pc[t] = "check" /\ cur[t] = NULL
        /\ cur' = [cur EXCEPT ![t] = groups[g]] /\ pc' = [pc EXCEPT ![t] = "tail"]
        /\ raced' = (IF Changing(t, g) THEN raced \cup {g} ELSE raced)
        /\ UNCHANGED <<groups, next, uid, req, copies, must, joined, twice, home>>
    BY <1>2 DEF NotFound, Goto, mem
  <2>2. pc'[t] = "tail" /\ cur'[t] = groups[g] /\ Alone(t)
    BY <2>1 DEF GInv, TypeOK, Alone
  <2>3. ListStep(t, {}, NULL)
    BY <2>1, <2>2, QuietStep
  <2>4. g \in Gid /\ groups[g] \in Node
    BY <2>1 DEF GInv, StepInv, Named, TypeOK
  <2>5. ASSUME Pair(t) \notin twice, NEW n \in List(g) PROVE uid[n] # req[t].uid
    <3>1. PICK A \in SUBSET Node : Seen(t, A)
      BY <1>2, <2>1, <2>5 DEF LInv, ThreadOK, WalkOK
    <3>2. groups[g] \in A /\ Closed(next, A)
      BY <2>1, <2>4, <3>1 DEF Seen, Closed, GroupsAssumption
    <3>3. n \in A
      BY <3>2, FromLeast DEF List
    <3>4. home[n] = g
      BY <2>4, ListHome
    <3> QED BY <3>1, <3>3, <3>4 DEF Seen
  <2>8. AbsentOK(t)'
    BY <2>1, <2>5 DEF AbsentOK, List, Pair
  <2>9. groups[g] \in List(g)
    BY <2>4, FromStart DEF List
  <2>10. ChangeOK(t)'
    BY <2>1, <2>2, <2>9 DEF ChangeOK, List
  <2>11. copies'[t] = <<>>
    BY <2>1, NoCopies
  <2>12. ThreadOK(t)'
    BY <2>2, <2>8, <2>10, <2>11 DEF ThreadOK, WalkOK, ForwardOK
  <2>13. OneChanger'
    <3>1. ASSUME NEW v \in Thread, v # t, pc'[v] \in Changers, req'[v].gid = g PROVE g \in raced'
      <4>1. pc[v] \in Changers /\ req[v].gid = g
        BY <2>2, <3>1 DEF Alone
      <4>2. Changing(t, g)
        BY <3>1, <4>1 DEF Changing, Changers, InList
      <4> QED BY <2>1, <4>2
    <3>2. req'[t].gid = g
      BY <2>1
    <3> QED BY <2>2, <3>1, <3>2 DEF LInv, OneChanger, Alone
  <2>14. OneJoiner'
    BY <1>2, <2>1, <2>2, JoinerStays DEF Joins
  <2> QED BY <2>1, <2>3, <2>12, <2>13, <2>14, StepLInv
<1> QED BY <1>1, <1>2

\* forward_to_group starts with all of the list ahead of it.
LEMMA FoundLInv ==
  ASSUME GroupsAssumption, GInv, LInv, NEW t \in Thread,
         FoundResp(t) \/ FoundInvite(t) \/ FoundChat(t) \/ FoundDownload(t) \/ Announce(t)
  PROVE  LInv'
<1> DEFINE g == req[t].gid
<1>1. CASE Done(t)
  BY <1>1, DoneLInv DEF FoundResp, FoundInvite, FoundChat, FoundDownload, Announce, mem, hist
<1>2. CASE ~Done(t)
  <2>1. /\ pc[t] \in {"check", "announce"} /\ (pc[t] = "announce" => g \in Gid)
        /\ pc' = [pc EXCEPT ![t] = "forward"] /\ cur' = [cur EXCEPT ![t] = groups[g]]
        /\ must' = [must EXCEPT ![t] = {v \in User : <<v, g>> \in joined}]
        /\ UNCHANGED <<groups, next, uid, req, copies, joined, raced, twice, home>>
    BY <1>2 DEF FoundResp, FoundInvite, FoundChat, FoundDownload, Announce, Found, Goto, mem, hist
  <2>2. pc'[t] = "forward" /\ cur'[t] = groups[g] /\ Alone(t) /\ must'[t] = {v \in User : <<v, g>> \in joined}
    BY <2>1 DEF GInv, TypeOK, Alone
  <2>3. ListStep(t, {}, NULL)
    BY <2>1, <2>2, QuietStep
  <2>4. g \in Gid /\ groups[g] \in Node \cup {NULL}
    BY <2>1 DEF GInv, StepInv, Named, TypeOK
  <2>5. groups[g] # NULL => groups[g] \in List(g)
    BY <2>4, FromStart DEF List
  <2>6. copies'[t] = <<>>
    BY <2>1, NoCopies
  <2>7. Range(<<>>) = {} /\ OnceIn(<<>>, g)'
    BY DEF OnceIn, Range
  <2>8. ASSUME g \notin raced, NEW v \in must'[t] PROVE \E n \in List(g) : uid[n] = v
    BY <2>2, <2>4, <2>8 DEF LInv, JoinInv
  <2>9. ForwardOK(t)'
    BY <2>1, <2>2, <2>5, <2>6, <2>7, <2>8 DEF ForwardOK, List
  <2>10. ThreadOK(t)'
    BY <2>2, <2>9 DEF ThreadOK, WalkOK, AbsentOK, ChangeOK, InList
  <2>11. OneChanger' /\ OneJoiner'
    BY <2>2, ChangerStays, JoinerStays DEF Changers, InList, Joins
  <2> QED BY <2>1, <2>3, <2>10, <2>11, StepLInv
<1> QED BY <1>1, <1>2
-----------------------------------------------------------------------------
(* group_add_tail *)

LEMMA TailWalkLInv ==
  ASSUME GroupsAssumption, GInv, LInv, NEW t \in Thread, TailWalk(t)
  PROVE  LInv'
<1> DEFINE g == req[t].gid
<1>1. CASE Crash
  BY <1>1, CrashLInv
<1>2. CASE ~Crash
  <2>1. /\ pc[t] = "tail" /\ UNCHANGED <<groups, next, uid, req, copies, must, joined, raced, twice, home>>
        /\ \/ next[cur[t]] \in Node /\ cur' = [cur EXCEPT ![t] = next[cur[t]]] /\ pc' = pc
           \/ next[cur[t]] \in {NULL, GARBAGE} /\ pc' = [pc EXCEPT ![t] = "append"] /\ cur' = cur
    BY <1>2 DEF TailWalk, StrayNext, Goto, mem, local, hist
  <2>2. Alone(t)
    BY <2>1 DEF GInv, TypeOK, Alone
  <2>3. ListStep(t, {}, NULL)
    BY <2>1, <2>2, QuietStep
  <2>4. Pair(t) \in twice \/ \A n \in List(g) : uid[n] # req[t].uid
    BY <2>1 DEF LInv, ThreadOK, AbsentOK
  <2>5. g \notin raced => cur[t] \in List(g)
    BY <2>1 DEF LInv, ThreadOK, ChangeOK, InList
  <2>6. copies'[t] = <<>>
    BY <2>1, NoCopies
  <2>7. g \in Gid /\ next \in Pointers
    BY <2>1 DEF GInv, StepInv, Named, Writing, InList, TypeOK, Pointers
  <2>8. CASE next[cur[t]] \in Node
    <3>1. pc'[t] = "tail" /\ cur'[t] = next[cur[t]]
      BY <2>1, <2>8 DEF GInv, TypeOK, GroupsAssumption
    <3>2. g \notin raced => next[cur[t]] \in List(g)
      BY <2>5, <2>7, <2>8, FromClosed DEF List, Closed, GroupsAssumption
    <3>3. AbsentOK(t)' /\ ChangeOK(t)'
      BY <2>1, <2>4, <3>1, <3>2 DEF AbsentOK, ChangeOK, List, Pair
    <3> QED BY <2>1, <2>2, <2>3, <2>6, <3>1, <3>3, StepLInv, ChangerStays, JoinerStays
            DEF ThreadOK, WalkOK, ForwardOK, Changers, InList, Joins
  <2>9. CASE next[cur[t]] \notin Node
    <3>1. pc'[t] = "append" /\ cur' = cur
      BY <2>1, <2>9 DEF GInv, TypeOK
    <3>2. AbsentOK(t)' /\ ChangeOK(t)'
      BY <2>1, <2>4, <2>5, <2>9, <3>1 DEF AbsentOK, ChangeOK, List, Pair
    <3> QED BY <2>1, <2>2, <2>3, <2>6, <3>1, <3>2, StepLInv, ChangerStays, JoinerStays
            DEF ThreadOK, WalkOK, ForwardOK, Changers, InList, Joins
  <2> QED BY <2>8, <2>9
<1> QED BY <1>1, <1>2

\* The last node of the list gets a successor, or the NULL that malloc returns.
LEMMA AppendLinkLInv ==
  ASSUME GroupsAssumption, GInv, LInv, NEW t \in Thread, AppendLink(t)
  PROVE  LInv'
<1> DEFINE g == req[t].gid
           c == cur[t]
           Y == IF heap # Node THEN {Malloc} ELSE {}
<1>1. /\ pc[t] = "append" /\ pc' = [pc EXCEPT ![t] = "appenduid"]
      /\ UNCHANGED <<groups, uid, req, cur, copies, must, joined, raced, twice>>
  BY DEF AppendLink, Goto, local
<1>2. g \in Gid /\ c \in Node /\ c \in heap /\ home[c] = g
  BY <1>1 DEF GInv, StepInv, Named, Writing, InList, TypeOK, HomeInv
<1>3. PICK k \in Y \cup {NULL} : next' = [next EXCEPT ![c] = k]
  BY DEF AppendLink
<1>4. Y \in SUBSET Node /\ (\A y \in Y : y \notin heap) /\ \A x \in Node : x \in Y \/ home'[x] = home[x]
  BY MallocFresh DEF GInv, TypeOK, AppendLink
<1> HIDE DEF Y
<1>5. next'[c] = k /\ \A x \in Node : x # c => next'[x] = next[x]
  BY <1>2, <1>3 DEF GInv, TypeOK
<1>6. \A y \in Y : next'[y] = GARBAGE /\ uid'[y] = GARBAGE
  <2>1. \A y \in Y : y # c /\ y \in Node /\ next[y] = GARBAGE /\ uid[y] = GARBAGE
    BY <1>2, <1>4 DEF GInv, HomeInv
  <2> QED BY <1>1, <1>5, <2>1
<1>7. pc'[t] = "appenduid" /\ Alone(t)
  BY <1>1 DEF GInv, TypeOK, Alone
<1>8. MemStep(t, Y, NULL)
  <2>1. \A x \in heap : home[x] # g => x \in Node /\ x # c
    BY <1>2 DEF GInv, TypeOK
  <2>2. pc[t] \in Changers
    BY <1>1 DEF Changers, InList
  <2> QED BY <1>1, <1>4, <1>5, <1>6, <2>1, <2>2 DEF MemStep
<1>9. g \notin raced => next[c] \notin Node /\ c \in List(g)
  BY <1>1 DEF LInv, ThreadOK, ChangeOK, InList
<1>10. ASSUME g \notin raced' PROVE KeepStep(g)
  <2>1. \A x \in List(g) : x \in Node
    BY <1>2, ListHome
  <2>2. g \notin raced
    BY <1>1, <1>10
  <2> QED BY <1>1, <1>5, <1>9, <2>1, <2>2 DEF KeepStep
<1>11. ListStep(t, Y, NULL)
  BY <1>7, <1>8, <1>10 DEF ListStep
<1>12. AbsentOK(t)'
  <2>0. req[t].uid # GARBAGE
    BY <1>1 DEF GInv, StepInv, GroupsAssumption
  <2>1. Pair(t) \in twice \/ \A n \in List(g) : uid[n] # req[t].uid
    BY <1>1 DEF LInv, ThreadOK, AbsentOK
  <2>2. From(next', groups'[g]) \subseteq List(g) \cup Y
    BY <1>2, <1>4, <1>8, AddsAll
  <2>3. Pair(t) \in twice \/ \A n \in From(next', groups'[g]) : uid'[n] # req[t].uid
    BY <1>1, <1>6, <2>0, <2>1, <2>2
  <2> QED BY <1>1, <2>3 DEF AbsentOK, List, Pair
<1>13. ChangeOK(t)'
  <2> SUFFICES ASSUME g \notin raced PROVE ChangeOK(t)'
    BY <1>1 DEF ChangeOK
  <2>1. c \in From(next', groups'[g])
    BY <1>1, <1>2, <1>4, <1>9, <1>11, KeepAll
  <2>2. next'[c] \in Node => next'[c] \in Y
    BY <1>5 DEF GroupsAssumption
  <2> QED BY <1>1, <1>6, <1>7, <2>1, <2>2 DEF ChangeOK, List
<1>14. copies'[t] = <<>>
  BY <1>1, NoCopies
<1>15. ThreadOK(t)'
  BY <1>7, <1>12, <1>13, <1>14 DEF ThreadOK, WalkOK, ForwardOK
<1>16. OneChanger' /\ OneJoiner'
  BY <1>1, <1>7, ChangerStays, JoinerStays DEF Changers, InList, Joins
<1> QED BY <1>1, <1>4, <1>11, <1>15, <1>16, StepLInv

LEMMA AppendUidLInv ==
  ASSUME GroupsAssumption, GInv, LInv, NEW t \in Thread, AppendUid(t)
  PROVE  LInv'
<1> DEFINE g == req[t].gid
           n == next[cur[t]]
<1>1. CASE n \notin Node
  BY <1>1, DoneLInv DEF AppendUid, hist
<1>2. CASE n \in Node
  <2>1. /\ pc[t] = "appenduid" /\ uid' = [uid EXCEPT ![n] = req[t].uid] /\ pc' = [pc EXCEPT ![t] = "appendnext"]
        /\ UNCHANGED <<groups, next, req, cur, copies, must, joined, raced, twice, home>>
    BY <1>2 DEF AppendUid, Goto, Stay, local, hist, GroupsAssumption
  <2>2. g \in Gid /\ cur[t] \in Node /\ n \in heap /\ home[n] = g
    BY <1>2, <2>1 DEF GInv, StepInv, Named, Writing, InList, TypeOK, HomeInv
  <2>3. uid'[n] = req[t].uid /\ \A x \in Node : x # n => uid'[x] = uid[x]
    BY <1>2, <2>1 DEF GInv, TypeOK
  <2>4. pc'[t] = "appendnext" /\ Alone(t)
    BY <2>1 DEF GInv, TypeOK, Alone
  <2>5. MemStep(t, {}, n)
    <3>1. Pair(t) \in twice \/ \A x \in List(g) : uid[x] # req[t].uid
      BY <2>1 DEF LInv, ThreadOK, AbsentOK
    <3>2. \A x \in heap : home[x] # g => x \in Node /\ x # n
      BY <2>2 DEF GInv, TypeOK
    <3>3. pc[t] \in Changers
      BY <2>1 DEF Changers, InList
    <3> QED BY <2>1, <2>2, <2>3, <3>1, <3>2, <3>3 DEF MemStep
  <2>6. g \notin raced => cur[t] \in List(g) /\ next[n] = GARBAGE /\ uid[n] = GARBAGE
    BY <1>2, <2>1 DEF LInv, ThreadOK, ChangeOK, InList
  <2>7. ASSUME g \notin raced' PROVE KeepStep(g)
    <3>1. \A x \in List(g) : x \in Node
      BY <2>2, ListHome
    <3> QED BY <2>1, <2>3, <2>6, <2>7, <3>1 DEF KeepStep, GroupsAssumption
  <2>8. ListStep(t, {}, n)
    BY <2>4, <2>5, <2>7 DEF ListStep
  <2>9. copies'[t] = <<>>
    BY <2>1, NoCopies
  <2>10. ThreadOK(t)'
    BY <1>2, <2>1, <2>3, <2>4, <2>6, <2>9 DEF ThreadOK, WalkOK, AbsentOK, ChangeOK, ForwardOK, List
  <2>11. OneChanger' /\ OneJoiner'
    BY <2>1, <2>4, ChangerStays, JoinerStays DEF Changers, InList, Joins
  <2> QED BY <2>1, <2>8, <2>10, <2>11, StepLInv
<1> QED BY <1>1, <1>2

LEMMA AppendNextLInv ==
  ASSUME GroupsAssumption, GInv, LInv, NEW t \in Thread, AppendNext(t)
  PROVE  LInv'
<1> DEFINE g == req[t].gid
           n == next[cur[t]]
<1>1. CASE n \notin Node
  BY <1>1, CrashLInv DEF AppendNext
<1>2. CASE n \in Node
  <2>1. /\ pc[t] = "appendnext" /\ next' = [next EXCEPT ![n] = NULL] /\ Done(t)
        /\ joined' = joined \cup {<<req[t].uid, g>>}
        /\ UNCHANGED <<groups, uid, raced, twice, home>>
    BY <1>2 DEF AppendNext, GroupsAssumption
  <2>2. g \in Gid /\ cur[t] \in Node /\ n \in heap /\ home[n] = g
    BY <1>2, <2>1 DEF GInv, StepInv, Named, Writing, InList, TypeOK, HomeInv
  <2>3. next'[n] = NULL /\ \A x \in Node : x # n => next'[x] = next[x]
    BY <1>2, <2>1 DEF GInv, TypeOK
  <2>4. Alone(t) /\ pc'[t] = "idle" /\ copies'[t] = <<>>
    BY <2>1, DoneFacts
  <2>5. MemStep(t, {}, NULL)
    <3>1. \A x \in heap : home[x] # g => x \in Node /\ x # n
      BY <2>2 DEF GInv, TypeOK
    <3>2. pc[t] \in Changers
      BY <2>1 DEF Changers, InList
    <3> QED BY <2>1, <2>3, <3>1, <3>2 DEF MemStep
  <2>6. g \notin raced => cur[t] \in List(g) /\ next[n] = GARBAGE /\ uid[n] = req[t].uid
    BY <1>2, <2>1 DEF LInv, ThreadOK, ChangeOK, InList
  <2>7. ASSUME g \notin raced' PROVE KeepStep(g)
    <3>1. \A x \in List(g) : x \in Node
      BY <2>2, ListHome
    <3> QED BY <2>1, <2>3, <2>6, <2>7, <3>1 DEF KeepStep, GroupsAssumption
  <2>8. ListStep(t, {}, NULL)
    BY <2>4, <2>5, <2>7 DEF ListStep
  <2>9. "idle" \notin Changers
    BY DEF Changers, InList
  <2>10. ThreadOK(t)' /\ OneChanger' /\ OneJoiner'
    BY <2>4, <2>9, PlainThread, ChangerStays, JoinerStays DEF Joins
  <2>11. ASSUME NEW v \in User, NEW h \in Gid, <<v, h>> \in joined', h \notin raced'
         PROVE  <<v, h>> \in joined \/ \E x \in From(next', groups'[h]) : uid'[x] = v
    <3>1. CASE v = req[t].uid /\ h = g
      <4>1. g \notin raced
        BY <2>1, <2>11, <3>1
      <4>2. n \in List(g)
        <5>1. Closed(next, List(g))
          BY FromClosed DEF List, GInv, TypeOK, Pointers
        <5> QED BY <1>2, <2>6, <4>1, <5>1 DEF Closed, GroupsAssumption
      <4>3. n \in From(next', groups'[g])
        BY <2>2, <2>8, <2>11, <3>1, <4>2, KeepAll
      <4> QED BY <2>1, <2>6, <3>1, <4>1, <4>3
    <3> QED BY <2>1, <2>11, <3>1
  <2> QED BY <2>8, <2>10, <2>11, StepLInv
<1> QED BY <1>1, <1>2
-----------------------------------------------------------------------------
(* forward_to_group *)

LEMMA AppendRange ==
  ASSUME NEW s \in Seq(User), NEW w \in User, NEW g
  PROVE  /\ Range(Append(s, w)) = Range(s) \cup {w}
         /\ OnceIn(s, g) /\ (w \notin Range(s) \/ <<w, g>> \in twice) => OnceIn(Append(s, w), g)
<1> DEFINE q == Append(s, w)
<1>1. /\ Len(s) \in Nat /\ DOMAIN s = 1 .. Len(s)
      /\ q \in Seq(User) /\ Len(q) = Len(s) + 1 /\ DOMAIN q = 1 .. Len(s) + 1
      /\ \A i \in 1 .. Len(s) : q[i] = s[i]
      /\ q[Len(s) + 1] = w
  BY AppendProperties, LenProperties
<1> HIDE DEF q
<1>2. \A i \in DOMAIN q : i \in DOMAIN s \/ i = Len(s) + 1
  BY <1>1
<1>3. \A i \in DOMAIN s : i \in DOMAIN q /\ q[i] = s[i]
  BY <1>1
<1>4. Len(s) + 1 \in DOMAIN q
  BY <1>1
<1>5. Range(q) = Range(s) \cup {w}
  BY <1>1, <1>2, <1>3, <1>4 DEF Range
<1>6. ASSUME OnceIn(s, g), w \notin Range(s) \/ <<w, g>> \in twice PROVE OnceIn(q, g)
  <2> SUFFICES ASSUME NEW i \in DOMAIN q, NEW j \in DOMAIN q, q[i] = q[j], i # j
               PROVE  <<q[i], g>> \in twice
    BY DEF OnceIn
  <2>1. CASE i \in DOMAIN s /\ j \in DOMAIN s
    BY <1>3, <1>6, <2>1 DEF OnceIn
  <2>2. CASE i = Len(s) + 1 /\ j \in DOMAIN s
    BY <1>1, <1>3, <1>6, <2>2 DEF Range
  <2>3. CASE j = Len(s) + 1 /\ i \in DOMAIN s
    BY <1>1, <1>3, <1>6, <2>3 DEF Range
  <2> QED BY <1>2, <2>1, <2>2, <2>3
<1> QED BY <1>5, <1>6 DEF q

\* One turn: the node's user is served, and is neither behind nor ahead.
LEMMA ForwardLInv ==
  ASSUME GroupsAssumption, GInv, LInv, NEW t \in Thread, Forward(t)
  PROVE  LInv'
<1> DEFINE g == req[t].gid
           c == cur[t]
           d == cur'[t]
<1>1. /\ pc[t] = "forward" /\ c # NULL
      /\ copies' = (IF uid[c] = GARBAGE THEN copies ELSE [copies EXCEPT ![t] = Append(@, uid[c])])
      /\ \/ next[c] # GARBAGE /\ cur' = [cur EXCEPT ![t] = next[c]]
         \/ next[c] = GARBAGE /\ cur' = [cur EXCEPT ![t] = NULL]
      /\ UNCHANGED <<groups, next, uid, pc, req, must, joined, raced, twice, home>>
  BY DEF Forward, Advance, mem, hist
<1>2. Alone(t)
  BY <1>1 DEF GInv, TypeOK, Alone
<1>3. ListStep(t, {}, NULL)
  BY <1>1, <1>2, QuietStep
<1>4. g \in Gid /\ c \in Node /\ next \in Pointers /\ copies[t] \in Seq(User)
  BY <1>1 DEF GInv, StepInv, Named, TypeOK, Pointers
<1>5. d = IF next[c] \in Node THEN next[c] ELSE NULL
  BY <1>1, <1>4 DEF GInv, TypeOK, GroupsAssumption
<1>6. copies'[t] = IF uid[c] = GARBAGE THEN copies[t] ELSE Append(copies[t], uid[c])
  BY <1>1 DEF GInv, TypeOK
<1> HIDE DEF d
<1>7. ForwardOK(t)'
  <2>1. CASE g \in raced
    BY <1>1, <2>1 DEF ForwardOK
  <2>2. CASE g \notin raced
    <3>1. /\ c \in List(g)
          /\ OnceIn(copies[t], g)
          /\ \A v \in Range(copies[t]) : \E n \in List(g) : uid[n] = v
          /\ \A n \in From(next, c) : uid[n] \in Range(copies[t]) => <<uid[n], g>> \in twice
          /\ \A v \in must[t] : v \in Range(copies[t]) \/ \E n \in From(next, c) : uid[n] = v
      BY <1>1, <2>2 DEF LInv, ThreadOK, ForwardOK
    <3>2. c \in From(next, c) /\ From(next, c) \subseteq List(g)
      BY <1>4, <3>1, FromStart, FromTrans DEF List
    <3>3. From(next, c) \in SUBSET Node /\ Closed(next, From(next, c))
      BY <1>4, FromClosed
    <3>4. From(next, NULL) = {}
      BY DEF From
    <3>5. From(next, d) \subseteq From(next, c) /\ c \notin From(next, d)
      <4>1. CASE next[c] \in Node
        <5>1. next[c] \in From(next, c)
          BY <3>2, <3>3, <4>1 DEF Closed, GroupsAssumption
        <5> QED BY <1>4, <1>5, <4>1, <5>1, FromTrans DEF LInv, AcyclicInv
      <4>2. CASE next[c] \notin Node
        BY <1>5, <3>4, <4>2
      <4> QED BY <4>1, <4>2
    <3>6. \A n \in From(next, c) : n = c \/ n \in From(next, d)
      BY <1>4, <1>5, FromUnfold
    <3>7. d # NULL => d \in List(g)
      <4>1. CASE next[c] \in Node
        BY <1>5, <3>2, <3>3, <4>1 DEF Closed, GroupsAssumption
      <4> QED BY <1>5, <4>1
    <3>8. \A v \in must[t] : v \in User
      BY DEF GInv, TypeOK
    <3>9. CASE uid[c] = GARBAGE
      <4>1. \A v \in must[t] : v \in Range(copies[t]) \/ \E n \in From(next, d) : uid[n] = v
        BY <3>1, <3>6, <3>8, <3>9 DEF GroupsAssumption
      <4>2. copies'[t] = copies[t]
        BY <1>6, <3>9
      <4>3. OnceIn(copies[t], g)'
        <5>1. req'[t] = req[t] /\ twice' = twice /\ OnceIn(copies[t], g)
          BY <1>1, <3>1
        <5> QED BY <4>2, <5>1 DEF OnceIn
      <4>4. \A n \in From(next, d) : uid[n] \in Range(copies[t]) => <<uid[n], g>> \in twice
        BY <3>1, <3>5
      <4> QED BY <1>1, <3>1, <3>7, <4>1, <4>2, <4>3, <4>4 DEF ForwardOK, List, d
    <3>10. CASE uid[c] # GARBAGE
      <4>1. uid[c] \in User
        BY <1>4, <3>10 DEF GInv, TypeOK
      <4>2. copies'[t] = Append(copies[t], uid[c])
        BY <1>6, <3>10
      <4>3. uid[c] \notin Range(copies[t]) \/ <<uid[c], g>> \in twice
        BY <3>1, <3>2
      <4>4. OnceIn(copies'[t], g) /\ Range(copies'[t]) = Range(copies[t]) \cup {uid[c]}
        BY <1>4, <3>1, <4>1, <4>2, <4>3, AppendRange
      <4>5. \A n \in From(next, d) : uid[n] \in Range(copies'[t]) => <<uid[n], g>> \in twice
        <5> SUFFICES ASSUME NEW n \in From(next, d), uid[n] = uid[c] PROVE <<uid[n], g>> \in twice
          BY <3>1, <3>5, <4>4
        <5>1. n \in List(g) /\ n # c
          BY <3>2, <3>5
        <5> QED BY <1>4, <3>1, <4>1, <5>1 DEF LInv, OnceInv
      <4>6. \A v \in must[t] : v \in Range(copies'[t]) \/ \E n \in From(next, d) : uid[n] = v
        BY <3>1, <3>6, <4>4
      <4>7. \A v \in Range(copies'[t]) : \E n \in List(g) : uid[n] = v
        BY <3>1, <4>4
      <4> QED BY <1>1, <3>7, <4>4, <4>5, <4>6, <4>7 DEF ForwardOK, OnceIn, List, d
    <3> QED BY <3>9, <3>10
  <2> QED BY <2>1, <2>2
<1>8. ThreadOK(t)'
  BY <1>1, <1>7 DEF ThreadOK, WalkOK, AbsentOK, ChangeOK, InList
<1>9. OneChanger' /\ OneJoiner'
  BY <1>1, <1>2, ChangerStays, JoinerStays DEF Changers, InList, Joins
<1> QED BY <1>1, <1>3, <1>8, <1>9, StepLInv

LEMMA NextLInv == GroupsAssumption /\ GInv /\ LInv /\ [Next]_vars => LInv'
<1> SUFFICES ASSUME GroupsAssumption, GInv, LInv, [Next]_vars PROVE LInv'
  OBVIOUS
<1>1. CASE UNCHANGED vars
  BY <1>1, SameLInv DEF vars, mem, local, hist
<1>2. ASSUME NEW t \in Thread, NEW r \in Requests, Receive(t, r) PROVE LInv'
  BY <1>2, ReceiveLInv
<1>3. ASSUME NEW t \in Thread, Works(t) \/ Talks(t) PROVE LInv'
  <2>1. CASE ForwardStray(t)
    BY <2>1, CrashLInv DEF ForwardStray, StrayNext
  <2>2. CASE ForwardEnd(t)
    BY <2>2, DoneLInv DEF ForwardEnd, mem, hist
  <2>3. CASE EntryOutside(t)
    BY <2>3, DoneLInv, CrashLInv DEF EntryOutside, mem, hist
  <2>4. CASE CreateReply(t)
    BY <2>4, DoneLInv DEF CreateReply, mem, hist
  <2> QED BY <1>3, <2>1, <2>2, <2>3, <2>4, ReceiveLInv, TakeGidLInv, CreateLinkLInv, CreateUidLInv, CreateNextLInv,
             EntryLInv, CheckNextLInv, NotFoundLInv, FoundLInv, TailWalkLInv, AppendLinkLInv,
             AppendUidLInv, AppendNextLInv, ForwardLInv DEF Works, Talks
<1> QED BY <1>1, <1>2, <1>3 DEF Next
-----------------------------------------------------------------------------
(* The theorems *)

\* The inductive invariant of the walks along the lists.
THEOREM ListsInvariance == Spec => [](GInv /\ LInv)
<1>1. Init => LInv
  BY GroupsAssumption, InitLInv
<1>2. GInv /\ LInv /\ [Next]_vars => LInv'
  BY GroupsAssumption, NextLInv
<1> QED BY <1>1, <1>2, GroupsInvariance, PTL DEF Spec

\* The check of INVITE_RESP and the append that follows it much later never let
\* the same user into a group twice, however the handlers interleave, unless two
\* connections of that user were joining it at the same time.
THEOREM ListedOnceCorrect == Spec => []ListedOnce
<1>1. LInv => ListedOnce
  BY ReachFrom DEF LInv, OnceInv, ListedOnce, List
<1> QED BY <1>1, ListsInvariance, PTL

\* forward_to_group sends a chat at most once to each member, while others join,
\* unless two handlers changed the list, or joined that member, at the same time.
THEOREM ForwardedOnceCorrect == Spec => []ForwardedOnce
<1>1. ASSUME LInv, NEW t \in Thread, req[t].gid \notin raced PROVE OnceIn(copies[t], req[t].gid)
  <2>1. CASE pc[t] = "forward"
    BY <1>1, <2>1 DEF LInv, ThreadOK, ForwardOK
  <2>2. CASE pc[t] # "forward"
    <3>1. copies[t] = <<>>
      BY <1>1, <2>2, NoCopies
    <3> QED BY <3>1 DEF OnceIn
  <2> QED BY <2>1, <2>2
<1>2. LInv => ForwardedOnce
  BY <1>1 DEF ForwardedOnce, OnceIn
<1> QED BY <1>2, ListsInvariance, PTL

\* Who created or joined a group is in its list from then on, unless two
\* handlers changed the list at the same time.
THEOREM JoinedCorrect == Spec => []JoinedIsMember
<1>1. ASSUME GroupsAssumption, GInv, LInv, NEW p \in joined, p[2] \notin raced PROVE p[1] \in Members(p[2])
  <2>1. p[1] \in User /\ p[2] \in Gid /\ <<p[1], p[2]>> \in joined
    <3>1. p \in User \X Gid
      BY <1>1 DEF GInv, TypeOK
    <3>2. p[1] \in User /\ p[2] \in Gid /\ p = <<p[1], p[2]>>
      BY <3>1
    <3> QED BY <1>1, <3>2
  <2>2. PICK n \in List(p[2]) : uid[n] = p[1]
    BY <1>1, <2>1 DEF LInv, JoinInv
  <2>3. n \in Reach(groups[p[2]]) /\ p[1] # GARBAGE
    BY <1>1, <2>1, <2>2, ReachFrom DEF List, GroupsAssumption
  <2> QED BY <2>2, <2>3 DEF Members
<1>2. GInv /\ LInv => JoinedIsMember
  BY <1>1, GroupsAssumption DEF JoinedIsMember
<1> QED BY <1>2, ListsInvariance, PTL

\* A handler leaves forward_to_group only at the end of the list.
LEMMA ForwardLeaves ==
  ASSUME GInv, Next, NEW t \in Thread, pc[t] = "forward", pc'[t] = "idle"
  PROVE  cur[t] = NULL
<1>1. PICK v \in Thread : (\E r \in Requests : Receive(v, r)) \/ Works(v) \/ Talks(v)
  BY DEF Next
<1>2. \E step \in Where : pc' = pc \/ pc' = [pc EXCEPT ![v] = step]
  <2>1. {"idle", "scan", "load", "store", "cap", "gid", "link", "setuid", "setnext", "reply", "entry",
         "check", "announce", "tail", "append", "appenduid", "appendnext", "forward"} = Where
    BY DEF Where
  <2>2. CASE (\E r \in Requests : Receive(v, r)) \/ ScanTest(v) \/ IncLoad(v) \/ IncStore(v) \/ Capacity(v)
             \/ TakeGid(v) \/ CreateLink(v) \/ CreateUid(v) \/ CreateNext(v)
    BY <2>1, <2>2 DEF Receive, ScanTest, IncLoad, IncStore, Capacity, TakeGid, CreateLink, CreateUid,
       CreateNext, Goto, Done, Crash
  <2>3. CASE EntryOutside(v) \/ Entry(v) \/ CheckNext(v) \/ NotFound(v) \/ FoundResp(v) \/ FoundInvite(v)
             \/ FoundChat(v) \/ FoundDownload(v) \/ Announce(v) \/ CreateReply(v)
    BY <2>1, <2>3 DEF EntryOutside, Entry, CheckNext, NotFound, FoundResp, FoundInvite, FoundChat,
       FoundDownload, Announce, CreateReply, Goto, Done, StrayNext, Crash
  <2>4. CASE TailWalk(v) \/ AppendLink(v) \/ AppendUid(v) \/ AppendNext(v)
             \/ Forward(v) \/ ForwardStray(v) \/ ForwardEnd(v)
    BY <2>1, <2>4 DEF TailWalk, AppendLink, AppendUid, AppendNext, Forward, ForwardStray, ForwardEnd,
       Goto, Done, StrayNext, Crash
  <2> QED BY <1>1, <2>2, <2>3, <2>4 DEF Works, Talks
<1>3. v = t
  BY <1>2 DEF GInv, TypeOK
<1>4. ForwardEnd(t)
  <2>1. Forward(t) \/ ForwardStray(t) \/ ForwardEnd(t)
    BY <1>1, <1>3 DEF Works, Talks, EntryOutside, FoundDownload, Announce, CreateReply, Receive, ScanTest, IncLoad, IncStore, Capacity, TakeGid, CreateLink,
       CreateUid, CreateNext, Entry, CheckNext, NotFound, FoundResp, FoundInvite, FoundChat, Found,
       TailWalk, AppendLink, AppendUid, AppendNext
  <2> QED BY <2>1 DEF Forward, ForwardStray, StrayNext, Crash
<1> QED BY <1>4 DEF ForwardEnd

\* forward_to_group reaches everybody who was a member when it began, unless two
\* handlers changed the list at the same time.
THEOREM ForwardCorrect == Spec => ForwardReachesAll
<1> DEFINE Reaches ==
             \A t \in Thread : pc[t] = "forward" /\ pc'[t] = "idle" /\ req[t].gid \notin raced
               => must[t] \subseteq Range(copies[t])
<1>1. GInv /\ LInv /\ [Next]_vars => [Reaches]_vars
  <2> SUFFICES ASSUME GInv, LInv, Next, NEW t \in Thread,
                      pc[t] = "forward", pc'[t] = "idle", req[t].gid \notin raced
               PROVE  must[t] \subseteq Range(copies[t])
    OBVIOUS
  <2>1. From(next, cur[t]) = {}
    BY ForwardLeaves DEF From
  <2> QED BY <2>1 DEF LInv, ThreadOK, ForwardOK
<1> QED BY <1>1, ListsInvariance, PTL DEF Spec, ForwardReachesAll
=============================================================================
