------------------------- MODULE ServerGroupsProofs -------------------------
(***************************************************************************)
(* Machine-checked proofs about the unlocked group lists of the server     *)
(* (module ServerGroups), for any number of threads, users, nodes and      *)
(* groups.                                                                 *)
(***************************************************************************)
EXTENDS ServerGroups, SequenceTheorems, TLAPS

InList == {"tail", "append", "appenduid", "appendnext"}
Writing == InList \cup {"setuid", "setnext"}
Named == Writing \cup {"check", "forward"}

\* Every node that a pointer leads to was allocated for the group whose pointer,
\* list or walk leads to it, and the uid in a node is of somebody who consented
\* to that group.
HomeInv ==
  /\ \A g \in Gid : groups[g] # NULL => groups[g] \in heap /\ home[groups[g]] = g
  /\ \A n \in Node : next[n] \in Node => next[n] \in heap /\ home[next[n]] = home[n]
  /\ \A n \in Node : n \notin heap => next[n] = GARBAGE /\ uid[n] = GARBAGE
  /\ \A n \in Node : uid[n] \in User => <<uid[n], home[n]>> \in consent
  /\ \A t \in Thread : cur[t] # NULL => cur[t] \in heap /\ home[cur[t]] = req[t].gid

\* What a handler knows at its steps.
StepInv ==
  \A t \in Thread :
    /\ pc[t] # "idle" => req[t].uid \in User
    /\ pc[t] \in Named => req[t].gid \in Gid
    /\ pc[t] \in Writing => <<req[t].uid, req[t].gid>> \in consent
    /\ pc[t] = "link" => <<req[t].uid, req[t].gid>> \in consent
    /\ pc[t] \in {"setuid", "setnext", "check"} => groups[req[t].gid] # NULL
    /\ pc[t] \in InList => cur[t] # NULL
    /\ pc[t] \in {"appenduid", "appendnext"} => next[cur[t]] # GARBAGE
    /\ pc[t] \notin (InList \cup {"check", "forward"}) => cur[t] = NULL

GInv == TypeOK /\ HomeInv /\ StepInv

LEMMA InitGInv == GroupsAssumption /\ Init => GInv
<1> SUFFICES ASSUME GroupsAssumption, Init PROVE GInv
  OBVIOUS
<1> USE DEF Init, GroupsAssumption
<1>1. TypeOK
  BY EmptySeq DEF TypeOK, Where, Request, Gid, NoReq, Ops
<1>2. HomeInv
  BY DEF HomeInv
<1>3. StepInv
  BY DEF StepInv, Named, Writing, InList
<1> QED BY <1>1, <1>2, <1>3 DEF GInv

LEMMA MallocFresh ==
  ASSUME heap \in SUBSET Node, heap # Node
  PROVE  Malloc \in Node /\ Malloc \notin heap
BY DEF Malloc

\* Handlers that only move: nothing in memory changes, and the thread ends or
\* goes on to a step it may take.
LEMMA DoneGInv ==
  ASSUME GroupsAssumption, GInv, NEW t \in Thread, Done(t), UNCHANGED <<mem, up, tmp, hist>>
  PROVE  GInv'
<1> USE DEF GInv, Done, Goto, mem, hist
<1>1. NoReq \in Request
  BY DEF NoReq, Request, Ops, GroupsAssumption
<1>2. TypeOK'
  BY <1>1, EmptySeq DEF TypeOK, Where
<1>3. HomeInv'
  BY DEF HomeInv, TypeOK
<1>4. StepInv'
  BY DEF StepInv, TypeOK, Named, Writing, InList
<1> QED BY <1>2, <1>3, <1>4

LEMMA CrashGInv ==
  ASSUME GInv, Crash
  PROVE  GInv'
<1> USE DEF GInv, Crash, mem, hist, local
<1>1. TypeOK'
  BY DEF TypeOK
<1>2. HomeInv' /\ StepInv'
  BY DEF HomeInv, StepInv
<1> QED BY <1>1, <1>2

LEMMA ReceiveGInv ==
  ASSUME GroupsAssumption, GInv, NEW t \in Thread, NEW r \in Requests, Receive(t, r)
  PROVE  GInv'
<1> USE DEF GInv, mem, hist
<1>0. PICK step \in {"scan", "announce", "entry"} :
        /\ pc[t] = "idle" /\ pc' = [pc EXCEPT ![t] = step] /\ req' = [req EXCEPT ![t] = r]
        /\ UNCHANGED <<mem, up, tmp, cur, copies, must, hist>>
  BY DEF Receive, Goto
<1>1. r \in Request /\ r.uid \in User
  BY DEF Requests
<1>2. TypeOK'
  BY <1>0, <1>1 DEF TypeOK, Where
<1>3. HomeInv'
  BY <1>0 DEF HomeInv, TypeOK, StepInv, Named, Writing, InList
<1>4. StepInv'
  BY <1>0, <1>1 DEF StepInv, TypeOK, Named, Writing, InList
<1> QED BY <1>2, <1>3, <1>4

LEMMA CreateGInv ==
  ASSUME GroupsAssumption, GInv, NEW t \in Thread,
         ScanTest(t) \/ IncLoad(t) \/ IncStore(t) \/ Capacity(t) \/ TakeGid(t)
  PROVE  GInv'
<1> USE DEF GInv, Goto, mem, hist, local
<1>1. CASE ScanTest(t)
  <2>1. TypeOK'
    BY <1>1 DEF ScanTest, TypeOK, Where
  <2>2. HomeInv'
    BY <1>1 DEF ScanTest, HomeInv
  <2>3. /\ pc[t] = "scan"
        /\ pc' = [pc EXCEPT ![t] = "load"] \/ pc' = [pc EXCEPT ![t] = "cap"]
        /\ UNCHANGED <<mem, up, tmp, local, hist>>
    BY <1>1 DEF ScanTest
  <2>4. StepInv'
    <3>1. CASE pc' = [pc EXCEPT ![t] = "load"]
      BY <2>3, <3>1 DEF StepInv, TypeOK, Named, Writing, InList
    <3>2. CASE pc' = [pc EXCEPT ![t] = "cap"]
      BY <2>3, <3>2 DEF StepInv, TypeOK, Named, Writing, InList
    <3> QED BY <2>3, <3>1, <3>2
  <2> QED BY <2>1, <2>2, <2>4
<1>2. CASE IncLoad(t)
  <2>1. TypeOK'
    BY <1>2 DEF IncLoad, TypeOK, Where
  <2>2. HomeInv'
    BY <1>2 DEF IncLoad, HomeInv
  <2>3. StepInv'
    BY <1>2 DEF IncLoad, StepInv, TypeOK, Named, Writing, InList
  <2> QED BY <2>1, <2>2, <2>3
<1>3. CASE IncStore(t)
  <2>1. TypeOK'
    BY <1>3 DEF IncStore, TypeOK, Where
  <2>2. HomeInv'
    BY <1>3 DEF IncStore, HomeInv
  <2>3. StepInv'
    BY <1>3 DEF IncStore, StepInv, TypeOK, Named, Writing, InList
  <2> QED BY <2>1, <2>2, <2>3
<1>4. CASE Capacity(t)
  <2>1. PICK step \in {"reply", "gid"} :
          /\ pc[t] = "cap" /\ pc' = [pc EXCEPT ![t] = step]
          /\ UNCHANGED <<mem, up, tmp, local, hist>>
    BY <1>4 DEF Capacity
  <2>2. TypeOK'
    BY <2>1 DEF TypeOK, Where
  <2>3. HomeInv'
    BY <2>1 DEF HomeInv
  <2>4. StepInv'
    BY <2>1 DEF StepInv, TypeOK, Named, Writing, InList
  <2> QED BY <2>2, <2>3, <2>4
<1>5. CASE TakeGid(t)
  <2> DEFINE g == group_cnt % (GROUP_NUM_MAX + 1)
  <2>1. g \in 0 .. GROUP_NUM_MAX
    BY DEF TypeOK, GroupsAssumption
  <2>2. /\ pc[t] = "gid" /\ req' = [req EXCEPT ![t].gid = g] /\ pc' = [pc EXCEPT ![t] = "link"]
        /\ consent' = consent \cup {<<req[t].uid, g>>} /\ raced' \in {raced, raced \cup {g}}
        /\ twice' \in {twice, twice \cup {<<req[t].uid, g>>}}
        /\ UNCHANGED <<mem, up, tmp, cur, copies, must, home, joined, invited>>
    BY <1>5 DEF TakeGid, TwiceWith
  <2> HIDE DEF g
  <2>3. req'[t].gid = g /\ req'[t].uid = req[t].uid /\ req[t].uid \in User /\ \A v \in Thread : v # t => req'[v] = req[v]
    <3>1. req \in [Thread -> Request] /\ req[t] \in [op : Ops, uid : User \cup {NULL}, gid : 0 .. GROUP_NUM_MAX, accept : BOOLEAN]
      BY DEF TypeOK, Request
    <3>2. req[t].uid \in User
      BY <2>2 DEF StepInv
    <3>3. req' = [req EXCEPT ![t] = [req[t] EXCEPT !.gid = g]]
      BY <2>2
    <3> QED BY <3>1, <3>2, <3>3
  <2>4. TypeOK'
    <3>1. req' \in [Thread -> Request]
      <4>1. req[t] \in [op : Ops, uid : User \cup {NULL}, gid : 0 .. GROUP_NUM_MAX, accept : BOOLEAN] /\ req \in [Thread -> Request]
        BY DEF TypeOK, Request
      <4>2. [req[t] EXCEPT !.gid = g] \in Request
        BY <2>1, <4>1 DEF Request
      <4>3. req' = [req EXCEPT ![t] = [req[t] EXCEPT !.gid = g]]
        BY <2>2
      <4> QED BY <4>1, <4>2, <4>3
    <3>2. /\ consent' \in SUBSET (User \X (0 .. GROUP_NUM_MAX)) /\ raced' \in SUBSET (0 .. GROUP_NUM_MAX)
          /\ twice' \in SUBSET (User \X (0 .. GROUP_NUM_MAX))
      <4>1. <<req[t].uid, g>> \in User \X (0 .. GROUP_NUM_MAX)
        BY <2>1, <2>3
      <4>2. /\ consent \in SUBSET (User \X (0 .. GROUP_NUM_MAX)) /\ raced \in SUBSET (0 .. GROUP_NUM_MAX)
            /\ twice \in SUBSET (User \X (0 .. GROUP_NUM_MAX))
        BY DEF TypeOK
      <4> QED BY <2>1, <2>2, <4>1, <4>2
    <3>3. pc' \in [Thread -> Where]
      BY <2>2 DEF TypeOK, Where
    <3> QED BY <2>2, <3>1, <3>2, <3>3 DEF TypeOK
  <2>5. cur[t] = NULL
    BY <2>2 DEF StepInv, InList
  <2>6. HomeInv'
    BY <2>2, <2>3, <2>5 DEF HomeInv, TypeOK
  <2>7. StepInv'
    BY <2>2, <2>3, <2>5 DEF StepInv, TypeOK, Named, Writing, InList
  <2> QED BY <2>4, <2>6, <2>7
<1> QED BY <1>1, <1>2, <1>3, <1>4, <1>5

\* The three writes that make a new list.
LEMMA CreateWritesGInv ==
  ASSUME GroupsAssumption, GInv, NEW t \in Thread,
         CreateLink(t) \/ CreateUid(t) \/ CreateNext(t)
  PROVE  GInv'
<1> USE DEF GInv, mem, hist, local
<1> DEFINE g == req[t].gid
<1>1. CASE CreateLink(t)
  <2>1. CASE Crash
    BY <2>1, CrashGInv
  <2>2. CASE ~Crash
    <3> DEFINE n == Malloc
    <3>1. /\ pc[t] = "link" /\ g \in Gid /\ heap # Node
          /\ heap' = heap \cup {n} /\ groups' = [groups EXCEPT ![g] = n]
          /\ home' = [home EXCEPT ![n] = g] /\ pc' = [pc EXCEPT ![t] = "setuid"]
          /\ UNCHANGED <<group_cnt, uid, next, up, tmp, local, joined, consent, raced, twice, invited>>
      BY <1>1, <2>2 DEF CreateLink, Goto
    <3>2. n \in Node /\ n \notin heap
      BY <3>1, MallocFresh DEF TypeOK
    <3> HIDE DEF n
    <3>3. TypeOK'
      BY <3>1, <3>2 DEF TypeOK, Where
    <3>4. home'[n] = g /\ \A x \in Node : x # n => home'[x] = home[x]
      BY <3>1, <3>2 DEF TypeOK
    <3>5. groups'[g] = n /\ \A h \in Gid : h # g => groups'[h] = groups[h]
      BY <3>1 DEF TypeOK
    <3>6. next[n] = GARBAGE /\ uid[n] = GARBAGE /\ n # NULL
      BY <3>2 DEF HomeInv, GroupsAssumption
    <3>7. HomeInv'
      <4>1. \A h \in Gid : groups'[h] # NULL => groups'[h] \in heap' /\ home'[groups'[h]] = h
        BY <3>1, <3>2, <3>4, <3>5 DEF HomeInv, TypeOK
      <4>2. \A x \in Node : next'[x] \in Node => next'[x] \in heap' /\ home'[next'[x]] = home'[x]
        BY <3>1, <3>2, <3>4, <3>6 DEF HomeInv, GroupsAssumption
      <4>3. \A x \in Node : x \notin heap' => next'[x] = GARBAGE /\ uid'[x] = GARBAGE
        BY <3>1 DEF HomeInv
      <4>4. \A x \in Node : uid'[x] \in User => <<uid'[x], home'[x]>> \in consent'
        BY <3>1, <3>4, <3>6 DEF HomeInv, GroupsAssumption
      <4>5. \A v \in Thread : cur'[v] # NULL => cur'[v] \in heap' /\ home'[cur'[v]] = req'[v].gid
        BY <3>1, <3>2, <3>4 DEF HomeInv, TypeOK
      <4> QED BY <4>1, <4>2, <4>3, <4>4, <4>5 DEF HomeInv
    <3>8. StepInv'
      <4>1. \A h \in Gid : groups[h] # NULL => groups'[h] # NULL
        BY <3>5, <3>6
      <4>2. ASSUME NEW v \in Thread, v # t PROVE pc'[v] = pc[v] /\ req'[v] = req[v] /\ cur'[v] = cur[v]
        BY <3>1, <4>2 DEF TypeOK
      <4>3. cur[t] = NULL /\ <<req[t].uid, g>> \in consent
        BY <3>1 DEF StepInv, InList, Named, Writing
      <4>4. pc'[t] = "setuid"
        BY <3>1 DEF TypeOK
      <4>5. req'[t] = req[t] /\ req[t].uid \in User /\ cur'[t] = NULL /\ <<req[t].uid, g>> \in consent'
        BY <3>1, <4>3 DEF local, StepInv
      <4>6. groups'[g] # NULL
        BY <3>5, <3>6
      <4> QED BY <3>1, <4>1, <4>2, <4>4, <4>5, <4>6 DEF StepInv, Named, Writing, InList
    <3> QED BY <3>3, <3>7, <3>8
  <2> QED BY <2>1, <2>2
<1>2. CASE CreateUid(t)
  <2> DEFINE n == groups[g]
  <2>1. /\ pc[t] = "setuid" /\ uid' = [uid EXCEPT ![n] = req[t].uid] /\ pc' = [pc EXCEPT ![t] = "setnext"]
        /\ UNCHANGED <<groups, group_cnt, next, heap, up, tmp, local, hist>>
    BY <1>2 DEF CreateUid, Goto
  <2>2. g \in Gid /\ n # NULL /\ <<req[t].uid, g>> \in consent /\ req[t].uid \in User
    BY <2>1 DEF StepInv, Named, Writing
  <2>3. n \in heap /\ n \in Node /\ home[n] = g
    BY <2>2 DEF HomeInv, TypeOK
  <2> HIDE DEF n
  <2>4. TypeOK'
    BY <2>1, <2>2, <2>3 DEF TypeOK, Where
  <2>5. HomeInv'
    BY <2>1, <2>2, <2>3 DEF HomeInv, TypeOK
  <2>6. StepInv'
    BY <2>1 DEF StepInv, TypeOK, Named, Writing, InList
  <2> QED BY <2>4, <2>5, <2>6
<1>3. CASE CreateNext(t)
  <2> DEFINE n == groups[g]
  <2>1. /\ pc[t] = "setnext" /\ next' = [next EXCEPT ![n] = NULL] /\ pc' = [pc EXCEPT ![t] = "reply"]
        /\ joined' = joined \cup {<<req[t].uid, g>>}
        /\ UNCHANGED <<groups, group_cnt, uid, heap, up, tmp, local, home, consent, raced, twice, invited>>
    BY <1>3 DEF CreateNext, Goto
  <2>2. g \in Gid /\ n # NULL /\ req[t].uid \in User
    BY <2>1 DEF StepInv, Named, Writing
  <2>3. n \in heap /\ n \in Node
    BY <2>2 DEF HomeInv, TypeOK
  <2> HIDE DEF n
  <2>4. TypeOK'
    <3>1. joined' \in SUBSET (User \X Gid)
      BY <2>1, <2>2 DEF TypeOK
    <3> QED BY <2>1, <2>3, <3>1 DEF TypeOK, Where
  <2>5. HomeInv'
    BY <2>1, <2>3 DEF HomeInv, TypeOK, GroupsAssumption
  <2>6. \A x \in Node : next[x] # GARBAGE => next'[x] # GARBAGE
    BY <2>1, <2>3 DEF TypeOK, GroupsAssumption
  <2>7. StepInv'
    BY <2>1, <2>6 DEF StepInv, TypeOK, Named, Writing, InList
  <2> QED BY <2>4, <2>5, <2>7
<1> QED BY <1>1, <1>2, <1>3

\* Walks: the thread moves along the list of its group.
LEMMA WalkGInv ==
  ASSUME GroupsAssumption, GInv, NEW t \in Thread,
         EntryOutside(t) \/ Entry(t) \/ CheckNext(t) \/ NotFound(t) \/ FoundResp(t)
         \/ FoundInvite(t) \/ FoundChat(t) \/ FoundDownload(t) \/ Announce(t) \/ CreateReply(t)
  PROVE  GInv'
<1> USE DEF GInv, mem, hist, local
<1> DEFINE g == req[t].gid
<1>1. CASE Entry(t)
  <2>1. CASE Done(t)
    <3>1. UNCHANGED twice
      BY <1>1, <2>1 DEF Entry, Done, Goto, TypeOK
    <3> QED BY <1>1, <2>1, <3>1, DoneGInv DEF Entry
  <2>2. CASE ~Done(t)
    <3>1. /\ pc[t] = "entry" /\ g \in Gid /\ groups[g] # NULL /\ cur' = [cur EXCEPT ![t] = groups[g]]
          /\ pc' = [pc EXCEPT ![t] = "check"]
          /\ twice' \in {twice, twice \cup {<<req[t].uid, g>>}}
          /\ UNCHANGED <<mem, up, tmp, req, copies, must, home, joined, consent, raced, invited>>
      BY <1>1, <2>2 DEF Entry, TwiceWith, Goto
    <3>2. g \in Gid /\ groups[g] \in heap /\ home[groups[g]] = g /\ groups[g] \in Node
      BY <3>1 DEF StepInv, Named, HomeInv, TypeOK
    <3>3. TypeOK'
      <4>1. twice \in SUBSET (User \X (0 .. GROUP_NUM_MAX)) /\ req[t].uid \in User /\ g \in 0 .. GROUP_NUM_MAX
        BY <3>1 DEF TypeOK, StepInv, Request
      <4> HIDE DEF g
      <4>2. twice' \in SUBSET (User \X (0 .. GROUP_NUM_MAX))
        BY <3>1, <4>1
      <4> QED BY <3>1, <3>2, <4>2 DEF TypeOK, Where
    <3>4. HomeInv'
      BY <3>1, <3>2 DEF HomeInv, TypeOK
    <3>5. StepInv'
      BY <3>1, <3>2 DEF StepInv, TypeOK, Named, Writing, InList
    <3> QED BY <3>3, <3>4, <3>5
  <2> QED BY <2>1, <2>2
<1>2. CASE CheckNext(t)
  <2>1. CASE Crash
    BY <2>1, CrashGInv
  <2>2. CASE ~Crash
    <3>1. /\ pc[t] = "check" /\ cur[t] # NULL /\ Advance(t)
          /\ UNCHANGED <<mem, up, pc, tmp, req, copies, must, hist>>
      BY <1>2, <2>2 DEF CheckNext, StrayNext
    <3>2. PICK x \in {next[cur[t]], NULL} : x # GARBAGE /\ cur' = [cur EXCEPT ![t] = x]
      BY <3>1 DEF Advance, GroupsAssumption
    <3>3. cur[t] \in heap /\ cur[t] \in Node /\ home[cur[t]] = g
      BY <3>1 DEF HomeInv, TypeOK
    <3>4. x = NULL \/ (x \in Node /\ x \in heap /\ home[x] = g)
      BY <3>2, <3>3 DEF HomeInv, TypeOK
    <3>5. TypeOK'
      BY <3>1, <3>2, <3>4 DEF TypeOK
    <3>6. HomeInv'
      BY <3>1, <3>2, <3>4 DEF HomeInv, TypeOK
    <3>7. StepInv'
      BY <3>1, <3>2 DEF StepInv, TypeOK, Named, Writing, InList
    <3> QED BY <3>5, <3>6, <3>7
  <2> QED BY <2>1, <2>2
<1>3. CASE NotFound(t)
  <2>1. CASE ~(req[t].op = "INVITE_RESP" /\ req[t].accept)
    BY <1>3, <2>1, DoneGInv DEF NotFound
  <2>2. CASE req[t].op = "INVITE_RESP" /\ req[t].accept
    <3>1. /\ pc[t] = "check" /\ cur' = [cur EXCEPT ![t] = groups[g]]
          /\ pc' = [pc EXCEPT ![t] = "tail"]
          /\ consent' = consent \cup {<<req[t].uid, g>>} /\ raced' \in {raced, raced \cup {g}}
          /\ UNCHANGED <<mem, up, tmp, req, copies, must, home, joined, twice, invited>>
      BY <1>3, <2>2 DEF NotFound, Goto
    <3>2. g \in Gid /\ groups[g] # NULL /\ groups[g] \in heap /\ home[groups[g]] = g /\ groups[g] \in Node
      BY <3>1 DEF StepInv, Named, HomeInv, TypeOK
    <3>3. TypeOK'
      <4>1. g \in 0 .. GROUP_NUM_MAX
        BY DEF TypeOK, Request
      <4>2. consent' \in SUBSET (User \X (0 .. GROUP_NUM_MAX)) /\ raced' \in SUBSET (0 .. GROUP_NUM_MAX)
        <5>1. consent \in SUBSET (User \X (0 .. GROUP_NUM_MAX)) /\ raced \in SUBSET (0 .. GROUP_NUM_MAX)
          BY DEF TypeOK
        <5>2. consent' = consent \cup {<<req[t].uid, g>>} /\ raced' \in {raced, raced \cup {g}}
          BY <3>1
        <5> HIDE DEF g
        <5>3. req[t].uid \in User
          BY <3>1 DEF StepInv
        <5>4. <<req[t].uid, g>> \in User \X (0 .. GROUP_NUM_MAX)
          BY <4>1, <5>3
        <5> QED BY <4>1, <5>1, <5>2, <5>4
      <4> QED BY <3>1, <3>2, <4>2 DEF TypeOK, Where
    <3>4. HomeInv'
      BY <3>1, <3>2 DEF HomeInv, TypeOK
    <3>5. StepInv'
      BY <3>1, <3>2 DEF StepInv, TypeOK, Named, Writing, InList
    <3> QED BY <3>3, <3>4, <3>5
  <2> QED BY <2>1, <2>2
<1>4. CASE FoundResp(t)
  BY <1>4, DoneGInv DEF FoundResp
<1>5. CASE FoundInvite(t)
  <2> USE DEF Done, Goto
  <2>1. Done(t) /\ UNCHANGED <<mem, up, tmp, home, joined, consent, raced, twice>>
    BY <1>5 DEF FoundInvite
  <2>2. NoReq \in Request
    BY DEF NoReq, Request, Ops, GroupsAssumption
  <2>3. invited' \in SUBSET (User \X Gid)
    <3>1. pc[t] = "check"
      BY <1>5 DEF FoundInvite, Found
    <3>2. g \in Gid
      BY <3>1 DEF StepInv, Named
    <3> HIDE DEF g
    <3>3. invited' = invited \/ \E peer \in User : invited' = invited \cup {<<peer, g>>}
      BY <1>5 DEF FoundInvite, g
    <3> QED BY <3>2, <3>3 DEF TypeOK
  <2>4. TypeOK'
    BY <2>1, <2>2, <2>3, EmptySeq DEF TypeOK, Where
  <2>5. HomeInv'
    BY <2>1 DEF HomeInv, TypeOK
  <2>6. StepInv'
    BY <2>1 DEF StepInv, TypeOK, Named, Writing, InList
  <2> QED BY <2>4, <2>5, <2>6
<1>6. CASE FoundChat(t)
  <2>1. CASE Done(t)
    BY <1>6, <2>1, DoneGInv DEF FoundChat
  <2>2. CASE ~Done(t)
    <3>1. /\ pc[t] = "check" /\ cur' = [cur EXCEPT ![t] = groups[g]]
          /\ pc' = [pc EXCEPT ![t] = "forward"]
          /\ must' = [must EXCEPT ![t] = {v \in User : <<v, g>> \in joined}]
          /\ UNCHANGED <<mem, up, tmp, req, copies, hist>>
      BY <1>6, <2>2 DEF FoundChat, Found, Goto
    <3>2. g \in Gid /\ groups[g] # NULL /\ groups[g] \in heap /\ home[groups[g]] = g /\ groups[g] \in Node
      BY <3>1 DEF StepInv, Named, HomeInv, TypeOK
    <3>3. TypeOK'
      BY <3>1, <3>2 DEF TypeOK, Where
    <3>4. HomeInv'
      BY <3>1, <3>2 DEF HomeInv, TypeOK
    <3>5. StepInv'
      BY <3>1, <3>2 DEF StepInv, TypeOK, Named, Writing, InList
    <3> QED BY <3>3, <3>4, <3>5
  <2> QED BY <2>1, <2>2
<1>7. CASE EntryOutside(t)
  BY <1>7, DoneGInv, CrashGInv DEF EntryOutside
<1>8. CASE FoundDownload(t) \/ CreateReply(t)
  BY <1>8, DoneGInv DEF FoundDownload, CreateReply
<1>9. CASE Announce(t)
  <2>1. /\ pc[t] = "announce" /\ g \in Gid /\ cur' = [cur EXCEPT ![t] = groups[g]]
        /\ pc' = [pc EXCEPT ![t] = "forward"]
        /\ must' = [must EXCEPT ![t] = {v \in User : <<v, g>> \in joined}]
        /\ UNCHANGED <<mem, up, tmp, req, copies, hist>>
    BY <1>9 DEF Announce, Goto
  <2>2. /\ groups[g] # NULL => groups[g] \in heap /\ home[groups[g]] = g
        /\ groups[g] \in Node \cup {NULL}
    BY <2>1 DEF HomeInv, TypeOK
  <2>3. TypeOK'
    BY <2>1, <2>2 DEF TypeOK, Where
  <2>4. HomeInv'
    BY <2>1, <2>2 DEF HomeInv, TypeOK
  <2>5. StepInv'
    BY <2>1 DEF StepInv, TypeOK, Named, Writing, InList
  <2> QED BY <2>3, <2>4, <2>5
<1> QED BY <1>1, <1>2, <1>3, <1>4, <1>5, <1>6, <1>7, <1>8, <1>9

\* group_add_tail: a node is allocated for the group and linked into its list.
LEMMA AppendGInv ==
  ASSUME GroupsAssumption, GInv, NEW t \in Thread,
         TailWalk(t) \/ AppendLink(t) \/ AppendUid(t) \/ AppendNext(t)
  PROVE  GInv'
<1> USE DEF GInv, mem, hist, local
<1> DEFINE g == req[t].gid
           c == cur[t]
<1>0. /\ pc[t] \in InList /\ g \in Gid /\ <<req[t].uid, g>> \in consent /\ req[t].uid \in User
      /\ c \in Node /\ c \in heap /\ home[c] = g /\ c # NULL
  <2>1. pc[t] \in InList
    BY DEF TailWalk, AppendLink, AppendUid, AppendNext, InList
  <2>2. g \in Gid /\ <<req[t].uid, g>> \in consent /\ req[t].uid \in User /\ c # NULL
    BY <2>1 DEF StepInv, Named, Writing, InList
  <2> QED BY <2>1, <2>2 DEF HomeInv, TypeOK
<1>1. CASE TailWalk(t)
  <2>1. CASE Crash
    BY <2>1, CrashGInv
  <2>2. CASE next[c] \in Node /\ cur' = [cur EXCEPT ![t] = next[c]] /\ UNCHANGED <<mem, up, pc, tmp, req, copies, must, hist>>
    <3>1. next[c] \in heap /\ home[next[c]] = g /\ next[c] # NULL
      BY <1>0, <2>2 DEF HomeInv, GroupsAssumption
    <3>2. TypeOK'
      BY <2>2 DEF TypeOK
    <3>3. HomeInv'
      BY <2>2, <3>1 DEF HomeInv, TypeOK
    <3>4. StepInv'
      BY <1>1, <2>2, <3>1 DEF StepInv, TypeOK, Named, Writing, InList, TailWalk
    <3> QED BY <3>2, <3>3, <3>4
  <2>3. CASE Goto(t, "append") /\ UNCHANGED <<mem, up, tmp, local, hist>>
    <3>1. TypeOK'
      BY <2>3 DEF TypeOK, Where, Goto
    <3>2. HomeInv'
      BY <2>3 DEF HomeInv
    <3>3. StepInv'
      BY <1>0, <2>3 DEF StepInv, TypeOK, Named, Writing, InList, Goto
    <3> QED BY <3>1, <3>2, <3>3
  <2> QED BY <1>1, <2>1, <2>2, <2>3 DEF TailWalk, StrayNext
<1>2. CASE AppendLink(t)
  <2>1. /\ pc[t] = "append" /\ pc' = [pc EXCEPT ![t] = "appenduid"]
        /\ UNCHANGED <<groups, group_cnt, uid, up, tmp, local, joined, consent, raced, twice, invited>>
    BY <1>2 DEF AppendLink, Goto
  <2>2. CASE heap # Node /\ heap' = heap \cup {Malloc} /\ next' = [next EXCEPT ![c] = Malloc]
             /\ home' = [home EXCEPT ![Malloc] = g]
    <3> DEFINE n == Malloc
    <3>1. n \in Node /\ n \notin heap
      BY <2>2, MallocFresh DEF TypeOK
    <3>2. heap' = heap \cup {n} /\ next' = [next EXCEPT ![c] = n] /\ home' = [home EXCEPT ![n] = g]
      BY <2>2
    <3> HIDE DEF n
    <3>3. TypeOK'
      BY <1>0, <2>1, <3>1, <3>2 DEF TypeOK, Where
    <3>4. home'[n] = g /\ \A x \in Node : x # n => home'[x] = home[x]
      BY <3>1, <3>2 DEF TypeOK
    <3>5. next'[c] = n /\ \A x \in Node : x # c => next'[x] = next[x]
      BY <1>0, <3>1, <3>2 DEF TypeOK
    <3>6. next[n] = GARBAGE /\ uid[n] = GARBAGE /\ c # n
      BY <1>0, <3>1 DEF HomeInv
    <3>7. HomeInv'
      <4>1. \A h \in Gid : groups'[h] # NULL => groups'[h] \in heap' /\ home'[groups'[h]] = h
        BY <2>1, <3>1, <3>2, <3>4 DEF HomeInv, TypeOK
      <4>2. ASSUME NEW x \in Node, next'[x] \in Node
            PROVE  next'[x] \in heap' /\ home'[next'[x]] = home'[x]
        <5>1. CASE x = c
          BY <1>0, <3>1, <3>2, <3>4, <3>5, <3>6, <5>1
        <5>2. CASE x # c
          <6>1. next[x] \in Node /\ next'[x] = next[x] /\ next[x] \in heap /\ home[next[x]] = home[x]
            BY <3>5, <4>2, <5>2 DEF HomeInv
          <6>2. x # n /\ next[x] # n
            BY <3>1, <3>6, <6>1 DEF GroupsAssumption
          <6> QED BY <3>2, <3>4, <6>1, <6>2
        <5> QED BY <5>1, <5>2
      <4>3. \A x \in Node : x \notin heap' => next'[x] = GARBAGE /\ uid'[x] = GARBAGE
        BY <1>0, <2>1, <3>2, <3>5 DEF HomeInv
      <4>4. \A x \in Node : uid'[x] \in User => <<uid'[x], home'[x]>> \in consent'
        BY <2>1, <3>4, <3>6 DEF HomeInv, GroupsAssumption
      <4>5. \A v \in Thread : cur'[v] # NULL => cur'[v] \in heap' /\ home'[cur'[v]] = req'[v].gid
        BY <2>1, <3>1, <3>2, <3>4 DEF HomeInv, TypeOK
      <4> QED BY <4>1, <4>2, <4>3, <4>4, <4>5 DEF HomeInv
    <3>8. StepInv'
      <4>1. \A x \in Node : next[x] # GARBAGE => next'[x] # GARBAGE
        BY <3>1, <3>5 DEF GroupsAssumption
      <4>2. next'[c] # GARBAGE
        BY <3>1, <3>5 DEF GroupsAssumption
      <4> QED BY <1>0, <2>1, <4>1, <4>2 DEF StepInv, TypeOK, Named, Writing, InList
    <3> QED BY <3>3, <3>7, <3>8
  <2>3. CASE heap = Node /\ next' = [next EXCEPT ![c] = NULL] /\ UNCHANGED <<heap, home>>
    <3>1. TypeOK'
      BY <1>0, <2>1, <2>3 DEF TypeOK, Where
    <3>2. next'[c] = NULL /\ \A x \in Node : x # c => next'[x] = next[x]
      BY <1>0, <2>3 DEF TypeOK
    <3>3. HomeInv'
      BY <1>0, <2>1, <2>3, <3>2 DEF HomeInv, GroupsAssumption
    <3>4. \A x \in Node : next[x] # GARBAGE => next'[x] # GARBAGE
      BY <3>2 DEF GroupsAssumption
    <3>5. StepInv'
      BY <1>0, <2>1, <2>3, <3>2, <3>4 DEF StepInv, TypeOK, Named, Writing, InList, GroupsAssumption
    <3> QED BY <3>1, <3>3, <3>5
  <2> QED BY <1>2, <2>2, <2>3 DEF AppendLink
<1>3. CASE AppendUid(t)
  <2>1. CASE Done(t) /\ UNCHANGED uid
    BY <1>3, <2>1, DoneGInv DEF AppendUid
  <2>2. CASE next[c] \in Node /\ uid' = [uid EXCEPT ![next[c]] = req[t].uid] /\ Goto(t, "appendnext") /\ Stay
    <3> DEFINE n == next[c]
    <3>1. n \in Node /\ n \in heap /\ home[n] = g
      BY <1>0, <2>2 DEF HomeInv
    <3>2. /\ pc[t] = "appenduid" /\ pc' = [pc EXCEPT ![t] = "appendnext"] /\ uid' = [uid EXCEPT ![n] = req[t].uid]
          /\ UNCHANGED <<groups, group_cnt, next, heap, up, tmp, hist, local>>
      BY <1>3, <2>2 DEF AppendUid, Goto, Stay
    <3> HIDE DEF n
    <3>3. TypeOK'
      BY <1>0, <3>1, <3>2 DEF TypeOK, Where
    <3>4. uid'[n] = req[t].uid /\ \A x \in Node : x # n => uid'[x] = uid[x]
      BY <3>1, <3>2 DEF TypeOK
    <3>5. HomeInv'
      BY <1>0, <3>1, <3>2, <3>4 DEF HomeInv
    <3>6. StepInv'
      BY <3>2 DEF StepInv, TypeOK, Named, Writing, InList
    <3> QED BY <3>3, <3>5, <3>6
  <2> QED BY <1>3, <2>1, <2>2 DEF AppendUid
<1>4. CASE AppendNext(t)
  <2>1. CASE Crash
    BY <2>1, CrashGInv
  <2>2. CASE ~Crash
    <3> DEFINE n == next[c]
    <3>1. /\ pc[t] = "appendnext" /\ n \in Node /\ next' = [next EXCEPT ![n] = NULL] /\ Done(t)
          /\ joined' = joined \cup {<<req[t].uid, g>>}
          /\ UNCHANGED <<groups, group_cnt, uid, heap, up, tmp, home, consent, raced, twice, invited>>
      BY <1>4, <2>2 DEF AppendNext
    <3>2. n \in heap
      BY <1>0, <3>1 DEF HomeInv
    <3> HIDE DEF n
    <3>3. TypeOK'
      <4>1. NoReq \in Request
        BY DEF NoReq, Request, Ops, GroupsAssumption
      <4>2. joined' \in SUBSET (User \X Gid)
        BY <1>0, <3>1 DEF TypeOK
      <4> QED BY <3>1, <4>1, <4>2, EmptySeq DEF TypeOK, Where, Done, Goto
    <3>4. HomeInv'
      BY <3>1, <3>2 DEF HomeInv, TypeOK, Done, GroupsAssumption
    <3>5. \A x \in Node : next[x] # GARBAGE => next'[x] # GARBAGE
      BY <3>1 DEF TypeOK, GroupsAssumption
    <3>6. StepInv'
      BY <3>1, <3>5 DEF StepInv, TypeOK, Named, Writing, InList, Done, Goto
    <3> QED BY <3>3, <3>4, <3>6
  <2> QED BY <2>1, <2>2
<1> QED BY <1>1, <1>2, <1>3, <1>4

LEMMA ForwardGInv ==
  ASSUME GroupsAssumption, GInv, NEW t \in Thread,
         Forward(t) \/ ForwardStray(t) \/ ForwardEnd(t)
  PROVE  GInv'
<1> USE DEF GInv, mem, hist, local
<1> DEFINE g == req[t].gid
<1>1. CASE Forward(t)
  <2>1. /\ pc[t] = "forward" /\ cur[t] # NULL /\ Advance(t)
        /\ copies' = IF uid[cur[t]] = GARBAGE THEN copies
                     ELSE [copies EXCEPT ![t] = Append(copies[t], uid[cur[t]])]
        /\ UNCHANGED <<mem, up, pc, tmp, req, must, hist>>
    BY <1>1 DEF Forward
  <2>2. PICK x \in {next[cur[t]], NULL} : x # GARBAGE /\ cur' = [cur EXCEPT ![t] = x]
    BY <2>1 DEF Advance, GroupsAssumption
  <2>3. cur[t] \in heap /\ cur[t] \in Node /\ home[cur[t]] = g
    BY <2>1 DEF HomeInv, TypeOK
  <2>4. x = NULL \/ (x \in Node /\ x \in heap /\ home[x] = g)
    BY <2>2, <2>3 DEF HomeInv, TypeOK
  <2>5. copies' \in [Thread -> Seq(User)]
    <3>1. CASE uid[cur[t]] = GARBAGE
      BY <2>1, <3>1 DEF TypeOK
    <3>2. CASE uid[cur[t]] # GARBAGE
      <4>1. uid[cur[t]] \in User /\ copies[t] \in Seq(User)
        BY <2>3, <3>2 DEF TypeOK
      <4>2. Append(copies[t], uid[cur[t]]) \in Seq(User)
        BY <4>1, AppendProperties
      <4> QED BY <2>1, <3>2, <4>2 DEF TypeOK
    <3> QED BY <3>1, <3>2
  <2>6. TypeOK'
    BY <2>1, <2>2, <2>4, <2>5 DEF TypeOK
  <2>7. HomeInv'
    BY <2>1, <2>2, <2>4 DEF HomeInv, TypeOK
  <2>8. StepInv'
    BY <2>1, <2>2 DEF StepInv, TypeOK, Named, Writing, InList
  <2> QED BY <2>6, <2>7, <2>8
<1>2. CASE ForwardStray(t)
  BY <1>2, CrashGInv DEF ForwardStray, StrayNext
<1>3. CASE ForwardEnd(t)
  BY <1>3, DoneGInv DEF ForwardEnd
<1> QED BY <1>1, <1>2, <1>3

LEMMA NextGInv == GroupsAssumption /\ GInv /\ [Next]_vars => GInv'
<1> SUFFICES ASSUME GroupsAssumption, GInv, [Next]_vars PROVE GInv'
  OBVIOUS
<1>1. CASE UNCHANGED vars
  <2> USE <1>1 DEF vars, mem, local, hist
  <2>1. TypeOK'
    BY DEF GInv, TypeOK
  <2>2. HomeInv' /\ StepInv'
    BY DEF GInv, HomeInv, StepInv
  <2> QED BY <2>1, <2>2 DEF GInv
<1>2. ASSUME NEW t \in Thread, NEW r \in Requests, Receive(t, r) PROVE GInv'
  BY <1>2, ReceiveGInv
<1>3. ASSUME NEW t \in Thread, Works(t) \/ Talks(t) PROVE GInv'
  BY <1>3, CreateGInv, CreateWritesGInv, WalkGInv, AppendGInv, ForwardGInv DEF Works, Talks
<1> QED BY <1>1, <1>2, <1>3 DEF Next
-----------------------------------------------------------------------------
(* The theorems *)

\* The inductive invariant of the group lists.
THEOREM GroupsInvariance == Spec => []GInv
<1>1. Init => GInv
  BY GroupsAssumption, InitGInv
<1>2. GInv /\ [Next]_vars => GInv'
  BY GroupsAssumption, NextGInv
<1> QED BY <1>1, <1>2, PTL DEF Spec

\* The group lists and the handlers' registers keep their types.
THEOREM GroupsTypeCorrect == Spec => []TypeOK
<1>1. GInv => TypeOK
  BY DEF GInv
<1> QED BY <1>1, GroupsInvariance, PTL

\* The list of a group holds only nodes that were allocated for it.
LEMMA ReachHome ==
  ASSUME GroupsAssumption, GInv, NEW g \in Gid
  PROVE  \A n \in Reach(groups[g]) : n \in Node /\ home[n] = g
<1> DEFINE S == {n \in Node : home[n] = g}
<1>1. CASE groups[g] = NULL
  BY <1>1 DEF Reach
<1>2. CASE groups[g] # NULL
  <2>1. S \in SUBSET Node /\ groups[g] \in S
    BY <1>2 DEF GInv, HomeInv, TypeOK
  <2>2. \A x \in S : next[x] \in S \cup {NULL, GARBAGE}
    BY DEF GInv, HomeInv, TypeOK
  <2>3. Reach(groups[g]) \subseteq S
    <3> HIDE DEF S
    <3> QED BY <2>1, <2>2 DEF Reach
  <2> QED BY <2>3
<1> QED BY <1>1, <1>2

\* Nobody is listed in a group without having created it or accepted to join,
\* however the unlocked handlers of CREATE_GROUP and INVITE_RESP interleave.
THEOREM ConsentCorrect == Spec => []MembersConsented
<1>1. ASSUME GroupsAssumption, GInv PROVE MembersConsented
  <2> SUFFICES ASSUME NEW g \in Gid, NEW u \in Members(g) PROVE <<u, g>> \in consent
    BY DEF MembersConsented
  <2>1. PICK n \in Reach(groups[g]) : u = uid[n] /\ u # GARBAGE
    BY DEF Members
  <2>2. n \in Node /\ home[n] = g
    BY <1>1, ReachHome
  <2> QED BY <1>1, <2>1, <2>2 DEF GInv, HomeInv, TypeOK
<1>2. GInv => MembersConsented
  BY <1>1, GroupsAssumption
<1> QED BY <1>2, GroupsInvariance, PTL

\* The lists of two groups share no node, however the handlers interleave.
THEOREM ApartCorrect == Spec => []GroupsApart
<1>1. ASSUME GroupsAssumption, GInv PROVE GroupsApart
  <2> SUFFICES ASSUME NEW g \in Gid, NEW h \in Gid, g # h,
                      NEW n \in Reach(groups[g]), n \in Reach(groups[h])
               PROVE  FALSE
    BY DEF GroupsApart
  <2> QED BY <1>1, ReachHome
<1>2. GInv => GroupsApart
  BY <1>1, GroupsAssumption
<1> QED BY <1>2, GroupsInvariance, PTL
=============================================================================
