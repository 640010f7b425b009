---------------------------- MODULE ServerGroups ----------------------------
(***************************************************************************)
(* The server's groups (chat-server.c, util.c): the array groups[] of      *)
(* linked member lists, shared by the connection threads without a lock,   *)
(* and the handlers that work on it: CREATE_GROUP, INVITE, INVITE_RESP,    *)
(* SEND_CHAT, and the parts of SEND_FILE and DOWNLOAD_FILE that do.        *)
(*                                                                         *)
(* Every access to shared memory is a step of its own (a node's uid and    *)
(* next are read in one).  group_cnt++ is a load and a store, as the       *)
(* Makefile's unoptimised build compiles it.  A node fresh from malloc     *)
(* holds garbage: its uid compares either way, its next is NULL or leads   *)
(* astray.  A wild or NULL dereference ends the process (up).              *)
(*                                                                         *)
(* A request carries the uid of the client's account, and one account may  *)
(* be on several connections, so two threads can work for one uid; between *)
(* two requests a thread may come to stand for another connection.  A      *)
(* client may send any request at any time, but answers only invitations   *)
(* sent to it, the same one perhaps twice: invited is the INVITE packets   *)
(* sent, which the server does not remember.  home, joined, consent, raced,*)
(* twice and must are history variables: no step of the server reads them. *)
(***************************************************************************)
EXTENDS Naturals, Sequences, FiniteSets, Functions

CONSTANTS Thread,          \* the connection threads
          User,            \* uids
          Node,            \* group_node_t addresses
          NULL, GARBAGE,
          GROUP_NUM_MAX

ASSUME GroupsAssumption ==
  /\ GROUP_NUM_MAX \in Nat \ {0}
  /\ NULL \notin Node /\ GARBAGE \notin Node /\ NULL # GARBAGE
  /\ NULL \notin User /\ GARBAGE \notin User

VARIABLES
  groups, group_cnt,     \* the array and the next gid to try
  uid, next,             \* the fields of the nodes
  heap,                  \* the allocated nodes
  up,                    \* the process has neither died nor gone astray
  pc, req, cur, tmp,     \* per thread: step, request, list position, register
  invited,               \* the INVITE packets sent, <<u, g>> to u for g
  copies,                \* per thread: the users a chat was forwarded to, in order
  home,                  \* history: the group a node was allocated for
  joined,                \* history: <<u, g>> when the handler reported success to itself
  consent,               \* history: <<u, g>> when u asked to create or to join g
  raced,                 \* history: groups that two handlers changed at once, or
                         \* that were created again while in use
  twice,                 \* history: <<u, g>> when two threads joined u to g at once
  must                   \* history, per thread: members when the forwarding began

mem == <<groups, group_cnt, uid, next, heap>>
local == <<req, cur, copies, must>>
hist == <<home, joined, consent, raced, twice, invited>>
vars == <<mem, up, pc, tmp, local, hist>>

Gid == 0 .. GROUP_NUM_MAX - 1
CntLimit == GROUP_NUM_MAX + 1    \* bound: how far past the array the scan is followed

Ops == {"CREATE_GROUP", "INVITE", "INVITE_RESP", "SEND_CHAT", "SEND_FILE", "DOWNLOAD_FILE"}
NoReq == [op |-> "SEND_CHAT", uid |-> NULL, gid |-> 0, accept |-> FALSE]
Request == [op : Ops, uid : User \cup {NULL}, gid : 0 .. GROUP_NUM_MAX, accept : BOOLEAN]

\* What logged-in clients send: CREATE_GROUP names no group, INVITE_RESP carries
\* an answer, and the gid of the others is what the user typed, the one beyond
\* the end of the array included (a uint8_t).
Requests ==
  {r \in Request : /\ r.uid \in User
                   /\ r.op = "CREATE_GROUP" => r.gid = 0
                   /\ r.accept => r.op = "INVITE_RESP"}

\* The steps of CREATE_GROUP, of the walk for a request on a group, and of
\* group_add_tail and forward_to_group.
Where == {"idle", "scan", "load", "store", "cap", "gid", "link", "setuid", "setnext", "reply",
          "entry", "check", "tail", "append", "appenduid", "appendnext", "announce", "forward"}

Init ==
  /\ groups = [g \in Gid |-> NULL] /\ group_cnt = 0
  /\ uid = [n \in Node |-> GARBAGE] /\ next = [n \in Node |-> GARBAGE]
  /\ heap = {}
  /\ up = TRUE
  /\ pc = [t \in Thread |-> "idle"] /\ req = [t \in Thread |-> NoReq]
  /\ cur = [t \in Thread |-> NULL] /\ tmp = [t \in Thread |-> 0]
  /\ copies = [t \in Thread |-> <<>>]
  /\ home = [n \in Node |-> 0]
  /\ joined = {} /\ consent = {} /\ raced = {} /\ twice = {} /\ invited = {}
  /\ must = [t \in Thread |-> {}]

Goto(t, step) == pc' = [pc EXCEPT ![t] = step]
Stay == UNCHANGED local

\* The handler ends: break, and recv_packet and send_packet are freed.
Done(t) ==
  /\ Goto(t, "idle")
  /\ req' = [req EXCEPT ![t] = NoReq]
  /\ cur' = [cur EXCEPT ![t] = NULL]
  /\ copies' = [copies EXCEPT ![t] = <<>>]
  /\ must' = [must EXCEPT ![t] = {}]

Crash == up' = FALSE /\ UNCHANGED <<mem, pc, tmp, local, hist>>

\* Some other thread is about to write into the list of g.
Changing(t, g) ==
  \E s \in Thread \ {t} :
    /\ req[s].gid = g
    /\ pc[s] \in {"link", "setuid", "setnext", "tail", "append", "appenduid", "appendnext"}

\* Thread s is joining u to g: from the start of the check of its INVITE_RESP, or
\* from the choice of the gid of its CREATE_GROUP.
Joining(s, u, g) ==
  /\ req[s].uid = u /\ req[s].gid = g
  /\ \/ pc[s] = "check" /\ req[s].op = "INVITE_RESP"
     \/ pc[s] \in {"link", "setuid", "setnext", "tail", "append", "appenduid", "appendnext"}

\* twice when t begins to join its user to g.
TwiceWith(t, g) ==
  IF \E s \in Thread \ {t} : Joining(s, req[t].uid, g)
  THEN twice \cup {<<req[t].uid, g>>} ELSE twice
-----------------------------------------------------------------------------
(* A thread reads a request.  The upload of SEND_FILE is FileStore's: here the *)
(* handler begins with the announcement.                                       *)

Receive(t, r) ==
  /\ pc[t] = "idle"
  /\ r.op = "INVITE_RESP" /\ r.gid \in Gid => <<r.uid, r.gid>> \in invited
  /\ req' = [req EXCEPT ![t] = r]
  /\ Goto(t, CASE r.op = "CREATE_GROUP" -> "scan"
               [] r.op = "SEND_FILE" -> "announce"
               [] OTHER -> "entry")
  /\ UNCHANGED <<mem, up, tmp, cur, copies, must, hist>>
-----------------------------------------------------------------------------
(* CREATE_GROUP *)

\* while ( groups[group_cnt] != NULL ): past the array, whatever lies there.
ScanTest(t) ==
  /\ pc[t] = "scan"
  /\ \/ group_cnt \in Gid /\ Goto(t, IF groups[group_cnt] # NULL THEN "load" ELSE "cap")
     \/ group_cnt \notin Gid /\ Goto(t, "cap")
     \/ group_cnt \notin Gid /\ group_cnt < CntLimit /\ Goto(t, "load")
  /\ UNCHANGED <<mem, up, tmp, local, hist>>

\* group_cnt++
IncLoad(t) ==
  /\ pc[t] = "load"
  /\ tmp' = [tmp EXCEPT ![t] = group_cnt]
  /\ Goto(t, "store")
  /\ UNCHANGED <<mem, up, local, hist>>

\* A mistaken IncStore that forgets to add.
IncStoreSame(t) ==
  /\ pc[t] = "store"
  /\ group_cnt' = tmp[t]
  /\ tmp' = [tmp EXCEPT ![t] = 0]
  /\ Goto(t, "scan")
  /\ UNCHANGED <<groups, uid, next, heap, up, local, hist>>

IncStore(t) ==
  /\ pc[t] = "store"
  /\ group_cnt' = tmp[t] + 1
  /\ tmp' = [tmp EXCEPT ![t] = 0]
  /\ Goto(t, "scan")
  /\ UNCHANGED <<groups, uid, next, heap, up, local, hist>>

\* if ( group_cnt > GROUP_NUM_MAX ): ERR_OUT_MEM
Capacity(t) ==
  /\ pc[t] = "cap"
  /\ \/ group_cnt > GROUP_NUM_MAX /\ Goto(t, "reply")
     \/ group_cnt <= GROUP_NUM_MAX /\ Goto(t, "gid")
  /\ UNCHANGED <<mem, up, tmp, local, hist>>

\* A mistaken TakeGid that keeps all of group_cnt, as if gid were an int.
TakeGidWide(t) ==
  /\ pc[t] = "gid"
  /\ req' = [req EXCEPT ![t].gid = group_cnt]
  /\ Goto(t, "link")
  /\ consent' = consent \cup {<<req[t].uid, group_cnt>>}
  /\ UNCHANGED <<mem, up, tmp, cur, copies, must, home, joined, raced, twice, invited>>

\* send_packet->gid = group_cnt, a uint8_t
TakeGid(t) ==
  LET g == group_cnt % (GROUP_NUM_MAX + 1) IN
  /\ pc[t] = "gid"
  /\ req' = [req EXCEPT ![t].gid = g]
  /\ Goto(t, "link")
  /\ consent' = consent \cup {<<req[t].uid, g>>}
  /\ twice' = TwiceWith(t, g)
  /\ raced' = IF Changing(t, g) \/ (g \in Gid /\ groups[g] # NULL) THEN raced \cup {g} ELSE raced
  /\ UNCHANGED <<mem, up, tmp, cur, copies, must, home, joined, invited>>

\* malloc returns a node that is not allocated.  Which one makes no difference,
\* since no step compares addresses.
Malloc == CHOOSE n \in Node \ heap : TRUE

\* A mistaken CreateLink that allocates one node and uses it for every group.
CreateLinkOneNode(t) ==
  LET n == IF heap = {} THEN Malloc ELSE CHOOSE x \in heap : TRUE
      g == req[t].gid
  IN /\ pc[t] = "link" /\ g \in Gid
     /\ heap' = heap \cup {n}
     /\ groups' = [groups EXCEPT ![g] = n]
     /\ home' = [home EXCEPT ![n] = g]
     /\ Goto(t, "setuid")
     /\ UNCHANGED <<group_cnt, uid, next, up, tmp, local, joined, consent, raced, twice, invited>>

\* groups[gid] = malloc(...): without memory the next line dereferences NULL;
\* outside the array this overwrites another variable, and nothing is said of
\* the process from then on.
CreateLink(t) ==
  LET g == req[t].gid IN
  /\ pc[t] = "link"
  /\ \/ /\ g \in Gid
        /\ heap # Node
        /\ heap' = heap \cup {Malloc}
        /\ groups' = [groups EXCEPT ![g] = Malloc]
        /\ home' = [home EXCEPT ![Malloc] = g]
        /\ Goto(t, "setuid")
        /\ UNCHANGED <<group_cnt, uid, next, up, tmp, local, joined, consent, raced, twice, invited>>
     \/ (g \notin Gid \/ heap = Node) /\ Crash

\* groups[gid]->uid = uid, through the array again
CreateUid(t) ==
  /\ pc[t] = "setuid"
  /\ uid' = [uid EXCEPT ![groups[req[t].gid]] = req[t].uid]
  /\ Goto(t, "setnext")
  /\ UNCHANGED <<groups, group_cnt, next, heap, up, tmp, local, hist>>

\* groups[gid]->next = NULL
CreateNext(t) ==
  LET g == req[t].gid IN
  /\ pc[t] = "setnext"
  /\ next' = [next EXCEPT ![groups[g]] = NULL]
  /\ Goto(t, "reply")
  /\ joined' = joined \cup {<<req[t].uid, g>>}
  /\ UNCHANGED <<groups, group_cnt, uid, heap, up, tmp, local, home, consent, raced, twice, invited>>

\* send_main_header with the gid, or with ERR_OUT_MEM
CreateReply(t) ==
  /\ pc[t] = "reply"
  /\ Done(t)
  /\ UNCHANGED <<mem, up, tmp, hist>>
-----------------------------------------------------------------------------
(* INVITE, INVITE_RESP, SEND_CHAT and DOWNLOAD_FILE begin alike. *)

\* groups[gid] beyond the array is whatever lies there: taken for NULL or for a
\* list that ends, or walked until nothing can be said of the process.  So an
\* INVITE may also be sent for that gid, and be answered.
EntryOutside(t) ==
  /\ pc[t] \in {"entry", "announce"} /\ req[t].gid \notin Gid
  /\ \/ Done(t) /\ UNCHANGED <<mem, up, tmp, hist>>
     \/ Crash

\* A mistaken Entry that does not call check_user_in_group for an INVITE_RESP.
EntryUnchecked(t) ==
  LET head == groups[req[t].gid] IN
  /\ pc[t] = "entry" /\ req[t].gid \in Gid
  /\ \/ head = NULL /\ Done(t) /\ UNCHANGED twice
     \/ /\ head # NULL
        /\ cur' = [cur EXCEPT ![t] = IF req[t].op = "INVITE_RESP" THEN NULL ELSE head]
        /\ Goto(t, "check")
        /\ twice' = IF req[t].op = "INVITE_RESP" THEN TwiceWith(t, req[t].gid) ELSE twice
        /\ UNCHANGED <<req, copies, must>>
  /\ UNCHANGED <<mem, up, tmp, home, joined, consent, raced, invited>>

\* groups[gid] == NULL: no such group; otherwise check_user_in_group starts.
Entry(t) ==
  LET head == groups[req[t].gid] IN
  /\ pc[t] = "entry" /\ req[t].gid \in Gid
  /\ \/ head = NULL /\ Done(t) /\ UNCHANGED twice
     \/ /\ head # NULL
        /\ cur' = [cur EXCEPT ![t] = head]
        /\ Goto(t, "check")
        /\ twice' = IF req[t].op = "INVITE_RESP" THEN TwiceWith(t, req[t].gid) ELSE twice
        /\ UNCHANGED <<req, copies, must>>
  /\ UNCHANGED <<mem, up, tmp, home, joined, consent, raced, invited>>

\* One turn of a list walk: go on to cur->next.  Garbage is NULL or wild.
Advance(t) ==
  \/ next[cur[t]] # GARBAGE /\ cur' = [cur EXCEPT ![t] = next[cur[t]]]
  \/ next[cur[t]] = GARBAGE /\ cur' = [cur EXCEPT ![t] = NULL]
StrayNext(t) == next[cur[t]] = GARBAGE /\ Crash

\* check_user_in_group finds the user's uid, or garbage that equals it.
Found(t) ==
  /\ pc[t] = "check" /\ cur[t] # NULL
  /\ uid[cur[t]] \in {req[t].uid, GARBAGE}

\* Not at this node.
CheckNext(t) ==
  /\ pc[t] = "check" /\ cur[t] # NULL
  /\ uid[cur[t]] # req[t].uid
  /\ \/ Advance(t) /\ UNCHANGED <<mem, up, pc, tmp, req, copies, must, hist>>
     \/ StrayNext(t)

\* A mistaken NotFound that does not look at the answer.
NotFoundAnyAnswer(t) ==
  LET g == req[t].gid IN
  /\ pc[t] = "check" /\ cur[t] = NULL
  /\ IF req[t].op = "INVITE_RESP"
     THEN /\ cur' = [cur EXCEPT ![t] = groups[g]]
          /\ Goto(t, "tail")
          /\ consent' = IF req[t].accept THEN consent \cup {<<req[t].uid, g>>} ELSE consent
          /\ UNCHANGED <<req, copies, must>>
     ELSE Done(t) /\ UNCHANGED consent
  /\ UNCHANGED <<mem, up, tmp, home, joined, raced, twice, invited>>

\* Not in the list: that is the end, except for an INVITE_RESP that accepts:
\* group_add_tail starts at groups[gid].
NotFound(t) ==
  LET g == req[t].gid IN
  /\ pc[t] = "check" /\ cur[t] = NULL
  /\ IF req[t].op = "INVITE_RESP" /\ req[t].accept
     THEN /\ cur' = [cur EXCEPT ![t] = groups[g]]
          /\ Goto(t, "tail")
          /\ consent' = consent \cup {<<req[t].uid, g>>}
          /\ raced' = IF Changing(t, g) THEN raced \cup {g} ELSE raced
          /\ UNCHANGED <<req, copies, must>>
     ELSE Done(t) /\ UNCHANGED <<consent, raced>>
  /\ UNCHANGED <<mem, up, tmp, home, joined, twice, invited>>

\* Already a member: the answer is dropped.
FoundResp(t) ==
  /\ Found(t) /\ req[t].op = "INVITE_RESP"
  /\ Done(t)
  /\ UNCHANGED <<mem, up, tmp, hist>>

\* A member invites: find_uid and hashmap_get find the peer and it is sent an
\* INVITE packet, or there is no such user online.
FoundInvite(t) ==
  /\ Found(t) /\ req[t].op = "INVITE"
  /\ Done(t)
  /\ \/ \E peer \in User : invited' = invited \cup {<<peer, req[t].gid>>}
     \/ UNCHANGED invited
  /\ UNCHANGED <<mem, up, tmp, home, joined, consent, raced, twice>>

\* A mistaken FoundChat that starts behind the head of the list.
FoundChatSkipsHead(t) ==
  /\ Found(t) /\ req[t].op = "SEND_CHAT"
  /\ next[groups[req[t].gid]] # GARBAGE
  /\ Goto(t, "forward")
  /\ cur' = [cur EXCEPT ![t] = next[groups[req[t].gid]]]
  /\ must' = [must EXCEPT ![t] = {v \in User : <<v, req[t].gid>> \in joined}]
  /\ UNCHANGED <<mem, up, tmp, req, copies, hist>>

\* A member chats: find_username fails, or forward_to_group starts at groups[gid].
FoundChat(t) ==
  /\ Found(t) /\ req[t].op = "SEND_CHAT"
  /\ \/ Done(t)
     \/ /\ Goto(t, "forward")
        /\ cur' = [cur EXCEPT ![t] = groups[req[t].gid]]
        /\ must' = [must EXCEPT ![t] = {v \in User : <<v, req[t].gid>> \in joined}]
        /\ UNCHANGED <<req, copies>>
  /\ UNCHANGED <<mem, up, tmp, hist>>

\* A member downloads: send_file, whose steps are FileStore's, on its own connection.
FoundDownload(t) ==
  /\ Found(t) /\ req[t].op = "DOWNLOAD_FILE"
  /\ Done(t)
  /\ UNCHANGED <<mem, up, tmp, hist>>

\* SEND_FILE tells the group of the file, whether or not the sender is a member.
Announce(t) ==
  /\ pc[t] = "announce" /\ req[t].gid \in Gid
  /\ Goto(t, "forward")
  /\ cur' = [cur EXCEPT ![t] = groups[req[t].gid]]
  /\ must' = [must EXCEPT ![t] = {v \in User : <<v, req[t].gid>> \in joined}]
  /\ UNCHANGED <<mem, up, tmp, req, copies, hist>>
-----------------------------------------------------------------------------
(* group_add_tail *)

\* while (current->next != NULL) current = current->next;
TailWalk(t) ==
  /\ pc[t] = "tail"
  /\ \/ /\ next[cur[t]] \in Node
        /\ cur' = [cur EXCEPT ![t] = next[cur[t]]]
        /\ UNCHANGED <<mem, up, pc, tmp, req, copies, must, hist>>
     \/ /\ next[cur[t]] \in {NULL, GARBAGE}
        /\ Goto(t, "append")
        /\ UNCHANGED <<mem, up, tmp, local, hist>>
     \/ StrayNext(t)

\* current->next = malloc(...)
AppendLink(t) ==
  /\ pc[t] = "append"
  /\ \/ /\ heap # Node
        /\ heap' = heap \cup {Malloc}
        /\ next' = [next EXCEPT ![cur[t]] = Malloc]
        /\ home' = [home EXCEPT ![Malloc] = req[t].gid]
     \/ heap = Node /\ next' = [next EXCEPT ![cur[t]] = NULL] /\ UNCHANGED <<heap, home>>
  /\ Goto(t, "appenduid")
  /\ UNCHANGED <<groups, group_cnt, uid, up, tmp, local, joined, consent, raced, twice, invited>>

\* A mistaken AppendUid that writes current->uid.
AppendUidAtTail(t) ==
  /\ pc[t] = "appenduid"
  /\ \/ /\ next[cur[t]] \in Node
        /\ uid' = [uid EXCEPT ![cur[t]] = req[t].uid]
        /\ Goto(t, "appendnext") /\ Stay
     \/ next[cur[t]] = NULL /\ Done(t) /\ UNCHANGED uid
  /\ UNCHANGED <<groups, group_cnt, next, heap, up, tmp, hist>>

\* if ( current->next ) current->next->uid = uid, else "malloc failed"
AppendUid(t) ==
  /\ pc[t] = "appenduid"
  /\ \/ /\ next[cur[t]] \in Node
        /\ uid' = [uid EXCEPT ![next[cur[t]]] = req[t].uid]
        /\ Goto(t, "appendnext") /\ Stay
     \/ next[cur[t]] = NULL /\ Done(t) /\ UNCHANGED uid
  /\ UNCHANGED <<groups, group_cnt, next, heap, up, tmp, hist>>

\* current->next->next = NULL; return 0
AppendNext(t) ==
  /\ pc[t] = "appendnext"
  /\ \/ /\ next[cur[t]] \in Node
        /\ next' = [next EXCEPT ![next[cur[t]]] = NULL]
        /\ Done(t)
        /\ joined' = joined \cup {<<req[t].uid, req[t].gid>>}
        /\ UNCHANGED <<groups, group_cnt, uid, heap, up, tmp, home, consent, raced, twice, invited>>
     \/ next[cur[t]] = NULL /\ Crash
-----------------------------------------------------------------------------
(* forward_to_group *)

\* Look the node's user up, send the chat if online, go on.  What a garbage
\* uid looks up is not recorded in copies.
Forward(t) ==
  /\ pc[t] = "forward" /\ cur[t] # NULL
  /\ copies' = IF uid[cur[t]] = GARBAGE THEN copies
               ELSE [copies EXCEPT ![t] = Append(@, uid[cur[t]])]
  /\ Advance(t)
  /\ UNCHANGED <<mem, up, pc, tmp, req, must, hist>>

ForwardStray(t) ==
  /\ pc[t] = "forward" /\ cur[t] # NULL
  /\ StrayNext(t)

ForwardEnd(t) ==
  /\ pc[t] = "forward" /\ cur[t] = NULL
  /\ Done(t)
  /\ UNCHANGED <<mem, up, tmp, hist>>
-----------------------------------------------------------------------------
\* Steps that take the lock of active_sockets or write to a client's connection.
\* They return only if the lock is free and the client reads.
Talks(t) ==
  \/ CreateReply(t) \/ FoundInvite(t) \/ FoundDownload(t)
  \/ Forward(t) \/ ForwardStray(t)

\* Steps that wait for nothing.
Works(t) ==
  \/ ScanTest(t) \/ IncLoad(t) \/ IncStore(t) \/ Capacity(t) \/ TakeGid(t)
  \/ CreateLink(t) \/ CreateUid(t) \/ CreateNext(t)
  \/ EntryOutside(t) \/ Entry(t) \/ CheckNext(t) \/ NotFound(t)
  \/ FoundResp(t) \/ FoundChat(t) \/ Announce(t)
  \/ TailWalk(t) \/ AppendLink(t) \/ AppendUid(t) \/ AppendNext(t)
  \/ ForwardEnd(t)

Next ==
  /\ up
  /\ \E t \in Thread :
       \/ \E r \in Requests : Receive(t, r)
       \/ Works(t)
       \/ Talks(t)

Spec == Init /\ [][Next]_vars

\* The operating system runs every thread that waits for nothing.  Clients need
\* not send anything, nor read what they are sent.
FairSpec == Spec /\ \A t \in Thread : WF_vars(up /\ Works(t))
-----------------------------------------------------------------------------
(* Properties *)

TypeOK ==
  /\ groups \in [Gid -> Node \cup {NULL}]
  /\ group_cnt \in Nat
  /\ uid \in [Node -> User \cup {GARBAGE}]
  /\ next \in [Node -> Node \cup {NULL, GARBAGE}]
  /\ heap \in SUBSET Node
  /\ up \in BOOLEAN
  /\ pc \in [Thread -> Where]
  /\ req \in [Thread -> Request]
  /\ cur \in [Thread -> Node \cup {NULL}]
  /\ tmp \in [Thread -> Nat]
  /\ copies \in [Thread -> Seq(User)]
  /\ home \in [Node -> Gid]
  /\ joined \in SUBSET (User \X Gid)
  /\ consent \in SUBSET (User \X (0 .. GROUP_NUM_MAX))
  /\ raced \in SUBSET (0 .. GROUP_NUM_MAX)
  /\ twice \in SUBSET (User \X (0 .. GROUP_NUM_MAX))
  /\ invited \in SUBSET (User \X Gid)
  /\ must \in [Thread -> SUBSET User]

\* The nodes of the list that starts at h.
Reach(h) ==
  {n \in Node :
     /\ h # NULL
     /\ \A S \in SUBSET Node :
          h \in S /\ (\A x \in S : next[x] \in S \cup {NULL, GARBAGE}) => n \in S}
Members(g) == {uid[n] : n \in Reach(groups[g])} \ {GARBAGE}

\* Whatever the threads do to each other's lists, nobody is listed in a group
\* who did not create it or accept an invitation to it, although the handlers
\* write through groups[gid] and current->next again and again (388, 389,
\* util.c 86, 87).
MembersConsented == \A g \in Gid : \A u \in Members(g) : <<u, g>> \in consent

\* Two groups never share a list node.
GroupsApart ==
  \A g, h \in Gid : g # h => Reach(groups[g]) \cap Reach(groups[h]) = {}

\* A user is listed at most once in a group: the check of INVITE_RESP and the
\* append that follows it much later do not let the same user in twice, unless
\* two connections of that user were joining it to the group at the same time:
\* then both checks may come before either append.
ListedOnce ==
  \A g \in Gid : \A m, n \in Reach(groups[g]) :
    uid[m] = uid[n] /\ uid[m] \in User => m = n \/ <<uid[m], g>> \in twice

\* A chat is forwarded at most once to each member, even if the list changes
\* under the walk of forward_to_group, unless two connections of that member
\* joined it at the same time, or two handlers changed the list at the same time:
\* then one may overwrite a uid that the walk has passed, and its user join once
\* more ahead of the walk.
ForwardedOnce ==
  \A t \in Thread : req[t].gid \notin raced =>
    \A i, j \in DOMAIN copies[t] :
      copies[t][i] = copies[t][j] => i = j \/ <<copies[t][i], req[t].gid>> \in twice

\* Who created or joined a group is in its list from then on, unless two
\* handlers changed that list at the same time.
JoinedIsMember == up => \A p \in joined : p[2] \notin raced => p[1] \in Members(p[2])

\* forward_to_group reaches everybody who was a member when it began, again
\* unless two handlers changed the list at the same time.
ForwardReachesAll ==
  [][\A t \in Thread :
       pc[t] = "forward" /\ pc'[t] = "idle" /\ req[t].gid \notin raced
         => must[t] \subseteq Range(copies[t])]_vars

\* Every handler comes to its end or to a step that waits for a lock or a client,
\* and if those of its steps return, to its end: a list walk does not go in
\* circles, and the search for a free gid stops, whatever the other threads wait
\* for.
HandlerReturns ==
  \A t \in Thread :
    /\ pc[t] # "idle" ~> pc[t] = "idle" \/ ~up \/ ENABLED Talks(t)
    /\ WF_vars(up /\ Talks(t)) => (pc[t] # "idle" ~> pc[t] = "idle" \/ ~up)

\* What util.h says of group_add_tail: it adds the uid to the list and returns 0
\* on success.  Stated for a list that is still the group's: another append at
\* the same tail can put its own uid in the place before the return.
AppendedIsMember ==
  [][\A t \in Thread :
       pc[t] = "appendnext" /\ pc'[t] = "idle" =>
         \A g \in Gid, n \in Node :
           g = req[t].gid /\ n = cur[t] /\ n \in Reach(groups[g])' => req[t].uid \in Members(g)']_vars

\* CREATE_GROUP gives a new gid: when it makes the list, the gid is not in use
\* and no other thread is about to use it.
NewGid ==
  \A t \in Thread : pc[t] = "link" /\ req[t].gid \in Gid =>
    /\ groups[req[t].gid] = NULL
    /\ \A s \in Thread \ {t} : pc[s] = "link" => req[s].gid # req[t].gid
=============================================================================
