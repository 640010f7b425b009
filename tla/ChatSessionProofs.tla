------------------------- MODULE ChatSessionProofs -------------------------
(***************************************************************************)
(* Machine-checked proofs about connections, logins and routing (module    *)
(* ChatSession), for any number of clients, accounts, structures and       *)
(* descriptors.                                                            *)
(***************************************************************************)
EXTENDS ChatSession, SequenceTheorems, WellFoundedInduction, TLAPS

Live(c) == tpc[c] # "none"

\* Every live thread has a structure of its own, and the open descriptors are
\* those of the serving threads, one each.
ThreadInv ==
  /\ spare \in alloc
  /\ \A c \in Conn : Live(c) => data[c] \in alloc /\ data[c] # spare
  /\ \A c \in Conn, e \in Conn : Live(c) /\ Live(e) /\ data[c] = data[e] => c = e
  /\ \A c \in Conn : Serving(c) => connfd[data[c]] \in Fd /\ table[connfd[data[c]]] = c
  /\ \A f \in Fd : table[f] # NULL => Serving(table[f]) /\ connfd[data[table[f]]] = f
  /\ \A c \in Conn : cpc[c] = "off" => ~Live(c) /\ auth[c] = {}

\* The uid in a structure is of an account that logged in on the connection; two
\* threads have the same only if it is among the shared.
UidInv ==
  /\ \A c \in Conn : Live(c) =>
       IF auth[c] = {} THEN uid[data[c]] = NULL ELSE uid[data[c]] \in auth[c]
  /\ \A c \in Conn, e \in Conn :
       /\ c # e /\ tpc[c] \notin {"none", "removed"} /\ tpc[e] \notin {"none", "removed"}
       /\ uid[data[c]] = uid[data[e]] /\ uid[data[c]] \in User
       => uid[data[c]] \in shared
  /\ Reachable

\* An entry of the map is of a connection on which the account logged in, and
\* leads to its structure for as long as the thread lives.
MapInv ==
  \A u \in User : active[u] # NULL =>
    /\ putBy[u] \in Conn /\ u \in auth[putBy[u]]
    /\ Live(putBy[u]) => active[u] = data[putBy[u]]
    /\ auth[putBy[u]] = {u} => tpc[putBy[u]] \notin {"none", "removed"}

\* What a packet in the inbox of a connection says, on which the given accounts
\* have logged in: it is for one of them unless it was late, and an answer to a
\* login has the uid of one of them.
Good(accounts, p) ==
  /\ p.to # NULL => p.to \in accounts \/ p.late
  /\ p.cmd = "LOGIN" /\ p.zero => p.uid \in accounts

\* A thread about to send has the structure that the connection it looked up had.
SendInv ==
  \A c \in Conn : tpc[c] = "send" =>
    /\ ptr[c] \in Data /\ via[c] \in Conn /\ out[c].cmd # "LOGIN"
    /\ out[c].to \in auth[via[c]]
    /\ Live(via[c]) => ptr[c] = data[via[c]]

ReplyInv ==
  \A c \in Conn : tpc[c] = "reply" => out[c].to = NULL /\ (out[c].zero => out[c].uid \in auth[c])

InboxInv == \A c \in Conn : \A i \in DOMAIN inbox[c] : Good(auth[c], inbox[c][i])

PacketInv == SendInv /\ ReplyInv /\ InboxInv

ClientInv ==
  /\ LoginUidAuthenticated
  /\ \A c \in Conn : cpc[c] \in {"login", "create", "newlogin"} => account[c] \in User

SInv == TypeOK /\ ThreadInv /\ UidInv /\ MapInv /\ PacketInv /\ ClientInv
----------------------------------------------------------------------------
(* Packets and queues *)

Place == {"off", "prompt", "login", "create", "newlogin", "chat", "newchat", "gone"}

LEMMA PacketType ==
  ASSUME NEW cmd \in Cmd, NEW zero \in BOOLEAN, NEW id \in User \cup {NULL}, NEW to \in User \cup {NULL}
  PROVE  /\ Packet(cmd, zero, id, to) \in ToClient
         /\ Packet(cmd, zero, id, to).cmd = cmd /\ Packet(cmd, zero, id, to).zero = zero
         /\ Packet(cmd, zero, id, to).uid = id /\ Packet(cmd, zero, id, to).to = to
BY DEF Packet, ToClient

LEMMA NoPacketType == NoPacket \in ToClient
<1>1. "LOGIN" \in Cmd /\ FALSE \in BOOLEAN /\ NULL \in User \cup {NULL}
  BY DEF Cmd
<1> QED BY <1>1, PacketType DEF NoPacket

\* What is in a queue after a packet was put at its end or taken from its head
\* was in it before, or is the packet.
LEMMA QueueElements ==
  ASSUME NEW T, NEW q \in Seq(T), NEW p \in T
  PROVE  /\ Append(q, p) \in Seq(T)
         /\ \A i \in DOMAIN Append(q, p) : Append(q, p)[i] = p \/ \E j \in DOMAIN q : Append(q, p)[i] = q[j]
<1>1. /\ Append(q, p) \in Seq(T) /\ Len(Append(q, p)) = Len(q) + 1 /\ Len(q) \in Nat
      /\ DOMAIN q = 1 .. Len(q)
      /\ \A i \in 1 .. Len(q) : Append(q, p)[i] = q[i]
      /\ Append(q, p)[Len(q) + 1] = p
  BY AppendProperties, LenProperties
<1>2. DOMAIN Append(q, p) = 1 .. Len(q) + 1
  BY <1>1, LenProperties
<1>3. ASSUME NEW i \in DOMAIN Append(q, p)
      PROVE  Append(q, p)[i] = p \/ \E j \in DOMAIN q : Append(q, p)[i] = q[j]
  <2>1. i \in 1 .. Len(q) \/ i = Len(q) + 1
    BY <1>1, <1>2
  <2> QED BY <1>1, <2>1
<1> QED BY <1>1, <1>3

LEMMA TailElements ==
  ASSUME NEW T, NEW q \in Seq(T), q # <<>>
  PROVE  /\ Head(q) \in T /\ Tail(q) \in Seq(T)
         /\ \E j \in DOMAIN q : Head(q) = q[j]
         /\ \A i \in DOMAIN Tail(q) : \E j \in DOMAIN q : Tail(q)[i] = q[j]
<1>1. /\ Head(q) \in T /\ Tail(q) \in Seq(T) /\ Len(Tail(q)) = Len(q) - 1
      /\ \A i \in 1 .. Len(Tail(q)) : Tail(q)[i] = q[i + 1]
  BY HeadTailProperties
<1>2. Len(q) \in Nat \ {0} /\ DOMAIN q = 1 .. Len(q) /\ DOMAIN Tail(q) = 1 .. Len(Tail(q))
  BY <1>1, EmptySeq, LenProperties
<1>3. Head(q) = q[1] /\ 1 \in DOMAIN q
  BY <1>2
<1>4. \A i \in DOMAIN Tail(q) : i + 1 \in DOMAIN q /\ Tail(q)[i] = q[i + 1]
  BY <1>1, <1>2
<1> QED BY <1>1, <1>3, <1>4

\* accept has a lowest free descriptor to give.
LEMMA MinFree ==
  ASSUME NEW S, S \subseteq Nat, S # {}
  PROVE  Min(S) \in S
<1>1. PICK n \in S : \A m \in S : ~(<<m, n>> \in OpToRel(<, Nat))
  BY NatLessThanWellFounded, WFMin
<1>2. \A m \in S : n <= m
  <2> SUFFICES ASSUME NEW m \in S PROVE n <= m
    OBVIOUS
  <2>1. <<m, n>> \in Nat \X Nat => ~(m < n)
    BY <1>1 DEF OpToRel
  <2> QED BY <2>1
<1> QED BY <1>2 DEF Min
----------------------------------------------------------------------------
(* The inductive invariant *)

LEMMA InitSInv == SessionAssumption /\ Init => SInv
<1> SUFFICES ASSUME SessionAssumption, Init PROVE SInv
  OBVIOUS
<1>1. TypeOK
  <2>1. tries \in 0 .. MaxLogins /\ sends \in 0 .. MaxSends
    BY DEF Init, SessionAssumption
  <2>2. up \in BOOLEAN
    BY DEF Init
  <2>3. <<>> \in Seq(ToServer) /\ <<>> \in Seq(ToClient)
    BY EmptySeq
  <2>4. known \in SUBSET User
    BY DEF Init, SessionAssumption
  <2> QED BY <2>1, <2>2, <2>3, <2>4, NoPacketType DEF Init, TypeOK
<1>2. ThreadInv
  BY DEF Init, ThreadInv, Live, Serving
<1>3. UidInv
  BY DEF Init, UidInv, Reachable, Live, Serving
<1>4. MapInv
  BY DEF Init, MapInv
<1>5. PacketInv
  BY DEF Init, PacketInv, SendInv, ReplyInv, InboxInv
<1>6. ClientInv
  BY DEF Init, ClientInv, LoginUidAuthenticated
<1> QED BY <1>1, <1>2, <1>3, <1>4, <1>5, <1>6 DEF SInv

\* A step of a client: the server and its threads stay as they are.
LEMMA ClientStep ==
  ASSUME SInv, NEW c \in Conn, UNCHANGED <<server, threads, hist>>,
         toServer' \in [Conn -> Seq(ToServer)],
         inbox' = inbox \/ (inbox[c] # <<>> /\ inbox' = [inbox EXCEPT ![c] = Tail(@)])
                        \/ inbox' = [inbox EXCEPT ![c] = <<>>],
         NEW place \in Place \ {"off"}, cpc' = [cpc EXCEPT ![c] = place],
         account' \in [Conn -> User \cup {NULL}], my_uid' \in [Conn -> User \cup {NULL}],
         \A e \in Conn \ {c} : account'[e] = account[e] /\ my_uid'[e] = my_uid[e],
         tries' \in 0 .. MaxLogins, sends' \in 0 .. MaxSends,
         place = "chat" => my_uid'[c] \in auth[c],
         place \in {"login", "create", "newlogin"} => account'[c] \in User
  PROVE  SInv'
<1>1. inbox \in [Conn -> Seq(ToClient)] /\ cpc \in [Conn -> Place]
  BY DEF SInv, TypeOK, Place
<1>2. \A e \in Conn : e # c => cpc'[e] = cpc[e]
  BY <1>1
<1>3. cpc'[c] = place /\ cpc' \in [Conn -> Place]
  BY <1>1
<1>4. /\ inbox' \in [Conn -> Seq(ToClient)]
      /\ \A e \in Conn : \A i \in DOMAIN inbox'[e] : \E j \in DOMAIN inbox[e] : inbox'[e][i] = inbox[e][j]
  <2>1. CASE inbox' = inbox
    BY <1>1, <2>1
  <2>2. CASE inbox[c] # <<>> /\ inbox' = [inbox EXCEPT ![c] = Tail(@)]
    <3>1. /\ Tail(inbox[c]) \in Seq(ToClient)
          /\ \A i \in DOMAIN Tail(inbox[c]) : \E j \in DOMAIN inbox[c] : Tail(inbox[c])[i] = inbox[c][j]
      BY <1>1, <2>2, TailElements
    <3>2. inbox'[c] = Tail(inbox[c]) /\ \A e \in Conn : e # c => inbox'[e] = inbox[e]
      BY <1>1, <2>2
    <3>3. inbox' \in [Conn -> Seq(ToClient)]
      BY <1>1, <2>2, <3>1
    <3>4. ASSUME NEW e \in Conn, NEW i \in DOMAIN inbox'[e]
          PROVE  \E j \in DOMAIN inbox[e] : inbox'[e][i] = inbox[e][j]
      <4>1. CASE e = c
        BY <3>1, <3>2, <4>1
      <4>2. CASE e # c
        BY <3>2, <4>2
      <4> QED BY <4>1, <4>2
    <3> QED BY <3>3, <3>4
  <2>3. CASE inbox' = [inbox EXCEPT ![c] = <<>>]
    <3>1. <<>> \in Seq(ToClient) /\ DOMAIN <<>> = {}
      BY EmptySeq
    <3>2. inbox'[c] = <<>> /\ \A e \in Conn : e # c => inbox'[e] = inbox[e]
      BY <1>1, <2>3
    <3>3. inbox' \in [Conn -> Seq(ToClient)]
      BY <1>1, <2>3, <3>1
    <3>4. ASSUME NEW e \in Conn, NEW i \in DOMAIN inbox'[e]
          PROVE  \E j \in DOMAIN inbox[e] : inbox'[e][i] = inbox[e][j]
      <4>1. e # c
        BY <3>1, <3>2
      <4> QED BY <3>2, <4>1
    <3> QED BY <3>3, <3>4
  <2> QED BY <2>1, <2>2, <2>3
<1>5. TypeOK'
  BY <1>3, <1>4 DEF SInv, TypeOK, server, threads, hist, Place
<1>6. \A e \in Conn : (Live(e)' <=> Live(e)) /\ (Serving(e)' <=> Serving(e))
  BY DEF Live, Serving, threads
<1>7. ThreadInv'
  <2>1. \A e \in Conn : cpc'[e] = "off" => cpc[e] = "off"
    BY <1>2, <1>3
  <2> QED BY <1>6, <2>1 DEF SInv, ThreadInv, server, threads, hist, Live, Serving
<1>8. UidInv' /\ MapInv'
  BY <1>6 DEF SInv, UidInv, Reachable, MapInv, server, threads, hist, Live, Serving
<1>9. PacketInv'
  <2>1. InboxInv'
    <3> SUFFICES ASSUME NEW e \in Conn, NEW i \in DOMAIN inbox'[e] PROVE Good(auth'[e], inbox'[e][i])
      BY DEF InboxInv
    <3>1. PICK j \in DOMAIN inbox[e] : inbox'[e][i] = inbox[e][j]
      BY <1>4
    <3>2. Good(auth[e], inbox[e][j])
      BY DEF SInv, PacketInv, InboxInv
    <3> QED BY <3>1, <3>2 DEF hist
  <2>2. SendInv' /\ ReplyInv'
    BY <1>6 DEF SInv, PacketInv, SendInv, ReplyInv, server, threads, hist, Live
  <2> QED BY <2>1, <2>2 DEF PacketInv
<1>10. ClientInv'
  BY <1>2, <1>3 DEF SInv, ClientInv, LoginUidAuthenticated, hist
<1> QED BY <1>5, <1>7, <1>8, <1>9, <1>10 DEF SInv

\* A packet put into the queue to the server, and one taken out of the inbox.
LEMMA SendType ==
  ASSUME SInv, NEW c \in Conn, NEW p \in ToServer, Send(c, p)
  PROVE  toServer' \in [Conn -> Seq(ToServer)]
<1>1. toServer \in [Conn -> Seq(ToServer)]
  BY DEF SInv, TypeOK
<1>2. Append(toServer[c], p) \in Seq(ToServer)
  BY <1>1, QueueElements
<1> QED BY <1>1, <1>2 DEF Send

LEMMA HeadGood ==
  ASSUME SInv, NEW c \in Conn, inbox[c] # <<>>
  PROVE  /\ Head(inbox[c]) \in ToClient
         /\ Good(auth[c], Head(inbox[c]))
<1>1. inbox[c] \in Seq(ToClient)
  BY DEF SInv, TypeOK
<1>2. Head(inbox[c]) \in ToClient /\ \E j \in DOMAIN inbox[c] : Head(inbox[c]) = inbox[c][j]
  BY <1>1, TailElements
<1>3. \A j \in DOMAIN inbox[c] : Good(auth[c], inbox[c][j])
  BY DEF SInv, PacketInv, InboxInv
<1> QED BY <1>2, <1>3

LEMMA AskLoginInv ==
  ASSUME SessionAssumption, SInv, NEW c \in Conn, NEW u \in User, AskLogin(c, u) \/ AskCreate(c, u)
  PROVE  SInv'
<1>1. UNCHANGED <<server, threads, hist>> /\ inbox' = inbox /\ my_uid' = my_uid /\ sends' = sends
  BY DEF AskLogin, AskCreate
<1>2. PICK place \in {"login", "create"} : cpc' = [cpc EXCEPT ![c] = place]
  BY DEF AskLogin, AskCreate, Goto
<1>3. account' = [account EXCEPT ![c] = u] /\ tries < MaxLogins /\ tries' = tries + 1
  BY DEF AskLogin, AskCreate
<1>4. toServer' \in [Conn -> Seq(ToServer)]
  <2>1. PICK cmd \in {"LOGIN", "CREATE"}, good \in BOOLEAN :
          Send(c, [cmd |-> cmd, user |-> u, good |-> good, uid |-> NULL])
    <3>1. TRUE \in BOOLEAN
      OBVIOUS
    <3> QED BY <3>1 DEF AskLogin, AskCreate
  <2>2. [cmd |-> cmd, user |-> u, good |-> good, uid |-> NULL] \in ToServer
    BY DEF ToServer, Cmd
  <2> QED BY <2>1, <2>2, SendType
<1>5. account \in [Conn -> User \cup {NULL}] /\ my_uid \in [Conn -> User \cup {NULL}]
      /\ tries \in 0 .. MaxLogins /\ sends \in 0 .. MaxSends
  BY DEF SInv, TypeOK
<1>6. account' \in [Conn -> User \cup {NULL}] /\ account'[c] = u
      /\ \A e \in Conn \ {c} : account'[e] = account[e]
  BY <1>3, <1>5
<1>7. tries' \in 0 .. MaxLogins
  BY <1>3, <1>5 DEF SessionAssumption
<1>8. place \in Place \ {"off"} /\ place # "chat"
  BY DEF Place
<1> QED BY <1>1, <1>2, <1>4, <1>5, <1>6, <1>7, <1>8, ClientStep

LEMMA ReadLoginInv ==
  ASSUME SInv, NEW c \in Conn, ReadLogin(c) \/ ReadNewLogin(c)
  PROVE  SInv'
<1>1. /\ UNCHANGED <<server, threads, hist>> /\ inbox[c] # <<>> /\ inbox' = [inbox EXCEPT ![c] = Tail(@)]
      /\ toServer' = toServer /\ account' = account /\ tries' = tries /\ sends' = sends
  BY DEF ReadLogin, ReadNewLogin
<1>2. Head(inbox[c]) \in ToClient /\ Good(auth[c], Head(inbox[c]))
  BY <1>1, HeadGood
<1>3. my_uid \in [Conn -> User \cup {NULL}] /\ Head(inbox[c]).uid \in User \cup {NULL}
  BY <1>2 DEF SInv, TypeOK, ToClient
<1>4. PICK place \in {"prompt", "chat", "newchat"} : cpc' = [cpc EXCEPT ![c] = place]
                                          /\ (place = "chat" => my_uid'[c] \in auth[c])
  <2>1. CASE ReadLogin(c)
    <3>1. CASE Head(inbox[c]).cmd = "LOGIN" /\ Head(inbox[c]).zero
      <4>1. my_uid' = [my_uid EXCEPT ![c] = Head(inbox[c]).uid] /\ cpc' = [cpc EXCEPT ![c] = "chat"]
        BY <2>1, <3>1 DEF ReadLogin, Goto
      <4>2. Head(inbox[c]).uid \in auth[c]
        BY <1>2, <3>1 DEF Good
      <4> QED BY <1>3, <4>1, <4>2
    <3>2. CASE ~(Head(inbox[c]).cmd = "LOGIN" /\ Head(inbox[c]).zero)
      BY <2>1, <3>2 DEF ReadLogin, Goto
    <3> QED BY <3>1, <3>2
  <2>2. CASE ReadNewLogin(c)
    BY <2>2 DEF ReadNewLogin, Goto
  <2> QED BY <2>1, <2>2
<1>5. my_uid' = my_uid \/ my_uid' = [my_uid EXCEPT ![c] = Head(inbox[c]).uid]
  BY DEF ReadLogin, ReadNewLogin
<1>6. my_uid' \in [Conn -> User \cup {NULL}] /\ \A e \in Conn \ {c} : my_uid'[e] = my_uid[e]
  BY <1>3, <1>5
<1>7. place \in Place \ {"off"} /\ place \notin {"login", "create", "newlogin"}
  BY DEF Place
<1>8. /\ toServer \in [Conn -> Seq(ToServer)] /\ account \in [Conn -> User \cup {NULL}]
      /\ tries \in 0 .. MaxLogins /\ sends \in 0 .. MaxSends
  BY DEF SInv, TypeOK
<1> QED BY <1>1, <1>4, <1>6, <1>7, <1>8, ClientStep

LEMMA ReadCreateInv ==
  ASSUME SInv, NEW c \in Conn, ReadCreate(c)
  PROVE  SInv'
<1>1. /\ UNCHANGED <<server, threads, hist>> /\ inbox[c] # <<>> /\ inbox' = [inbox EXCEPT ![c] = Tail(@)]
      /\ my_uid' = my_uid /\ account' = account /\ tries' = tries /\ sends' = sends
      /\ cpc[c] = "create"
  BY DEF ReadCreate
<1>2. account[c] \in User
  BY <1>1 DEF SInv, ClientInv
<1>3. toServer' \in [Conn -> Seq(ToServer)]
  <2>1. CASE Send(c, [cmd |-> "LOGIN", user |-> account[c], good |-> TRUE, uid |-> NULL])
    <3>1. TRUE \in BOOLEAN
      OBVIOUS
    <3>2. [cmd |-> "LOGIN", user |-> account[c], good |-> TRUE, uid |-> NULL] \in ToServer
      BY <1>2, <3>1 DEF ToServer, Cmd
    <3> QED BY <2>1, <3>2, SendType
  <2>2. CASE toServer' = toServer
    BY <2>2 DEF SInv, TypeOK
  <2> QED BY <2>1, <2>2 DEF ReadCreate
<1>4. PICK place \in {"prompt", "newlogin"} : cpc' = [cpc EXCEPT ![c] = place]
  BY DEF ReadCreate, Goto
<1>5. place \in Place \ {"off"} /\ place # "chat"
  BY DEF Place
<1>6. /\ account \in [Conn -> User \cup {NULL}] /\ my_uid \in [Conn -> User \cup {NULL}]
      /\ tries \in 0 .. MaxLogins /\ sends \in 0 .. MaxSends
  BY DEF SInv, TypeOK
<1> QED BY <1>1, <1>2, <1>3, <1>4, <1>5, <1>6, ClientStep

LEMMA ChatInv ==
  ASSUME SessionAssumption, SInv, NEW c \in Conn, (\E u \in User : ChatSend(c, u)) \/ ChatRead(c)
  PROVE  SInv'
<1>1. /\ UNCHANGED <<server, threads, hist>> /\ Chatting(c) /\ cpc' = cpc
      /\ my_uid' = my_uid /\ account' = account /\ tries' = tries
      /\ inbox' = inbox \/ (inbox[c] # <<>> /\ inbox' = [inbox EXCEPT ![c] = Tail(@)])
  BY DEF ChatSend, ChatRead, clients
<1>2. /\ account \in [Conn -> User \cup {NULL}] /\ my_uid \in [Conn -> User \cup {NULL}]
      /\ tries \in 0 .. MaxLogins /\ sends \in 0 .. MaxSends /\ cpc \in [Conn -> Place]
      /\ toServer \in [Conn -> Seq(ToServer)]
  BY DEF SInv, TypeOK, Place
<1>3. toServer' \in [Conn -> Seq(ToServer)]
  <2>1. ASSUME NEW u \in User, ChatSend(c, u) PROVE toServer' \in [Conn -> Seq(ToServer)]
    <3>1. PICK cmd \in {"INVITE", "CHAT"} :
            Send(c, [cmd |-> cmd, user |-> u, good |-> TRUE, uid |-> my_uid[c]])
      BY <2>1 DEF ChatSend
    <3>2. TRUE \in BOOLEAN
      OBVIOUS
    <3>3. [cmd |-> cmd, user |-> u, good |-> TRUE, uid |-> my_uid[c]] \in ToServer
      BY <1>2, <3>2 DEF ToServer, Cmd
    <3> QED BY <3>1, <3>3, SendType
  <2>2. CASE ChatRead(c)
    BY <1>2, <2>2 DEF ChatRead
  <2> QED BY <2>1, <2>2
<1>4. sends' \in 0 .. MaxSends
  <2>1. sends' = sends \/ (sends < MaxSends /\ sends' = sends + 1)
    BY DEF ChatSend, ChatRead, clients
  <2> QED BY <1>2, <2>1 DEF SessionAssumption
<1>5. cpc' = [cpc EXCEPT ![c] = cpc[c]]
  BY <1>1, <1>2
<1>6. cpc[c] \in Place \ {"off"} /\ cpc[c] \notin {"login", "create", "newlogin"}
  BY <1>1, <1>2 DEF Chatting
<1>7. cpc[c] = "chat" => my_uid'[c] \in auth[c]
  BY <1>1 DEF SInv, ClientInv, LoginUidAuthenticated
<1> QED BY <1>1, <1>2, <1>3, <1>4, <1>5, <1>6, <1>7, ClientStep

LEMMA LeaveInv ==
  ASSUME SInv, NEW c \in Conn, Leave(c)
  PROVE  SInv'
<1>1. /\ UNCHANGED <<server, threads, hist>> /\ cpc' = [cpc EXCEPT ![c] = "gone"]
      /\ inbox' = [inbox EXCEPT ![c] = <<>>]
      /\ account' = [account EXCEPT ![c] = NULL] /\ my_uid' = [my_uid EXCEPT ![c] = NULL]
      /\ toServer' = toServer /\ tries' = tries /\ sends' = sends
  BY DEF Leave, Goto
<1>2. /\ account \in [Conn -> User \cup {NULL}] /\ my_uid \in [Conn -> User \cup {NULL}]
      /\ tries \in 0 .. MaxLogins /\ sends \in 0 .. MaxSends
      /\ toServer \in [Conn -> Seq(ToServer)]
  BY DEF SInv, TypeOK
<1>3. /\ account' \in [Conn -> User \cup {NULL}] /\ my_uid' \in [Conn -> User \cup {NULL}]
      /\ \A e \in Conn \ {c} : account'[e] = account[e] /\ my_uid'[e] = my_uid[e]
  BY <1>1, <1>2
<1>4. "gone" \in Place \ {"off"}
  BY DEF Place
<1> QED BY <1>1, <1>2, <1>3, <1>4, ClientStep
----------------------------------------------------------------------------
(* Connections come and go *)

\* What only the clients can disturb, in a step of the server in which the
\* connections at most gain accounts.
LEMMA ServerStep ==
  ASSUME SInv, UNCHANGED clients, auth' \in [Conn -> SUBSET User],
         \A e \in Conn : auth[e] \subseteq auth'[e]
  PROVE  /\ ClientInv'
         /\ inbox' = inbox => InboxInv'
<1>1. ClientInv'
  BY DEF SInv, ClientInv, LoginUidAuthenticated, clients
<1>2. ASSUME inbox' = inbox PROVE InboxInv'
  BY <1>2 DEF SInv, PacketInv, InboxInv, Good
<1> QED BY <1>1, <1>2

LEMMA AcceptInv ==
  ASSUME SessionAssumption, SInv, NEW c \in Conn, Accept(c)
  PROVE  SInv'
<1> DEFINE fd == Min({f \in Fd : table[f] = NULL})
<1>1. fd \in Fd /\ table[fd] = NULL
  <2>1. {f \in Fd : table[f] = NULL} # {} /\ {f \in Fd : table[f] = NULL} \subseteq Nat
    BY DEF Accept, SessionAssumption
  <2>2. fd \in {f \in Fd : table[f] = NULL}
    BY <2>1, MinFree
  <2> QED BY <2>2
<1>2. /\ cpc[c] = "off" /\ cpc' = [cpc EXCEPT ![c] = "prompt"] /\ table' = [table EXCEPT ![fd] = c]
      /\ connfd' = [connfd EXCEPT ![spare] = fd] /\ uid' = [uid EXCEPT ![spare] = NULL]
      /\ data' = [data EXCEPT ![c] = spare] /\ tpc' = [tpc EXCEPT ![c] = "read"]
      /\ UNCHANGED <<up, active, known, ptr, out, toServer, inbox, account, my_uid, tries, sends,
                     auth, putBy, shared, via>>
  BY DEF Accept, hist
<1>3. PICK d \in Data \ alloc : spare' = d /\ alloc' = alloc \cup {d}
  BY DEF Accept
<1> HIDE DEF fd
<1>t. TypeOK
  BY DEF SInv
<1>4. TypeOK'
  BY <1>1, <1>2, <1>3, <1>t DEF TypeOK
<1>5. tpc[c] = "none" /\ auth[c] = {}
  BY <1>2 DEF SInv, ThreadInv, Live
<1>6. /\ cpc'[c] = "prompt" /\ tpc'[c] = "read" /\ data'[c] = spare
      /\ connfd'[spare] = fd /\ uid'[spare] = NULL /\ table'[fd] = c
  BY <1>1, <1>2, <1>t DEF TypeOK
<1>7. /\ \A e \in Conn : e # c => cpc'[e] = cpc[e] /\ tpc'[e] = tpc[e] /\ data'[e] = data[e]
      /\ \A f \in Fd : f # fd => table'[f] = table[f]
      /\ \A s \in Data : s # spare => connfd'[s] = connfd[s] /\ uid'[s] = uid[s]
  BY <1>2, <1>t DEF TypeOK
<1>8. \A e \in Conn : e # c /\ Live(e) =>
        data[e] \in Data /\ connfd'[data[e]] = connfd[data[e]] /\ uid'[data[e]] = uid[data[e]]
  BY <1>7, <1>t DEF SInv, ThreadInv, TypeOK
<1>9. ThreadInv'
  <2>1. spare' \in alloc'
    BY <1>3
  <2>2. ASSUME NEW e \in Conn, Live(e)' PROVE data'[e] \in alloc' /\ data'[e] # spare'
    BY <1>3, <1>6, <1>7, <2>2 DEF SInv, ThreadInv, Live
  <2>3. ASSUME NEW e \in Conn, NEW g \in Conn, Live(e)', Live(g)', data'[e] = data'[g] PROVE e = g
    BY <1>6, <1>7, <2>3 DEF SInv, ThreadInv, Live
  <2>4. ASSUME NEW e \in Conn, Serving(e)'
        PROVE  connfd'[data'[e]] \in Fd /\ table'[connfd'[data'[e]]] = e
    <3>1. CASE e = c
      BY <1>1, <1>6, <3>1
    <3>2. CASE e # c
      <4>1. Serving(e) /\ Live(e)
        BY <1>7, <2>4, <3>2 DEF Serving, Live
      <4>2. connfd[data[e]] \in Fd /\ table[connfd[data[e]]] = e
        BY <4>1 DEF SInv, ThreadInv
      <4>3. connfd[data[e]] # fd
        BY <1>1, <4>2 DEF SessionAssumption
      <4>4. data'[e] = data[e] /\ connfd'[data[e]] = connfd[data[e]]
        BY <1>7, <1>8, <3>2, <4>1
      <4>5. table'[connfd[data[e]]] = e
        BY <1>7, <4>2, <4>3
      <4> QED BY <4>2, <4>4, <4>5
    <3> QED BY <3>1, <3>2
  <2>5. ASSUME NEW f \in Fd, table'[f] # NULL
        PROVE  tpc'[table'[f]] \in {"read", "reply", "send"} /\ connfd'[data'[table'[f]]] = f
    <3>1. CASE f = fd
      BY <1>6, <3>1 DEF Serving
    <3>2. CASE f # fd
      <4>1. table'[f] = table[f] /\ table[f] # NULL /\ table[f] \in Conn
        BY <1>7, <1>t, <2>5, <3>2 DEF TypeOK
      <4>2. Serving(table[f]) /\ connfd[data[table[f]]] = f
        BY <4>1 DEF SInv, ThreadInv
      <4>3. table[f] # c /\ Live(table[f])
        BY <1>5, <4>2 DEF Serving, Live
      <4> QED BY <1>7, <1>8, <4>1, <4>2, <4>3 DEF Serving
    <3> QED BY <3>1, <3>2
  <2>6. ASSUME NEW e \in Conn, cpc'[e] = "off" PROVE ~Live(e)' /\ auth'[e] = {}
    BY <1>2, <1>6, <1>7, <2>6 DEF SInv, ThreadInv, Live
  <2> QED BY <2>1, <2>2, <2>3, <2>4, <2>5, <2>6 DEF ThreadInv, Serving
<1>10. UidInv'
  <2>1. ASSUME NEW e \in Conn, Live(e)'
        PROVE  IF auth'[e] = {} THEN uid'[data'[e]] = NULL ELSE uid'[data'[e]] \in auth'[e]
    BY <1>2, <1>5, <1>6, <1>7, <1>8, <2>1 DEF SInv, UidInv, Live
  <2>2. ASSUME NEW e \in Conn, NEW g \in Conn, e # g, tpc'[e] \notin {"none", "removed"},
               tpc'[g] \notin {"none", "removed"}, uid'[data'[e]] = uid'[data'[g]], uid'[data'[e]] \in User
        PROVE  uid'[data'[e]] \in shared'
    <3>1. e # c /\ g # c
      BY <1>6, <2>2 DEF SessionAssumption
    <3> QED BY <1>2, <1>7, <1>8, <2>2, <3>1 DEF SInv, UidInv, Live
  <2>3. Reachable'
    <3> SUFFICES ASSUME NEW e \in Conn, NEW u \in User \ shared', Serving(e)', uid'[data'[e]] = u
                 PROVE  active'[u] = data'[e]
      BY DEF Reachable
    <3>1. e # c
      BY <1>6 DEF SessionAssumption
    <3> QED BY <1>2, <1>7, <1>8, <3>1 DEF SInv, UidInv, Reachable, Serving, Live
  <2> QED BY <2>1, <2>2, <2>3 DEF UidInv
<1>11. MapInv'
  <2> SUFFICES ASSUME NEW u \in User, active'[u] # NULL
               PROVE  /\ putBy'[u] \in Conn /\ u \in auth'[putBy'[u]]
                      /\ tpc'[putBy'[u]] # "none" => active'[u] = data'[putBy'[u]]
                      /\ auth'[putBy'[u]] = {u} => tpc'[putBy'[u]] \notin {"none", "removed"}
    BY DEF MapInv, Live
  <2>1. putBy[u] \in Conn /\ u \in auth[putBy[u]]
    BY <1>2 DEF SInv, MapInv
  <2>2. putBy[u] # c
    BY <1>5, <2>1
  <2> QED BY <1>2, <1>7, <2>1, <2>2 DEF SInv, MapInv, Live
<1>12. SendInv' /\ ReplyInv'
  <2>1. ASSUME NEW e \in Conn, tpc'[e] = "send"
        PROVE  /\ ptr'[e] \in Data /\ via'[e] \in Conn /\ out'[e].cmd # "LOGIN"
               /\ out'[e].to \in auth'[via'[e]]
               /\ tpc'[via'[e]] # "none" => ptr'[e] = data'[via'[e]]
    <3>1. tpc[e] = "send"
      BY <1>6, <1>7, <2>1
    <3>2. /\ ptr[e] \in Data /\ via[e] \in Conn /\ out[e].cmd # "LOGIN" /\ out[e].to \in auth[via[e]]
          /\ Live(via[e]) => ptr[e] = data[via[e]]
      BY <3>1 DEF SInv, PacketInv, SendInv
    <3>3. via[e] # c
      BY <1>5, <3>2
    <3> QED BY <1>2, <1>7, <3>2, <3>3 DEF Live
  <2>2. ReplyInv'
    BY <1>2, <1>6, <1>7 DEF SInv, PacketInv, ReplyInv
  <2> QED BY <2>1, <2>2 DEF SendInv, Live
<1>13. InboxInv' /\ ClientInv'
  BY <1>2, <1>6, <1>7 DEF SInv, PacketInv, InboxInv, ClientInv, LoginUidAuthenticated
<1> QED BY <1>4, <1>9, <1>10, <1>11, <1>12, <1>13 DEF SInv, PacketInv

LEMMA HangupInv ==
  ASSUME SessionAssumption, SInv, NEW c \in Conn, Hangup(c)
  PROVE  SInv'
<1> DEFINE fd == connfd[data[c]]
<1>1. /\ tpc[c] = "read" /\ table' = [table EXCEPT ![fd] = NULL] /\ tpc' = [tpc EXCEPT ![c] = "closed"]
      /\ UNCHANGED <<up, alloc, spare, connfd, uid, active, known, data, ptr, out,
                     toServer, inbox, clients, auth, putBy, shared, via>>
  BY DEF Hangup, hist
<1>2. fd \in Fd /\ table[fd] = c
  BY <1>1 DEF SInv, ThreadInv, Serving
<1> HIDE DEF fd
<1>t. TypeOK
  BY DEF SInv
<1>3. TypeOK'
  BY <1>1, <1>2, <1>t DEF TypeOK, clients
<1>4. /\ tpc'[c] = "closed" /\ \A e \in Conn : e # c => tpc'[e] = tpc[e]
      /\ table'[fd] = NULL /\ \A f \in Fd : f # fd => table'[f] = table[f]
  BY <1>1, <1>2, <1>t DEF TypeOK
<1>5. \A e \in Conn : (Live(e)' <=> Live(e)) /\ (Serving(e)' <=> Serving(e) /\ e # c)
  BY <1>1, <1>4 DEF Live, Serving
<1>6. ThreadInv'
  <2>1. ASSUME NEW e \in Conn, Serving(e)'
        PROVE  connfd'[data'[e]] \in Fd /\ table'[connfd'[data'[e]]] = e
    <3>1. e # c /\ connfd[data[e]] \in Fd /\ table[connfd[data[e]]] = e
      BY <1>5, <2>1 DEF SInv, ThreadInv
    <3>2. connfd[data[e]] # fd
      BY <1>2, <3>1
    <3> QED BY <1>1, <1>4, <3>1, <3>2
  <2>2. ASSUME NEW f \in Fd, table'[f] # NULL
        PROVE  tpc'[table'[f]] \in {"read", "reply", "send"} /\ connfd'[data'[table'[f]]] = f
    <3>1. f # fd /\ table'[f] = table[f] /\ table[f] \in Conn
      BY <1>4, <1>t, <2>2 DEF TypeOK
    <3>2. Serving(table[f]) /\ connfd[data[table[f]]] = f
      BY <2>2, <3>1 DEF SInv, ThreadInv
    <3>3. table[f] # c
      BY <3>1, <3>2 DEF fd
    <3> QED BY <1>1, <1>4, <3>1, <3>2, <3>3 DEF Serving
  <2> QED BY <1>1, <1>5, <2>1, <2>2 DEF SInv, ThreadInv, clients, Serving
<1>7. UidInv'
  BY <1>1, <1>4, <1>5 DEF SInv, UidInv, Reachable
<1>8. MapInv'
  BY <1>1, <1>4, <1>5 DEF SInv, MapInv
<1>9. SendInv' /\ ReplyInv'
  BY <1>1, <1>4, <1>5 DEF SInv, PacketInv, SendInv, ReplyInv
<1>10. InboxInv' /\ ClientInv'
  BY <1>1, <1>t, ServerStep DEF TypeOK
<1> QED BY <1>3, <1>6, <1>7, <1>8, <1>9, <1>10 DEF SInv, PacketInv

LEMMA RemoveInv ==
  ASSUME SessionAssumption, SInv, NEW c \in Conn, Remove(c)
  PROVE  SInv'
<1>1. /\ tpc[c] = "closed" /\ tpc' = [tpc EXCEPT ![c] = "removed"]
      /\ active' = [u \in User |-> IF u = uid[data[c]] THEN NULL ELSE active[u]]
      /\ UNCHANGED <<up, table, alloc, spare, connfd, uid, known, data, ptr, out,
                     toServer, inbox, clients, auth, putBy, shared, via>>
  BY DEF Remove, hist
<1>t. TypeOK
  BY DEF SInv
<1>2. TypeOK'
  BY <1>1, <1>t DEF TypeOK, clients
<1>3. tpc'[c] = "removed" /\ \A e \in Conn : e # c => tpc'[e] = tpc[e]
  BY <1>1, <1>t DEF TypeOK
<1>4. \A e \in Conn : (Live(e)' <=> Live(e)) /\ (Serving(e)' <=> Serving(e))
  BY <1>1, <1>3 DEF Live, Serving
<1>5. \A u \in User : active'[u] = IF u = uid[data[c]] THEN NULL ELSE active[u]
  BY <1>1
<1>6. ThreadInv'
  <2>1. ASSUME NEW f \in Fd, table[f] # NULL PROVE tpc'[table[f]] \in {"read", "reply", "send"}
    <3>1. table[f] \in Conn /\ Serving(table[f])
      BY <1>t, <2>1 DEF SInv, ThreadInv, TypeOK
    <3> QED BY <1>1, <1>3, <3>1 DEF Serving
  <2> QED BY <1>1, <1>4, <2>1 DEF SInv, ThreadInv, clients, Serving
<1>7. UidInv'
  <2>1. Reachable'
    <3> SUFFICES ASSUME NEW e \in Conn, NEW u \in User \ shared, Serving(e)', uid[data[e]] = u
                 PROVE  active'[u] = data[e]
      BY <1>1 DEF Reachable
    <3>1. Serving(e) /\ active[u] = data[e]
      BY <1>4 DEF SInv, UidInv, Reachable
    <3>2. u # uid[data[c]]
      BY <1>1, <3>1 DEF SInv, UidInv, Serving
    <3> QED BY <1>5, <3>1, <3>2
  <2> QED BY <1>1, <1>3, <1>4, <2>1 DEF SInv, UidInv
<1>8. MapInv'
  <2> SUFFICES ASSUME NEW u \in User, active'[u] # NULL
               PROVE  /\ putBy[u] \in Conn /\ u \in auth[putBy[u]]
                      /\ tpc'[putBy[u]] # "none" => active'[u] = data[putBy[u]]
                      /\ auth[putBy[u]] = {u} => tpc'[putBy[u]] \notin {"none", "removed"}
    BY <1>1 DEF MapInv, Live
  <2>1. u # uid[data[c]] /\ active'[u] = active[u]
    BY <1>5
  <2>2. /\ putBy[u] \in Conn /\ u \in auth[putBy[u]]
        /\ Live(putBy[u]) => active[u] = data[putBy[u]]
        /\ auth[putBy[u]] = {u} => tpc[putBy[u]] \notin {"none", "removed"}
    BY <2>1 DEF SInv, MapInv
  <2>3. auth[c] # {u}
    BY <1>1, <2>1 DEF SInv, UidInv, Live
  <2> QED BY <1>1, <1>3, <2>1, <2>2, <2>3 DEF Live
<1>9. SendInv' /\ ReplyInv'
  BY <1>1, <1>3, <1>4 DEF SInv, PacketInv, SendInv, ReplyInv
<1>10. InboxInv' /\ ClientInv'
  BY <1>1, <1>t, ServerStep DEF TypeOK
<1> QED BY <1>2, <1>6, <1>7, <1>8, <1>9, <1>10 DEF SInv, PacketInv

LEMMA FreeInv ==
  ASSUME SessionAssumption, SInv, NEW c \in Conn, Free(c)
  PROVE  SInv'
<1>1. /\ tpc[c] = "removed" /\ tpc' = [tpc EXCEPT ![c] = "none"]
      /\ alloc' = alloc \ {data[c]} /\ data' = [data EXCEPT ![c] = NULL]
      /\ UNCHANGED <<up, table, spare, connfd, uid, active, known, ptr, out,
                     toServer, inbox, clients, auth, putBy, shared, via>>
  BY DEF Free, hist
<1>t. TypeOK
  BY DEF SInv
<1>2. TypeOK'
  BY <1>1, <1>t DEF TypeOK, clients
<1>3. tpc'[c] = "none" /\ \A e \in Conn : e # c => tpc'[e] = tpc[e] /\ data'[e] = data[e]
  BY <1>1, <1>t DEF TypeOK
<1>4. \A e \in Conn : (Live(e)' => e # c /\ Live(e)) /\ (Serving(e)' => e # c /\ Serving(e))
  BY <1>1, <1>3 DEF Live, Serving
<1>5. Live(c) /\ ~Serving(c)
  BY <1>1 DEF Live, Serving
<1>6. ThreadInv'
  <2>1. ASSUME NEW f \in Fd, table[f] # NULL
        PROVE  tpc'[table[f]] \in {"read", "reply", "send"} /\ connfd[data'[table[f]]] = f
    <3>1. table[f] \in Conn /\ Serving(table[f]) /\ connfd[data[table[f]]] = f
      BY <1>t, <2>1 DEF SInv, ThreadInv, TypeOK
    <3> QED BY <1>3, <1>5, <3>1 DEF Serving
  <2>2. \A e \in Conn : Serving(e)' => connfd[data'[e]] \in Fd /\ table[connfd[data'[e]]] = e
    BY <1>3, <1>4 DEF SInv, ThreadInv
  <2>3. \A e \in Conn : Live(e)' => data'[e] \in alloc' /\ data'[e] # spare
    BY <1>1, <1>3, <1>4, <1>5 DEF SInv, ThreadInv
  <2>4. \A e \in Conn, g \in Conn : Live(e)' /\ Live(g)' /\ data'[e] = data'[g] => e = g
    BY <1>3, <1>4 DEF SInv, ThreadInv
  <2>5. spare \in alloc'
    BY <1>1, <1>5 DEF SInv, ThreadInv
  <2>6. \A e \in Conn : cpc[e] = "off" => ~Live(e)' /\ auth[e] = {}
    BY <1>4 DEF SInv, ThreadInv
  <2> QED BY <1>1, <2>1, <2>2, <2>3, <2>4, <2>5, <2>6 DEF ThreadInv, clients, Serving
<1>7. UidInv'
  <2>1. \A e \in Conn : Live(e)' =>
          IF auth[e] = {} THEN uid[data'[e]] = NULL ELSE uid[data'[e]] \in auth[e]
    BY <1>3, <1>4 DEF SInv, UidInv
  <2>2. ASSUME NEW e \in Conn, NEW g \in Conn, e # g, tpc'[e] \notin {"none", "removed"},
               tpc'[g] \notin {"none", "removed"}, uid[data'[e]] = uid[data'[g]], uid[data'[e]] \in User
        PROVE  uid[data'[e]] \in shared
    BY <1>3, <2>2 DEF SInv, UidInv
  <2>3. Reachable'
    BY <1>1, <1>3, <1>4 DEF SInv, UidInv, Reachable
  <2> QED BY <1>1, <2>1, <2>2, <2>3 DEF UidInv
<1>8. MapInv'
  <2> SUFFICES ASSUME NEW u \in User, active[u] # NULL
               PROVE  /\ putBy[u] \in Conn /\ u \in auth[putBy[u]]
                      /\ tpc'[putBy[u]] # "none" => active[u] = data'[putBy[u]]
                      /\ auth[putBy[u]] = {u} => tpc'[putBy[u]] \notin {"none", "removed"}
    BY <1>1 DEF MapInv, Live
  <2>1. /\ putBy[u] \in Conn /\ u \in auth[putBy[u]]
        /\ Live(putBy[u]) => active[u] = data[putBy[u]]
        /\ auth[putBy[u]] = {u} => tpc[putBy[u]] \notin {"none", "removed"}
    BY DEF SInv, MapInv
  <2> QED BY <1>1, <1>3, <2>1 DEF Live
<1>9. SendInv' /\ ReplyInv'
  <2>1. ASSUME NEW e \in Conn, tpc'[e] = "send"
        PROVE  /\ ptr[e] \in Data /\ via[e] \in Conn /\ out[e].cmd # "LOGIN" /\ out[e].to \in auth[via[e]]
               /\ tpc'[via[e]] # "none" => ptr[e] = data'[via[e]]
    <3>1. tpc[e] = "send"
      BY <1>3, <2>1
    <3>2. /\ ptr[e] \in Data /\ via[e] \in Conn /\ out[e].cmd # "LOGIN" /\ out[e].to \in auth[via[e]]
          /\ Live(via[e]) => ptr[e] = data[via[e]]
      BY <3>1 DEF SInv, PacketInv, SendInv
    <3> QED BY <1>3, <3>2 DEF Live
  <2>2. ReplyInv'
    BY <1>1, <1>3 DEF SInv, PacketInv, ReplyInv
  <2> QED BY <1>1, <2>1, <2>2 DEF SendInv, Live
<1>10. InboxInv' /\ ClientInv'
  BY <1>1, <1>t, ServerStep DEF TypeOK
<1> QED BY <1>2, <1>6, <1>7, <1>8, <1>9, <1>10 DEF SInv, PacketInv
----------------------------------------------------------------------------
(* Requests *)

LEMMA RequestType ==
  ASSUME SInv, NEW c \in Conn, NEW cmds, Request(c, cmds)
  PROVE  /\ Head(toServer[c]) \in ToServer /\ Head(toServer[c]).cmd \in cmds
         /\ toServer' \in [Conn -> Seq(ToServer)]
<1>1. toServer \in [Conn -> Seq(ToServer)]
  BY DEF SInv, TypeOK
<1>2. Head(toServer[c]) \in ToServer /\ Tail(toServer[c]) \in Seq(ToServer)
  BY <1>1, TailElements DEF Request
<1> QED BY <1>1, <1>2 DEF Request

\* A packet that is good for the connection behind the descriptor it is written to.
LEMMA WriteGood ==
  ASSUME SInv, NEW f \in Fd \cup {NULL}, NEW p \in ToClient, Write(f, p), auth' = auth,
         f \in Fd /\ table[f] # NULL => Good(auth[table[f]], p)
  PROVE  up' \in BOOLEAN /\ inbox' \in [Conn -> Seq(ToClient)] /\ InboxInv'
<1>1. /\ up \in BOOLEAN /\ inbox \in [Conn -> Seq(ToClient)] /\ table \in [Fd -> Conn \cup {NULL}]
      /\ \A e \in Conn : \A i \in DOMAIN inbox[e] : Good(auth[e], inbox[e][i])
  BY DEF SInv, TypeOK, PacketInv, InboxInv
<1>2. CASE inbox' = inbox
  <2>1. up' \in BOOLEAN
    <3>1. up' = up \/ up' \in {TRUE, FALSE}
      BY Zenon DEF Write
    <3> QED BY <1>1, <3>1, Zenon
  <2> QED BY <1>1, <1>2, <2>1 DEF InboxInv
<1>3. CASE inbox' # inbox
  <2> DEFINE c == table[f]
  <2>1. f \in Fd /\ c # NULL /\ inbox' = [inbox EXCEPT ![c] = Append(@, p)] /\ up' = up
    BY <1>3 DEF Write
  <2>2. c \in Conn /\ Good(auth[c], p)
    BY <1>1, <2>1
  <2> HIDE DEF c
  <2>3. /\ Append(inbox[c], p) \in Seq(ToClient)
        /\ \A i \in DOMAIN Append(inbox[c], p) :
             Append(inbox[c], p)[i] = p \/ \E j \in DOMAIN inbox[c] : Append(inbox[c], p)[i] = inbox[c][j]
    BY <1>1, <2>2, QueueElements
  <2>4. inbox' \in [Conn -> Seq(ToClient)]
    BY <1>1, <2>1, <2>2, <2>3
  <2>5. inbox'[c] = Append(inbox[c], p) /\ \A e \in Conn : e # c => inbox'[e] = inbox[e]
    BY <1>1, <2>1, <2>2
  <2>6. ASSUME NEW e \in Conn, NEW i \in DOMAIN inbox'[e] PROVE Good(auth[e], inbox'[e][i])
    <3>1. CASE e = c
      <4>1. inbox'[e][i] = p \/ \E j \in DOMAIN inbox[c] : inbox'[e][i] = inbox[c][j]
        BY <2>3, <2>5, <2>6, <3>1
      <4> QED BY <1>1, <2>2, <3>1, <4>1
    <3>2. CASE e # c
      BY <1>1, <2>5, <2>6, <3>2
    <3> QED BY <3>1, <3>2
  <2> QED BY <1>1, <2>1, <2>4, <2>6 DEF InboxInv
<1> QED BY <1>2, <1>3

\* A thread that goes on serving, and does not touch what the threads share.
LEMMA ServingStep ==
  ASSUME SInv, NEW c \in Conn, Serving(c), NEW step \in {"read", "reply", "send"},
         tpc' = [tpc EXCEPT ![c] = step],
         UNCHANGED <<table, alloc, spare, connfd, uid, active, data, clients, auth, putBy, shared>>
  PROVE  /\ ThreadInv' /\ UidInv' /\ MapInv' /\ ClientInv'
         /\ \A e \in Conn : (Live(e)' <=> Live(e)) /\ (e # c => tpc'[e] = tpc[e])
         /\ tpc'[c] = step
<1>t. TypeOK
  BY DEF SInv
<1>1. tpc'[c] = step /\ \A e \in Conn : e # c => tpc'[e] = tpc[e]
  BY <1>t DEF TypeOK
<1>2. \A e \in Conn : (Live(e)' <=> Live(e)) /\ (Serving(e)' <=> Serving(e))
  BY <1>1 DEF Live, Serving
<1>3. \A e \in Conn : tpc'[e] \in {"none", "removed"} <=> tpc[e] \in {"none", "removed"}
  BY <1>1 DEF Serving
<1>4. ThreadInv'
  <2>1. ASSUME NEW f \in Fd, table[f] # NULL PROVE tpc'[table[f]] \in {"read", "reply", "send"}
    <3>1. table[f] \in Conn /\ Serving(table[f])
      BY <1>t, <2>1 DEF SInv, ThreadInv, TypeOK
    <3> QED BY <1>1, <3>1 DEF Serving
  <2> QED BY <1>2, <2>1 DEF SInv, ThreadInv, clients, Serving
<1>5. UidInv'
  BY <1>2, <1>3 DEF SInv, UidInv, Reachable
<1>6. MapInv'
  BY <1>2, <1>3 DEF SInv, MapInv
<1>7. ClientInv'
  BY <1>t, ServerStep DEF TypeOK
<1> QED BY <1>1, <1>2, <1>4, <1>5, <1>6, <1>7

LEMMA OwnFd ==
  ASSUME SInv, NEW c \in Conn, Serving(c)
  PROVE  connfd[data[c]] \in Fd /\ table[connfd[data[c]]] = c /\ data[c] \in Data /\ Live(c)
BY DEF SInv, ThreadInv, TypeOK, Serving, Live

LEMMA HandleCreateInv ==
  ASSUME SessionAssumption, SInv, NEW c \in Conn, HandleCreate(c)
  PROVE  SInv'
<1> DEFINE p == Head(toServer[c])
           new == p.user \notin known
           q == Packet("CREATE", new, IF new THEN p.user ELSE NULL, NULL)
<1>1. /\ Request(c, {"CREATE"}) /\ known' = known \cup {p.user} /\ Write(connfd[data[c]], q)
      /\ UNCHANGED <<table, alloc, spare, connfd, uid, active, tpc, data, ptr, out, clients,
                     auth, putBy, shared, via>>
  BY DEF HandleCreate, threads, hist
<1>2. p \in ToServer /\ toServer' \in [Conn -> Seq(ToServer)]
  BY <1>1, RequestType
<1>3. p.user \in User
  BY <1>2 DEF ToServer
<1>4. new \in BOOLEAN
  OBVIOUS
<1>5. q \in ToClient /\ q.cmd = "CREATE" /\ q.to = NULL
  <2>1. (IF new THEN p.user ELSE NULL) \in User \cup {NULL}
    BY <1>3
  <2> HIDE DEF new
  <2> QED BY <1>4, <2>1, PacketType DEF Cmd
<1>6. Serving(c) /\ tpc[c] = "read"
  BY <1>1 DEF Request, Serving
<1>7. Good(auth[c], q)
  BY <1>5 DEF Good
<1>8. up' \in BOOLEAN /\ inbox' \in [Conn -> Seq(ToClient)] /\ InboxInv'
  <2> HIDE DEF q
  <2> QED BY <1>1, <1>5, <1>6, <1>7, OwnFd, WriteGood
<1>t. TypeOK
  BY DEF SInv
<1>9. TypeOK'
  BY <1>1, <1>2, <1>3, <1>8, <1>t DEF TypeOK, clients
<1>10. tpc' = [tpc EXCEPT ![c] = "read"]
  BY <1>1, <1>6, <1>t DEF TypeOK
<1>11. ThreadInv' /\ UidInv' /\ MapInv' /\ ClientInv'
  BY <1>1, <1>6, <1>10, ServingStep
<1>12. SendInv' /\ ReplyInv'
  BY <1>1 DEF SInv, PacketInv, SendInv, ReplyInv, Live
<1> QED BY <1>8, <1>9, <1>11, <1>12 DEF SInv, PacketInv

LEMMA ReplyInvariant ==
  ASSUME SessionAssumption, SInv, NEW c \in Conn, Reply(c)
  PROVE  SInv'
<1>1. /\ tpc[c] = "reply" /\ Write(connfd[data[c]], out[c])
      /\ tpc' = [tpc EXCEPT ![c] = "read"] /\ out' = [out EXCEPT ![c] = NoPacket]
      /\ UNCHANGED <<table, alloc, spare, connfd, uid, active, known, data, ptr, toServer, clients,
                     auth, putBy, shared, via>>
  BY DEF Reply, hist
<1>2. Serving(c)
  BY <1>1 DEF Serving
<1>t. TypeOK
  BY DEF SInv
<1>3. out[c] \in ToClient /\ Good(auth[c], out[c])
  BY <1>1, <1>t DEF SInv, PacketInv, ReplyInv, Good, TypeOK
<1>4. up' \in BOOLEAN /\ inbox' \in [Conn -> Seq(ToClient)] /\ InboxInv'
  BY <1>1, <1>2, <1>3, OwnFd, WriteGood
<1>5. TypeOK'
  BY <1>1, <1>4, <1>t, NoPacketType DEF TypeOK, clients
<1>6. /\ ThreadInv' /\ UidInv' /\ MapInv' /\ ClientInv'
      /\ \A e \in Conn : (Live(e)' <=> Live(e)) /\ (e # c => tpc'[e] = tpc[e])
      /\ tpc'[c] = "read"
  BY <1>1, <1>2, ServingStep
<1>7. \A e \in Conn : e # c => out'[e] = out[e]
  BY <1>1, <1>t DEF TypeOK
<1>8. SendInv' /\ ReplyInv'
  BY <1>1, <1>6, <1>7 DEF SInv, PacketInv, SendInv, ReplyInv
<1> QED BY <1>4, <1>5, <1>6, <1>8 DEF SInv, PacketInv

LEMMA HandleSendInv ==
  ASSUME SessionAssumption, SInv, NEW c \in Conn, HandleSend(c)
  PROVE  SInv'
<1> DEFINE p == Head(toServer[c])
           invite == p.cmd = "INVITE"
           q == Packet(p.cmd, invite, p.uid, p.user)
<1>1. /\ Request(c, {"INVITE", "CHAT"})
      /\ UNCHANGED <<up, table, alloc, spare, connfd, uid, active, known, inbox, clients,
                     data, auth, putBy, shared>>
  BY DEF HandleSend, server, threads
<1>2. p \in ToServer /\ p.cmd \in {"INVITE", "CHAT"} /\ toServer' \in [Conn -> Seq(ToServer)]
  BY <1>1, RequestType
<1>3. p.user \in User /\ p.uid \in User \cup {NULL}
  BY <1>2 DEF ToServer
<1>4. invite \in BOOLEAN
  OBVIOUS
<1>5. q \in ToClient /\ q.cmd = p.cmd /\ q.to = p.user
  <2>1. p.cmd \in Cmd /\ p.user \in User \cup {NULL}
    BY <1>2, <1>3 DEF Cmd
  <2> HIDE DEF invite, p
  <2> QED BY <1>3, <1>4, <2>1, PacketType
<1>6. Serving(c) /\ tpc[c] = "read"
  BY <1>1 DEF Request, Serving
<1>t. TypeOK
  BY DEF SInv
<1>7. InboxInv'
  BY <1>1, <1>t, ServerStep DEF TypeOK
<1>8. CASE UNCHANGED <<threads, via>>
  <2>1. UNCHANGED <<tpc, data, ptr, out, via>>
    BY <1>8 DEF threads
  <2>2. TypeOK'
    BY <1>1, <1>2, <1>t, <2>1 DEF TypeOK, clients
  <2>3. tpc' = [tpc EXCEPT ![c] = "read"]
    BY <1>6, <1>t, <2>1 DEF TypeOK
  <2>4. ThreadInv' /\ UidInv' /\ MapInv' /\ ClientInv'
    BY <1>1, <1>6, <2>3, ServingStep
  <2>5. SendInv' /\ ReplyInv'
    BY <1>1, <2>1 DEF SInv, PacketInv, SendInv, ReplyInv, Live
  <2> QED BY <1>7, <2>2, <2>4, <2>5 DEF SInv, PacketInv
<1>9. CASE ~UNCHANGED <<threads, via>>
  <2>1. /\ active[p.user] # NULL
        /\ ptr' = [ptr EXCEPT ![c] = active[p.user]] /\ via' = [via EXCEPT ![c] = putBy[p.user]]
        /\ out' = [out EXCEPT ![c] = q] /\ tpc' = [tpc EXCEPT ![c] = "send"]
    BY <1>9 DEF HandleSend
  <2>2. /\ active[p.user] \in Data /\ putBy[p.user] \in Conn /\ p.user \in auth[putBy[p.user]]
        /\ Live(putBy[p.user]) => active[p.user] = data[putBy[p.user]]
    BY <1>3, <1>t, <2>1 DEF SInv, MapInv, TypeOK
  <2> HIDE DEF p, q
  <2>3. TypeOK'
    BY <1>1, <1>2, <1>5, <1>t, <2>1, <2>2 DEF TypeOK, clients
  <2>4. /\ ThreadInv' /\ UidInv' /\ MapInv' /\ ClientInv'
        /\ \A e \in Conn : (Live(e)' <=> Live(e)) /\ (e # c => tpc'[e] = tpc[e])
        /\ tpc'[c] = "send"
    BY <1>1, <1>6, <2>1, ServingStep
  <2>5. /\ ptr'[c] = active[p.user] /\ via'[c] = putBy[p.user] /\ out'[c] = q
        /\ \A e \in Conn : e # c => ptr'[e] = ptr[e] /\ via'[e] = via[e] /\ out'[e] = out[e]
    BY <1>t, <2>1 DEF TypeOK
  <2>6. ASSUME NEW e \in Conn, tpc'[e] = "send"
        PROVE  /\ ptr'[e] \in Data /\ via'[e] \in Conn /\ out'[e].cmd # "LOGIN"
               /\ out'[e].to \in auth[via'[e]]
               /\ tpc'[via'[e]] # "none" => ptr'[e] = data[via'[e]]
    <3>1. \A g \in Conn : tpc'[g] # "none" => Live(g)
      BY <2>4 DEF Live
    <3>2. CASE e = c
      BY <1>2, <1>5, <2>2, <2>5, <3>1, <3>2
    <3>3. CASE e # c
      <4>1. tpc[e] = "send"
        BY <2>4, <2>6, <3>3
      <4>2. /\ ptr[e] \in Data /\ via[e] \in Conn /\ out[e].cmd # "LOGIN" /\ out[e].to \in auth[via[e]]
            /\ Live(via[e]) => ptr[e] = data[via[e]]
        BY <4>1 DEF SInv, PacketInv, SendInv
      <4> QED BY <2>5, <3>1, <3>3, <4>2
    <3> QED BY <3>2, <3>3
  <2>7. ReplyInv'
    BY <1>1, <2>4, <2>5 DEF SInv, PacketInv, ReplyInv
  <2>8. SendInv'
    BY <1>1, <2>6 DEF SendInv, Live
  <2> QED BY <1>7, <2>3, <2>4, <2>7, <2>8 DEF SInv, PacketInv
<1> QED BY <1>8, <1>9

\* peer_data->connfd is read when the structure may be another thread's: but as
\* long as the connection that was looked up is served, it is the right one.
LEMMA SendPeerInv ==
  ASSUME SessionAssumption, SInv, NEW c \in Conn, SendPeer(c)
  PROVE  SInv'
<1> DEFINE late == ~Serving(via[c])
           q == [out[c] EXCEPT !.late = late]
<1>1. /\ tpc[c] = "send" /\ tpc' = [tpc EXCEPT ![c] = "read"]
      /\ ptr' = [ptr EXCEPT ![c] = NULL] /\ out' = [out EXCEPT ![c] = NoPacket]
      /\ via' = [via EXCEPT ![c] = NULL]
      /\ UNCHANGED <<table, alloc, spare, connfd, uid, active, known, data, toServer, clients,
                     auth, putBy, shared>>
  BY DEF SendPeer
<1>2. PICK f \in PeerFds(ptr[c]) : Write(f, q)
  BY DEF SendPeer
<1>t. TypeOK
  BY DEF SInv
<1>3. /\ ptr[c] \in Data /\ via[c] \in Conn /\ out[c].cmd # "LOGIN" /\ out[c].to \in auth[via[c]]
      /\ Live(via[c]) => ptr[c] = data[via[c]]
  BY <1>1 DEF SInv, PacketInv, SendInv
<1>4. f \in Fd \cup {NULL}
  BY <1>3, <1>t DEF PeerFds, TypeOK
<1>5. late \in BOOLEAN /\ (~Serving(via[c]) => late)
  OBVIOUS
<1>6. ASSUME Serving(via[c]) PROVE f \in Fd /\ table[f] = via[c]
  <2>1. /\ connfd[data[via[c]]] \in Fd /\ table[connfd[data[via[c]]]] = via[c] /\ Live(via[c])
    BY <1>3, <1>6, OwnFd
  <2>2. ptr[c] = data[via[c]] /\ ptr[c] \in alloc \ {spare}
    BY <1>3, <2>1 DEF SInv, ThreadInv
  <2>3. f = connfd[data[via[c]]]
    BY <2>2 DEF PeerFds
  <2> QED BY <2>1, <2>3
<1> HIDE DEF late
<1>7. q \in ToClient /\ q.cmd = out[c].cmd /\ q.to = out[c].to /\ q.late = late
  <2>1. out[c] \in ToClient
    BY <1>t DEF TypeOK
  <2> QED BY <1>5, <2>1 DEF ToClient
<1>8. ASSUME f \in Fd, table[f] # NULL PROVE Good(auth[table[f]], q)
  BY <1>3, <1>5, <1>6, <1>7, <1>8 DEF Good
<1> HIDE DEF q
<1>9. up' \in BOOLEAN /\ inbox' \in [Conn -> Seq(ToClient)] /\ InboxInv'
  BY <1>1, <1>2, <1>4, <1>7, <1>8, WriteGood
<1>10. TypeOK'
  BY <1>1, <1>9, <1>t, NoPacketType DEF TypeOK, clients
<1>11. /\ ThreadInv' /\ UidInv' /\ MapInv' /\ ClientInv'
       /\ \A e \in Conn : (Live(e)' <=> Live(e)) /\ (e # c => tpc'[e] = tpc[e])
       /\ tpc'[c] = "read"
  BY <1>1, ServingStep DEF Serving
<1>12. \A e \in Conn : e # c => ptr'[e] = ptr[e] /\ via'[e] = via[e] /\ out'[e] = out[e]
  BY <1>1, <1>t DEF TypeOK
<1>13. SendInv'
  <2> SUFFICES ASSUME NEW e \in Conn, tpc'[e] = "send"
               PROVE  /\ ptr'[e] \in Data /\ via'[e] \in Conn /\ out'[e].cmd # "LOGIN"
                      /\ out'[e].to \in auth[via'[e]]
                      /\ tpc'[via'[e]] # "none" => ptr'[e] = data[via'[e]]
    BY <1>1 DEF SendInv, Live
  <2>1. e # c /\ tpc[e] = "send"
    BY <1>11
  <2>2. \A g \in Conn : tpc'[g] # "none" => Live(g)
    BY <1>11 DEF Live
  <2>3. /\ ptr[e] \in Data /\ via[e] \in Conn /\ out[e].cmd # "LOGIN" /\ out[e].to \in auth[via[e]]
        /\ Live(via[e]) => ptr[e] = data[via[e]]
    BY <2>1 DEF SInv, PacketInv, SendInv
  <2> QED BY <1>12, <2>1, <2>2, <2>3
<1>14. ReplyInv'
  BY <1>1, <1>11, <1>12 DEF SInv, PacketInv, ReplyInv
<1> QED BY <1>9, <1>10, <1>11, <1>13, <1>14 DEF SInv, PacketInv

\* A login that the credential file turns away changes nothing but the answer.
LEMMA LoginFails ==
  ASSUME SessionAssumption, SInv, NEW c \in Conn, HandleLogin(c),
         ~(Head(toServer[c]).user \in known /\ Head(toServer[c]).good)
  PROVE  SInv'
<1> DEFINE q == Packet("LOGIN", FALSE, NULL, NULL)
<1>1. /\ Request(c, {"LOGIN"}) /\ out' = [out EXCEPT ![c] = q] /\ tpc' = [tpc EXCEPT ![c] = "reply"]
      /\ UNCHANGED <<up, table, alloc, spare, connfd, known, data, ptr, inbox, clients, via,
                     uid, active, putBy, auth, shared>>
  <2> DEFINE ok == Head(toServer[c]).user \in known /\ Head(toServer[c]).good
  <2>1. ok = FALSE
    BY Zenon
  <2>2. /\ out' = [out EXCEPT ![c] = Packet("LOGIN", ok, IF ok THEN Head(toServer[c]).user ELSE NULL, NULL)]
        /\ uid' = (IF ok THEN [uid EXCEPT ![data[c]] = Head(toServer[c]).user] ELSE uid)
        /\ active' = (IF ok THEN [active EXCEPT ![Head(toServer[c]).user] = data[c]] ELSE active)
        /\ putBy' = (IF ok THEN [putBy EXCEPT ![Head(toServer[c]).user] = c] ELSE putBy)
        /\ auth' = (IF ok THEN [auth EXCEPT ![c] = @ \cup {Head(toServer[c]).user}] ELSE auth)
        /\ shared' = (IF ok /\ LoggedInElsewhere(c, Head(toServer[c]).user)
                      THEN shared \cup {Head(toServer[c]).user} ELSE shared)
    BY DEF HandleLogin
  <2> HIDE DEF ok
  <2>3. /\ uid' = uid /\ active' = active /\ putBy' = putBy /\ auth' = auth /\ shared' = shared
    BY <2>1, <2>2
  <2>4. out' = [out EXCEPT ![c] = q]
    BY <2>1, <2>2
  <2> QED BY <2>3, <2>4 DEF HandleLogin
<1>2. toServer' \in [Conn -> Seq(ToServer)] /\ Serving(c)
  BY <1>1, RequestType DEF Request, Serving
<1>3. q \in ToClient /\ q.to = NULL /\ ~q.zero
  <2>1. "LOGIN" \in Cmd /\ FALSE \in BOOLEAN /\ NULL \in User \cup {NULL}
    BY DEF Cmd
  <2>2. q \in ToClient
    BY <2>1, PacketType
  <2>3. q.to = NULL /\ ~q.zero
    BY DEF Packet
  <2> QED BY <2>2, <2>3
<1> HIDE DEF q
<1>t. TypeOK
  BY DEF SInv
<1>4. TypeOK'
  BY <1>1, <1>2, <1>3, <1>t DEF TypeOK, clients
<1>5. /\ ThreadInv' /\ UidInv' /\ MapInv' /\ ClientInv'
      /\ \A e \in Conn : (Live(e)' <=> Live(e)) /\ (e # c => tpc'[e] = tpc[e])
      /\ tpc'[c] = "reply"
  BY <1>1, <1>2, ServingStep
<1>6. out'[c] = q /\ \A e \in Conn : e # c => out'[e] = out[e]
  BY <1>1, <1>t DEF TypeOK
<1>7. SendInv' /\ ReplyInv'
  BY <1>1, <1>3, <1>5, <1>6 DEF SInv, PacketInv, SendInv, ReplyInv
<1>8. InboxInv'
  BY <1>1, <1>t, ServerStep DEF TypeOK
<1> QED BY <1>4, <1>5, <1>7, <1>8 DEF SInv, PacketInv

\* A login that succeeds makes the entry of the map and names the account.
LEMMA LoginSucceeds ==
  ASSUME SessionAssumption, SInv, NEW c \in Conn, HandleLogin(c),
         Head(toServer[c]).user \in known, Head(toServer[c]).good
  PROVE  SInv'
<1> DEFINE u == Head(toServer[c]).user
           q == Packet("LOGIN", TRUE, u, NULL)
<1>1. /\ Request(c, {"LOGIN"}) /\ out' = [out EXCEPT ![c] = q] /\ tpc' = [tpc EXCEPT ![c] = "reply"]
      /\ uid' = [uid EXCEPT ![data[c]] = u] /\ active' = [active EXCEPT ![u] = data[c]]
      /\ putBy' = [putBy EXCEPT ![u] = c] /\ auth' = [auth EXCEPT ![c] = @ \cup {u}]
      /\ shared' = (IF LoggedInElsewhere(c, u) THEN shared \cup {u} ELSE shared)
      /\ UNCHANGED <<up, table, alloc, spare, connfd, known, data, ptr, inbox, clients, via>>
  <2> DEFINE ok == Head(toServer[c]).user \in known /\ Head(toServer[c]).good
  <2>1. ok
    OBVIOUS
  <2>2. /\ out' = [out EXCEPT ![c] = Packet("LOGIN", ok, IF ok THEN u ELSE NULL, NULL)]
        /\ uid' = (IF ok THEN [uid EXCEPT ![data[c]] = u] ELSE uid)
        /\ active' = (IF ok THEN [active EXCEPT ![u] = data[c]] ELSE active)
        /\ putBy' = (IF ok THEN [putBy EXCEPT ![u] = c] ELSE putBy)
        /\ auth' = (IF ok THEN [auth EXCEPT ![c] = @ \cup {u}] ELSE auth)
        /\ shared' = (IF ok /\ LoggedInElsewhere(c, u) THEN shared \cup {u} ELSE shared)
    BY DEF HandleLogin
  <2>3. ok = TRUE
    <3>1. Head(toServer[c]).good \in BOOLEAN
      BY RequestType DEF HandleLogin, ToServer
    <3> QED BY <2>1, <3>1, Zenon
  <2> HIDE DEF ok, u
  <2>4. /\ uid' = [uid EXCEPT ![data[c]] = u] /\ active' = [active EXCEPT ![u] = data[c]]
        /\ putBy' = [putBy EXCEPT ![u] = c] /\ auth' = [auth EXCEPT ![c] = @ \cup {u}]
        /\ shared' = (IF LoggedInElsewhere(c, u) THEN shared \cup {u} ELSE shared)
    BY <2>1, <2>2
  <2>5. out' = [out EXCEPT ![c] = q]
    BY <2>2, <2>3
  <2> QED BY <2>4, <2>5 DEF HandleLogin
<1>2. toServer' \in [Conn -> Seq(ToServer)] /\ Head(toServer[c]) \in ToServer /\ tpc[c] = "read"
  BY <1>1, RequestType DEF Request
<1>3. u \in User
  BY <1>2 DEF ToServer
<1> HIDE DEF u
<1>4. q \in ToClient /\ q.to = NULL /\ q.uid = u
  <2>1. "LOGIN" \in Cmd /\ TRUE \in BOOLEAN /\ NULL \in User \cup {NULL} /\ u \in User \cup {NULL}
    BY <1>3 DEF Cmd
  <2>2. q \in ToClient
    BY <2>1, PacketType
  <2>3. q.to = NULL /\ q.uid = u
    BY DEF Packet
  <2> QED BY <2>2, <2>3
<1> HIDE DEF q
<1>t. TypeOK
  BY DEF SInv
<1>5. Serving(c) /\ Live(c) /\ data[c] \in Data
  BY <1>2, OwnFd DEF Serving
<1>6. /\ tpc'[c] = "reply" /\ out'[c] = q /\ auth'[c] = auth[c] \cup {u}
      /\ \A e \in Conn : e # c => tpc'[e] = tpc[e] /\ out'[e] = out[e] /\ auth'[e] = auth[e]
      /\ uid'[data[c]] = u /\ active'[u] = data[c] /\ putBy'[u] = c
      /\ \A w \in User : w # u => active'[w] = active[w] /\ putBy'[w] = putBy[w]
  BY <1>1, <1>3, <1>5, <1>t DEF TypeOK
<1>7. TypeOK'
  <2>1. shared' \in SUBSET User
    BY <1>1, <1>3, <1>t DEF TypeOK
  <2> QED BY <1>1, <1>2, <1>3, <1>4, <1>5, <1>t, <2>1 DEF TypeOK, clients
<1>8. \A e \in Conn : (Live(e)' <=> Live(e)) /\ (Serving(e)' <=> Serving(e))
  BY <1>2, <1>6 DEF Live, Serving
<1>9. \A e \in Conn : tpc'[e] \in {"none", "removed"} <=> tpc[e] \in {"none", "removed"}
  BY <1>2, <1>6
<1>10. \A e \in Conn : e # c /\ Live(e) => uid'[data[e]] = uid[data[e]]
  <2> SUFFICES ASSUME NEW e \in Conn, e # c, Live(e) PROVE uid'[data[e]] = uid[data[e]]
    OBVIOUS
  <2>1. data[e] # data[c] /\ data[e] \in Data
    BY <1>5, <1>t DEF SInv, ThreadInv, TypeOK
  <2> QED BY <1>1, <1>t, <2>1 DEF TypeOK
<1>11. shared \subseteq shared'
  BY <1>1
<1>12. \A e \in Conn : e # c /\ tpc[e] \notin {"none", "removed"} /\ uid[data[e]] = u => u \in shared'
  BY <1>1 DEF LoggedInElsewhere
<1>13. ThreadInv'
  <2>1. ASSUME NEW f \in Fd, table[f] # NULL PROVE tpc'[table[f]] \in {"read", "reply", "send"}
    <3>1. table[f] \in Conn /\ Serving(table[f])
      BY <1>t, <2>1 DEF SInv, ThreadInv, TypeOK
    <3> QED BY <1>6, <3>1 DEF Serving
  <2>2. \A e \in Conn : cpc[e] = "off" => ~Live(e)' /\ auth'[e] = {}
    BY <1>5, <1>6, <1>8 DEF SInv, ThreadInv
  <2> QED BY <1>1, <1>8, <2>1, <2>2 DEF SInv, ThreadInv, clients, Serving
<1>14. UidInv'
  <2>1. ASSUME NEW e \in Conn, Live(e)'
        PROVE  IF auth'[e] = {} THEN uid'[data[e]] = NULL ELSE uid'[data[e]] \in auth'[e]
    BY <1>6, <1>8, <1>10, <2>1 DEF SInv, UidInv
  <2>2. ASSUME NEW e \in Conn, NEW g \in Conn, e # g, tpc'[e] \notin {"none", "removed"},
               tpc'[g] \notin {"none", "removed"}, uid'[data[e]] = uid'[data[g]], uid'[data[e]] \in User
        PROVE  uid'[data[e]] \in shared'
    <3>1. /\ tpc[e] \notin {"none", "removed"} /\ tpc[g] \notin {"none", "removed"}
          /\ Live(e) /\ Live(g)
      BY <1>9, <2>2 DEF Live
    <3>2. CASE e = c
      BY <1>6, <1>10, <1>12, <2>2, <3>1, <3>2
    <3>3. CASE g = c
      BY <1>6, <1>10, <1>12, <2>2, <3>1, <3>3
    <3>4. CASE e # c /\ g # c
      <4>1. uid[data[e]] = uid[data[g]] /\ uid[data[e]] \in User /\ uid'[data[e]] = uid[data[e]]
        BY <1>10, <2>2, <3>1, <3>4
      <4> QED BY <1>11, <2>2, <3>1, <4>1 DEF SInv, UidInv
    <3> QED BY <3>2, <3>3, <3>4
  <2>3. Reachable'
    <3> SUFFICES ASSUME NEW e \in Conn, NEW w \in User \ shared', Serving(e)', uid'[data[e]] = w
                 PROVE  active'[w] = data[e]
      BY <1>1 DEF Reachable
    <3>1. Serving(e) /\ Live(e) /\ tpc[e] \notin {"none", "removed"}
      BY <1>8 DEF Serving, Live
    <3>2. CASE e = c
      BY <1>6, <3>2
    <3>3. CASE e # c
      <4>1. uid[data[e]] = w /\ w \notin shared /\ w # u
        BY <1>10, <1>11, <1>12, <3>1, <3>3
      <4>2. active[w] = data[e]
        BY <3>1, <4>1 DEF SInv, UidInv, Reachable
      <4> QED BY <1>6, <4>1, <4>2
    <3> QED BY <3>2, <3>3
  <2> QED BY <1>1, <2>1, <2>2, <2>3 DEF UidInv
<1>15. MapInv'
  <2> SUFFICES ASSUME NEW w \in User, active'[w] # NULL
               PROVE  /\ putBy'[w] \in Conn /\ w \in auth'[putBy'[w]]
                      /\ tpc'[putBy'[w]] # "none" => active'[w] = data[putBy'[w]]
                      /\ auth'[putBy'[w]] = {w} => tpc'[putBy'[w]] \notin {"none", "removed"}
    BY <1>1 DEF MapInv, Live
  <2>1. CASE w = u
    BY <1>6, <2>1
  <2>2. CASE w # u
    <3>1. active'[w] = active[w] /\ putBy'[w] = putBy[w] /\ active[w] # NULL
      BY <1>6, <2>2
    <3>2. /\ putBy[w] \in Conn /\ w \in auth[putBy[w]]
          /\ Live(putBy[w]) => active[w] = data[putBy[w]]
          /\ auth[putBy[w]] = {w} => tpc[putBy[w]] \notin {"none", "removed"}
      BY <3>1 DEF SInv, MapInv
    <3>3. CASE putBy[w] = c
      BY <1>5, <1>6, <2>2, <3>1, <3>2, <3>3
    <3>4. CASE putBy[w] # c
      BY <1>6, <3>1, <3>2, <3>4 DEF Live
    <3> QED BY <3>3, <3>4
  <2> QED BY <2>1, <2>2
<1>16. SendInv'
  <2> SUFFICES ASSUME NEW e \in Conn, tpc'[e] = "send"
               PROVE  /\ ptr[e] \in Data /\ via[e] \in Conn /\ out'[e].cmd # "LOGIN"
                      /\ out'[e].to \in auth'[via[e]]
                      /\ tpc'[via[e]] # "none" => ptr[e] = data[via[e]]
    BY <1>1 DEF SendInv, Live
  <2>1. e # c /\ tpc[e] = "send" /\ out'[e] = out[e]
    BY <1>6
  <2>2. /\ ptr[e] \in Data /\ via[e] \in Conn /\ out[e].cmd # "LOGIN" /\ out[e].to \in auth[via[e]]
        /\ Live(via[e]) => ptr[e] = data[via[e]]
    BY <2>1 DEF SInv, PacketInv, SendInv
  <2>3. out[e].to \in auth'[via[e]]
    BY <1>6, <2>2
  <2>4. tpc'[via[e]] # "none" => Live(via[e])
    BY <1>8, <2>2 DEF Live
  <2> QED BY <2>1, <2>2, <2>3, <2>4
<1>17. ReplyInv'
  <2>1. q.uid \in auth'[c]
    BY <1>4, <1>6
  <2> QED BY <1>4, <1>6, <2>1 DEF SInv, PacketInv, ReplyInv
<1>18. InboxInv' /\ ClientInv'
  <2>1. \A e \in Conn : auth[e] \subseteq auth'[e]
    BY <1>6
  <2>2. auth' \in [Conn -> SUBSET User]
    BY <1>7 DEF TypeOK
  <2> QED BY <1>1, <2>1, <2>2, ServerStep
<1> QED BY <1>7, <1>13, <1>14, <1>15, <1>16, <1>17, <1>18 DEF SInv, PacketInv
----------------------------------------------------------------------------
(* The theorems *)

LEMMA NextSInv == SessionAssumption /\ SInv /\ [Next]_vars => SInv'
<1> SUFFICES ASSUME SessionAssumption, SInv, [Next]_vars PROVE SInv'
  OBVIOUS
<1>1. CASE UNCHANGED vars
  <2>1. /\ UNCHANGED <<up, table, alloc, spare, connfd, uid, active, known, tpc, data, ptr, out>>
        /\ UNCHANGED <<toServer, inbox, cpc, account, my_uid, tries, sends, auth, putBy, shared, via>>
    BY <1>1 DEF vars, server, threads, clients, hist
  <2>2. TypeOK'
    BY <2>1 DEF SInv, TypeOK
  <2>3. ThreadInv'
    BY <2>1 DEF SInv, ThreadInv, Live, Serving
  <2>4. UidInv' /\ MapInv'
    BY <2>1 DEF SInv, UidInv, MapInv, Reachable, Live, Serving
  <2>5. PacketInv'
    BY <2>1 DEF SInv, PacketInv, SendInv, ReplyInv, InboxInv, Live
  <2>6. ClientInv'
    BY <2>1 DEF SInv, ClientInv, LoginUidAuthenticated
  <2> QED BY <2>2, <2>3, <2>4, <2>5, <2>6 DEF SInv
<1>2. CASE Next
  <2>1. PICK c \in Conn : Accept(c) \/ Thread(c) \/ Client(c)
    BY <1>2 DEF Next
  <2>2. CASE Accept(c)
    BY <2>2, AcceptInv
  <2>3. CASE Thread(c)
    <3>1. CASE Hangup(c) \/ Remove(c) \/ Free(c)
      BY <3>1, HangupInv, RemoveInv, FreeInv
    <3>2. CASE HandleLogin(c)
      BY <3>2, LoginFails, LoginSucceeds
    <3>3. CASE HandleCreate(c) \/ Reply(c)
      BY <3>3, HandleCreateInv, ReplyInvariant
    <3>4. CASE HandleSend(c) \/ SendPeer(c)
      BY <3>4, HandleSendInv, SendPeerInv
    <3> QED BY <2>3, <3>1, <3>2, <3>3, <3>4 DEF Thread
  <2>4. CASE Client(c)
    <3>1. ASSUME NEW u \in User, AskLogin(c, u) \/ AskCreate(c, u) \/ ChatSend(c, u) PROVE SInv'
      BY <3>1, AskLoginInv, ChatInv
    <3>2. CASE ReadLogin(c) \/ ReadNewLogin(c)
      BY <3>2, ReadLoginInv
    <3>3. CASE ReadCreate(c)
      BY <3>3, ReadCreateInv
    <3>4. CASE ChatRead(c) \/ Leave(c)
      BY <3>4, ChatInv, LeaveInv
    <3> QED BY <2>4, <3>1, <3>2, <3>3, <3>4 DEF Client
  <2> QED BY <2>1, <2>2, <2>3, <2>4
<1> QED BY <1>1, <1>2

\* The inductive invariant: structures and descriptors belong to one thread each,
\* the map leads to the structure of a connection that gave the account's
\* password, and packets under way carry what the accounts of their connections
\* allow.
THEOREM SessionInvariance == Spec => []SInv
<1>1. Init => SInv
  BY SessionAssumption, InitSInv
<1>2. SInv /\ [Next]_vars => SInv'
  BY SessionAssumption, NextSInv
<1> QED BY <1>1, <1>2, PTL DEF Spec

\* Type correctness of the server's and the clients' state.
THEOREM SessionTypeCorrect == Spec => []TypeOK
<1>1. SInv => TypeOK
  BY DEF SInv
<1> QED BY <1>1, SessionInvariance, PTL

\* The close at the end of client_thread_function hits the thread's own
\* descriptor: until then it is its client's connection, and no other
\* descriptor is.
THEOREM DescriptorCorrect == Spec => []OwnDescriptor
<1>1. SInv => OwnDescriptor
  <2> SUFFICES ASSUME SInv, NEW c \in Conn, Serving(c)
               PROVE  /\ table[connfd[data[c]]] = c
                      /\ \A f \in Fd : table[f] = c => f = connfd[data[c]]
    BY DEF OwnDescriptor
  <2>1. table[connfd[data[c]]] = c
    BY DEF SInv, ThreadInv
  <2>2. c # NULL
    BY SessionAssumption DEF SessionAssumption
  <2>3. \A f \in Fd : table[f] # NULL => connfd[data[table[f]]] = f
    BY DEF SInv, ThreadInv
  <2> QED BY <2>1, <2>2, <2>3
<1> QED BY <1>1, SessionInvariance, PTL

\* An entry of active_sockets leads to a structure that is not freed, for
\* connections that logged in to one account only.
THEOREM EntryCorrect == Spec => []EntryIsLive
<1>1. SInv => EntryIsLive
  BY DEF SInv, MapInv, EntryIsLive, Live
<1> QED BY <1>1, SessionInvariance, PTL

\* While a thread serves an account that was never logged in twice at once,
\* active_sockets leads to it.
THEOREM ReachableCorrect == Spec => []Reachable
<1>1. SInv => Reachable
  BY DEF SInv, UidInv
<1> QED BY <1>1, SessionInvariance, PTL

\* A packet for a user arrives at a connection of that user unless the one that
\* was looked up was closed before send_main_header read its descriptor.
THEOREM RoutedCorrect == Spec => []RoutedUnlessClosed
<1>1. SInv => RoutedUnlessClosed
  BY DEF SInv, PacketInv, InboxInv, Good, RoutedUnlessClosed
<1> QED BY <1>1, SessionInvariance, PTL

\* A client that logged in with 'y' chats under the uid of an account whose
\* password it gave.
THEOREM LoginUidCorrect == Spec => []LoginUidAuthenticated
<1>1. SInv => LoginUidAuthenticated
  BY DEF SInv, ClientInv
<1> QED BY <1>1, SessionInvariance, PTL
============================================================================
