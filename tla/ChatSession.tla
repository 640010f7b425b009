---------------------------- MODULE ChatSession ----------------------------
(***************************************************************************)
(* Connections, logins and the routing of packets to online users:         *)
(* main and client_thread_function of chat-server.c with the map           *)
(* active_sockets, and the login dialogue of chat-client.c's main.         *)
(*                                                                         *)
(* The map leads from a uid to the client_thread_data_t of the thread that *)
(* serves the user; other threads take the pointer out of the map and read *)
(* its connfd later, while that thread may close the descriptor, remove    *)
(* the entry and free the structure.  Descriptors and structures are taken *)
(* from finite sets and used again.  The map is a function here, and the   *)
(* credential file the set known of accounts.  A packet of INVITE or       *)
(* SEND_CHAT to one user stands for both: invite is the one whose payload  *)
(* is empty.                                                               *)
(*                                                                         *)
(* auth, putBy, shared, via and the to and late of a packet are history:   *)
(* neither the server nor the client reads them.                           *)
(***************************************************************************)
EXTENDS Naturals, Sequences, FiniteSets, FiniteSetsExt

CONSTANTS Conn,          \* client processes, one connection each
          User,          \* accounts, named by their uids
          Known,         \* the accounts in the credential file at the start
          Data,          \* client_thread_data_t structures
          Fd,            \* descriptors of the server, small numbers
          NULL,
          MaxLogins,     \* bound: answers given at the login prompts
          MaxSends       \* bound: packets sent by chatting clients

ASSUME SessionAssumption ==
  /\ Known \subseteq User
  /\ NULL \notin Data /\ NULL \notin Fd /\ NULL \notin User /\ NULL \notin Conn
  /\ Fd \subseteq Nat
  /\ MaxLogins \in Nat /\ MaxSends \in Nat

VARIABLES
  \* the server
  up,              \* the process has not been killed
  table,           \* descriptor table: the connection behind a descriptor
  alloc, spare,    \* allocated structures; the one main has ready for accept
  connfd, uid,     \* the fields of a structure
  active,          \* active_sockets
  known,           \* accounts in the credential file
  tpc,             \* per connection: step of its thread
  data,            \* per connection: the thread's structure
  ptr, out,        \* per connection: peer_data, the packet to send
  \* the network and the clients
  toServer, inbox,
  cpc, account, my_uid,
  tries, sends,
  \* history
  auth,            \* per connection: the accounts that logged in on it
  putBy,           \* per account: the connection that made the entry in the map
  shared,          \* accounts that were logged in on two connections at once
  via              \* per connection: putBy of the entry that was looked up

server == <<up, table, alloc, spare, connfd, uid, active, known>>
threads == <<tpc, data, ptr, out>>
clients == <<cpc, account, my_uid, tries, sends>>
hist == <<auth, putBy, shared, via>>
vars == <<server, threads, toServer, inbox, clients, hist>>

Cmd == {"CREATE", "LOGIN", "INVITE", "CHAT"}
ToServer == [cmd : Cmd, user : User, good : BOOLEAN, uid : User \cup {NULL}]
\* To a client: the first payload byte is 0 or not, uid is in the header.
ToClient == [cmd : Cmd, zero : BOOLEAN, uid : User \cup {NULL},
             to : User \cup {NULL}, late : BOOLEAN]
Packet(cmd, zero, id, to) == [cmd |-> cmd, zero |-> zero, uid |-> id, to |-> to, late |-> FALSE]
NoPacket == Packet("LOGIN", FALSE, NULL, NULL)

Init ==
  /\ up = TRUE
  /\ table = [f \in Fd |-> NULL]
  /\ spare \in Data /\ alloc = {spare}
  /\ connfd = [d \in Data |-> NULL] /\ uid = [d \in Data |-> NULL]
  /\ active = [u \in User |-> NULL]
  /\ known = Known
  /\ tpc = [c \in Conn |-> "none"] /\ data = [c \in Conn |-> NULL]
  /\ ptr = [c \in Conn |-> NULL] /\ out = [c \in Conn |-> NoPacket]
  /\ toServer = [c \in Conn |-> <<>>] /\ inbox = [c \in Conn |-> <<>>]
  /\ cpc = [c \in Conn |-> "off"]
  /\ account = [c \in Conn |-> NULL] /\ my_uid = [c \in Conn |-> NULL]
  /\ tries = 0 /\ sends = 0
  /\ auth = [c \in Conn |-> {}]
  /\ putBy = [u \in User |-> NULL] /\ shared = {} /\ via = [c \in Conn |-> NULL]

Serving(c) == tpc[c] \in {"read", "reply", "send"}
----------------------------------------------------------------------------
(* The server's main and the ends of a connection *)

\* accept gives the lowest free descriptor; a thread starts on the structure,
\* and main allocates the next one before it waits again.
Accept(c) ==
  LET free == {f \in Fd : table[f] = NULL} IN
  /\ cpc[c] = "off" /\ free # {}
  /\ cpc' = [cpc EXCEPT ![c] = "prompt"]
  /\ table' = [table EXCEPT ![Min(free)] = c]
  /\ connfd' = [connfd EXCEPT ![spare] = Min(free)]
  /\ uid' = [uid EXCEPT ![spare] = NULL]
  /\ data' = [data EXCEPT ![c] = spare]
  /\ tpc' = [tpc EXCEPT ![c] = "read"]
  /\ \E d \in Data \ alloc : spare' = d /\ alloc' = alloc \cup {d}
  /\ UNCHANGED <<up, active, known, ptr, out, toServer, inbox, account, my_uid, tries, sends, hist>>

\* read_main_header returns NULL: the thread leaves its loop and closes.
Hangup(c) ==
  /\ tpc[c] = "read" /\ cpc[c] = "gone" /\ toServer[c] = <<>>
  /\ table' = [table EXCEPT ![connfd[data[c]]] = NULL]
  /\ tpc' = [tpc EXCEPT ![c] = "closed"]
  /\ UNCHANGED <<up, alloc, spare, connfd, uid, active, known, data, ptr, out,
                 toServer, inbox, clients, hist>>

\* A mistaken Remove that forgets the entry.
RemoveForgets(c) ==
  /\ tpc[c] = "closed"
  /\ tpc' = [tpc EXCEPT ![c] = "removed"]
  /\ UNCHANGED <<server, data, ptr, out, toServer, inbox, clients, hist>>

\* hashmap_remove of data->uid, which without a login is no user's
Remove(c) ==
  /\ tpc[c] = "closed"
  /\ active' = [u \in User |-> IF u = uid[data[c]] THEN NULL ELSE active[u]]
  /\ tpc' = [tpc EXCEPT ![c] = "removed"]
  /\ UNCHANGED <<up, table, alloc, spare, connfd, uid, known, data, ptr, out,
                 toServer, inbox, clients, hist>>

\* A mistaken Free that closes the descriptor a second time.
FreeCloses(c) ==
  /\ tpc[c] = "removed"
  /\ table' = [table EXCEPT ![connfd[data[c]]] = NULL]
  /\ alloc' = alloc \ {data[c]}
  /\ tpc' = [tpc EXCEPT ![c] = "none"]
  /\ data' = [data EXCEPT ![c] = NULL]
  /\ UNCHANGED <<up, spare, connfd, uid, active, known, ptr, out,
                 toServer, inbox, clients, hist>>

\* free(data); pthread_exit
Free(c) ==
  /\ tpc[c] = "removed"
  /\ alloc' = alloc \ {data[c]}
  /\ tpc' = [tpc EXCEPT ![c] = "none"]
  /\ data' = [data EXCEPT ![c] = NULL]
  /\ UNCHANGED <<up, table, spare, connfd, uid, active, known, ptr, out,
                 toServer, inbox, clients, hist>>
----------------------------------------------------------------------------
(* Requests *)

\* send_main_header(p, f): a closed descriptor is an error nobody looks at; a
\* write to a client that has left is lost, or raises SIGPIPE.
Write(f, p) ==
  LET c == IF f \in Fd THEN table[f] ELSE NULL IN
  IF c = NULL THEN UNCHANGED <<up, inbox>>
  ELSE IF cpc[c] = "gone" THEN up' \in {TRUE, FALSE} /\ UNCHANGED inbox
  ELSE inbox' = [inbox EXCEPT ![c] = Append(@, p)] /\ UNCHANGED up

\* The thread reads the next packet, one of the commands cmds.
Request(c, cmds) ==
  /\ tpc[c] = "read" /\ toServer[c] # <<>>
  /\ Head(toServer[c]).cmd \in cmds
  /\ toServer' = [toServer EXCEPT ![c] = Tail(@)]

\* USR_CREATE: a new account, or "username exists".
HandleCreate(c) ==
  LET p == Head(toServer[c])
      new == p.user \notin known
  IN /\ Request(c, {"CREATE"})
     /\ known' = known \cup {p.user}
     /\ Write(connfd[data[c]], Packet("CREATE", new, IF new THEN p.user ELSE NULL, NULL))
     /\ UNCHANGED <<table, alloc, spare, connfd, uid, active, threads, clients, hist>>

\* Another thread has logged u in and not yet taken it out of the map.
LoggedInElsewhere(c, u) ==
  \E e \in Conn \ {c} : tpc[e] \notin {"none", "removed"} /\ uid[data[e]] = u

\* Mistaken forms of HandleLogin: one stores the error of match_user_pw as the
\* uid, the other does not make an entry for the account.
HandleLoginStatus(c) ==
  LET p == Head(toServer[c])
      ok == p.user \in known /\ p.good
  IN /\ Request(c, {"LOGIN"})
     /\ uid' = [uid EXCEPT ![data[c]] = IF ok THEN p.user ELSE "ERR_GENERIC"]
     /\ out' = [out EXCEPT ![c] = Packet("LOGIN", ok, IF ok THEN p.user ELSE NULL, NULL)]
     /\ tpc' = [tpc EXCEPT ![c] = "reply"]
     /\ UNCHANGED <<up, table, alloc, spare, connfd, active, known, data, ptr, inbox, clients, hist>>
HandleLoginNoPut(c) ==
  LET p == Head(toServer[c])
      ok == p.user \in known /\ p.good
  IN /\ Request(c, {"LOGIN"})
     /\ uid' = IF ok THEN [uid EXCEPT ![data[c]] = p.user] ELSE uid
     /\ auth' = IF ok THEN [auth EXCEPT ![c] = @ \cup {p.user}] ELSE auth
     /\ out' = [out EXCEPT ![c] = Packet("LOGIN", ok, IF ok THEN p.user ELSE NULL, NULL)]
     /\ tpc' = [tpc EXCEPT ![c] = "reply"]
     /\ UNCHANGED <<up, table, alloc, spare, connfd, active, known, data, ptr, inbox, clients,
                    putBy, shared, via>>

\* USR_LOGIN: the entry is in the map before the answer is sent.
HandleLogin(c) ==
  LET p == Head(toServer[c])
      ok == p.user \in known /\ p.good
  IN /\ Request(c, {"LOGIN"})
     /\ uid' = IF ok THEN [uid EXCEPT ![data[c]] = p.user] ELSE uid
     /\ active' = IF ok THEN [active EXCEPT ![p.user] = data[c]] ELSE active
     /\ putBy' = IF ok THEN [putBy EXCEPT ![p.user] = c] ELSE putBy
     /\ auth' = IF ok THEN [auth EXCEPT ![c] = @ \cup {p.user}] ELSE auth
     /\ shared' = IF ok /\ LoggedInElsewhere(c, p.user) THEN shared \cup {p.user} ELSE shared
     /\ out' = [out EXCEPT ![c] = Packet("LOGIN", ok, IF ok THEN p.user ELSE NULL, NULL)]
     /\ tpc' = [tpc EXCEPT ![c] = "reply"]
     /\ UNCHANGED <<up, table, alloc, spare, connfd, known, data, ptr, inbox, clients, via>>

\* ... and the answer goes to the thread's own connection.
Reply(c) ==
  /\ tpc[c] = "reply"
  /\ Write(connfd[data[c]], out[c])
  /\ tpc' = [tpc EXCEPT ![c] = "read"]
  /\ out' = [out EXCEPT ![c] = NoPacket]
  /\ UNCHANGED <<table, alloc, spare, connfd, uid, active, known, data, ptr, toServer, clients, hist>>

\* INVITE, and one turn of forward_to_group: the map is asked for the peer.  A
\* sender who is not in the group is turned away before.
HandleSend(c) ==
  LET p == Head(toServer[c]) IN
  /\ Request(c, {"INVITE", "CHAT"})
  /\ \/ UNCHANGED <<threads, via>>
     \/ /\ active[p.user] # NULL
        /\ ptr' = [ptr EXCEPT ![c] = active[p.user]]
        /\ via' = [via EXCEPT ![c] = putBy[p.user]]
        /\ out' = [out EXCEPT ![c] = Packet(p.cmd, p.cmd = "INVITE", p.uid, p.user)]
        /\ tpc' = [tpc EXCEPT ![c] = "send"]
        /\ UNCHANGED data
  /\ UNCHANGED <<server, inbox, clients, auth, putBy, shared>>

\* What peer_data->connfd reads: the field, and if the structure was freed
\* perhaps something that is no descriptor.
PeerFds(d) == {connfd[d]} \cup (IF d \in alloc \ {spare} THEN {} ELSE {NULL})

\* A mistaken SendPeer that answers the sender.
SendPeerBack(c) ==
  /\ tpc[c] = "send"
  /\ Write(connfd[data[c]], [out[c] EXCEPT !.late = ~Serving(via[c])])
  /\ tpc' = [tpc EXCEPT ![c] = "read"]
  /\ ptr' = [ptr EXCEPT ![c] = NULL]
  /\ out' = [out EXCEPT ![c] = NoPacket]
  /\ via' = [via EXCEPT ![c] = NULL]
  /\ UNCHANGED <<table, alloc, spare, connfd, uid, active, known, data, toServer, clients,
                 auth, putBy, shared>>

\* send_main_header(.., peer_data->connfd)
SendPeer(c) ==
  /\ tpc[c] = "send"
  /\ \E f \in PeerFds(ptr[c]) : Write(f, [out[c] EXCEPT !.late = ~Serving(via[c])])
  /\ tpc' = [tpc EXCEPT ![c] = "read"]
  /\ ptr' = [ptr EXCEPT ![c] = NULL]
  /\ out' = [out EXCEPT ![c] = NoPacket]
  /\ via' = [via EXCEPT ![c] = NULL]
  /\ UNCHANGED <<table, alloc, spare, connfd, uid, active, known, data, toServer, clients,
                 auth, putBy, shared>>
----------------------------------------------------------------------------
(* The client *)

Send(c, p) == toServer' = [toServer EXCEPT ![c] = Append(@, p)]
Goto(c, step) == cpc' = [cpc EXCEPT ![c] = step]

\* 'y': username and password go out, right or wrong ...
AskLogin(c, u) ==
  /\ cpc[c] = "prompt" /\ tries < MaxLogins
  /\ tries' = tries + 1
  /\ account' = [account EXCEPT ![c] = u]
  /\ \E good \in BOOLEAN : Send(c, [cmd |-> "LOGIN", user |-> u, good |-> good, uid |-> NULL])
  /\ Goto(c, "login")
  /\ UNCHANGED <<server, threads, inbox, my_uid, sends, hist>>

\* A mistaken ReadLogin that takes the next packet for the answer.
ReadLoginAny(c) ==
  LET p == Head(inbox[c]) IN
  /\ cpc[c] = "login" /\ inbox[c] # <<>>
  /\ inbox' = [inbox EXCEPT ![c] = Tail(@)]
  /\ my_uid' = IF p.zero THEN [my_uid EXCEPT ![c] = p.uid] ELSE my_uid
  /\ Goto(c, IF p.zero THEN "chat" ELSE "prompt")
  /\ UNCHANGED <<server, threads, toServer, account, tries, sends, hist>>

\* ... and the next packet is taken for the answer if it is a USR_LOGIN.
ReadLogin(c) ==
  LET p == Head(inbox[c]) IN
  /\ cpc[c] = "login" /\ inbox[c] # <<>>
  /\ inbox' = [inbox EXCEPT ![c] = Tail(@)]
  /\ \/ /\ p.cmd = "LOGIN" /\ p.zero
        /\ my_uid' = [my_uid EXCEPT ![c] = p.uid]
        /\ Goto(c, "chat")
     \/ /\ ~(p.cmd = "LOGIN" /\ p.zero)
        /\ Goto(c, "prompt")
        /\ UNCHANGED my_uid
  /\ UNCHANGED <<server, threads, toServer, account, tries, sends, hist>>

\* 'n': a new account ...
AskCreate(c, u) ==
  /\ cpc[c] = "prompt" /\ tries < MaxLogins
  /\ tries' = tries + 1
  /\ account' = [account EXCEPT ![c] = u]
  /\ Send(c, [cmd |-> "CREATE", user |-> u, good |-> TRUE, uid |-> NULL])
  /\ Goto(c, "create")
  /\ UNCHANGED <<server, threads, inbox, my_uid, sends, hist>>

\* ... which is logged in at once when it was created.
ReadCreate(c) ==
  LET p == Head(inbox[c]) IN
  /\ cpc[c] = "create" /\ inbox[c] # <<>>
  /\ inbox' = [inbox EXCEPT ![c] = Tail(@)]
  /\ \/ /\ p.cmd = "CREATE" /\ p.zero
        /\ Send(c, [cmd |-> "LOGIN", user |-> account[c], good |-> TRUE, uid |-> NULL])
        /\ Goto(c, "newlogin")
     \/ /\ ~(p.cmd = "CREATE" /\ p.zero)
        /\ Goto(c, "prompt")
        /\ UNCHANGED toServer
  /\ UNCHANGED <<server, threads, account, my_uid, tries, sends, hist>>

\* Here the next packet is taken for the answer whatever its cmd.
ReadNewLogin(c) ==
  LET p == Head(inbox[c]) IN
  /\ cpc[c] = "newlogin" /\ inbox[c] # <<>>
  /\ inbox' = [inbox EXCEPT ![c] = Tail(@)]
  /\ \/ /\ p.zero
        /\ my_uid' = [my_uid EXCEPT ![c] = p.uid]
        /\ Goto(c, "newchat")
     \/ /\ ~p.zero
        /\ Goto(c, "prompt")
        /\ UNCHANGED my_uid
  /\ UNCHANGED <<server, threads, toServer, account, tries, sends, hist>>

Chatting(c) == cpc[c] \in {"chat", "newchat"}

\* An invitation or a chat message for the user u.
ChatSend(c, u) ==
  /\ Chatting(c) /\ sends < MaxSends
  /\ sends' = sends + 1
  /\ \E cmd \in {"INVITE", "CHAT"} :
       Send(c, [cmd |-> cmd, user |-> u, good |-> TRUE, uid |-> my_uid[c]])
  /\ UNCHANGED <<server, threads, inbox, cpc, account, my_uid, tries, hist>>

\* server_read_function takes a packet.
ChatRead(c) ==
  /\ Chatting(c) /\ inbox[c] # <<>>
  /\ inbox' = [inbox EXCEPT ![c] = Tail(@)]
  /\ UNCHANGED <<server, threads, toServer, clients, hist>>

\* The client is closed, at any point.
Leave(c) ==
  /\ cpc[c] \notin {"off", "gone"}
  /\ Goto(c, "gone")
  /\ inbox' = [inbox EXCEPT ![c] = <<>>]
  /\ account' = [account EXCEPT ![c] = NULL] /\ my_uid' = [my_uid EXCEPT ![c] = NULL]
  /\ UNCHANGED <<server, threads, toServer, tries, sends, hist>>
----------------------------------------------------------------------------
Thread(c) ==
  \/ Hangup(c) \/ Remove(c) \/ Free(c)
  \/ HandleCreate(c) \/ HandleLogin(c) \/ Reply(c)
  \/ HandleSend(c) \/ SendPeer(c)

Client(c) ==
  \/ \E u \in User : AskLogin(c, u) \/ AskCreate(c, u) \/ ChatSend(c, u)
  \/ ReadLogin(c) \/ ReadCreate(c) \/ ReadNewLogin(c)
  \/ ChatRead(c) \/ Leave(c)

Next == up /\ \E c \in Conn : Accept(c) \/ Thread(c) \/ Client(c)

Spec == Init /\ [][Next]_vars
----------------------------------------------------------------------------
(* Properties *)

TypeOK ==
  /\ up \in BOOLEAN
  /\ table \in [Fd -> Conn \cup {NULL}]
  /\ alloc \in SUBSET Data /\ spare \in Data
  /\ connfd \in [Data -> Fd \cup {NULL}] /\ uid \in [Data -> User \cup {NULL}]
  /\ active \in [User -> Data \cup {NULL}]
  /\ known \in SUBSET User
  /\ tpc \in [Conn -> {"none", "read", "reply", "send", "closed", "removed"}]
  /\ data \in [Conn -> Data \cup {NULL}] /\ ptr \in [Conn -> Data \cup {NULL}]
  /\ out \in [Conn -> ToClient]
  /\ toServer \in [Conn -> Seq(ToServer)] /\ inbox \in [Conn -> Seq(ToClient)]
  /\ cpc \in [Conn -> {"off", "prompt", "login", "create", "newlogin", "chat", "newchat", "gone"}]
  /\ account \in [Conn -> User \cup {NULL}] /\ my_uid \in [Conn -> User \cup {NULL}]
  /\ tries \in 0 .. MaxLogins /\ sends \in 0 .. MaxSends
  /\ auth \in [Conn -> SUBSET User]
  /\ shared \in SUBSET User
  /\ putBy \in [User -> Conn \cup {NULL}] /\ via \in [Conn -> Conn \cup {NULL}]

\* A thread's descriptor is its client's connection, and nobody else's, until
\* the thread closes it: close(data->connfd) (631) never hits a descriptor that
\* accept has given out again.
OwnDescriptor ==
  \A c \in Conn : Serving(c) =>
    /\ table[connfd[data[c]]] = c
    /\ \A f \in Fd : table[f] = c => f = connfd[data[c]]

\* An entry of active_sockets leads to the structure of a thread that has not
\* freed it (631-637), if each connection logs in to one account only.
EntryIsLive ==
  \A u \in User :
    active[u] # NULL /\ auth[putBy[u]] = {u} =>
      tpc[putBy[u]] \notin {"none", "removed"} /\ active[u] = data[putBy[u]]

\* While a thread serves an account, the map leads to it (339), unless the
\* account was logged in on two connections at once: the thread that leaves
\* first removes the entry of the other (635).
Reachable ==
  \A c \in Conn : \A u \in User \ shared :
    Serving(c) /\ uid[data[c]] = u => active[u] = data[c]

\* A packet for a user arrives at a connection of that user, although the sender
\* reads connfd long after hashmap_get (433, 442), unless the connection that
\* was looked up had been closed by then.
RoutedUnlessClosed ==
  \A c \in Conn : \A i \in DOMAIN inbox[c] :
    inbox[c][i].to # NULL => inbox[c][i].to \in auth[c] \/ inbox[c][i].late

\* Who logs in with 'y' chats under the uid of an account whose password it
\* gave, whatever arrives before the answer (511-517).
LoginUidAuthenticated == \A c \in Conn : cpc[c] = "chat" => my_uid[c] \in auth[c]

\* The same for a login after creating an account, as msg_header.h has it: the
\* answer carries uid=client_uid.
NewLoginUidAuthenticated == \A c \in Conn : cpc[c] = "newchat" => my_uid[c] \in auth[c]

\* What msg_header.h says of INVITE: it goes to the recipient.
ArrivesAtRecipient ==
  \A c \in Conn : \A i \in DOMAIN inbox[c] :
    inbox[c][i].to # NULL => inbox[c][i].to \in auth[c]
============================================================================
