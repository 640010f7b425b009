---------------------------- MODULE ChatClient ----------------------------
(***************************************************************************)
(* The threads of a client that has logged in (chat-client.c): the user's  *)
(* input, server_read_function, server_write_function and one window for   *)
(* each group it has opened (with gui.c), the queues between them, and the *)
(* connection.                                                             *)
(*                                                                         *)
(* What the client writes arrives in pieces, one for each write(): a       *)
(* packet, or a block of a file.  The server is chat-server.c as this      *)
(* client sees it: one thread reads the client's pieces and answers them,  *)
(* the threads of other clients write to the same socket, and the group    *)
(* lists are shared.  A chat is known by its place among the chats of its  *)
(* group that the server sends to the client.                              *)
(***************************************************************************)
EXTENDS Naturals, Sequences

CONSTANTS Gid,
          MaxWindows,       \* bound: windows opened
          NUMBER_OF_MSGS,   \* lines of a window
          FileLen,          \* blocks of every file
          MaxTyped,         \* bound: lines and answers typed, keys pressed
          MaxOthers,        \* bound: invitations, and changes to lists by others
          MaxChats          \* bound: chats of a group

ASSUME ChatClientAssumption ==
  /\ 0 \notin Gid
  /\ NUMBER_OF_MSGS \in Nat \ {0, 1} /\ FileLen \in Nat \ {0}
  /\ {MaxWindows, MaxTyped, MaxOthers, MaxChats} \subseteq Nat

Window == 1 .. MaxWindows

VARIABLES
  up,                 \* the process lives
  main,               \* the input thread: step, invitation answered, blocks written
  rest,               \* stdin holds the rest of a line
  reader,             \* the read thread: step, blocks to read
  out,                \* outgoing_message_queue
  requests,           \* group_request_queue
  mapping,            \* group_mapping: gid -> the window whose queue it is
  queue, win,         \* per window: the queue made with it, and its thread
  conn,               \* "open", "eof": closed, "reset": the next read fails
  toServer, fromServer, \* the pieces under way
  srv,                \* the server, as seen by this client
  lost,               \* history: the server has taken a piece for something else
  mixed,              \* history: a thread wrote in the middle of another's file
  typed, others, said \* how much was typed, done by others, said in each group

client == <<main, rest, reader, out, requests, mapping, queue, win>>
wire == <<conn, toServer, fromServer>>
server == <<srv, lost, others, said>>
vars == <<up, client, wire, server, mixed, typed>>

NoGid == 0
NoWindow == 0
Packet(cmd, gid) == [cmd |-> cmd, gid |-> gid]
Chat(gid, n) == [cmd |-> "chat", gid |-> gid, n |-> n]

\* What each side writes.  "chat" is entered in a window, "line" in the
\* terminal; "join" is INVITE_RESP with 'a'; "other" from the client are
\* INVITE, ACTIVE_LIST and INVITE_RESP with 'd', and from the server what the
\* reader only prints.
Piece == [cmd : {"create", "join", "chat", "line", "download", "file", "block", "other"},
          gid : Gid \cup {NoGid}]
Chats == [cmd : {"chat"}, gid : Gid, n : 0 .. MaxChats]
Answers == [cmd : {"create", "invite", "file", "block", "other"}, gid : Gid \cup {NoGid}]

\* The server: the groups that list the client's uid; of these, own were entered
\* by this connection's create or acceptance and other through another
\* connection of the account (both history); blocks to read, the group of their
\* file, and blocks to send; cut is history: a packet of another thread was
\* written among the blocks.
Srv == [member : SUBSET Gid, own : SUBSET Gid, other : SUBSET Gid,
        read : 0 .. FileLen, file : Gid \cup {NoGid}, send : 0 .. FileLen, cut : BOOLEAN]

\* Main starts the reader and the writer.  The scanf of the password has left
\* the end of its line in stdin.  The server still lists the user in the groups
\* of earlier sessions: nobody is taken out of a list.
Init ==
  /\ up = TRUE /\ main = [pc |-> "check", gid |-> NoGid, done |-> 0] /\ rest = TRUE
  /\ reader = [pc |-> "read", todo |-> 0]
  /\ out = <<>> /\ requests = <<>> /\ mapping = [g \in Gid |-> NoWindow]
  /\ queue = [w \in Window |-> <<>>]
  /\ win = [w \in Window |-> [pc |-> "none", gid |-> NoGid, use |-> NoWindow, done |-> 0,
                              msgs |-> [i \in 1 .. NUMBER_OF_MSGS |-> 0]]]
  /\ conn = "open" /\ toServer = <<>> /\ fromServer = <<>>
  /\ \E old \in SUBSET Gid :
       srv = [member |-> old, own |-> {}, other |-> old, read |-> 0, file |-> NoGid,
              send |-> 0, cut |-> FALSE]
  /\ lost = FALSE /\ mixed = FALSE
  /\ typed = 0 /\ others = 0 /\ said = [g \in Gid |-> 0]
----------------------------------------------------------------------------
(* Steps of every thread *)

\* thread_queue_add to the outgoing queue.
Queue(p) == out' = Append(out, p)

\* The threads in the middle of a send_file; a window stands for its thread.
Input == 0
Writer == MaxWindows + 1
Sending == (IF main.pc = "file" THEN {Input} ELSE {})
             \cup {w \in Window : win[w].pc = "file"}

\* write() by a thread, and mixed when it falls into the file of another.  A
\* connection that failed fails the write and then is at its end; one at its
\* end raises SIGPIPE, at the latest when the server has refused an earlier
\* write.
Write(p, thread) ==
  \/ /\ conn = "open"
     /\ toServer' = Append(toServer, p)
     /\ mixed' = (mixed \/ Sending \ {thread} # {})
     /\ UNCHANGED <<up, conn, fromServer>>
  \/ conn = "reset" /\ conn' = "eof" /\ UNCHANGED <<up, toServer, fromServer, mixed>>
  \/ conn = "eof" /\ up' \in BOOLEAN /\ UNCHANGED <<wire, mixed>>

\* Mistaken form of create_new_group: the group is not entered in the mapping.
CreateUnmapped(g) ==
  /\ \E w \in Window :
       /\ win[w].pc = "none" /\ \A v \in Window : v < w => win[v].pc # "none"
       /\ win' = [win EXCEPT ![w].pc = "new", ![w].gid = g]
  /\ UNCHANGED mapping

\* A queue is made and put in the mapping, in the place of an older one of the
\* same group, and the thread of a new window started.
create_new_group(g) ==
  \E w \in Window :
    /\ win[w].pc = "none" /\ \A v \in Window : v < w => win[v].pc # "none"
    /\ mapping' = [mapping EXCEPT ![g] = w]
    /\ win' = [win EXCEPT ![w].pc = "new", ![w].gid = g]

Other == others < MaxOthers /\ others' = others + 1
Type == typed < MaxTyped /\ typed' = typed + 1
----------------------------------------------------------------------------
(* handle_user_input *)

\* Invitations are taken one by one; then a line is read.
CheckRequests ==
  /\ up /\ main.pc = "check"
  /\ IF requests = <<>>
     THEN main' = [main EXCEPT !.pc = "line"] /\ UNCHANGED requests
     ELSE /\ main' = [main EXCEPT !.pc = "ask", !.gid = Head(requests)]
          /\ requests' = Tail(requests)
  /\ UNCHANGED <<up, rest, reader, out, mapping, queue, win, wire, server, mixed, typed>>

\* scanf("%c") takes one character, of the rest of an earlier line where there
\* is one.  At least the end of the line stays behind, unless it was taken.
ReadAnswer(answer) ==
  /\ rest' \in IF answer = "other" THEN BOOLEAN ELSE {TRUE}
  /\ IF rest THEN UNCHANGED typed ELSE Type

\* Mistaken form of Ask: the acceptance is not sent.
AskUnsent ==
  /\ up /\ main.pc = "ask"
  /\ \E answer \in {"y", "n", "other"} :
       /\ ReadAnswer(answer)
       /\ main' = IF answer = "y" THEN [main EXCEPT !.pc = "join"]
                  ELSE [main EXCEPT !.pc = "check", !.gid = NoGid]
       /\ IF answer = "n" THEN Queue(Packet("other", NoGid)) ELSE UNCHANGED out
  /\ UNCHANGED <<up, reader, requests, mapping, queue, win, wire, server, mixed>>

\* The answer y or n is queued; after any other the invitation is dropped.
Ask ==
  /\ up /\ main.pc = "ask"
  /\ \E answer \in {"y", "n", "other"} :
       /\ ReadAnswer(answer)
       /\ main' = IF answer = "y" THEN [main EXCEPT !.pc = "join"]
                  ELSE [main EXCEPT !.pc = "check", !.gid = NoGid]
       /\ CASE answer = "y" -> Queue(Packet("join", main.gid))
            [] answer = "n" -> Queue(Packet("other", NoGid))
            [] OTHER -> UNCHANGED out
  /\ UNCHANGED <<up, reader, requests, mapping, queue, win, wire, server, mixed>>

\* After an acceptance the group gets its window.
Join ==
  /\ up /\ main.pc = "join"
  /\ create_new_group(main.gid)
  /\ main' = [main EXCEPT !.pc = "check", !.gid = NoGid]
  /\ UNCHANGED <<up, rest, reader, out, requests, queue, wire, server, mixed, typed>>

\* getline: the rest of an earlier line is no command.
LineRest ==
  /\ up /\ main.pc = "line" /\ rest
  /\ rest' = FALSE /\ main' = [main EXCEPT !.pc = "check"]
  /\ UNCHANGED <<up, reader, out, requests, mapping, queue, win, wire, server, mixed, typed>>

\* A command is queued, or has a mistake and is dropped.  The group of send,
\* invite and download is any number the user types.
LineCommand ==
  /\ up /\ main.pc = "line" /\ ~rest /\ Type
  /\ \/ \E cmd \in {"create", "other"} : Queue(Packet(cmd, NoGid))
     \/ \E cmd \in {"download", "line"}, g \in Gid : Queue(Packet(cmd, g))
     \/ UNCHANGED out
  /\ main' = [main EXCEPT !.pc = "check"]
  /\ UNCHANGED <<up, rest, reader, requests, mapping, queue, win, wire, server, mixed>>

\* The loop of send_file goes on after done blocks.
MoreBlocksTooMany(done) == done <= FileLen
MoreBlocks(done) == done < FileLen

\* send_file writes the header itself ...
LineSendFile ==
  /\ up /\ main.pc = "line" /\ ~rest /\ Type
  /\ \E g \in Gid : Write(Packet("file", g), Input)
  /\ main' = [main EXCEPT !.pc = "file"]
  /\ UNCHANGED <<rest, reader, out, requests, mapping, queue, win, server>>

\* ... and then the blocks.
LineBlock ==
  /\ up /\ main.pc = "file"
  /\ Write(Packet("block", NoGid), Input)
  /\ main' = IF MoreBlocks(main.done + 1) THEN [main EXCEPT !.done = @ + 1]
             ELSE [main EXCEPT !.pc = "check", !.done = 0]
  /\ UNCHANGED <<rest, reader, out, requests, mapping, queue, win, server, typed>>
----------------------------------------------------------------------------
(* server_write_function *)

WriteOut ==
  /\ up /\ out # <<>>
  /\ Write(Head(out), Writer) /\ out' = Tail(out)
  /\ UNCHANGED <<main, rest, reader, requests, mapping, queue, win, server, typed>>
----------------------------------------------------------------------------
(* server_read_function *)

\* A chat goes to the queue of its group; without one it is dropped.
DeliverChat(c) ==
  queue' = IF mapping[c.gid] = NoWindow THEN queue
           ELSE [queue EXCEPT ![mapping[c.gid]] = Append(@, c)]

\* The switch on a packet.
Handle(p) ==
  \/ p.cmd = "chat" /\ DeliverChat(p) /\ UNCHANGED <<reader, requests, mapping, win>>
  \/ /\ p.cmd = "invite" /\ requests' = Append(requests, p.gid)
     /\ UNCHANGED <<reader, mapping, queue, win>>
  \/ p.cmd = "create" /\ create_new_group(p.gid) /\ UNCHANGED <<reader, requests, queue>>
  \/ /\ p.cmd = "file" /\ reader' = [pc |-> "file", todo |-> FileLen]
     /\ UNCHANGED <<requests, mapping, queue, win>>
  \/ p.cmd = "other" /\ UNCHANGED <<reader, requests, mapping, queue, win>>

ReadPacket ==
  /\ up /\ reader.pc = "read" /\ fromServer # <<>>
  /\ fromServer' = Tail(fromServer)
  /\ Handle(Head(fromServer))
  /\ UNCHANGED <<up, main, rest, out, conn, toServer, server, mixed, typed>>

\* receive_to_file takes whatever comes for a block.  A packet among the
\* blocks leaves the reader in the middle of the stream; what it makes of the
\* rest is not followed.
ReadBlock ==
  /\ up /\ reader.pc = "file" /\ fromServer # <<>>
  /\ fromServer' = Tail(fromServer)
  /\ reader' = IF Head(fromServer).cmd # "block" THEN [pc |-> "astray", todo |-> 0]
               ELSE IF reader.todo > 1 THEN [reader EXCEPT !.todo = @ - 1]
               ELSE [pc |-> "read", todo |-> 0]
  /\ UNCHANGED <<up, main, rest, out, requests, mapping, queue, win, conn, toServer,
                 server, mixed, typed>>

\* At the end of the connection the thread ends; in receive_to_file it reads 0
\* bytes again and again: no step.
ReadEnd ==
  /\ up /\ conn = "eof" /\ fromServer = <<>> /\ reader.pc = "read"
  /\ reader' = [reader EXCEPT !.pc = "done"]
  /\ UNCHANGED <<up, main, rest, out, requests, mapping, queue, win, wire, server,
                 mixed, typed>>

\* A read that fails returns -1, which counts as success: the header is what
\* the stack holds.  A header with a payload to read ends the thread.  In
\* receive_to_file fwrite gets -1 for its length.
ReadFails ==
  /\ up /\ conn = "reset" /\ fromServer = <<>>
  /\ conn' = "eof"
  /\ \/ /\ reader.pc = "read" /\ up' = TRUE
        /\ \/ \E g \in Gid : \/ Handle(Chat(g, 0))
                             \/ \E cmd \in {"invite", "create", "file", "other"} :
                                  Handle(Packet(cmd, g))
           \/ /\ reader' = [reader EXCEPT !.pc = "done"]
              /\ UNCHANGED <<requests, mapping, queue, win>>
     \/ /\ reader.pc = "file" /\ up' \in BOOLEAN
        /\ UNCHANGED <<reader, requests, mapping, queue, win>>
  /\ UNCHANGED <<main, rest, out, toServer, fromServer, server, mixed, typed>>
----------------------------------------------------------------------------
(* gui_group_function *)

\* The thread looks its queue up by gid: the latest of the group.
WindowStart(w) ==
  /\ up /\ win[w].pc = "new"
  /\ win' = [win EXCEPT ![w].pc = "run", ![w].use = mapping[win[w].gid]]
  /\ UNCHANGED <<up, main, rest, reader, out, requests, mapping, queue, wire, server,
                 mixed, typed>>

\* A line is entered: a chat, or a command, which is dropped when split finds
\* the wrong number of words in the line and what follows it in the buffer.
WindowLine(w) ==
  /\ up /\ win[w].pc = "run" /\ Type
  /\ \/ \E cmd \in {"chat", "download"} : Queue(Packet(cmd, win[w].gid))
     \/ Queue(Packet("other", NoGid))
     \/ UNCHANGED out
  /\ UNCHANGED <<up, main, rest, reader, requests, mapping, queue, win, wire, server, mixed>>

\* /send_file, when the bytes behind the socket in the thread's argument, which
\* nobody set, are 0: else the writes go to no descriptor.
WindowSendFile(w) ==
  /\ up /\ win[w].pc = "run" /\ Type
  /\ Write(Packet("file", win[w].gid), w)
  /\ win' = [win EXCEPT ![w].pc = "file"]
  /\ UNCHANGED <<main, rest, reader, out, requests, mapping, queue, server>>

WindowBlock(w) ==
  /\ up /\ win[w].pc = "file"
  /\ Write(Packet("block", NoGid), w)
  /\ win' = IF MoreBlocks(win[w].done + 1) THEN [win EXCEPT ![w].done = @ + 1]
            ELSE [win EXCEPT ![w].pc = "run", ![w].done = 0]
  /\ UNCHANGED <<main, rest, reader, out, requests, mapping, queue, server, typed>>

\* Mistaken forms of roll_messages: the lines are copied from the first to the
\* last, or one line too many.
RollUpwards(msgs, n, over) == [i \in DOMAIN msgs |-> IF i = 1 THEN n ELSE msgs[1]]
RollOver(msgs, n, over) ==
  [i \in 1 .. NUMBER_OF_MSGS + 1 |-> IF i = 1 THEN n ELSE msgs[i - 1]]

\* The lines move on by one and the chat is the first.  memcpy takes its whole
\* length: one longer than a line spoils as many lines after it as it runs over.
roll_messages(msgs, n, over) ==
  [i \in DOMAIN msgs |-> IF i = 1 THEN n
                         ELSE IF i <= over + 1 THEN 0 ELSE msgs[i - 1]]

\* Mistaken form of WindowShow: the last message stays in the queue.
WindowShowAllButOne(w) ==
  LET q == win[w].use IN
  /\ up /\ win[w].pc \in {"run", "esc"} /\ q # NoWindow /\ Len(queue[q]) > 1
  /\ \E over \in 0 .. NUMBER_OF_MSGS :
       /\ win' = [win EXCEPT ![w].msgs = roll_messages(@, Head(queue[q]).n, over)]
       /\ up' \in IF over = NUMBER_OF_MSGS THEN BOOLEAN ELSE {TRUE}
  /\ queue' = [queue EXCEPT ![q] = Tail(@)]
  /\ UNCHANGED <<main, rest, reader, out, requests, mapping, wire, server, mixed, typed>>

\* A message of the queue, if there is one, is shown, whatever its length: one
\* that runs over all the lines goes on in the heap, and the process may crash.
WindowShow(w) ==
  LET q == win[w].use IN
  /\ up /\ win[w].pc \in {"run", "esc"} /\ q # NoWindow /\ queue[q] # <<>>
  /\ \E over \in 0 .. NUMBER_OF_MSGS :
       /\ win' = [win EXCEPT ![w].msgs = roll_messages(@, Head(queue[q]).n, over)]
       /\ up' \in IF over = NUMBER_OF_MSGS THEN BOOLEAN ELSE {TRUE}
  /\ queue' = [queue EXCEPT ![q] = Tail(@)]
  /\ UNCHANGED <<main, rest, reader, out, requests, mapping, wire, server, mixed, typed>>

\* ESC disconnects the window and the loop goes on with it: it may crash.
WindowEsc(w) ==
  /\ up /\ win[w].pc = "run" /\ Type
  /\ win' = [win EXCEPT ![w].pc = "esc"] /\ up' \in BOOLEAN
  /\ UNCHANGED <<main, rest, reader, out, requests, mapping, queue, wire, server, mixed>>
----------------------------------------------------------------------------
(* The server *)

Send(p) == fromServer' = Append(fromServer, p)
Say(g) ==
  /\ said[g] < MaxChats /\ said' = [said EXCEPT ![g] = @ + 1]
  /\ Send(Chat(g, said[g] + 1))

\* The handler of a packet.  A create gets a number that none of the groups of
\* this connection has, though two creates at once may get the same one.  An
\* acceptance is lost when its node is overwritten by one appended at once.
ServerHandle(p) ==
  \/ /\ p.cmd = "create"
     /\ \/ \E g \in Gid \ srv.own :
             /\ srv' = [srv EXCEPT !.member = @ \cup {g}, !.own = @ \cup {g}]
             /\ Send(Packet("create", g))
        \/ Send(Packet("other", NoGid)) /\ UNCHANGED srv
     /\ UNCHANGED <<lost, said>>
  \/ /\ p.cmd = "join"
     /\ \E listed \in SUBSET {p.gid} :
          srv' = [srv EXCEPT !.member = @ \cup listed, !.own = @ \cup {p.gid}]
     /\ UNCHANGED <<fromServer, lost, said>>
  \/ /\ p.cmd \in {"chat", "line"} /\ UNCHANGED <<srv, lost>>
     /\ IF p.gid \in srv.member THEN Say(p.gid) ELSE UNCHANGED <<fromServer, said>>
  \/ /\ p.cmd = "download" /\ p.gid \in srv.member
     /\ srv' = [srv EXCEPT !.send = FileLen] /\ Send(Packet("file", p.gid))
     /\ UNCHANGED <<lost, said>>
  \/ p.cmd \in {"download", "other"} /\ UNCHANGED <<srv, fromServer, lost, said>>
  \/ p.cmd = "other" /\ Send(p) /\ UNCHANGED <<srv, lost, said>>
  \/ /\ p.cmd = "file" /\ srv' = [srv EXCEPT !.read = FileLen, !.file = p.gid]
     /\ UNCHANGED <<fromServer, lost, said>>
  \/ p.cmd = "block" /\ lost' = TRUE /\ UNCHANGED <<srv, fromServer, said>>

\* A piece in receive_to_file; when the file is complete the group is told.
ServerBlock(p) ==
  \/ /\ p.cmd = "block" /\ srv' = [srv EXCEPT !.read = @ - 1]
     /\ IF srv.read = 1 /\ srv.file \in srv.member THEN Say(srv.file)
        ELSE UNCHANGED <<fromServer, said>>
     /\ UNCHANGED lost
  \/ p.cmd # "block" /\ lost' = TRUE /\ UNCHANGED <<srv, fromServer, said>>

\* A server that has lost its place in the stream is not followed.
ServerTake ==
  /\ up /\ conn = "open" /\ toServer # <<>> /\ srv.send = 0 /\ ~lost
  /\ toServer' = Tail(toServer)
  /\ IF srv.read > 0 THEN ServerBlock(Head(toServer)) ELSE ServerHandle(Head(toServer))
  /\ UNCHANGED <<up, client, conn, mixed, typed, others>>

\* A block of a download.
ServerSend ==
  /\ up /\ conn = "open" /\ srv.send > 0
  /\ srv' = [srv EXCEPT !.send = @ - 1] /\ Send(Packet("block", NoGid))
  /\ UNCHANGED <<up, client, conn, toServer, lost, mixed, typed, others, said>>

\* Other users' threads invite this one, and chat in its groups, also in the
\* middle of a download.
ServerInvite ==
  /\ up /\ conn = "open" /\ Other
  /\ \E g \in Gid : Send(Packet("invite", g))
  /\ srv' = [srv EXCEPT !.cut = @ \/ srv.send > 0]
  /\ UNCHANGED <<up, client, conn, toServer, lost, mixed, typed, said>>

ServerChat ==
  /\ up /\ conn = "open"
  /\ \E g \in srv.member : Say(g)
  /\ srv' = [srv EXCEPT !.cut = @ \/ srv.send > 0]
  /\ UNCHANGED <<up, client, conn, toServer, lost, mixed, typed, others>>

\* The account creates or joins a group through another connection.
ServerElsewhere ==
  /\ up /\ conn = "open" /\ Other
  /\ \E g \in Gid : srv' = [srv EXCEPT !.member = @ \cup {g}, !.other = @ \cup {g}]
  /\ UNCHANGED <<up, client, wire, lost, mixed, typed, said>>

\* The node of the client, or one before it in the list, is overwritten by a
\* thread that found the same end of the list or the same free number.
ServerForget ==
  /\ up /\ conn = "open" /\ Other
  /\ \E g \in srv.member : srv' = [srv EXCEPT !.member = @ \ {g}]
  /\ UNCHANGED <<up, client, wire, lost, mixed, typed, said>>

\* The server closes the connection, or ends with packets unread.
ServerClose ==
  /\ up /\ conn = "open" /\ conn' \in {"eof", "reset"} /\ toServer' = <<>>
  /\ UNCHANGED <<up, client, fromServer, server, mixed, typed>>
----------------------------------------------------------------------------
Main == CheckRequests \/ Ask \/ Join \/ LineRest \/ LineCommand \/ LineSendFile \/ LineBlock
Read == ReadPacket \/ ReadBlock \/ ReadEnd \/ ReadFails
WindowRun(w) == WindowStart(w) \/ WindowBlock(w) \/ (win[w].pc = "run" /\ WindowShow(w))
Win(w) ==
  WindowStart(w) \/ WindowLine(w) \/ WindowSendFile(w) \/ WindowBlock(w) \/ WindowShow(w)
    \/ WindowEsc(w)
Server ==
  ServerTake \/ ServerSend \/ ServerInvite \/ ServerChat \/ ServerElsewhere \/ ServerForget
    \/ ServerClose

Next == Main \/ WriteOut \/ Read \/ (\E w \in Window : Win(w)) \/ Server

Spec == Init /\ [][Next]_vars

\* The threads of the windows run, and their writes return.  The user and the
\* server may stop at any time.
FairSpec == Spec /\ \A w \in Window : WF_vars(WindowRun(w))
----------------------------------------------------------------------------
(* Properties *)

\* The type of the state.
TypeOK ==
  /\ up \in BOOLEAN /\ rest \in BOOLEAN /\ lost \in BOOLEAN /\ mixed \in BOOLEAN
  /\ main \in [pc : {"check", "ask", "join", "line", "file"}, gid : Gid \cup {NoGid},
               done : 0 .. FileLen - 1]
  /\ reader \in [pc : {"read", "file", "done", "astray"}, todo : 0 .. FileLen]
  /\ out \in Seq(Piece) /\ toServer \in Seq(Piece)
  /\ requests \in Seq(Gid) /\ fromServer \in Seq(Chats \cup Answers)
  /\ mapping \in [Gid -> Window \cup {NoWindow}] /\ queue \in [Window -> Seq(Chats)]
  /\ win \in [Window -> [pc : {"none", "new", "run", "file", "esc"},
                         gid : Gid \cup {NoGid}, use : Window \cup {NoWindow},
                         done : 0 .. FileLen - 1,
                         msgs : [1 .. NUMBER_OF_MSGS -> 0 .. MaxChats]]]
  /\ conn \in {"open", "eof", "reset"}
  /\ srv \in Srv
  /\ typed \in 0 .. MaxTyped /\ others \in 0 .. MaxOthers
  /\ said \in [Gid -> 0 .. MaxChats]

\* A chat arrives for a group without a queue, and is dropped, only while the
\* input thread stands between queueing the acceptance and create_new_group, or
\* when the account has the group from another connection, an earlier session
\* included; else the packet that creates the group comes first.
DroppedOnlyUnopened ==
  \A i \in DOMAIN fromServer :
    LET p == fromServer[i] IN
    p.cmd = "chat" /\ mapping[p.gid] = NoWindow
      => \/ main.pc = "join" /\ main.gid = p.gid
         \/ p.gid \in srv.other
         \/ \E j \in 1 .. i - 1 : fromServer[j] = Packet("create", p.gid)

\* The server reads a chat entered in a window after the create or the
\* acceptance that opened the window: the window opens after the acceptance is
\* queued, and the queue and the stream keep the order.  So the chat is refused
\* only when the server has lost the client's place in the list.
WindowChatAfterJoin ==
  toServer # <<>> /\ conn = "open" /\ ~lost /\ srv.read = 0
    => LET p == Head(toServer) IN p.cmd = "chat" => p.gid \in srv.own

\* Each end reads packets as packets and blocks as blocks, unless two threads
\* of the other side have written to the connection at once: send_file and the
\* writer in the client, a download and another user's thread in the server.
StreamsParsed ==
  /\ lost => mixed
  /\ reader.pc = "astray" => srv.cut
  /\ reader.pc = "read" /\ fromServer # <<>> => Head(fromServer).cmd # "block"

\* A window shows the chats of its group from the newest to the oldest, and
\* none is missing between two of them, unless another window of the group
\* takes from the same queue.
ShownInOrder ==
  \A w \in Window : \A i \in 1 .. NUMBER_OF_MSGS - 1 :
    LET new == win[w].msgs[i] old == win[w].msgs[i + 1] IN
    new # 0 /\ old # 0 =>
      /\ new > old
      /\ (\A v \in Window \ {w} : win[v].use # win[w].use) => new = old + 1

\* The messages of a queue are shown, unless the process ends, ESC was pressed
\* in a window that takes from it, or the group was opened again, which leaves
\* a queue behind that no window may look at.
Reopened(q) == \E w \in Window : w > q /\ win[w].gid = win[q].gid
ChatsShown ==
  \A q \in Window :
    queue[q] # <<>> ~>
      \/ queue[q] = <<>> \/ ~up \/ Reopened(q)
      \/ \E w \in Window : win[w].use = q /\ win[w].pc = "esc"
============================================================================
