-------------------------- MODULE ChatClientProofs --------------------------
(***************************************************************************)
(* Machine-checked proofs about the threads of a logged-in client (module  *)
(* ChatClient), for any set of groups, any number of windows and lines and *)
(* any bounds.                                                             *)
(***************************************************************************)
EXTENDS ChatClient, SequenceTheorems, TLAPS

\* Whatever names a group, names one.
Sent == {p \in Piece : p.cmd \in {"join", "chat"} => p.gid \in Gid}
Queued == {p \in Sent : p.cmd \notin {"file", "block"}}
Got == Chats \cup {p \in Answers : p.cmd \in {"create", "invite"} => p.gid \in Gid}

Windows == [pc : {"none", "new", "run", "file", "esc"}, gid : Gid \cup {NoGid}, use : Window \cup {NoWindow},
            done : 0 .. FileLen - 1, msgs : [1 .. NUMBER_OF_MSGS -> 0 .. MaxChats]]

InputType ==
  /\ rest \in BOOLEAN /\ typed \in 0 .. MaxTyped
  /\ main \in [pc : {"check", "ask", "join", "line", "file"}, gid : Gid \cup {NoGid}, done : 0 .. FileLen - 1]
  /\ main.pc \in {"ask", "join"} => main.gid \in Gid
ReaderType ==
  /\ reader \in [pc : {"read", "file", "done", "astray"}, todo : 0 .. FileLen]
  /\ requests \in Seq(Gid)
WindowType ==
  /\ mapping \in [Gid -> Window \cup {NoWindow}] /\ queue \in [Window -> Seq(Chats)]
  /\ win \in [Window -> Windows]
  /\ \A w \in Window : win[w].pc # "none" => win[w].gid \in Gid
WireType ==
  /\ up \in BOOLEAN /\ mixed \in BOOLEAN /\ conn \in {"open", "eof", "reset"}
  /\ out \in Seq(Queued) /\ toServer \in Seq(Sent) /\ fromServer \in Seq(Got)
ServerType ==
  /\ lost \in BOOLEAN /\ others \in 0 .. MaxOthers /\ said \in [Gid -> 0 .. MaxChats]
  /\ srv \in Srv /\ srv.member \subseteq srv.own \cup srv.other

TInv == InputType /\ ReaderType /\ WindowType /\ WireType /\ ServerType
-----------------------------------------------------------------------------
(* Sequences *)

LEMMA AppendFacts ==
  ASSUME NEW S, NEW s \in Seq(S), NEW p \in S
  PROVE  /\ Append(s, p) \in Seq(S) /\ Len(s) \in Nat /\ Len(Append(s, p)) = Len(s) + 1
         /\ \A i \in 1 .. Len(s) : Append(s, p)[i] = s[i] /\ s[i] \in S
         /\ Append(s, p)[Len(s) + 1] = p
BY AppendProperties, LenProperties, ElementOfSeq

LEMMA TailFacts ==
  ASSUME NEW S, NEW s \in Seq(S), s # <<>>
  PROVE  /\ Tail(s) \in Seq(S) /\ Len(s) \in Nat \ {0} /\ Len(Tail(s)) = Len(s) - 1
         /\ \A i \in 1 .. Len(s) - 1 : Tail(s)[i] = s[i + 1]
         /\ Head(s) = s[1] /\ Head(s) \in S
BY HeadTailProperties, EmptySeq, LenProperties, ElementOfSeq

LEMMA SeqFacts ==
  ASSUME NEW S, NEW s \in Seq(S)
  PROVE  Len(s) \in Nat /\ DOMAIN s = 1 .. Len(s) /\ \A i \in 1 .. Len(s) : s[i] \in S
BY LenProperties, ElementOfSeq
-----------------------------------------------------------------------------
(* Types *)

LEMMA InitTInv == ChatClientAssumption /\ Init => TInv
<1> SUFFICES ASSUME ChatClientAssumption, Init PROVE TInv
  OBVIOUS
<1> USE DEF Init, ChatClientAssumption
<1>1. InputType
  BY DEF InputType, NoGid
<1>2. ReaderType
  BY EmptySeq DEF ReaderType
<1>3. WindowType
  BY EmptySeq DEF WindowType, Windows, NoGid, NoWindow
<1>4. WireType
  BY EmptySeq DEF WireType
<1>5. ServerType
  <2>1. MaxOthers \in Nat /\ MaxChats \in Nat
    OBVIOUS
  <2>2. lost \in BOOLEAN
    OBVIOUS
  <2>3. others \in 0 .. MaxOthers /\ said \in [Gid -> 0 .. MaxChats]
    BY <2>1
  <2>4. srv \in Srv /\ srv.member \subseteq srv.own \cup srv.other
    BY DEF NoGid, Srv
  <2> QED BY <2>2, <2>3, <2>4 DEF ServerType
<1> QED BY <1>1, <1>2, <1>3, <1>4, <1>5 DEF TInv

LEMMA WriteTypes ==
  ASSUME TInv, NEW p \in Sent, NEW t, Write(p, t), out' \in Seq(Queued)
  PROVE  WireType'
<1>1. Append(toServer, p) \in Seq(Sent)
  BY AppendFacts DEF TInv, WireType
<1> QED BY <1>1 DEF Write, TInv, WireType, wire

LEMMA SentPackets ==
  /\ \A cmd \in {"create", "other", "block"} : Packet(cmd, NoGid) \in Sent
  /\ \A cmd \in {"create", "other"} : Packet(cmd, NoGid) \in Queued
  /\ \A g \in Gid : Packet("file", g) \in Sent
  /\ \A cmd \in {"join", "chat", "line", "download"}, g \in Gid : Packet(cmd, g) \in Queued
BY DEF Packet, Sent, Queued, Piece, NoGid

LEMMA QueueTypes ==
  ASSUME TInv, NEW p \in Queued, Queue(p)
  PROVE  out' \in Seq(Queued)
BY AppendFacts DEF TInv, WireType, Queue

LEMMA CreateTypes ==
  ASSUME TInv, NEW g \in Gid, create_new_group(g), UNCHANGED queue
  PROVE  WindowType'
<1>1. PICK w \in Window : /\ mapping' = [mapping EXCEPT ![g] = w]
                          /\ win' = [win EXCEPT ![w].pc = "new", ![w].gid = g]
  BY DEF create_new_group
<1> DEFINE x == [win[w] EXCEPT !.pc = "new", !.gid = g]
<1>2. win \in [Window -> Windows] /\ mapping \in [Gid -> Window \cup {NoWindow}]
  BY DEF TInv, WindowType
<1>3. x \in Windows /\ x.gid = g
  BY <1>2 DEF Windows
<1>4. win' = [win EXCEPT ![w] = x]
  BY <1>1
<1> HIDE DEF x
<1>5. win' \in [Window -> Windows] /\ \A v \in Window : win'[v] = IF v = w THEN x ELSE win[v]
  BY <1>2, <1>3, <1>4
<1>6. mapping' \in [Gid -> Window \cup {NoWindow}]
  BY <1>1, <1>2
<1> QED BY <1>3, <1>5, <1>6 DEF TInv, WindowType

LEMMA InputTInv ==
  ASSUME ChatClientAssumption, TInv, Main
  PROVE  TInv'
<1> USE DEF TInv, client, wire, server
<1>1. CASE CheckRequests
  <2>1. requests # <<>> => Head(requests) \in Gid /\ Tail(requests) \in Seq(Gid)
    BY TailFacts DEF ReaderType
  <2>2. InputType' /\ ReaderType'
    BY <1>1, <2>1 DEF CheckRequests, InputType, ReaderType
  <2> QED BY <1>1, <2>2 DEF CheckRequests, WindowType, WireType, ServerType
<1>2. CASE Ask
  <2>1. PICK answer \in {"y", "n", "other"} :
          /\ ReadAnswer(answer)
          /\ main' = IF answer = "y" THEN [main EXCEPT !.pc = "join"]
                     ELSE [main EXCEPT !.pc = "check", !.gid = NoGid]
          /\ CASE answer = "y" -> Queue(Packet("join", main.gid))
               [] answer = "n" -> Queue(Packet("other", NoGid))
               [] OTHER -> UNCHANGED out
    BY <1>2 DEF Ask
  <2>2. main.pc = "ask" /\ UNCHANGED <<up, reader, requests, mapping, queue, win, wire, server, mixed>>
    BY <1>2 DEF Ask
  <2>3. typed' \in 0 .. MaxTyped
    BY <2>1 DEF ReadAnswer, Type, InputType, ChatClientAssumption
  <2>4. rest' \in BOOLEAN
    BY <2>1 DEF ReadAnswer
  <2>5. InputType'
    BY <2>1, <2>2, <2>3, <2>4 DEF InputType
  <2>6. out' \in Seq(Queued)
    <3>1. Packet("join", main.gid) \in Queued /\ Packet("other", NoGid) \in Queued
      BY <2>2, SentPackets DEF InputType
    <3> QED BY <2>1, <3>1, QueueTypes DEF WireType
  <2>7. WireType'
    BY <2>2, <2>6 DEF WireType
  <2> QED BY <2>2, <2>5, <2>7 DEF ReaderType, WindowType, ServerType
<1>3. CASE Join
  <2>1. InputType' /\ ReaderType' /\ WireType' /\ ServerType'
    BY <1>3 DEF Join, InputType, ReaderType, WireType, ServerType
  <2>2. WindowType'
    BY <1>3, CreateTypes DEF Join, InputType
  <2> QED BY <2>1, <2>2
<1>4. CASE LineRest
  BY <1>4 DEF LineRest, InputType, ReaderType, WindowType, WireType, ServerType
<1>5. CASE LineCommand
  <2>1. out' \in Seq(Queued)
    <3>1. \A cmd \in {"create", "other"} : Packet(cmd, NoGid) \in Queued
      BY SentPackets
    <3>2. \A cmd \in {"download", "line"}, g \in Gid : Packet(cmd, g) \in Queued
      BY SentPackets
    <3> QED BY <1>5, <3>1, <3>2, QueueTypes DEF LineCommand, WireType
  <2>2. InputType'
    BY <1>5 DEF LineCommand, Type, InputType
  <2> QED BY <1>5, <2>1, <2>2 DEF LineCommand, ReaderType, WindowType, WireType, ServerType
<1>6. CASE LineSendFile
  <2>1. WireType'
    BY <1>6, SentPackets, WriteTypes DEF LineSendFile, WireType
  <2>2. InputType'
    BY <1>6 DEF LineSendFile, Type, InputType
  <2> QED BY <1>6, <2>1, <2>2 DEF LineSendFile, ReaderType, WindowType, ServerType
<1>7. CASE LineBlock
  <2>1. WireType'
    BY <1>7, SentPackets, WriteTypes DEF LineBlock, WireType
  <2>2. InputType'
    <3>1. main.done \in 0 .. FileLen - 1 /\ main.pc = "file" /\ FileLen \in Nat
      BY <1>7 DEF LineBlock, InputType, ChatClientAssumption
    <3>2. \/ main.done + 1 \in 0 .. FileLen - 1 /\ main' = [main EXCEPT !.done = main.done + 1]
          \/ main' = [main EXCEPT !.pc = "check", !.done = 0]
      BY <1>7, <3>1 DEF LineBlock, MoreBlocks
    <3>3. 0 \in 0 .. FileLen - 1
      BY <3>1
    <3> QED BY <1>7, <3>1, <3>2, <3>3 DEF LineBlock, InputType
  <2> QED BY <1>7, <2>1, <2>2 DEF LineBlock, ReaderType, WindowType, ServerType
<1> QED BY <1>1, <1>2, <1>3, <1>4, <1>5, <1>6, <1>7 DEF Main

LEMMA WriteOutTInv ==
  ASSUME ChatClientAssumption, TInv, WriteOut
  PROVE  TInv'
<1>1. Head(out) \in Sent /\ Tail(out) \in Seq(Queued)
  BY TailFacts DEF WriteOut, TInv, WireType, Queued
<1>2. WireType'
  BY <1>1, WriteTypes DEF WriteOut
<1> QED BY <1>2 DEF WriteOut, TInv, InputType, ReaderType, WindowType, ServerType, server

LEMMA HandleTypes ==
  ASSUME ChatClientAssumption, TInv, NEW p \in Got, Handle(p)
  PROVE  ReaderType' /\ WindowType'
<1> USE DEF TInv
<1>1. CASE p.cmd = "chat" /\ DeliverChat(p) /\ UNCHANGED <<reader, requests, mapping, win>>
  <2>1. p \in Chats /\ p.gid \in Gid
    BY <1>1 DEF Got, Answers, Chats
  <2>2. CASE mapping[p.gid] # NoWindow
    <3>1. mapping[p.gid] \in Window
      BY <2>1, <2>2 DEF WindowType
    <3>2. Append(queue[mapping[p.gid]], p) \in Seq(Chats)
      BY <2>1, <3>1, AppendFacts DEF WindowType
    <3> QED BY <1>1, <2>2, <3>1, <3>2 DEF DeliverChat, ReaderType, WindowType
  <2>3. CASE mapping[p.gid] = NoWindow
    BY <1>1, <2>3 DEF DeliverChat, ReaderType, WindowType
  <2> QED BY <2>2, <2>3
<1>2. CASE p.cmd = "invite" /\ requests' = Append(requests, p.gid) /\ UNCHANGED <<reader, mapping, queue, win>>
  <2>1. p.gid \in Gid
    BY <1>2 DEF Got, Chats
  <2>2. Append(requests, p.gid) \in Seq(Gid)
    BY <2>1, AppendFacts DEF ReaderType
  <2> QED BY <1>2, <2>2 DEF ReaderType, WindowType
<1>3. CASE p.cmd = "create" /\ create_new_group(p.gid) /\ UNCHANGED <<reader, requests, queue>>
  <2>1. p.gid \in Gid
    BY <1>3 DEF Got, Chats
  <2>2. WindowType'
    BY <1>3, <2>1, CreateTypes
  <2> QED BY <1>3, <2>2 DEF ReaderType
<1>4. CASE p.cmd = "file" /\ reader' = [pc |-> "file", todo |-> FileLen] /\ UNCHANGED <<requests, mapping, queue, win>>
  BY <1>4 DEF ReaderType, WindowType, ChatClientAssumption
<1>5. CASE p.cmd = "other" /\ UNCHANGED <<reader, requests, mapping, queue, win>>
  BY <1>5 DEF ReaderType, WindowType
<1> QED BY <1>1, <1>2, <1>3, <1>4, <1>5 DEF Handle

LEMMA GotPackets ==
  ASSUME ChatClientAssumption
  PROVE  /\ \A g \in Gid, n \in 0 .. MaxChats : Chat(g, n) \in Got
         /\ \A cmd \in {"invite", "create", "file", "other"}, g \in Gid : Packet(cmd, g) \in Got
         /\ \A cmd \in {"block", "other"} : Packet(cmd, NoGid) \in Got
BY DEF Chat, Packet, Got, Chats, Answers, NoGid

LEMMA ReadTInv ==
  ASSUME ChatClientAssumption, TInv, Read
  PROVE  TInv'
<1> USE DEF TInv, server
<1>1. fromServer # <<>> => Head(fromServer) \in Got /\ Tail(fromServer) \in Seq(Got)
  BY TailFacts DEF WireType
<1>2. CASE ReadPacket
  <2>1. ReaderType' /\ WindowType'
    BY <1>1, <1>2, HandleTypes DEF ReadPacket
  <2> QED BY <1>1, <1>2, <2>1 DEF ReadPacket, InputType, WireType, ServerType
<1>3. CASE ReadBlock
  <2>1. ReaderType'
    <3>1. reader.todo \in 0 .. FileLen /\ FileLen \in Nat
      BY DEF ReaderType, ChatClientAssumption
    <3>2. /\ requests' = requests
          /\ \/ reader' = [pc |-> "astray", todo |-> 0] \/ reader' = [pc |-> "read", todo |-> 0]
             \/ reader' = [reader EXCEPT !.todo = reader.todo - 1] /\ reader.todo - 1 \in 0 .. FileLen
      BY <1>3, <3>1 DEF ReadBlock
    <3> QED BY <3>1, <3>2 DEF ReaderType
  <2> QED BY <1>1, <1>3, <2>1 DEF ReadBlock, InputType, WindowType, WireType, ServerType
<1>4. CASE ReadEnd
  BY <1>4 DEF ReadEnd, InputType, ReaderType, WindowType, WireType, ServerType, wire
<1>5. CASE ReadFails
  <2>1. ReaderType' /\ WindowType'
    <3>1. 0 \in 0 .. MaxChats
      BY DEF ChatClientAssumption
    <3>2. ASSUME NEW p \in Got, Handle(p) PROVE ReaderType' /\ WindowType'
      BY <3>2, HandleTypes
    <3>3. CASE \E g \in Gid : Handle(Chat(g, 0)) \/ \E cmd \in {"invite", "create", "file", "other"} : Handle(Packet(cmd, g))
      <4>1. \A g \in Gid : Chat(g, 0) \in Got /\ \A cmd \in {"invite", "create", "file", "other"} : Packet(cmd, g) \in Got
        BY <3>1, GotPackets
      <4> QED BY <3>2, <3>3, <4>1
    <3>4. CASE reader' = [reader EXCEPT !.pc = "done"] /\ UNCHANGED <<requests, mapping, queue, win>>
      BY <3>4 DEF ReaderType, WindowType
    <3>5. CASE UNCHANGED <<reader, requests, mapping, queue, win>>
      BY <3>5 DEF ReaderType, WindowType
    <3> QED BY <1>5, <3>3, <3>4, <3>5 DEF ReadFails
  <2> QED BY <1>5, <2>1 DEF ReadFails, InputType, WireType, ServerType
<1> QED BY <1>2, <1>3, <1>4, <1>5 DEF Read

LEMMA RollTypes ==
  ASSUME ChatClientAssumption, NEW msgs \in [1 .. NUMBER_OF_MSGS -> 0 .. MaxChats], NEW n \in 0 .. MaxChats,
         NEW over \in 0 .. NUMBER_OF_MSGS
  PROVE  roll_messages(msgs, n, over) \in [1 .. NUMBER_OF_MSGS -> 0 .. MaxChats]
<1>1. DOMAIN msgs = 1 .. NUMBER_OF_MSGS /\ NUMBER_OF_MSGS \in Nat /\ NUMBER_OF_MSGS > 1 /\ MaxChats \in Nat
  BY DEF ChatClientAssumption
<1>2. \A i \in 1 .. NUMBER_OF_MSGS : i # 1 => i - 1 \in 1 .. NUMBER_OF_MSGS
  BY <1>1
<1> QED BY <1>1, <1>2 DEF roll_messages

LEMMA WinTInv ==
  ASSUME ChatClientAssumption, TInv, NEW w \in Window, Win(w)
  PROVE  TInv'
<1> USE DEF TInv, server
<1>1. win \in [Window -> Windows] /\ mapping \in [Gid -> Window \cup {NoWindow}]
  BY DEF WindowType
<1>2. ASSUME NEW x \in Windows, win' = [win EXCEPT ![w] = x], x.pc # "none" => x.gid \in Gid,
             mapping' = mapping, queue' \in [Window -> Seq(Chats)]
      PROVE  WindowType'
  <2>1. win' \in [Window -> Windows] /\ \A v \in Window : win'[v] = IF v = w THEN x ELSE win[v]
    BY <1>1, <1>2
  <2> QED BY <1>2, <2>1 DEF WindowType
<1>3. win[w].pc # "none" => win[w].gid \in Gid
  BY DEF WindowType
<1>4. queue \in [Window -> Seq(Chats)]
  BY DEF WindowType
<1>5. CASE WindowStart(w)
  <2> DEFINE x == [win[w] EXCEPT !.pc = "run", !.use = mapping[win[w].gid]]
  <2>1. win[w].pc = "new" /\ win' = [win EXCEPT ![w] = x] /\ mapping' = mapping /\ queue' = queue
    BY <1>5 DEF WindowStart
  <2>2. x \in Windows /\ x.gid \in Gid
    BY <1>1, <1>3, <2>1 DEF Windows
  <2> HIDE DEF x
  <2>3. WindowType'
    BY <1>2, <1>4, <2>1, <2>2
  <2> QED BY <1>5, <2>3 DEF WindowStart, InputType, ReaderType, WireType, ServerType, wire
<1>6. CASE WindowLine(w)
  <2>1. out' \in Seq(Queued)
    <3>1. Packet("chat", win[w].gid) \in Queued /\ Packet("download", win[w].gid) \in Queued /\ Packet("other", NoGid) \in Queued
      BY <1>3, <1>6, SentPackets DEF WindowLine
    <3> QED BY <1>6, <3>1, QueueTypes DEF WindowLine, WireType
  <2>2. InputType'
    BY <1>6 DEF WindowLine, Type, InputType
  <2> QED BY <1>6, <2>1, <2>2 DEF WindowLine, ReaderType, WindowType, WireType, ServerType, wire
<1>7. CASE WindowSendFile(w)
  <2>1. WireType'
    <3>1. Packet("file", win[w].gid) \in Sent
      BY <1>3, <1>7, SentPackets DEF WindowSendFile
    <3> QED BY <1>7, <3>1, WriteTypes DEF WindowSendFile, WireType
  <2>2. InputType'
    BY <1>7 DEF WindowSendFile, Type, InputType
  <2> DEFINE x == [win[w] EXCEPT !.pc = "file"]
  <2>3. win[w].pc = "run" /\ win' = [win EXCEPT ![w] = x] /\ mapping' = mapping /\ queue' = queue
    BY <1>7 DEF WindowSendFile
  <2>4. x \in Windows /\ x.gid \in Gid
    BY <1>1, <1>3, <2>3 DEF Windows
  <2> HIDE DEF x
  <2>5. WindowType'
    BY <1>2, <1>4, <2>3, <2>4
  <2> QED BY <1>7, <2>1, <2>2, <2>5 DEF WindowSendFile, ReaderType, ServerType
<1>8. CASE WindowBlock(w)
  <2>1. WireType'
    BY <1>8, SentPackets, WriteTypes DEF WindowBlock, WireType
  <2>2. win[w].done \in 0 .. FileLen - 1 /\ win[w].pc = "file" /\ FileLen \in Nat
    BY <1>1, <1>8 DEF WindowBlock, Windows, ChatClientAssumption
  <2>3. 0 \in 0 .. FileLen - 1 /\ (win[w].done + 1 < FileLen => win[w].done + 1 \in 0 .. FileLen - 1)
    BY <2>2
  <2> DEFINE x == IF MoreBlocks(win[w].done + 1) THEN [win[w] EXCEPT !.done = @ + 1]
                  ELSE [win[w] EXCEPT !.pc = "run", !.done = 0]
  <2>4. win' = [win EXCEPT ![w] = x] /\ mapping' = mapping /\ queue' = queue
    BY <1>8 DEF WindowBlock
  <2>5. x \in Windows /\ x.gid \in Gid
    BY <1>1, <1>3, <2>2, <2>3 DEF Windows, MoreBlocks
  <2> HIDE DEF x
  <2>6. WindowType'
    BY <1>2, <1>4, <2>4, <2>5
  <2> QED BY <1>8, <2>1, <2>6 DEF WindowBlock, InputType, ReaderType, ServerType
<1>9. CASE WindowShow(w)
  <2> DEFINE q == win[w].use
  <2>1. /\ win[w].pc \in {"run", "esc"} /\ q # NoWindow /\ queue[q] # <<>>
        /\ queue' = [queue EXCEPT ![q] = Tail(@)] /\ mapping' = mapping
    BY <1>9 DEF WindowShow
  <2>2. q \in Window /\ win[w].msgs \in [1 .. NUMBER_OF_MSGS -> 0 .. MaxChats]
    BY <1>1, <2>1 DEF Windows
  <2>3. Head(queue[q]).n \in 0 .. MaxChats /\ Tail(queue[q]) \in Seq(Chats)
    <3>1. Head(queue[q]) \in Chats /\ Tail(queue[q]) \in Seq(Chats)
      BY <1>4, <2>1, <2>2, TailFacts
    <3> QED BY <3>1 DEF Chats
  <2>4. PICK over \in 0 .. NUMBER_OF_MSGS :
          /\ win' = [win EXCEPT ![w].msgs = roll_messages(@, Head(queue[q]).n, over)]
          /\ up' \in IF over = NUMBER_OF_MSGS THEN BOOLEAN ELSE {TRUE}
    BY <1>9 DEF WindowShow
  <2>5. roll_messages(win[w].msgs, Head(queue[q]).n, over) \in [1 .. NUMBER_OF_MSGS -> 0 .. MaxChats]
    BY <2>2, <2>3, RollTypes
  <2> DEFINE m == roll_messages(win[w].msgs, Head(queue[q]).n, over)
             x == [win[w] EXCEPT !.msgs = m]
  <2>6. win' = [win EXCEPT ![w] = x] /\ x \in Windows /\ x.gid \in Gid
    <3>1. win' = [win EXCEPT ![w] = x]
      BY <2>4
    <3>2. m \in [1 .. NUMBER_OF_MSGS -> 0 .. MaxChats]
      BY <2>5
    <3> HIDE DEF m
    <3> QED BY <1>1, <1>3, <2>1, <3>1, <3>2 DEF Windows
  <2> HIDE DEF x
  <2>7. queue' \in [Window -> Seq(Chats)]
    BY <1>4, <2>1, <2>2, <2>3
  <2>8. WindowType'
    BY <1>2, <2>1, <2>6, <2>7
  <2>9. up' \in BOOLEAN
    BY <2>4
  <2> QED BY <1>9, <2>8, <2>9 DEF WindowShow, InputType, ReaderType, WireType, ServerType, wire
<1>10. CASE WindowEsc(w)
  <2> DEFINE x == [win[w] EXCEPT !.pc = "esc"]
  <2>1. win[w].pc = "run" /\ win' = [win EXCEPT ![w] = x] /\ mapping' = mapping /\ queue' = queue
    BY <1>10 DEF WindowEsc
  <2>2. x \in Windows /\ x.gid \in Gid
    BY <1>1, <1>3, <2>1 DEF Windows
  <2> HIDE DEF x
  <2>3. WindowType'
    BY <1>2, <1>4, <2>1, <2>2
  <2>4. InputType'
    BY <1>10 DEF WindowEsc, Type, InputType
  <2> QED BY <1>10, <2>3, <2>4 DEF WindowEsc, ReaderType, WireType, ServerType, wire
<1> QED BY <1>5, <1>6, <1>7, <1>8, <1>9, <1>10 DEF Win

LEMMA SayTypes ==
  ASSUME ChatClientAssumption, TInv, NEW g \in Gid, Say(g)
  PROVE  fromServer' \in Seq(Got) /\ said' \in [Gid -> 0 .. MaxChats]
<1>1. said[g] \in 0 .. MaxChats /\ said[g] < MaxChats /\ MaxChats \in Nat
  BY DEF Say, TInv, ServerType, ChatClientAssumption
<1>2. said[g] + 1 \in 0 .. MaxChats
  BY <1>1
<1>3. Chat(g, said[g] + 1) \in Got
  BY <1>2, GotPackets
<1>4. fromServer' \in Seq(Got)
  BY <1>3, AppendFacts DEF Say, Send, TInv, WireType
<1> QED BY <1>2, <1>4 DEF Say, TInv, ServerType

LEMMA SendTypes ==
  ASSUME ChatClientAssumption, TInv, NEW p \in Got, Send(p)
  PROVE  fromServer' \in Seq(Got)
BY AppendFacts DEF Send, TInv, WireType

LEMMA ServerTInv ==
  ASSUME ChatClientAssumption, TInv, Server
  PROVE  TInv'
<1> USE DEF TInv
<1>1. ASSUME UNCHANGED client, up' = up, mixed' = mixed, typed' = typed, WireType', ServerType' PROVE TInv'
  BY <1>1 DEF client, InputType, ReaderType, WindowType
<1>2. FileLen \in Nat \ {0} /\ srv.send \in 0 .. FileLen /\ srv.read \in 0 .. FileLen /\ srv.member \in SUBSET Gid
      /\ srv.member \subseteq srv.own \cup srv.other
  BY DEF ServerType, Srv, ChatClientAssumption
<1>3. CASE ServerTake
  <2> DEFINE p == Head(toServer)
  <2>1. /\ toServer # <<>> /\ toServer' = Tail(toServer) /\ UNCHANGED <<up, client, conn, mixed, typed, others>>
        /\ IF srv.read > 0 THEN ServerBlock(p) ELSE ServerHandle(p)
    BY <1>3 DEF ServerTake
  <2>2. p \in Sent /\ toServer' \in Seq(Sent)
    BY <2>1, TailFacts DEF WireType
  <2> HIDE DEF p
  <2>3. p \in Piece /\ (p.cmd = "join" => p.gid \in Gid) /\ p.gid \in Gid \cup {NoGid}
    BY <2>2 DEF Sent, Piece
  <2>4. /\ srv' \in Srv /\ srv'.member \subseteq srv'.own \cup srv'.other
        /\ fromServer' \in Seq(Got) /\ said' \in [Gid -> 0 .. MaxChats] /\ lost' \in BOOLEAN
    <3>1. CASE srv.read > 0
      <4>1. lost' \in BOOLEAN
        BY <2>1, <3>1 DEF ServerBlock, ServerType
      <4>2. srv.read - 1 \in 0 .. FileLen
        BY <1>2, <3>1
      <4>3. srv' = srv \/ srv' = [srv EXCEPT !.read = srv.read - 1]
        BY <2>1, <3>1 DEF ServerBlock
      <4>4. fromServer' \in Seq(Got) /\ said' \in [Gid -> 0 .. MaxChats]
        <5>1. CASE Say(srv.file) /\ srv.file \in srv.member
          BY <1>2, <5>1, SayTypes
        <5>2. CASE UNCHANGED <<fromServer, said>>
          BY <5>2 DEF WireType, ServerType
        <5> QED BY <2>1, <3>1, <5>1, <5>2 DEF ServerBlock
      <4> QED BY <4>1, <4>2, <4>3, <4>4 DEF ServerType, Srv
    <3>2. CASE ~(srv.read > 0)
      <4> USE <2>1, <3>2 DEF ServerHandle
      <4>1. CASE p.cmd = "create"
        <5>1. lost' = lost /\ said' = said
          BY <4>1
        <5>2. \/ \E g \in Gid \ srv.own : /\ srv' = [srv EXCEPT !.member = @ \cup {g}, !.own = @ \cup {g}]
                                         /\ Send(Packet("create", g))
              \/ Send(Packet("other", NoGid)) /\ srv' = srv
          BY <4>1
        <5>3. fromServer' \in Seq(Got)
          <6>1. Packet("other", NoGid) \in Got /\ \A g \in Gid : Packet("create", g) \in Got
            BY GotPackets
          <6> QED BY <5>2, <6>1, SendTypes
        <5>4. srv' \in Srv /\ srv'.member \subseteq srv'.own \cup srv'.other
          <6>1. srv \in Srv
            BY DEF ServerType
          <6>2. CASE srv' = srv
            BY <1>2, <6>1, <6>2
          <6>3. ASSUME NEW g \in Gid, srv' = [srv EXCEPT !.member = @ \cup {g}, !.own = @ \cup {g}]
                PROVE  srv' \in Srv /\ srv'.member \subseteq srv'.own \cup srv'.other
            BY ONLY <1>2, <6>1, <6>3 DEF Srv
          <6> QED BY <5>2, <6>2, <6>3
        <5> QED BY <5>1, <5>3, <5>4 DEF ServerType
      <4>2. CASE p.cmd = "join"
        <5>1. PICK listed \in SUBSET {p.gid} : /\ srv' = [srv EXCEPT !.member = @ \cup listed, !.own = @ \cup {p.gid}]
                                               /\ UNCHANGED <<fromServer, lost, said>>
          BY <4>2
        <5>2. srv' \in Srv /\ srv'.member \subseteq srv'.own \cup srv'.other
          BY ONLY <2>3, <4>2, <5>1, ServerType DEF ServerType, Srv
        <5> QED BY <5>1, <5>2 DEF ServerType, WireType
      <4>3. CASE p.cmd \in {"chat", "line"}
        <5>1. UNCHANGED <<srv, lost>> /\ (IF p.gid \in srv.member THEN Say(p.gid) ELSE UNCHANGED <<fromServer, said>>)
          BY <4>3
        <5>2. fromServer' \in Seq(Got) /\ said' \in [Gid -> 0 .. MaxChats]
          <6>1. CASE p.gid \in srv.member
            BY <1>2, <5>1, <6>1, SayTypes
          <6> QED BY <5>1, <6>1 DEF WireType, ServerType
        <5> QED BY <5>1, <5>2 DEF ServerType
      <4>4. CASE p.cmd = "download"
        <5>1. UNCHANGED <<lost, said>>
          BY <4>4
        <5>2. \/ p.gid \in srv.member /\ srv' = [srv EXCEPT !.send = FileLen] /\ Send(Packet("file", p.gid))
              \/ UNCHANGED <<srv, fromServer>>
          BY <4>4
        <5>3. fromServer' \in Seq(Got)
          <6>1. p.gid \in srv.member => Packet("file", p.gid) \in Got
            BY <1>2, GotPackets
          <6> QED BY <5>2, <6>1, SendTypes DEF WireType
        <5>4. srv' \in Srv /\ srv'.member \subseteq srv'.own \cup srv'.other
          BY ONLY <1>2, <5>2, ServerType DEF ServerType, Srv
        <5> QED BY <5>1, <5>3, <5>4 DEF ServerType
      <4>5. CASE p.cmd = "other"
        <5>1. UNCHANGED <<srv, lost, said>> /\ (fromServer' = fromServer \/ Send(p))
          BY <4>5
        <5>2. p \in Got
          BY <2>3, <4>5 DEF Got, Answers, Piece
        <5>3. fromServer' \in Seq(Got)
          BY <5>1, <5>2, SendTypes DEF WireType
        <5> QED BY <5>1, <5>3 DEF ServerType
      <4>6. CASE p.cmd = "file"
        <5>1. srv' = [srv EXCEPT !.read = FileLen, !.file = p.gid] /\ UNCHANGED <<fromServer, lost, said>>
          BY <4>6
        <5>2. srv' \in Srv /\ srv'.member \subseteq srv'.own \cup srv'.other
          <6>1. FileLen \in 0 .. FileLen /\ p.gid \in Gid \cup {NoGid}
            BY ONLY <1>2, <2>3
          <6>2. srv \in Srv /\ srv.member \subseteq srv.own \cup srv.other
            BY ONLY TInv DEF TInv, ServerType
          <6> QED BY ONLY <5>1, <6>1, <6>2 DEF Srv
        <5> QED BY <5>1, <5>2 DEF ServerType, WireType
      <4>7. CASE p.cmd = "block"
        BY <4>7 DEF ServerType, WireType
      <4> QED BY <4>1, <4>2, <4>3, <4>4, <4>5, <4>6, <4>7
    <3> QED BY <3>1, <3>2
  <2> QED BY <1>1, <2>1, <2>2, <2>4 DEF WireType, ServerType, client
<1>4. CASE ServerSend
  <2>1. srv.send > 0 /\ srv' = [srv EXCEPT !.send = srv.send - 1] /\ srv.send - 1 \in 0 .. FileLen
    BY <1>2, <1>4 DEF ServerSend
  <2>2. fromServer' \in Seq(Got)
    BY <1>4, GotPackets, SendTypes DEF ServerSend
  <2>3. ServerType'
    BY <1>4, <2>1 DEF ServerSend, ServerType, Srv
  <2> QED BY <1>1, <1>4, <2>2, <2>3 DEF ServerSend, WireType, client
<1>5. CASE ServerInvite
  <2>1. fromServer' \in Seq(Got)
    BY <1>5, GotPackets, SendTypes DEF ServerInvite
  <2>2. ServerType'
    <3>1. srv' = [srv EXCEPT !.cut = srv.cut \/ srv.send > 0] /\ srv \in Srv
      BY <1>5 DEF ServerInvite, ServerType
    <3>2. srv' \in Srv /\ srv'.member \subseteq srv'.own \cup srv'.other
      BY <1>2, <3>1 DEF Srv
    <3> QED BY <1>5, <3>2 DEF ServerInvite, Other, ServerType, ChatClientAssumption
  <2> QED BY <1>1, <1>5, <2>1, <2>2 DEF ServerInvite, WireType, client
<1>6. CASE ServerChat
  <2>1. fromServer' \in Seq(Got) /\ said' \in [Gid -> 0 .. MaxChats]
    BY <1>2, <1>6, SayTypes DEF ServerChat
  <2>2. srv' = [srv EXCEPT !.cut = srv.cut \/ srv.send > 0] /\ srv \in Srv
    BY <1>6 DEF ServerChat, ServerType
  <2>3. srv' \in Srv /\ srv'.member \subseteq srv'.own \cup srv'.other
    BY <1>2, <2>2 DEF Srv
  <2> QED BY <1>1, <1>6, <2>1, <2>3 DEF ServerChat, WireType, ServerType, client
<1>7. CASE ServerElsewhere \/ ServerForget
  <2>1. UNCHANGED <<up, client, wire, lost, mixed, typed, said>> /\ Other
    BY <1>7 DEF ServerElsewhere, ServerForget
  <2>2. \E g \in Gid : \/ srv' = [srv EXCEPT !.member = srv.member \cup {g}, !.other = srv.other \cup {g}]
                       \/ srv' = [srv EXCEPT !.member = srv.member \ {g}]
    BY <1>2, <1>7 DEF ServerElsewhere, ServerForget
  <2>3. srv' \in Srv /\ srv'.member \subseteq srv'.own \cup srv'.other
    <3>1. srv \in Srv
      BY DEF ServerType
    <3>2. PICK g \in Gid : \/ srv' = [srv EXCEPT !.member = srv.member \cup {g}, !.other = srv.other \cup {g}]
                           \/ srv' = [srv EXCEPT !.member = srv.member \ {g}]
      BY <2>2
    <3>3. CASE srv' = [srv EXCEPT !.member = srv.member \cup {g}, !.other = srv.other \cup {g}]
      BY ONLY <1>2, <3>1, <3>3, g \in Gid DEF Srv
    <3>4. CASE srv' = [srv EXCEPT !.member = srv.member \ {g}]
      BY ONLY <1>2, <3>1, <3>4, g \in Gid DEF Srv
    <3> QED BY <3>2, <3>3, <3>4
  <2>4. ServerType'
    BY <2>1, <2>3 DEF Other, ServerType, ChatClientAssumption
  <2> QED BY <1>1, <2>1, <2>4 DEF wire, WireType, client
<1>8. CASE ServerClose
  <2>1. toServer' \in Seq(Sent)
    BY <1>8, EmptySeq DEF ServerClose
  <2> QED BY <1>1, <1>8, <2>1 DEF ServerClose, WireType, ServerType, client, server
<1> QED BY <1>3, <1>4, <1>5, <1>6, <1>7, <1>8 DEF Server

LEMMA NextTInv == ChatClientAssumption /\ TInv /\ [Next]_vars => TInv'
<1> SUFFICES ASSUME ChatClientAssumption, TInv, [Next]_vars PROVE TInv'
  OBVIOUS
<1>1. CASE UNCHANGED vars
  BY <1>1 DEF vars, client, wire, server, TInv, InputType, ReaderType, WindowType, WireType, ServerType
<1> QED BY <1>1, InputTInv, WriteOutTInv, ReadTInv, WinTInv, ServerTInv DEF Next
-----------------------------------------------------------------------------
(* What a reader makes of a stream *)

\* Blocks still to be read after a piece, when k were before it; Astray when a
\* packet was taken for a block.
Astray == FileLen + 1
Expect(k, cmd) ==
  IF k = Astray THEN Astray
  ELSE IF k = 0 THEN (IF cmd = "file" THEN FileLen ELSE 0)
  ELSE IF cmd = "block" THEN k - 1 ELSE Astray

\* t is what is expected after each piece of s.  No block comes where a packet is
\* expected, and no answer to create where a block is.
Parses(s, t) ==
  \A i \in 1 .. Len(s) :
    /\ t[i] = Expect(t[i - 1], s[i].cmd)
    /\ t[i - 1] = 0 => s[i].cmd # "block"
    /\ s[i].cmd = "create" => t[i - 1] \in {0, Astray}
Parse(s, K, a, b) == \E t \in [Nat -> K] : t[0] = a /\ t[Len(s)] = b /\ Parses(s, t)

LEMMA ParseEmpty ==
  ASSUME NEW K, NEW a \in K
  PROVE  Parse(<<>>, K, a, a)
<1>1. [i \in Nat |-> a] \in [Nat -> K] /\ Len(<<>>) = 0
  BY EmptySeq
<1>2. Parses(<<>>, [i \in Nat |-> a])
  BY <1>1 DEF Parses
<1> QED BY <1>1, <1>2 DEF Parse

LEMMA ParseMore ==
  ASSUME NEW K, NEW L, K \subseteq L, NEW s, NEW a, NEW b, Parse(s, K, a, b)
  PROVE  Parse(s, L, a, b)
<1>1. PICK t \in [Nat -> K] : t[0] = a /\ t[Len(s)] = b /\ Parses(s, t)
  BY DEF Parse
<1>2. t \in [Nat -> L]
  OBVIOUS
<1> QED BY <1>1, <1>2 DEF Parse

LEMMA ParseAppend ==
  ASSUME NEW S, NEW s \in Seq(S), NEW p \in S, NEW K, NEW a, NEW b, Parse(s, K, a, b),
         Expect(b, p.cmd) \in K, b = 0 => p.cmd # "block", p.cmd = "create" => b \in {0, Astray}
  PROVE  Parse(Append(s, p), K, a, Expect(b, p.cmd))
<1>1. PICK t \in [Nat -> K] : t[0] = a /\ t[Len(s)] = b /\ Parses(s, t)
  BY DEF Parse
<1>2. /\ Len(s) \in Nat /\ Len(Append(s, p)) = Len(s) + 1
      /\ \A i \in 1 .. Len(s) : Append(s, p)[i] = s[i]
      /\ Append(s, p)[Len(s) + 1] = p
  BY AppendFacts
<1> DEFINE e == Expect(b, p.cmd)
           u == [t EXCEPT ![Len(s) + 1] = e]
<1>3. /\ u \in [Nat -> K] /\ u[Len(s) + 1] = e
      /\ \A i \in 0 .. Len(s) : u[i] = t[i]
  BY <1>2
<1> HIDE DEF u, e
<1>4. Parses(Append(s, p), u)
  <2> SUFFICES ASSUME NEW i \in 1 .. Len(s) + 1
               PROVE  /\ u[i] = Expect(u[i - 1], Append(s, p)[i].cmd)
                      /\ u[i - 1] = 0 => Append(s, p)[i].cmd # "block"
                      /\ Append(s, p)[i].cmd = "create" => u[i - 1] \in {0, Astray}
    BY <1>2 DEF Parses
  <2>1. CASE i = Len(s) + 1
    <3>1. i - 1 = Len(s) /\ Append(s, p)[i] = p /\ u[i] = e /\ u[i - 1] = b
      BY <1>1, <1>2, <1>3, <2>1
    <3> QED BY <3>1 DEF e
  <2>2. CASE i \in 1 .. Len(s)
    <3>1. Append(s, p)[i] = s[i] /\ u[i] = t[i] /\ u[i - 1] = t[i - 1]
      BY <1>2, <1>3, <2>2
    <3> QED BY <1>1, <2>2, <3>1 DEF Parses
  <2> QED BY <1>2, <2>1, <2>2
<1>5. u[0] = a /\ u[Len(Append(s, p))] = e
  BY <1>1, <1>2, <1>3
<1> QED BY <1>3, <1>4, <1>5 DEF Parse, e

LEMMA ParseTail ==
  ASSUME NEW S, NEW s \in Seq(S), s # <<>>, NEW K, NEW a, NEW b, Parse(s, K, a, b)
  PROVE  /\ Parse(Tail(s), K, Expect(a, Head(s).cmd), b) /\ Expect(a, Head(s).cmd) \in K
         /\ a = 0 => Head(s).cmd # "block"
         /\ Head(s).cmd = "create" => a \in {0, Astray}
<1>1. PICK t \in [Nat -> K] : t[0] = a /\ t[Len(s)] = b /\ Parses(s, t)
  BY DEF Parse
<1>2. /\ Len(s) \in Nat \ {0} /\ Len(Tail(s)) = Len(s) - 1 /\ Head(s) = s[1]
      /\ \A i \in 1 .. Len(s) - 1 : Tail(s)[i] = s[i + 1]
  BY TailFacts
<1> DEFINE u == [i \in Nat |-> t[i + 1]]
<1>3. u \in [Nat -> K] /\ \A i \in Nat : u[i] = t[i + 1]
  OBVIOUS
<1> HIDE DEF u
<1>4. /\ t[1] = Expect(a, Head(s).cmd)
      /\ a = 0 => Head(s).cmd # "block"
      /\ Head(s).cmd = "create" => a \in {0, Astray}
  <2>1. 1 \in 1 .. Len(s) /\ 1 - 1 = 0
    BY <1>2
  <2> QED BY <1>1, <1>2, <2>1 DEF Parses
<1>5. Parses(Tail(s), u)
  <2> SUFFICES ASSUME NEW i \in 1 .. Len(s) - 1
               PROVE  /\ u[i] = Expect(u[i - 1], Tail(s)[i].cmd)
                      /\ u[i - 1] = 0 => Tail(s)[i].cmd # "block"
                      /\ Tail(s)[i].cmd = "create" => u[i - 1] \in {0, Astray}
    BY <1>2 DEF Parses
  <2>1. i + 1 \in 1 .. Len(s) /\ (i + 1) - 1 = i /\ (i - 1) + 1 = i /\ i - 1 \in Nat /\ i \in Nat
    BY <1>2
  <2>2. u[i] = t[i + 1] /\ u[i - 1] = t[(i + 1) - 1] /\ Tail(s)[i] = s[i + 1]
    BY <1>2, <1>3, <2>1
  <2> QED BY <1>1, <2>1, <2>2 DEF Parses
<1>6. u[0] = t[1] /\ u[Len(Tail(s))] = b
  BY <1>1, <1>2, <1>3
<1>7. t[1] \in K
  OBVIOUS
<1> QED BY <1>3, <1>4, <1>5, <1>6, <1>7 DEF Parse

\* The chats of g in s are numbered from a + 1 to b.
ChatOf(p, g) == p.cmd = "chat" /\ p.gid = g
Counts(s, g, c) ==
  \A i \in 1 .. Len(s) :
    IF ChatOf(s[i], g) THEN c[i] = c[i - 1] + 1 /\ s[i].n = c[i] ELSE c[i] = c[i - 1]
NextOf(p, g, b) == ChatOf(p, g) => p.n = b + 1
Counters == [Nat -> Nat]
Numbered(s, g, a, b) == \E c \in Counters : c[0] = a /\ c[Len(s)] = b /\ Counts(s, g, c)

LEMMA NumberedEmpty ==
  ASSUME NEW g, NEW a \in Nat
  PROVE  Numbered(<<>>, g, a, a)
<1>1. [i \in Nat |-> a] \in Counters /\ Len(<<>>) = 0
  BY EmptySeq DEF Counters
<1>2. Counts(<<>>, g, [i \in Nat |-> a])
  BY <1>1 DEF Counts
<1> QED BY <1>1, <1>2 DEF Numbered

LEMMA NumberedAppend ==
  ASSUME NEW S, NEW s \in Seq(S), NEW p \in S, NEW g, NEW a, NEW b \in Nat, Numbered(s, g, a, b), NextOf(p, g, b)
  PROVE  Numbered(Append(s, p), g, a, IF ChatOf(p, g) THEN b + 1 ELSE b)
<1>1. PICK c \in Counters : c[0] = a /\ c[Len(s)] = b /\ Counts(s, g, c)
  BY DEF Numbered
<1>2. /\ Len(s) \in Nat /\ Len(Append(s, p)) = Len(s) + 1
      /\ \A i \in 1 .. Len(s) : Append(s, p)[i] = s[i]
      /\ Append(s, p)[Len(s) + 1] = p
  BY AppendFacts
<1> DEFINE e == IF ChatOf(p, g) THEN b + 1 ELSE b
           d == [c EXCEPT ![Len(s) + 1] = e]
<1>3. e \in Nat
  OBVIOUS
<1> HIDE DEF e
<1>4. d \in Counters /\ d[Len(s) + 1] = e /\ \A i \in Nat : i # Len(s) + 1 => d[i] = c[i]
  <2>1. Len(s) + 1 \in Nat
    BY <1>2
  <2> QED BY <1>3, <2>1 DEF Counters
<1> HIDE DEF d
<1>5. Counts(Append(s, p), g, d)
  <2> SUFFICES ASSUME NEW i \in 1 .. Len(s) + 1
               PROVE  IF ChatOf(Append(s, p)[i], g)
                      THEN d[i] = d[i - 1] + 1 /\ Append(s, p)[i].n = d[i] ELSE d[i] = d[i - 1]
    BY <1>2 DEF Counts
  <2>1. CASE i = Len(s) + 1
    <3>1. i - 1 = Len(s) /\ i - 1 \in Nat /\ i - 1 # Len(s) + 1
      BY <1>2, <2>1
    <3>2. Append(s, p)[i] = p /\ d[i] = e /\ d[i - 1] = b
      BY <1>1, <1>2, <1>4, <2>1, <3>1
    <3> QED BY <3>2 DEF e, NextOf
  <2>2. CASE i \in 1 .. Len(s)
    <3>1. i \in Nat /\ i - 1 \in Nat /\ i # Len(s) + 1 /\ i - 1 # Len(s) + 1
      BY <1>2, <2>2
    <3>2. Append(s, p)[i] = s[i] /\ d[i] = c[i] /\ d[i - 1] = c[i - 1]
      BY <1>2, <1>4, <2>2, <3>1
    <3> QED BY <1>1, <2>2, <3>2 DEF Counts
  <2> QED BY <1>2, <2>1, <2>2
<1>6. d[0] = a /\ d[Len(Append(s, p))] = e
  BY <1>1, <1>2, <1>4
<1> QED BY <1>4, <1>5, <1>6 DEF Numbered, e

LEMMA NumberedTail ==
  ASSUME NEW S, NEW s \in Seq(S), s # <<>>, NEW g, NEW a \in Nat, NEW b, Numbered(s, g, a, b)
  PROVE  /\ Numbered(Tail(s), g, IF ChatOf(Head(s), g) THEN a + 1 ELSE a, b)
         /\ ChatOf(Head(s), g) => Head(s).n = a + 1
<1>1. PICK c \in Counters : c[0] = a /\ c[Len(s)] = b /\ Counts(s, g, c)
  BY DEF Numbered
<1>2. /\ Len(s) \in Nat \ {0} /\ Len(Tail(s)) = Len(s) - 1 /\ Head(s) = s[1]
      /\ \A i \in 1 .. Len(s) - 1 : Tail(s)[i] = s[i + 1]
  BY TailFacts
<1> DEFINE d == [i \in Nat |-> c[i + 1]]
<1>3. d \in Counters /\ \A i \in Nat : d[i] = c[i + 1]
  BY DEF Counters
<1> HIDE DEF d
<1>4. c[1] = (IF ChatOf(Head(s), g) THEN a + 1 ELSE a) /\ (ChatOf(Head(s), g) => Head(s).n = a + 1)
  <2>1. 1 \in 1 .. Len(s) /\ 1 - 1 = 0
    BY <1>2
  <2> QED BY <1>1, <1>2, <2>1 DEF Counts
<1>5. Counts(Tail(s), g, d)
  <2> SUFFICES ASSUME NEW i \in 1 .. Len(s) - 1
               PROVE  IF ChatOf(Tail(s)[i], g)
                      THEN d[i] = d[i - 1] + 1 /\ Tail(s)[i].n = d[i] ELSE d[i] = d[i - 1]
    BY <1>2 DEF Counts
  <2>1. i + 1 \in 1 .. Len(s) /\ (i + 1) - 1 = i /\ (i - 1) + 1 = i /\ i - 1 \in Nat /\ i \in Nat
    BY <1>2
  <2>2. d[i] = c[i + 1] /\ d[i - 1] = c[(i + 1) - 1] /\ Tail(s)[i] = s[i + 1]
    BY <1>2, <1>3, <2>1
  <2> QED BY <1>1, <2>1, <2>2 DEF Counts
<1>6. d[0] = c[1] /\ d[Len(Tail(s))] = b
  <2>1. Len(Tail(s)) \in Nat /\ Len(Tail(s)) + 1 = Len(s) /\ 0 + 1 = 1 /\ 0 \in Nat
    BY <1>2
  <2> QED BY <1>1, <1>3, <2>1
<1> QED BY <1>3, <1>4, <1>5, <1>6 DEF Numbered
-----------------------------------------------------------------------------
(* What a step leaves alone *)

\* A connection is never opened again.
ConnStep == (conn # "open" => conn' # "open") /\ (conn = "eof" => conn' = "eof")

LEMMA WriteStep ==
  ASSUME NEW p, NEW t, Write(p, t)
  PROVE  /\ fromServer' = fromServer /\ ConnStep
         /\ conn' = "open" => conn = "open" /\ toServer' = Append(toServer, p)
         /\ conn # "open" => toServer' = toServer
         /\ toServer' \in {toServer, Append(toServer, p)}
         /\ conn' = "open" => mixed' = (mixed \/ Sending \ {t} # {})
         /\ mixed => mixed'
<1>1. CASE /\ conn = "open" /\ toServer' = Append(toServer, p) /\ mixed' = (mixed \/ Sending \ {t} # {})
           /\ UNCHANGED <<up, conn, fromServer>>
  <2>1. mixed => mixed'
    BY <1>1, Zenon
  <2> QED BY <1>1, <2>1, Zenon DEF ConnStep
<1>2. CASE conn # "open" /\ conn' = "eof" /\ UNCHANGED <<toServer, fromServer, mixed>>
  <2>1. conn' # "open"
    BY <1>2
  <2> QED BY <1>2, <2>1, Zenon DEF ConnStep
<1> QED BY <1>1, <1>2 DEF Write, wire

\* The input thread, the writer and the windows.
LEMMA ClientStep ==
  ASSUME Main \/ WriteOut \/ \E w \in Window : Win(w)
  PROVE  UNCHANGED <<reader, fromServer, srv, lost, others, said>> /\ ConnStep
<1>1. ASSUME UNCHANGED wire PROVE UNCHANGED <<fromServer, conn>> /\ ConnStep
  BY <1>1 DEF wire, ConnStep
<1>2. CASE CheckRequests \/ Ask \/ Join \/ LineRest \/ LineCommand
  BY <1>1, <1>2 DEF CheckRequests, Ask, Join, LineRest, LineCommand, server
<1>3. CASE LineSendFile \/ LineBlock \/ WriteOut
  BY <1>3, WriteStep DEF LineSendFile, LineBlock, WriteOut, server
<1>4. ASSUME NEW w \in Window, Win(w) PROVE UNCHANGED <<reader, fromServer, srv, lost, others, said>> /\ ConnStep
  <2>1. CASE WindowStart(w) \/ WindowLine(w) \/ WindowShow(w) \/ WindowEsc(w)
    BY <1>1, <2>1 DEF WindowStart, WindowLine, WindowShow, WindowEsc, server
  <2>2. CASE WindowSendFile(w) \/ WindowBlock(w)
    BY <2>2, WriteStep DEF WindowSendFile, WindowBlock, server
  <2> QED BY <1>4, <2>1, <2>2 DEF Win
<1> QED BY <1>2, <1>3, <1>4 DEF Main

\* The server sends q: what it says in its group is counted, and its own thread,
\* which alone sends files and answers, is in no download when it handles packets.
Emits(q) ==
  /\ fromServer' = Append(fromServer, q)
  /\ IF q.cmd = "chat"
     THEN q.gid \in srv.member /\ q.n = said[q.gid] + 1 /\ said' = [said EXCEPT ![q.gid] = @ + 1]
     ELSE said' = said
  /\ srv'.own = IF q.cmd = "create" THEN srv.own \cup {q.gid} ELSE srv.own
  /\ srv'.other = srv.other
  /\ q.cmd = "block" => srv.send > 0 /\ srv'.send = srv.send - 1
  /\ q.cmd = "create" => srv.send = 0 /\ q = Packet("create", q.gid)
  /\ q.cmd = "file" => srv.send = 0 /\ srv'.send = FileLen
  /\ q.cmd \notin {"block", "file"} => srv'.send = srv.send
  /\ srv.cut => srv'.cut
  /\ q.cmd # "block" /\ srv.send > 0 => srv'.cut

LEMMA SayEmits ==
  ASSUME ChatClientAssumption, TInv, NEW g \in srv.member, Say(g), srv'.send = srv.send, srv'.own = srv.own,
         srv'.other = srv.other, srv.cut \/ srv.send > 0 => srv'.cut
  PROVE  \E q \in Got : Emits(q)
<1>1. g \in Gid /\ said[g] + 1 \in 0 .. MaxChats
  BY DEF Say, TInv, ServerType, Srv, ChatClientAssumption
<1>2. Chat(g, said[g] + 1) \in Got
  BY <1>1, GotPackets
<1>3. Emits(Chat(g, said[g] + 1))
  BY DEF Emits, Say, Send, Chat
<1> QED BY <1>2, <1>3

\* A step that sends nothing: the server may take an acceptance.
MemberStep ==
  /\ srv.other \subseteq srv'.other /\ srv'.cut = srv.cut
  /\ \/ srv'.own = srv.own
     \/ /\ toServer # <<>> /\ toServer' = Tail(toServer) /\ Head(toServer).cmd = "join"
        /\ srv'.own = srv.own \cup {Head(toServer).gid}

LEMMA TakeEmits ==
  ASSUME ChatClientAssumption, TInv, ServerTake
  PROVE  \/ fromServer' = fromServer /\ said' = said /\ srv'.send = srv.send /\ MemberStep
         \/ \E q \in Got : Emits(q)
<1> DEFINE p == Head(toServer)
<1>1. srv.send = 0 /\ IF srv.read > 0 THEN ServerBlock(p) ELSE ServerHandle(p)
  BY DEF ServerTake
<1>2. srv \in Srv /\ srv.member \subseteq Gid /\ p \in Sent
  BY TailFacts DEF ServerTake, TInv, ServerType, WireType, Srv
<1> HIDE DEF p
<1>3. CASE srv.read > 0
  <2>1. srv'.send = srv.send /\ srv'.own = srv.own /\ srv'.other = srv.other /\ srv'.cut = srv.cut
    BY <1>1, <1>2, <1>3 DEF ServerBlock, Srv
  <2> QED BY <1>1, <1>3, <2>1, SayEmits DEF ServerBlock, MemberStep
<1>4. CASE ~(srv.read > 0)
  <2>1. ServerHandle(p)
    BY <1>1, <1>4
  <2>2. CASE p.cmd = "create"
    <3>1. CASE \E g \in Gid \ srv.own : /\ srv' = [srv EXCEPT !.member = @ \cup {g}, !.own = @ \cup {g}]
                                         /\ Send(Packet("create", g))
      <4>1. PICK g \in Gid : /\ srv' = [srv EXCEPT !.member = @ \cup {g}, !.own = @ \cup {g}]
                             /\ Send(Packet("create", g))
        BY <3>1
      <4>2. /\ srv'.send = srv.send /\ said' = said /\ Packet("create", g) \in Got
            /\ srv'.own = srv.own \cup {g} /\ srv'.other = srv.other /\ srv'.cut = srv.cut
        BY <1>2, <2>1, <2>2, <4>1, GotPackets DEF ServerHandle, Srv
      <4>3. Emits(Packet("create", g))
        BY <1>1, <4>1, <4>2 DEF Emits, Send, Packet
      <4> QED BY <4>2, <4>3
    <3>2. CASE Send(Packet("other", NoGid)) /\ UNCHANGED srv
      <4>1. said' = said /\ Packet("other", NoGid) \in Got
        BY <2>1, <2>2, GotPackets DEF ServerHandle
      <4>2. Emits(Packet("other", NoGid))
        BY <1>1, <3>2, <4>1 DEF Emits, Send, Packet
      <4> QED BY <4>1, <4>2
    <3> QED BY <2>1, <2>2, <3>1, <3>2 DEF ServerHandle
  <2>3. CASE p.cmd = "join" \/ p.cmd = "file" \/ p.cmd = "block"
    <3>1. /\ fromServer' = fromServer /\ said' = said
          /\ \/ p.cmd = "join" /\ \E m : srv' = [srv EXCEPT !.member = m, !.own = @ \cup {p.gid}]
             \/ srv' = srv
             \/ srv' = [srv EXCEPT !.read = FileLen, !.file = p.gid]
      BY <2>1, <2>3 DEF ServerHandle
    <3>2. /\ srv'.send = srv.send /\ srv'.other = srv.other /\ srv'.cut = srv.cut
          /\ srv'.own = srv.own \/ (p.cmd = "join" /\ srv'.own = srv.own \cup {p.gid})
      BY <1>2, <3>1 DEF Srv
    <3>3. toServer # <<>> /\ toServer' = Tail(toServer)
      BY DEF ServerTake
    <3>4. MemberStep
      BY <3>2, <3>3 DEF MemberStep, p
    <3> QED BY <3>1, <3>2, <3>4
  <2>4. CASE p.cmd \in {"chat", "line"}
    <3>1. srv' = srv /\ IF p.gid \in srv.member THEN Say(p.gid) ELSE UNCHANGED <<fromServer, said>>
      BY <2>1, <2>4 DEF ServerHandle
    <3>2. ~(srv.send > 0)
      BY <1>1
    <3>3. CASE p.gid \in srv.member
      BY <3>1, <3>2, <3>3, SayEmits
    <3>4. CASE p.gid \notin srv.member
      BY <3>1, <3>4 DEF MemberStep
    <3> QED BY <3>3, <3>4
  <2>5. CASE p.cmd = "download"
    <3>1. CASE p.gid \in srv.member /\ srv' = [srv EXCEPT !.send = FileLen] /\ Send(Packet("file", p.gid))
      <4>1. /\ srv'.send = FileLen /\ srv'.own = srv.own /\ srv'.other = srv.other /\ srv'.cut = srv.cut
            /\ said' = said /\ Packet("file", p.gid) \in Got
        BY <1>2, <2>1, <2>5, <3>1, GotPackets DEF ServerHandle, Srv
      <4>2. Emits(Packet("file", p.gid))
        BY <1>1, <3>1, <4>1 DEF Emits, Send, Packet
      <4> QED BY <4>1, <4>2
    <3>2. CASE UNCHANGED <<srv, fromServer, said>>
      BY <3>2 DEF MemberStep
    <3> QED BY <2>1, <2>5, <3>1, <3>2 DEF ServerHandle
  <2>6. CASE p.cmd = "other"
    <3>1. p \in Got /\ srv' = srv /\ said' = said /\ (fromServer' = fromServer \/ Send(p))
      BY <1>2, <2>1, <2>6 DEF ServerHandle, Sent, Piece, Got, Answers
    <3>2. Send(p) => Emits(p)
      BY <1>1, <2>6, <3>1 DEF Emits, Send
    <3> QED BY <3>1, <3>2 DEF MemberStep
  <2> QED BY <1>2, <2>2, <2>3, <2>4, <2>5, <2>6 DEF Sent, Piece
<1> QED BY <1>3, <1>4

LEMMA ServerEmits ==
  ASSUME ChatClientAssumption, TInv, Server
  PROVE  \/ fromServer' = fromServer /\ said' = said /\ srv'.send = srv.send /\ MemberStep
         \/ conn = "open" /\ conn' = conn /\ \E q \in Got : Emits(q)
<1>1. CASE ServerTake
  BY <1>1, TakeEmits DEF ServerTake
<1>2. CASE ServerSend
  <2>1. /\ srv.send > 0 /\ srv'.send = srv.send - 1 /\ said' = said /\ Send(Packet("block", NoGid))
        /\ conn = "open" /\ conn' = conn /\ srv'.own = srv.own /\ srv'.other = srv.other /\ srv'.cut = srv.cut
    BY <1>2 DEF ServerSend, TInv, ServerType, Srv
  <2>2. Packet("block", NoGid) \in Got
    BY GotPackets
  <2>3. Emits(Packet("block", NoGid))
    BY <2>1 DEF Emits, Send, Packet
  <2> QED BY <2>1, <2>2, <2>3
<1>3. CASE ServerInvite
  <2>1. PICK g \in Gid : Send(Packet("invite", g))
    BY <1>3 DEF ServerInvite
  <2>2. Packet("invite", g) \in Got /\ UNCHANGED <<said, conn>> /\ conn = "open"
    BY <1>3, GotPackets DEF ServerInvite
  <2>3. /\ srv'.send = srv.send /\ srv'.own = srv.own /\ srv'.other = srv.other
        /\ srv.cut \/ srv.send > 0 => srv'.cut
    BY <1>3 DEF ServerInvite, TInv, ServerType, Srv
  <2>4. Emits(Packet("invite", g))
    BY <2>1, <2>2, <2>3 DEF Emits, Send, Packet
  <2> QED BY <2>2, <2>4
<1>4. CASE ServerChat
  <2>1. /\ srv'.send = srv.send /\ srv'.own = srv.own /\ srv'.other = srv.other
        /\ srv.cut \/ srv.send > 0 => srv'.cut
    BY <1>4 DEF ServerChat, TInv, ServerType, Srv
  <2> QED BY <1>4, <2>1, SayEmits DEF ServerChat
<1>5. CASE ServerElsewhere \/ ServerForget
  <2>1. /\ srv'.send = srv.send /\ srv'.own = srv.own /\ srv.other \subseteq srv'.other /\ srv'.cut = srv.cut
    BY <1>5 DEF ServerElsewhere, ServerForget, TInv, ServerType, Srv
  <2> QED BY <1>5, <2>1 DEF ServerElsewhere, ServerForget, wire, MemberStep
<1>6. CASE ServerClose
  BY <1>6 DEF ServerClose, server, MemberStep
<1> QED BY <1>1, <1>2, <1>3, <1>4, <1>5, <1>6 DEF Server
-----------------------------------------------------------------------------
(* The client reads packets as packets and blocks as blocks *)

\* What a reader of the stream to the client may be at: astray only when a packet
\* of another thread has got between the blocks of a download.
Marks == 0 .. IF srv.cut THEN Astray ELSE FileLen

\* What the reader is at: blocks to read, or astray.
Reading == IF reader.pc = "read" THEN 0 ELSE IF reader.pc = "file" THEN reader.todo ELSE Astray

\* The stream to the client parses; the server's own thread, which alone sends
\* files, has so many blocks left as the end of the stream is short of, unless a
\* packet of another thread got between them.
ReadInv ==
  /\ reader.pc = "read" => reader.todo = 0
  /\ reader.pc = "file" => reader.todo > 0
  /\ reader.pc = "done" => conn = "eof" /\ fromServer = <<>>
  /\ reader.pc # "done" =>
       \E b \in Marks : Parse(fromServer, Marks, Reading, b) /\ (conn = "open" => b \in {srv.send, Astray})

LEMMA ExpectFacts ==
  ASSUME ChatClientAssumption, NEW k \in 0 .. Astray, NEW cmd
  PROVE  /\ Expect(k, cmd) \in 0 .. Astray /\ Expect(Astray, cmd) = Astray
         /\ cmd # "file" => Expect(0, cmd) = 0
         /\ Expect(0, "file") = FileLen
         /\ k \in 1 .. FileLen => Expect(k, cmd) = IF cmd = "block" THEN k - 1 ELSE Astray
BY DEF Expect, Astray, ChatClientAssumption

LEMMA InitReadInv ==
  ASSUME ChatClientAssumption, Init
  PROVE  ReadInv
<1>1. 0 \in Marks
  BY DEF Marks, Astray, ChatClientAssumption
<1>2. Parse(<<>>, Marks, 0, 0)
  BY <1>1, ParseEmpty
<1> QED BY <1>1, <1>2 DEF Init, ReadInv, Reading

\* A step that leaves the reader and its stream alone.
LEMMA SameRead ==
  ASSUME ReadInv, UNCHANGED <<reader, fromServer>>, srv'.send = srv.send, srv'.cut = srv.cut, ConnStep
  PROVE  ReadInv'
BY DEF ReadInv, Reading, Marks, ConnStep

\* A packet is sent, by a thread that may not know of the file under way.
LEMMA SendRead ==
  ASSUME ChatClientAssumption, TInv, ReadInv, conn = "open", UNCHANGED <<reader, conn>>,
         NEW p \in Got, fromServer' = Append(fromServer, p),
         p.cmd = "block" => srv.send > 0 /\ srv'.send = srv.send - 1,
         p.cmd = "create" => srv.send = 0,
         p.cmd = "file" => srv.send = 0 /\ srv'.send = FileLen,
         p.cmd \notin {"block", "file"} => srv'.send = srv.send,
         srv.cut => srv'.cut, p.cmd # "block" /\ srv.send > 0 => srv'.cut
  PROVE  ReadInv'
<1>1. reader.pc # "done"
  BY DEF ReadInv
<1>2. PICK b \in Marks : Parse(fromServer, Marks, Reading, b) /\ b \in {srv.send, Astray}
  BY <1>1 DEF ReadInv
<1>3. srv.send \in 0 .. FileLen /\ FileLen \in Nat /\ FileLen > 0 /\ Astray = FileLen + 1
  BY DEF TInv, ServerType, Srv, ChatClientAssumption, Astray
<1>4. Marks \subseteq Marks' /\ (b = Astray => srv.cut) /\ (srv'.cut => Astray \in Marks')
  BY <1>3 DEF Marks, Astray
<1>5. (b = 0 => p.cmd # "block") /\ (p.cmd = "create" => b \in {0, Astray})
  BY <1>2, <1>3
<1>6. fromServer \in Seq(Got)
  BY DEF TInv, WireType
<1>7. /\ Expect(b, p.cmd) \in {srv'.send, Astray}
      /\ Expect(b, p.cmd) \in Marks'
  <2>1. CASE b = Astray
    <3>1. Expect(b, p.cmd) = Astray
      BY <2>1 DEF Expect
    <3> QED BY <1>4, <2>1, <3>1
  <2>2. CASE b # Astray /\ p.cmd = "block"
    <3>1. Expect(b, p.cmd) = srv'.send /\ srv'.send \in 0 .. FileLen
      BY <1>2, <1>3, <2>2 DEF Expect
    <3> QED BY <1>3, <3>1 DEF Marks
  <2>3. CASE b # Astray /\ p.cmd = "file"
    <3>1. Expect(b, p.cmd) = FileLen /\ srv'.send = FileLen
      BY <1>2, <1>3, <2>3 DEF Expect
    <3> QED BY <1>3, <3>1 DEF Marks
  <2>4. CASE b # Astray /\ p.cmd \notin {"block", "file"}
    <3>1. CASE srv.send = 0
      <4>1. Expect(b, p.cmd) = 0 /\ srv'.send = 0
        BY <1>2, <1>3, <2>4, <3>1 DEF Expect
      <4> QED BY <1>3, <4>1 DEF Marks
    <3>2. CASE srv.send # 0
      <4>1. Expect(b, p.cmd) = Astray /\ srv'.cut
        BY <1>2, <1>3, <2>4, <3>2 DEF Expect
      <4> QED BY <1>4, <4>1
    <3> QED BY <3>1, <3>2
  <2> QED BY <2>1, <2>2, <2>3, <2>4
<1>8. Parse(fromServer, Marks', Reading, b)
  BY <1>2, <1>4, ParseMore
<1>9. Parse(fromServer', Marks', Reading, Expect(b, p.cmd))
  BY <1>5, <1>6, <1>7, <1>8, ParseAppend
<1>10. Reading' = Reading
  BY DEF Reading
<1> QED BY <1>1, <1>7, <1>9, <1>10 DEF ReadInv

\* A piece is read.
LEMMA TakeRead ==
  ASSUME ChatClientAssumption, TInv, ReadInv, fromServer # <<>>, fromServer' = Tail(fromServer), UNCHANGED <<conn, srv>>,
         reader.pc # "done", reader'.pc # "done",
         reader'.pc = "read" => reader'.todo = 0, reader'.pc = "file" => reader'.todo > 0,
         Reading' = Expect(Reading, Head(fromServer).cmd)
  PROVE  ReadInv'
<1>1. PICK b \in Marks : Parse(fromServer, Marks, Reading, b) /\ (conn = "open" => b \in {srv.send, Astray})
  BY DEF ReadInv
<1>2. fromServer \in Seq(Got)
  BY DEF TInv, WireType
<1>3. Parse(Tail(fromServer), Marks, Expect(Reading, Head(fromServer).cmd), b)
  BY <1>1, <1>2, ParseTail
<1>4. Parse(fromServer', Marks, Reading', b) /\ Marks' = Marks
  BY <1>3 DEF Marks
<1> QED BY <1>1, <1>4 DEF ReadInv

\* What the invariant says of the next piece.
LEMMA NextPiece ==
  ASSUME ChatClientAssumption, TInv, ReadInv, fromServer # <<>>
  PROVE  /\ reader.pc = "read" => Head(fromServer).cmd # "block"
         /\ reader.pc = "file" => Head(fromServer).cmd # "create"
<1>1. reader.pc \in {"read", "file"} => reader.pc # "done"
  OBVIOUS
<1>2. CASE reader.pc \in {"read", "file"}
  <2>1. PICK b \in Marks : Parse(fromServer, Marks, Reading, b)
    BY <1>1, <1>2 DEF ReadInv
  <2>2. fromServer \in Seq(Got)
    BY DEF TInv, WireType
  <2>3. /\ Reading = 0 => Head(fromServer).cmd # "block"
        /\ Head(fromServer).cmd = "create" => Reading \in {0, Astray}
    BY <2>1, <2>2, ParseTail
  <2>4. reader.pc = "file" => Reading \notin {0, Astray}
    BY DEF Reading, ReadInv, TInv, ReaderType, Astray, ChatClientAssumption
  <2> QED BY <2>3, <2>4 DEF Reading
<1> QED BY <1>2

LEMMA NextReadInv ==
  ASSUME ChatClientAssumption, TInv, ReadInv, [Next]_vars
  PROVE  ReadInv'
<1>1. FileLen \in Nat /\ FileLen > 0 /\ reader.todo \in 0 .. FileLen
  BY DEF ChatClientAssumption, TInv, ReaderType
<1>2. CASE Main \/ WriteOut \/ \E w \in Window : Win(w)
  BY <1>2, ClientStep, SameRead
<1>3. CASE UNCHANGED vars
  BY <1>3, SameRead DEF vars, client, wire, server, ConnStep
<1>4. CASE ReadPacket
  <2> DEFINE p == Head(fromServer)
  <2>1. /\ reader.pc = "read" /\ fromServer # <<>> /\ fromServer' = Tail(fromServer) /\ Handle(p)
        /\ UNCHANGED <<conn, srv>>
    BY <1>4 DEF ReadPacket, server
  <2>2. p.cmd # "block"
    BY <2>1, NextPiece
  <2> HIDE DEF p
  <2>3. \/ p.cmd = "file" /\ reader' = [pc |-> "file", todo |-> FileLen]
        \/ p.cmd # "file" /\ reader' = reader
    BY <2>1 DEF Handle
  <2>4. Reading = 0 /\ Astray # 0
    BY <1>1, <2>1 DEF Reading, Astray
  <2>5. Reading' = Expect(Reading, p.cmd)
    BY <2>1, <2>3, <2>4 DEF Expect, Reading
  <2> QED BY <1>1, <2>1, <2>3, <2>5, TakeRead DEF p, ReadInv
<1>5. CASE ReadBlock
  <2> DEFINE p == Head(fromServer)
  <2>1. /\ reader.pc = "file" /\ fromServer # <<>> /\ fromServer' = Tail(fromServer)
        /\ reader' = IF p.cmd # "block" THEN [pc |-> "astray", todo |-> 0]
                     ELSE IF reader.todo > 1 THEN [reader EXCEPT !.todo = @ - 1]
                     ELSE [pc |-> "read", todo |-> 0]
        /\ UNCHANGED <<conn, srv>>
    BY <1>5 DEF ReadBlock, server
  <2> HIDE DEF p
  <2>2. reader.todo > 0 /\ Reading = reader.todo
    BY <2>1 DEF ReadInv, Reading
  <2>3. CASE p.cmd # "block"
    <3>1. Reading' = Astray /\ Expect(Reading, p.cmd) = Astray
      BY <1>1, <2>1, <2>2, <2>3 DEF Reading, Expect, Astray
    <3> QED BY <2>1, <2>3, <3>1, TakeRead DEF p
  <2>4. CASE p.cmd = "block" /\ reader.todo > 1
    <3>1. reader'.pc = "file" /\ reader'.todo = reader.todo - 1
      BY <2>1, <2>4 DEF TInv, ReaderType
    <3>2. Reading' = Expect(Reading, p.cmd)
      BY <1>1, <2>2, <2>4, <3>1 DEF Reading, Expect, Astray
    <3>3. reader'.todo > 0
      BY <1>1, <2>4, <3>1
    <3> QED BY <2>1, <3>1, <3>2, <3>3, TakeRead DEF p
  <2>5. CASE p.cmd = "block" /\ ~(reader.todo > 1)
    <3>1. Reading' = 0 /\ reader.todo = 1
      BY <1>1, <2>1, <2>2, <2>5 DEF Reading
    <3>2. Reading' = Expect(Reading, p.cmd)
      BY <1>1, <2>2, <2>5, <3>1 DEF Expect, Astray
    <3> QED BY <2>1, <2>5, <3>2, TakeRead DEF p
  <2> QED BY <2>3, <2>4, <2>5
<1>6. CASE ReadEnd
  BY <1>6 DEF ReadEnd, ReadInv, wire, TInv, ReaderType
<1>7. CASE ReadFails
  <2>1. /\ conn' = "eof" /\ fromServer = <<>> /\ UNCHANGED <<fromServer, srv>>
    BY <1>7 DEF ReadFails, server
  <2>2. \/ reader' = reader \/ reader' = [reader EXCEPT !.pc = "done"]
        \/ reader' = [pc |-> "file", todo |-> FileLen]
    BY <1>7 DEF ReadFails, Handle, Chat, Packet
  <2>3. reader' # reader /\ reader'.pc # "done" => Reading' \in Marks'
    BY <1>1, <2>2 DEF Reading, Marks, Astray, TInv, ReaderType
  <2>4. CASE reader' = reader
    BY <2>1, <2>4, SameRead DEF ConnStep
  <2>5. CASE reader' # reader
    <3>1. reader'.pc # "done" => Parse(fromServer', Marks', Reading', Reading')
      BY <2>1, <2>3, <2>5, ParseEmpty
    <3> QED BY <1>1, <2>1, <2>2, <2>3, <2>5, <3>1 DEF ReadInv, TInv, ReaderType
  <2> QED BY <2>4, <2>5
<1>8. CASE Server
  <2>1. reader' = reader /\ ConnStep
    BY <1>8 DEF Server, ServerTake, ServerSend, ServerInvite, ServerChat, ServerElsewhere, ServerForget, ServerClose, client, ConnStep
  <2>2. CASE fromServer' = fromServer /\ srv'.send = srv.send /\ MemberStep
    BY <2>1, <2>2, SameRead DEF MemberStep
  <2>3. ASSUME conn = "open", conn' = conn, NEW q \in Got, Emits(q) PROVE ReadInv'
    <3>1. /\ fromServer' = Append(fromServer, q)
          /\ q.cmd = "block" => srv.send > 0 /\ srv'.send = srv.send - 1
          /\ q.cmd = "create" => srv.send = 0
          /\ q.cmd = "file" => srv.send = 0 /\ srv'.send = FileLen
          /\ q.cmd \notin {"block", "file"} => srv'.send = srv.send
          /\ srv.cut => srv'.cut
          /\ q.cmd # "block" /\ srv.send > 0 => srv'.cut
      BY <2>3 DEF Emits
    <3> QED BY <2>1, <2>3, <3>1, SendRead
  <2> QED BY <1>8, <2>2, <2>3, ServerEmits
<1> QED BY <1>2, <1>3, <1>4, <1>5, <1>6, <1>7, <1>8 DEF Next, Read
-----------------------------------------------------------------------------
(* The server reads packets as packets and blocks as blocks *)

\* The blocks a thread has still to write.
LeftOf(t) == IF t = Input THEN FileLen - main.done ELSE FileLen - win[t].done
Mine(t) == IF t \in Sending THEN LeftOf(t) ELSE 0

\* While no thread has written into the file of another, at most one is in
\* send_file, and the stream ends as many blocks short as it has left to write.
Steps == 0 .. FileLen
Idle == (main.pc # "file" => main.done = 0) /\ \A w \in Window : win[w].pc # "file" => win[w].done = 0
WriteInv ==
  /\ Idle
  /\ lost => mixed
  /\ ~mixed /\ conn = "open" =>
       /\ \A x, y \in Sending : x = y
       /\ \E b \in Steps : /\ Parse(toServer, Steps, srv.read, b)
                           /\ Sending = {} => b = 0
                           /\ \A t \in Sending : b = LeftOf(t)

LEMMA SendingFacts ==
  ASSUME ChatClientAssumption, TInv
  PROVE  /\ Sending \subseteq {Input} \cup Window /\ Input \notin Window /\ Writer \notin {Input} \cup Window
         /\ Input \in Sending <=> main.pc = "file"
         /\ \A w \in Window : w \in Sending <=> win[w].pc = "file"
         /\ \A t \in Sending : LeftOf(t) \in 1 .. FileLen
<1>1. MaxWindows \in Nat /\ FileLen \in Nat \ {0}
  BY DEF ChatClientAssumption
<1>2. Input \notin Window /\ Writer \notin {Input} \cup Window
  BY <1>1 DEF Input, Writer, Window
<1>3. main.done \in 0 .. FileLen - 1 /\ \A w \in Window : win[w].done \in 0 .. FileLen - 1
  BY DEF TInv, InputType, WindowType, Windows
<1>4. /\ Sending \subseteq {Input} \cup Window
      /\ Input \in Sending <=> main.pc = "file"
      /\ \A w \in Window : w \in Sending <=> win[w].pc = "file"
  BY <1>2 DEF Sending
<1>5. \A t \in Sending : LeftOf(t) \in 1 .. FileLen
  BY <1>1, <1>3, <1>4 DEF LeftOf
<1> QED BY <1>2, <1>4, <1>5

LEMMA InitWriteInv ==
  ASSUME ChatClientAssumption, Init
  PROVE  WriteInv
<1>1. 0 \in Steps /\ Parse(<<>>, Steps, 0, 0)
  BY ParseEmpty DEF Steps, ChatClientAssumption
<1>2. Sending = {}
  BY DEF Init, Sending
<1>3. ~lost /\ toServer = <<>> /\ srv.read = 0 /\ Idle
  BY DEF Init, Idle
<1> QED BY <1>1, <1>2, <1>3 DEF WriteInv

\* A step that neither writes nor takes from the stream to the server.
LEMMA SameWrite ==
  ASSUME ChatClientAssumption, TInv, WriteInv, UNCHANGED <<toServer, lost, mixed>>, srv'.read = srv.read, ConnStep,
         TInv', main'.pc = "file" <=> main.pc = "file", main'.done = main.done,
         \A w \in Window : (win'[w].pc = "file" <=> win[w].pc = "file") /\ win'[w].done = win[w].done
  PROVE  WriteInv'
<1>1. Sending' = Sending
  BY DEF Sending
<1>2. \A t \in Sending : LeftOf(t)' = LeftOf(t)
  BY SendingFacts DEF LeftOf
<1>3. (lost => mixed)'
  BY DEF WriteInv
<1>4. ASSUME ~mixed, conn' = "open"
      PROVE  /\ \A x, y \in Sending : x = y
             /\ \E b \in Steps : /\ Parse(toServer, Steps, srv.read, b)
                                 /\ Sending = {} => b = 0
                                 /\ \A t \in Sending : b = LeftOf(t)
  BY <1>4 DEF WriteInv, ConnStep
<1>5. Idle'
  BY DEF WriteInv, Idle
<1> QED BY <1>1, <1>2, <1>3, <1>4, <1>5 DEF WriteInv

\* write() by the thread t.
LEMMA WriteWrite ==
  ASSUME ChatClientAssumption, TInv, TInv', WriteInv, NEW p \in Sent, NEW t, Write(p, t), UNCHANGED <<lost, srv>>,
         Sending' \subseteq Sending \cup {t}, Mine(t)' = Expect(Mine(t), p.cmd), Mine(t)' \in Steps,
         Mine(t) = 0 => p.cmd # "block", p.cmd = "create" => Mine(t) = 0, Idle'
  PROVE  WriteInv'
<1>1. lost' => mixed'
  <2>1. mixed => mixed'
    BY WriteStep
  <2> QED BY <2>1, Zenon DEF WriteInv
<1>2. ASSUME ~mixed', conn' = "open"
      PROVE  /\ \A x, y \in Sending' : x = y
             /\ \E b \in Steps : /\ Parse(toServer', Steps, srv'.read, b)
                                 /\ Sending' = {} => b = 0
                                 /\ \A x \in Sending' : b = LeftOf(x)'
  <2>1. conn = "open" /\ toServer' = Append(toServer, p)
    BY <1>2, WriteStep
  <2>2. ~mixed /\ Sending \subseteq {t}
    <3>1. mixed' = (mixed \/ Sending \ {t} # {})
      BY <1>2, WriteStep
    <3> QED BY <1>2, <3>1, Zenon
  <2>3. PICK b \in Steps : /\ Parse(toServer, Steps, srv.read, b)
                           /\ Sending = {} => b = 0
                           /\ \A x \in Sending : b = LeftOf(x)
    BY <2>1, <2>2 DEF WriteInv
  <2>4. b = Mine(t)
    BY <2>2, <2>3 DEF Mine
  <2>5. toServer \in Seq(Sent)
    BY DEF TInv, WireType
  <2>6. Parse(toServer', Steps, srv'.read, Mine(t)')
    BY <2>1, <2>3, <2>4, <2>5, ParseAppend
  <2>7. Sending' \subseteq {t}
    BY <2>2
  <2>8. (Sending' = {} => Mine(t)' = 0) /\ \A x \in Sending' : Mine(t)' = LeftOf(x)'
    BY <2>7 DEF Mine
  <2> QED BY <2>6, <2>7, <2>8
<1> QED BY <1>1, <1>2, Zenon DEF WriteInv

\* The server takes a piece for what it is, or is lost.
LEMMA TakeReads ==
  ASSUME ChatClientAssumption, TInv, ServerTake
  PROVE  \/ lost' = lost /\ srv'.read = Expect(srv.read, Head(toServer).cmd)
         \/ lost' /\ srv.read = 0 /\ Head(toServer).cmd = "block"
         \/ lost' /\ srv.read > 0 /\ Head(toServer).cmd # "block"
<1> DEFINE p == Head(toServer)
<1>1. IF srv.read > 0 THEN ServerBlock(p) ELSE ServerHandle(p)
  BY DEF ServerTake
<1>2. srv \in Srv /\ srv.read \in 0 .. FileLen /\ FileLen \in Nat \ {0}
  BY DEF TInv, ServerType, Srv, ChatClientAssumption
<1> HIDE DEF p
<1>3. CASE srv.read > 0
  <2>1. CASE p.cmd = "block"
    <3>1. lost' = lost /\ srv' = [srv EXCEPT !.read = srv.read - 1]
      BY <1>1, <1>3, <2>1 DEF ServerBlock
    <3>2. Expect(srv.read, p.cmd) = srv.read - 1
      BY <1>2, <1>3, <2>1 DEF Expect, Astray
    <3>3. srv'.read = srv.read - 1
      BY <1>2, <3>1 DEF Srv
    <3> QED BY <3>1, <3>2, <3>3 DEF p
  <2>2. CASE p.cmd # "block"
    <3>1. lost'
      BY <1>1, <1>3, <2>2 DEF ServerBlock
    <3> QED BY <1>3, <2>2, <3>1 DEF p
  <2> QED BY <2>1, <2>2
<1>4. CASE ~(srv.read > 0)
  <2>1. srv.read = 0 /\ ServerHandle(p)
    BY <1>1, <1>2, <1>4
  <2>2. CASE p.cmd = "block"
    <3>1. lost'
      BY <2>1, <2>2 DEF ServerHandle
    <3> QED BY <2>1, <2>2, <3>1 DEF p
  <2>3. CASE p.cmd = "file"
    <3>1. lost' = lost /\ srv' = [srv EXCEPT !.read = FileLen, !.file = p.gid]
      BY <2>1, <2>3 DEF ServerHandle
    <3>2. srv'.read = FileLen /\ Expect(0, p.cmd) = FileLen
      BY <1>2, <2>3, <3>1 DEF Srv, Expect, Astray
    <3> QED BY <2>1, <3>1, <3>2 DEF p
  <2>4. CASE p.cmd \notin {"block", "file"}
    <3>1. /\ lost' = lost
          /\ \/ srv' = srv \/ (\E m, o : srv' = [srv EXCEPT !.member = m, !.own = o]) \/ srv' = [srv EXCEPT !.send = FileLen]
      BY <2>1, <2>4 DEF ServerHandle
    <3>2. srv'.read = 0 /\ Expect(0, p.cmd) = 0
      BY <1>2, <2>1, <2>4, <3>1 DEF Srv, Expect, Astray
    <3> QED BY <2>1, <3>1, <3>2 DEF p
  <2> QED BY <2>2, <2>3, <2>4
<1> QED BY <1>3, <1>4

LEMMA TakeWrite ==
  ASSUME ChatClientAssumption, TInv, TInv', WriteInv, ServerTake
  PROVE  WriteInv'
<1>1. /\ toServer # <<>> /\ toServer' = Tail(toServer) /\ conn = "open" /\ ~lost
      /\ mixed' = mixed /\ UNCHANGED <<main, win>>
  BY DEF ServerTake, client
<1>2. Sending' = Sending /\ \A t : LeftOf(t)' = LeftOf(t)
  BY <1>1 DEF Sending, LeftOf
<1>3. ASSUME ~mixed
      PROVE  /\ ~lost'
             /\ \A x, y \in Sending : x = y
             /\ \E b \in Steps : /\ Parse(toServer', Steps, srv'.read, b)
                                 /\ Sending = {} => b = 0
                                 /\ \A t \in Sending : b = LeftOf(t)
  <2>1. /\ \A x, y \in Sending : x = y
        /\ \E b \in Steps : /\ Parse(toServer, Steps, srv.read, b)
                            /\ Sending = {} => b = 0
                            /\ \A t \in Sending : b = LeftOf(t)
    BY <1>1, <1>3 DEF WriteInv
  <2>2. PICK b \in Steps : /\ Parse(toServer, Steps, srv.read, b)
                           /\ Sending = {} => b = 0
                           /\ \A t \in Sending : b = LeftOf(t)
    BY <2>1
  <2>3. toServer \in Seq(Sent) /\ srv.read \in 0 .. FileLen /\ FileLen \in Nat \ {0}
    BY DEF TInv, WireType, ServerType, Srv, ChatClientAssumption
  <2> DEFINE e == Expect(srv.read, Head(toServer).cmd)
  <2>4. Parse(Tail(toServer), Steps, e, b) /\ e \in Steps /\ (srv.read = 0 => Head(toServer).cmd # "block")
    BY <1>1, <2>2, <2>3, ParseTail
  <2>5. srv.read > 0 => Head(toServer).cmd = "block"
    <3>1. srv.read > 0 /\ Head(toServer).cmd # "block" => e = Astray
      BY <2>3 DEF Expect, Astray
    <3>2. Astray \notin Steps
      BY <2>3 DEF Astray, Steps
    <3> QED BY <2>4, <3>1, <3>2
  <2>6. lost' = lost /\ srv'.read = e
    BY <2>4, <2>5, TakeReads
  <2>7. Parse(toServer', Steps, srv'.read, b)
    BY <1>1, <2>4, <2>6
  <2> QED BY <1>1, <2>1, <2>2, <2>6, <2>7
<1>4. (lost => mixed)'
  BY <1>1, <1>3, Zenon
<1>5. Idle'
  BY <1>1 DEF WriteInv, Idle
<1> QED BY <1>1, <1>2, <1>3, <1>4, <1>5, Zenon DEF WriteInv

LEMMA NextWriteInv ==
  ASSUME ChatClientAssumption, TInv, WriteInv, [Next]_vars
  PROVE  WriteInv'
<1> TInv'
  BY NextTInv
<1>1. FileLen \in Nat \ {0} /\ Input = 0
  BY DEF ChatClientAssumption, Input
<1>2. /\ main.done \in 0 .. FileLen - 1 /\ \A w \in Window : win[w].done \in 0 .. FileLen - 1
      /\ win \in [Window -> Windows]
  BY DEF TInv, InputType, WindowType, Windows
<1>3. ASSUME UNCHANGED wire PROVE toServer' = toServer /\ ConnStep
  BY <1>3 DEF wire, ConnStep
<1>4. ASSUME UNCHANGED server PROVE lost' = lost /\ srv' = srv
  BY <1>4 DEF server
<1>5. ASSUME NEW g, create_new_group(g)
      PROVE  \A w \in Window : (win'[w].pc = "file" <=> win[w].pc = "file") /\ win'[w].done = win[w].done
  <2>1. PICK w \in Window : win[w].pc = "none" /\ win' = [win EXCEPT ![w].pc = "new", ![w].gid = g]
    BY <1>5 DEF create_new_group
  <2> DEFINE x == [win[w] EXCEPT !.pc = "new", !.gid = g]
  <2>2. x.pc = "new" /\ x.done = win[w].done /\ win' = [win EXCEPT ![w] = x]
    BY <1>2, <2>1 DEF Windows
  <2> HIDE DEF x
  <2>3. \A v \in Window : win'[v] = IF v = w THEN x ELSE win[v]
    BY <1>2, <2>2
  <2> QED BY <2>1, <2>2, <2>3
<1>6. CASE UNCHANGED vars
  BY <1>3, <1>4, <1>6, SameWrite DEF vars, client
<1>7. CASE CheckRequests \/ Ask \/ LineRest \/ LineCommand
  <2>1. UNCHANGED <<win, wire, server, mixed>>
    BY <1>7 DEF CheckRequests, Ask, LineRest, LineCommand
  <2>2. main.pc # "file" /\ main'.pc # "file" /\ main'.done = main.done
    BY <1>7 DEF CheckRequests, Ask, LineRest, LineCommand, TInv, InputType
  <2> QED BY <1>3, <1>4, <2>1, <2>2, SameWrite
<1>8. CASE Join
  <2>1. UNCHANGED <<wire, server, mixed>> /\ create_new_group(main.gid)
    BY <1>8 DEF Join
  <2>2. main.pc # "file" /\ main'.pc # "file" /\ main'.done = main.done
    BY <1>8 DEF Join, TInv, InputType
  <2> QED BY <1>3, <1>4, <1>5, <2>1, <2>2, SameWrite
<1>9. Idle
  BY DEF WriteInv
<1>10. CASE LineSendFile
  <2>1. PICK g \in Gid : Write(Packet("file", g), Input)
    BY <1>10 DEF LineSendFile
  <2>2. Packet("file", g) \in Sent /\ Packet("file", g).cmd = "file"
    BY SentPackets DEF Packet
  <2>3. UNCHANGED <<win, lost, srv>> /\ main.pc = "line" /\ main'.pc = "file" /\ main'.done = main.done
    BY <1>10 DEF LineSendFile, server, TInv, InputType
  <2>4. Sending' \subseteq Sending \cup {Input} /\ Input \notin Sending /\ Input \in Sending'
    BY <2>3, SendingFacts DEF Sending
  <2>5. main.done = 0 /\ Idle'
    BY <1>9, <2>3 DEF Idle
  <2>6. Mine(Input) = 0 /\ Mine(Input)' = FileLen
    BY <1>1, <2>3, <2>4, <2>5 DEF Mine, LeftOf
  <2>7. Mine(Input)' = Expect(Mine(Input), "file") /\ Mine(Input)' \in Steps
    BY <1>1, <2>6 DEF Expect, Astray, Steps
  <2> QED BY <2>1, <2>2, <2>3, <2>4, <2>5, <2>6, <2>7, WriteWrite
<1>11. CASE LineBlock
  <2>1. Write(Packet("block", NoGid), Input)
    BY <1>11 DEF LineBlock
  <2>2. Packet("block", NoGid) \in Sent /\ Packet("block", NoGid).cmd = "block"
    BY SentPackets DEF Packet
  <2>3. UNCHANGED <<win, lost, srv>> /\ main.pc = "file"
    BY <1>11 DEF LineBlock, server
  <2>4. \/ main.done + 1 < FileLen /\ main'.pc = "file" /\ main'.done = main.done + 1
        \/ main.done = FileLen - 1 /\ main'.pc = "check" /\ main'.done = 0
    BY <1>1, <1>2, <1>11 DEF LineBlock, MoreBlocks, TInv, InputType
  <2>5. Sending' \subseteq Sending \cup {Input} /\ Input \in Sending /\ (Input \in Sending' <=> main'.pc = "file")
    BY <2>3, SendingFacts DEF Sending
  <2>6. Idle'
    BY <1>9, <2>3, <2>4 DEF Idle
  <2>7. Mine(Input) = FileLen - main.done /\ Mine(Input)' = FileLen - main.done - 1
    BY <1>1, <1>2, <2>3, <2>4, <2>5 DEF Mine, LeftOf
  <2>8. Mine(Input)' = Expect(Mine(Input), "block") /\ Mine(Input)' \in Steps /\ Mine(Input) # 0
    BY <1>1, <1>2, <2>7 DEF Expect, Astray, Steps
  <2> QED BY <2>1, <2>2, <2>3, <2>5, <2>6, <2>8, WriteWrite
<1>12. CASE WriteOut
  <2>1. Write(Head(out), Writer) /\ UNCHANGED <<main, win, lost, srv>> /\ out # <<>>
    BY <1>12 DEF WriteOut, server
  <2>2. Head(out) \in Sent /\ Head(out).cmd \notin {"file", "block"}
    BY <2>1, TailFacts DEF TInv, WireType, Queued
  <2>3. Sending' = Sending /\ Writer \notin Sending
    BY <2>1, SendingFacts DEF Sending
  <2>4. Mine(Writer) = 0 /\ Mine(Writer)' = 0
    BY <2>3 DEF Mine
  <2>5. Mine(Writer)' = Expect(Mine(Writer), Head(out).cmd) /\ Mine(Writer)' \in Steps
    BY <1>1, <2>2, <2>4 DEF Expect, Astray, Steps
  <2>6. Idle'
    BY <1>9, <2>1 DEF Idle
  <2> QED BY <2>1, <2>2, <2>3, <2>4, <2>5, <2>6, WriteWrite
<1>13. CASE Read
  <2>1. UNCHANGED <<main, toServer, lost, mixed, srv>> /\ ConnStep
    BY <1>13 DEF Read, ReadPacket, ReadBlock, ReadEnd, ReadFails, wire, server, ConnStep
  <2>2. win' = win \/ \E g : create_new_group(g)
    BY <1>13 DEF Read, ReadPacket, ReadBlock, ReadEnd, ReadFails, Handle
  <2> QED BY <1>5, <2>1, <2>2, SameWrite
<1>14. ASSUME NEW w \in Window, Win(w) PROVE WriteInv'
  <2>1. ASSUME NEW x, win' = [win EXCEPT ![w] = x], main' = main
        PROVE  /\ \A v \in Window : win'[v] = IF v = w THEN x ELSE win[v]
               /\ win'[w] = x
               /\ Sending' \subseteq Sending \cup {w} /\ (w \in Sending' <=> x.pc = "file")
               /\ Idle' <=> (x.pc # "file" => x.done = 0)
    <3>1. \A v \in Window : win'[v] = IF v = w THEN x ELSE win[v]
      BY <1>2, <2>1
    <3>2. Sending' \subseteq Sending \cup {w}
      BY <2>1, <3>1 DEF Sending
    <3>3. w \in Sending' <=> x.pc = "file"
      BY <3>1, SendingFacts DEF Sending
    <3>4. Idle' <=> (x.pc # "file" => x.done = 0)
      BY <1>9, <2>1, <3>1 DEF Idle
    <3> QED BY <3>1, <3>2, <3>3, <3>4
  <2>2. w # Input
    BY SendingFacts
  <2>3. CASE WindowLine(w)
    BY <1>3, <1>4, <2>3, SameWrite DEF WindowLine
  <2>4. CASE WindowStart(w) \/ WindowShow(w) \/ WindowEsc(w)
    <3>1. UNCHANGED <<main, wire, server, mixed>>
      BY <2>4 DEF WindowStart, WindowShow, WindowEsc
    <3>2. PICK x : /\ win' = [win EXCEPT ![w] = x] /\ x.done = win[w].done
                   /\ x.pc = "file" <=> win[w].pc = "file"
      <4>1. CASE WindowStart(w)
        <5> DEFINE x == [win[w] EXCEPT !.pc = "run", !.use = mapping[win[w].gid]]
        <5>1. win' = [win EXCEPT ![w] = x] /\ win[w].pc = "new"
          BY <4>1 DEF WindowStart
        <5>2. x.done = win[w].done /\ x.pc = "run"
          BY <1>2 DEF Windows
        <5> QED BY <5>1, <5>2
      <4>2. CASE WindowShow(w)
        <5>1. PICK m : win' = [win EXCEPT ![w] = [win[w] EXCEPT !.msgs = m]]
          BY <4>2 DEF WindowShow
        <5> DEFINE x == [win[w] EXCEPT !.msgs = m]
        <5>2. x.done = win[w].done /\ x.pc = win[w].pc
          BY <1>2 DEF Windows
        <5> QED BY <5>1, <5>2
      <4>3. CASE WindowEsc(w)
        <5> DEFINE x == [win[w] EXCEPT !.pc = "esc"]
        <5>1. win' = [win EXCEPT ![w] = x] /\ win[w].pc = "run"
          BY <4>3 DEF WindowEsc
        <5>2. x.done = win[w].done /\ x.pc = "esc"
          BY <1>2 DEF Windows
        <5> QED BY <5>1, <5>2
      <4> QED BY <2>4, <4>1, <4>2, <4>3
    <3>3. \A v \in Window : win'[v] = IF v = w THEN x ELSE win[v]
      BY <1>2, <3>2
    <3>4. \A v \in Window : (win'[v].pc = "file" <=> win[v].pc = "file") /\ win'[v].done = win[v].done
      BY <3>2, <3>3
    <3> QED BY <1>3, <1>4, <3>1, <3>4, SameWrite
  <2>5. CASE WindowSendFile(w)
    <3> DEFINE p == Packet("file", win[w].gid)
               x == [win[w] EXCEPT !.pc = "file"]
    <3>1. /\ win[w].pc = "run" /\ win' = [win EXCEPT ![w] = x] /\ UNCHANGED <<main, lost, srv>>
          /\ Write(p, w)
      BY <2>5 DEF WindowSendFile, server
    <3>2. p \in Sent /\ p.cmd = "file"
      <4>1. win[w].gid \in Gid
        BY <3>1 DEF TInv, WindowType
      <4> QED BY <4>1, SentPackets DEF Packet
    <3>3. x.pc = "file" /\ x.done = 0
      BY <1>2, <1>9, <3>1 DEF Idle, Windows
    <3> HIDE DEF x, p
    <3>4. Sending' \subseteq Sending \cup {w} /\ w \in Sending' /\ Idle' /\ win'[w] = x
      BY <2>1, <3>1, <3>3
    <3>5. w \notin Sending
      BY <3>1, SendingFacts
    <3>6. Mine(w) = 0 /\ Mine(w)' = FileLen
      BY <1>1, <2>2, <3>3, <3>4, <3>5 DEF Mine, LeftOf
    <3>7. Mine(w)' = Expect(Mine(w), p.cmd) /\ Mine(w)' \in Steps
      BY <1>1, <3>2, <3>6 DEF Expect, Astray, Steps
    <3> QED BY <3>1, <3>2, <3>4, <3>6, <3>7, WriteWrite
  <2>6. CASE WindowBlock(w)
    <3> DEFINE p == Packet("block", NoGid)
               x == IF MoreBlocks(win[w].done + 1) THEN [win[w] EXCEPT !.done = @ + 1]
                    ELSE [win[w] EXCEPT !.pc = "run", !.done = 0]
    <3>1. /\ win[w].pc = "file" /\ win' = [win EXCEPT ![w] = x] /\ UNCHANGED <<main, lost, srv>>
          /\ Write(p, w)
      BY <2>6 DEF WindowBlock, server
    <3>2. p \in Sent /\ p.cmd = "block"
      BY SentPackets DEF Packet
    <3>3. \/ win[w].done + 1 < FileLen /\ x.pc = "file" /\ x.done = win[w].done + 1
          \/ win[w].done = FileLen - 1 /\ x.pc = "run" /\ x.done = 0
      BY <1>1, <1>2, <3>1 DEF MoreBlocks, Windows
    <3> HIDE DEF x, p
    <3>4. /\ Sending' \subseteq Sending \cup {w} /\ (w \in Sending' <=> x.pc = "file") /\ win'[w] = x
          /\ Idle'
      BY <2>1, <3>1, <3>3
    <3>5. w \in Sending
      BY <3>1, SendingFacts
    <3>6. Mine(w) = FileLen - win[w].done /\ Mine(w)' = FileLen - win[w].done - 1
      BY <1>1, <1>2, <2>2, <3>3, <3>4, <3>5 DEF Mine, LeftOf
    <3>7. Mine(w)' = Expect(Mine(w), p.cmd) /\ Mine(w)' \in Steps /\ Mine(w) # 0
      BY <1>1, <1>2, <3>2, <3>6 DEF Expect, Astray, Steps
    <3> QED BY <3>1, <3>2, <3>4, <3>7, WriteWrite
  <2> QED BY <1>14, <2>3, <2>4, <2>5, <2>6 DEF Win
<1>15. CASE ServerTake
  BY <1>15, TakeWrite
<1>16. CASE ServerSend \/ ServerInvite \/ ServerChat \/ ServerElsewhere \/ ServerForget
  <2>1. UNCHANGED <<main, win, toServer, lost, mixed, conn>>
    BY <1>16 DEF ServerSend, ServerInvite, ServerChat, ServerElsewhere, ServerForget, client, wire
  <2>2. srv'.read = srv.read
    BY <1>16 DEF ServerSend, ServerInvite, ServerChat, ServerElsewhere, ServerForget, TInv, ServerType, Srv
  <2> QED BY <2>1, <2>2, SameWrite DEF ConnStep
<1>17. CASE ServerClose
  <2>1. UNCHANGED <<main, win, lost, mixed>> /\ conn' # "open"
    BY <1>17 DEF ServerClose, client, server
  <2>2. (lost => mixed)'
    BY <2>1, Zenon DEF WriteInv
  <2> QED BY <2>1, <2>2, <1>9 DEF WriteInv, Idle
<1> QED BY <1>6, <1>7, <1>8, <1>10, <1>11, <1>12, <1>13, <1>14, <1>15, <1>16, <1>17 DEF Next, Main, Server
-----------------------------------------------------------------------------
(* What has gone before in a stream *)

Before(s, k, p) == \E j \in 1 .. k : s[j] = p

LEMMA BeforeAppend ==
  ASSUME NEW S, NEW s \in Seq(S), NEW q \in S, NEW p
  PROVE  /\ \A k \in 0 .. Len(s) : Before(Append(s, q), k, p) <=> Before(s, k, p)
         /\ Before(Append(s, q), Len(Append(s, q)), p) <=> (Before(s, Len(s), p) \/ q = p)
<1>1. /\ Len(s) \in Nat /\ Len(Append(s, q)) = Len(s) + 1 /\ Append(s, q)[Len(s) + 1] = q
      /\ \A i \in 1 .. Len(s) : Append(s, q)[i] = s[i]
  BY AppendFacts
<1>2. \A i \in 1 .. Len(s) + 1 : i \in 1 .. Len(s) \/ i = Len(s) + 1
  BY <1>1
<1>3. \A k \in 0 .. Len(s) : Before(Append(s, q), k, p) <=> Before(s, k, p)
  <2> SUFFICES ASSUME NEW k \in 0 .. Len(s) PROVE Before(Append(s, q), k, p) <=> Before(s, k, p)
    OBVIOUS
  <2>1. \A j \in 1 .. k : j \in 1 .. Len(s)
    BY <1>1
  <2> QED BY <1>1, <2>1 DEF Before
<1> QED BY <1>1, <1>2, <1>3 DEF Before

LEMMA BeforeTail ==
  ASSUME NEW S, NEW s \in Seq(S), s # <<>>, NEW p
  PROVE  /\ \A k \in 0 .. Len(s) - 1 : Before(s, k + 1, p) <=> (Head(s) = p \/ Before(Tail(s), k, p))
         /\ Before(s, Len(s), p) <=> (Head(s) = p \/ Before(Tail(s), Len(Tail(s)), p))
<1>1. /\ Len(s) \in Nat \ {0} /\ Len(Tail(s)) = Len(s) - 1 /\ Head(s) = s[1]
      /\ \A i \in 1 .. Len(s) - 1 : Tail(s)[i] = s[i + 1]
  BY TailFacts
<1>2. ASSUME NEW k \in 0 .. Len(s) - 1
      PROVE  Before(s, k + 1, p) <=> (Head(s) = p \/ Before(Tail(s), k, p))
  <2>1. ASSUME Before(s, k + 1, p) PROVE Head(s) = p \/ Before(Tail(s), k, p)
    <3>1. PICK j \in 1 .. k + 1 : s[j] = p
      BY <2>1 DEF Before
    <3>2. CASE j # 1
      <4>1. j - 1 \in 1 .. k /\ j - 1 \in 1 .. Len(s) - 1 /\ (j - 1) + 1 = j
        BY <1>1, <3>2
      <4>2. Tail(s)[j - 1] = p
        BY <1>1, <3>1, <4>1
      <4> QED BY <4>1, <4>2 DEF Before
    <3> QED BY <1>1, <3>1, <3>2
  <2>2. ASSUME Before(Tail(s), k, p) PROVE Before(s, k + 1, p)
    <3>1. PICK j \in 1 .. k : Tail(s)[j] = p
      BY <2>2 DEF Before
    <3>2. j + 1 \in 1 .. k + 1 /\ s[j + 1] = p
      BY <1>1, <3>1
    <3> QED BY <3>2 DEF Before
  <2>3. Head(s) = p => Before(s, k + 1, p)
    <3>1. 1 \in 1 .. k + 1
      BY <1>1
    <3> QED BY <1>1, <3>1 DEF Before
  <2> QED BY <2>1, <2>2, <2>3
<1>3. Len(s) - 1 \in 0 .. Len(s) - 1 /\ (Len(s) - 1) + 1 = Len(s)
  BY <1>1
<1> QED BY <1>1, <1>2, <1>3

LEMMA BeforeEmpty == \A s, p : ~Before(s, 0, p)
BY DEF Before

LEMMA BeforeMore ==
  ASSUME NEW s, NEW k \in Nat, NEW m \in Nat, k =< m, NEW p, Before(s, k, p)
  PROVE  Before(s, m, p)
<1>1. \A j \in 1 .. k : j \in 1 .. m
  OBVIOUS
<1> QED BY <1>1 DEF Before
-----------------------------------------------------------------------------
(* How the queue of the writer and the stream to the server change *)

\* What is queued: an acceptance by the input thread that opens the group next, a
\* chat by a window of its group.
Puts(p) ==
  /\ out' = Append(out, p) /\ UNCHANGED <<toServer, conn, fromServer, srv, lost, mapping, win>>
  /\ p.cmd = "join" => p = Packet("join", p.gid) /\ main'.pc = "join" /\ main'.gid = p.gid
  /\ p.cmd = "chat" => \E w \in Window : win[w].pc # "none" /\ win[w].gid = p.gid
  /\ p.cmd # "join" => main'.pc = main.pc \/ main'.pc = "check"

LEMMA OutStep ==
  ASSUME ChatClientAssumption, TInv, [Next]_vars
  PROVE  out' = out \/ WriteOut \/ \E p \in Queued : Puts(p)
<1>1. CASE Ask
  <2>1. PICK answer \in {"y", "n", "other"} :
          /\ main' = IF answer = "y" THEN [main EXCEPT !.pc = "join"]
                     ELSE [main EXCEPT !.pc = "check", !.gid = NoGid]
          /\ CASE answer = "y" -> Queue(Packet("join", main.gid))
               [] answer = "n" -> Queue(Packet("other", NoGid))
               [] OTHER -> UNCHANGED out
    BY <1>1 DEF Ask
  <2>2. main.pc = "ask" /\ main.gid \in Gid /\ UNCHANGED <<toServer, conn, fromServer, srv, lost, mapping, win>>
    BY <1>1 DEF Ask, wire, server, TInv, InputType
  <2>3. CASE answer = "y"
    <3>1. Packet("join", main.gid) \in Queued
      BY <2>2, SentPackets
    <3>2. main'.pc = "join" /\ main'.gid = main.gid
      BY <2>1, <2>3 DEF TInv, InputType
    <3>3. Puts(Packet("join", main.gid))
      BY <2>1, <2>2, <2>3, <3>2 DEF Puts, Packet, Queue
    <3> QED BY <3>1, <3>3
  <2>4. CASE answer = "n"
    <3>1. Packet("other", NoGid) \in Queued
      BY SentPackets
    <3>2. main'.pc = "check"
      BY <2>1, <2>4 DEF TInv, InputType
    <3>3. Puts(Packet("other", NoGid))
      BY <2>1, <2>2, <2>4, <3>2 DEF Puts, Packet, Queue
    <3> QED BY <3>1, <3>3
  <2>5. CASE answer = "other"
    BY <2>1, <2>5
  <2> QED BY <2>3, <2>4, <2>5
<1>2. CASE LineCommand
  <2>1. UNCHANGED <<toServer, conn, fromServer, srv, lost, mapping, win>> /\ main'.pc = "check"
    BY <1>2 DEF LineCommand, wire, server, TInv, InputType
  <2>2. ASSUME NEW cmd \in {"create", "other"}, Queue(Packet(cmd, NoGid)) PROVE \E p \in Queued : Puts(p)
    <3>1. Puts(Packet(cmd, NoGid)) /\ Packet(cmd, NoGid) \in Queued
      BY <2>1, <2>2, SentPackets DEF Puts, Packet, Queue
    <3> QED BY <3>1
  <2>3. ASSUME NEW cmd \in {"download", "line"}, NEW g \in Gid, Queue(Packet(cmd, g)) PROVE \E p \in Queued : Puts(p)
    <3>1. Puts(Packet(cmd, g)) /\ Packet(cmd, g) \in Queued
      BY <2>1, <2>3, SentPackets DEF Puts, Packet, Queue
    <3> QED BY <3>1
  <2> QED BY <1>2, <2>2, <2>3 DEF LineCommand
<1>3. CASE CheckRequests \/ Join \/ LineRest \/ LineSendFile \/ LineBlock
  BY <1>3 DEF CheckRequests, Join, LineRest, LineSendFile, LineBlock
<1>4. ASSUME NEW w \in Window, WindowLine(w) PROVE out' = out \/ \E p \in Queued : Puts(p)
  <2>1. UNCHANGED <<toServer, conn, fromServer, srv, lost, mapping, win>> /\ main' = main /\ win[w].pc = "run"
    BY <1>4 DEF WindowLine, wire, server
  <2>2. win[w].gid \in Gid
    BY <2>1 DEF TInv, WindowType
  <2>3. ASSUME NEW cmd \in {"chat", "download"}, Queue(Packet(cmd, win[w].gid)) PROVE \E p \in Queued : Puts(p)
    <3>1. Packet(cmd, win[w].gid) \in Queued
      BY <2>2, SentPackets
    <3>2. Puts(Packet(cmd, win[w].gid))
      BY <2>1, <2>3 DEF Puts, Packet, Queue
    <3> QED BY <3>1, <3>2
  <2>4. ASSUME Queue(Packet("other", NoGid)) PROVE \E p \in Queued : Puts(p)
    <3>1. Puts(Packet("other", NoGid)) /\ Packet("other", NoGid) \in Queued
      BY <2>1, <2>4, SentPackets DEF Puts, Packet, Queue
    <3> QED BY <3>1
  <2> QED BY <1>4, <2>3, <2>4 DEF WindowLine
<1>5. ASSUME NEW w \in Window, Win(w), ~WindowLine(w) PROVE out' = out
  BY <1>5 DEF Win, WindowStart, WindowSendFile, WindowBlock, WindowShow, WindowEsc
<1>6. CASE Read
  BY <1>6 DEF Read, ReadPacket, ReadBlock, ReadEnd, ReadFails
<1>7. CASE Server
  BY <1>7 DEF Server, ServerTake, ServerSend, ServerInvite, ServerChat, ServerElsewhere, ServerForget, ServerClose, client
<1>8. CASE UNCHANGED vars
  BY <1>8 DEF vars, client
<1> QED BY <1>1, <1>2, <1>3, <1>4, <1>5, <1>6, <1>7, <1>8 DEF Next, Main

\* A file is written to the stream by its sender, all else by the writer.
LEMMA ToServerStep ==
  ASSUME ChatClientAssumption, TInv, [Next]_vars
  PROVE  \/ toServer' = toServer /\ ~ServerTake
         \/ toServer' = <<>> /\ conn' # "open"
         \/ ServerTake
         \/ WriteOut
         \/ /\ UNCHANGED <<out, srv, lost>> /\ conn = "open"
            /\ \E p \in Sent : p.cmd \in {"file", "block"} /\ toServer' = Append(toServer, p)
<1>1. ASSUME NEW p \in Sent, p.cmd \in {"file", "block"}, NEW t, Write(p, t), UNCHANGED <<out, server>>
      PROVE  \/ toServer' = toServer
             \/ /\ UNCHANGED <<out, srv, lost>> /\ conn = "open"
                /\ \E r \in Sent : r.cmd \in {"file", "block"} /\ toServer' = Append(toServer, r)
  BY <1>1 DEF Write, wire, server
<1>2. \A g \in Gid : Packet("file", g) \in Sent /\ Packet("file", g).cmd = "file"
  BY SentPackets DEF Packet
<1>3. Packet("block", NoGid) \in Sent /\ Packet("block", NoGid).cmd = "block"
  BY SentPackets DEF Packet
<1>4. CASE LineSendFile
  BY <1>1, <1>2, <1>4 DEF LineSendFile
<1>5. CASE LineBlock
  BY <1>1, <1>3, <1>5 DEF LineBlock
<1>6. ASSUME NEW w \in Window, WindowSendFile(w) \/ WindowBlock(w)
      PROVE  \/ toServer' = toServer
             \/ /\ UNCHANGED <<out, srv, lost>> /\ conn = "open"
                /\ \E r \in Sent : r.cmd \in {"file", "block"} /\ toServer' = Append(toServer, r)
  <2>1. CASE WindowSendFile(w)
    <3>1. win[w].gid \in Gid
      BY <2>1 DEF WindowSendFile, TInv, WindowType
    <3>2. Write(Packet("file", win[w].gid), w) /\ UNCHANGED <<out, server>>
      BY <2>1 DEF WindowSendFile
    <3> QED BY <1>1, <1>2, <3>1, <3>2
  <2>2. CASE WindowBlock(w)
    BY <1>1, <1>3, <2>2 DEF WindowBlock
  <2> QED BY <1>6, <2>1, <2>2
<1>7. CASE CheckRequests \/ Ask \/ Join \/ LineRest \/ LineCommand
  BY <1>7 DEF CheckRequests, Ask, Join, LineRest, LineCommand, wire
<1>8. ASSUME NEW w \in Window, WindowStart(w) \/ WindowLine(w) \/ WindowShow(w) \/ WindowEsc(w) PROVE toServer' = toServer
  BY <1>8 DEF WindowStart, WindowLine, WindowShow, WindowEsc, wire
<1>9. CASE Read
  BY <1>9 DEF Read, ReadPacket, ReadBlock, ReadEnd, ReadFails, wire
<1>10. CASE ServerSend \/ ServerInvite \/ ServerChat \/ ServerElsewhere \/ ServerForget \/ ServerClose
  BY <1>10 DEF ServerSend, ServerInvite, ServerChat, ServerElsewhere, ServerForget, ServerClose, wire
<1>11. CASE UNCHANGED vars
  BY <1>11 DEF vars, wire
<1> QED BY <1>4, <1>5, <1>6, <1>7, <1>8, <1>9, <1>10, <1>11 DEF Next, Main, Win, Server
-----------------------------------------------------------------------------
(* A chat finds the queue of its group *)

\* The group has its queue, or the input thread is about to make it.
Opening(g) == mapping[g] # NoWindow \/ (main.pc = "join" /\ main.gid = g)

\* What makes the client a member is the packet that creates the group, or an
\* acceptance, which the input thread queues just before it opens the group; or
\* what the account does through another connection.
MemberInv ==
  /\ \A g \in srv.own : Opening(g) \/ Before(fromServer, Len(fromServer), Packet("create", g))
  /\ \A g \in Gid : \A i \in 1 .. Len(fromServer) :
       ChatOf(fromServer[i], g) =>
         g \in srv.other \/ Opening(g) \/ Before(fromServer, i - 1, Packet("create", g))
  /\ \A g \in Gid : Before(out, Len(out), Packet("join", g)) => Opening(g)
  /\ \A g \in Gid : Before(toServer, Len(toServer), Packet("join", g)) => Opening(g)

LEMMA InitMemberInv ==
  ASSUME Init
  PROVE  MemberInv
<1>1. /\ fromServer = <<>> /\ out = <<>> /\ toServer = <<>> /\ srv.own = {}
      /\ Len(fromServer) = 0 /\ Len(out) = 0 /\ Len(toServer) = 0
  BY EmptySeq DEF Init
<1> QED BY <1>1, BeforeEmpty DEF MemberInv

\* A group that is opened stays open.
LEMMA OpeningStep ==
  ASSUME ChatClientAssumption, TInv, [Next]_vars, NEW g \in Gid, Opening(g)
  PROVE  Opening(g)'
<1>1. mapping \in [Gid -> Window \cup {NoWindow}] /\ \A w \in Window : w # NoWindow
  BY DEF TInv, WindowType, Window, NoWindow, ChatClientAssumption
<1>2. ASSUME NEW h, create_new_group(h)
      PROVE  (mapping[g] # NoWindow \/ h = g) => mapping'[g] # NoWindow
  <2>1. PICK w \in Window : mapping' = [mapping EXCEPT ![h] = w]
    BY <1>2 DEF create_new_group
  <2> QED BY <1>1, <2>1
<1>3. CASE Join
  BY <1>2, <1>3 DEF Join, Opening
<1>4. CASE CheckRequests \/ Ask \/ LineRest \/ LineCommand \/ LineSendFile \/ LineBlock
  <2>1. mapping' = mapping /\ main.pc # "join"
    BY <1>4 DEF CheckRequests, Ask, LineRest, LineCommand, LineSendFile, LineBlock
  <2> QED BY <2>1 DEF Opening
<1>5. CASE WriteOut
  BY <1>5 DEF WriteOut, Opening
<1>6. CASE Read
  <2>1. main' = main
    BY <1>6 DEF Read, ReadPacket, ReadBlock, ReadEnd, ReadFails
  <2>2. mapping' = mapping \/ \E h : create_new_group(h)
    BY <1>6 DEF Read, ReadPacket, ReadBlock, ReadEnd, ReadFails, Handle
  <2> QED BY <1>2, <2>1, <2>2 DEF Opening
<1>7. ASSUME NEW w \in Window, Win(w) PROVE Opening(g)'
  BY <1>7 DEF Win, WindowStart, WindowLine, WindowSendFile, WindowBlock, WindowShow, WindowEsc, Opening
<1>8. CASE Server
  BY <1>8 DEF Server, ServerTake, ServerSend, ServerInvite, ServerChat, ServerElsewhere, ServerForget, ServerClose, client, Opening
<1>9. CASE UNCHANGED vars
  BY <1>9 DEF vars, client, Opening
<1> QED BY <1>3, <1>4, <1>5, <1>6, <1>7, <1>8, <1>9 DEF Next, Main

\* Whoever has read the packet that creates a group, has opened it.
LEMMA ReadStep ==
  ASSUME ChatClientAssumption, TInv, ReadInv, Read
  PROVE  /\ srv' = srv /\ said' = said
         /\ \/ fromServer' = fromServer
            \/ /\ fromServer # <<>> /\ fromServer' = Tail(fromServer)
               /\ \A g \in Gid : Head(fromServer) = Packet("create", g) => Opening(g)'
<1>1. srv' = srv /\ said' = said
  BY DEF Read, ReadPacket, ReadBlock, ReadEnd, ReadFails, server
<1>2. CASE ReadEnd \/ ReadFails
  BY <1>1, <1>2 DEF ReadEnd, ReadFails, wire
<1>3. CASE ReadBlock
  <2>1. Head(fromServer).cmd # "create"
    BY <1>3, NextPiece DEF ReadBlock
  <2> QED BY <1>1, <1>3, <2>1 DEF ReadBlock, Packet
<1>4. CASE ReadPacket
  <2>1. fromServer # <<>> /\ fromServer' = Tail(fromServer) /\ Handle(Head(fromServer))
    BY <1>4 DEF ReadPacket
  <2>2. ASSUME NEW g \in Gid, Head(fromServer) = Packet("create", g) PROVE Opening(g)'
    <3>1. Head(fromServer).cmd = "create" /\ Head(fromServer).gid = g
      BY <2>2 DEF Packet
    <3>2. create_new_group(g)
      BY <2>1, <3>1 DEF Handle
    <3>3. PICK w \in Window : mapping' = [mapping EXCEPT ![g] = w]
      BY <3>2 DEF create_new_group
    <3>4. mapping'[g] = w /\ w # NoWindow
      BY <3>3 DEF TInv, WindowType, Window, NoWindow
    <3> QED BY <3>4 DEF Opening
  <2> QED BY <1>1, <2>1, <2>2
<1> QED BY <1>2, <1>3, <1>4 DEF Read

\* The stream from the server: left alone, sent to or read from.
LEMMA FromServerStep ==
  ASSUME ChatClientAssumption, TInv, ReadInv, [Next]_vars
  PROVE  \/ fromServer' = fromServer /\ said' = said /\ MemberStep
         \/ \E q \in Got : Emits(q)
         \/ /\ fromServer # <<>> /\ fromServer' = Tail(fromServer) /\ srv' = srv /\ said' = said
            /\ \A g \in Gid : Head(fromServer) = Packet("create", g) => Opening(g)'
<1>1. CASE Main \/ WriteOut \/ \E w \in Window : Win(w)
  BY <1>1, ClientStep DEF MemberStep
<1>2. CASE Read
  BY <1>2, ReadStep DEF MemberStep
<1>3. CASE Server
  BY <1>3, ServerEmits
<1>4. CASE UNCHANGED vars
  BY <1>4 DEF vars, wire, server, MemberStep
<1> QED BY <1>1, <1>2, <1>3, <1>4 DEF Next

LEMMA NextMemberInv ==
  ASSUME ChatClientAssumption, TInv, ReadInv, MemberInv, [Next]_vars
  PROVE  MemberInv'
<1>0. srv.other \subseteq srv'.other
  BY FromServerStep DEF Emits, MemberStep
<1>1. fromServer \in Seq(Got) /\ toServer \in Seq(Sent) /\ out \in Seq(Queued) /\ Queued \subseteq Sent
  BY DEF TInv, WireType, Queued
<1>2. srv.own \subseteq Gid
  BY DEF TInv, ServerType, Srv
<1>3. \A g \in Gid : Opening(g) => Opening(g)'
  BY OpeningStep
<1>4. ASSUME NEW g \in Gid,
             \/ Before(out', Len(out'), Packet("join", g)) \/ Before(toServer', Len(toServer'), Packet("join", g))
      PROVE  Opening(g)'
  <2> DEFINE j == Packet("join", g)
             In(s) == Before(s, Len(s), j)
  <2>1. In(out) \/ In(toServer) => Opening(g)'
    BY <1>3 DEF MemberInv
  <2>2. In(out') => In(out) \/ Opening(g)'
    <3>1. CASE WriteOut
      <4>1. out # <<>> /\ out' = Tail(out)
        BY <3>1 DEF WriteOut
      <4> QED BY <1>1, <4>1, BeforeTail
    <3>2. ASSUME NEW p \in Queued, Puts(p) PROVE In(out') => In(out) \/ Opening(g)'
      <4>1. In(out') <=> In(out) \/ p = j
        BY <1>1, <3>2, BeforeAppend DEF Puts
      <4>2. p = j => Opening(g)'
        BY <3>2 DEF Puts, Packet, Opening
      <4> QED BY <4>1, <4>2
    <3> QED BY <3>1, <3>2, OutStep
  <2>3. In(toServer') => In(toServer) \/ In(out)
    <3> HIDE DEF j
    <3>1. CASE toServer' = <<>>
      <4>1. Len(toServer') = 0
        BY <3>1, EmptySeq
      <4> QED BY <4>1, BeforeEmpty
    <3>2. CASE ServerTake
      <4>1. toServer # <<>> /\ toServer' = Tail(toServer)
        BY <3>2 DEF ServerTake
      <4> QED BY <1>1, <4>1, BeforeTail
    <3>3. CASE WriteOut
      <4>1. out # <<>> /\ toServer' \in {toServer, Append(toServer, Head(out))}
        BY <3>3, WriteStep DEF WriteOut
      <4>2. Head(out) \in Sent /\ (Head(out) = j => In(out))
        BY <1>1, <4>1, BeforeTail, TailFacts
      <4>3. toServer' = Append(toServer, Head(out)) => (In(toServer') <=> In(toServer) \/ Head(out) = j)
        BY <1>1, <4>2, BeforeAppend
      <4> QED BY <4>1, <4>2, <4>3
    <3>4. ASSUME NEW p \in Sent, p.cmd \in {"file", "block"}, toServer' = Append(toServer, p)
          PROVE  In(toServer') => In(toServer)
      <4>1. In(toServer') <=> In(toServer) \/ p = j
        BY <1>1, <3>4, BeforeAppend
      <4>2. p # j
        BY <3>4 DEF j, Packet
      <4> QED BY <4>1, <4>2
    <3> QED BY <3>1, <3>2, <3>3, <3>4, ToServerStep
  <2> QED BY <1>4, <2>1, <2>2, <2>3
<1>5. ASSUME NEW g \in srv'.own
      PROVE  Opening(g)' \/ Before(fromServer', Len(fromServer'), Packet("create", g))
  <2> DEFINE c == Packet("create", g)
             In(s) == Before(s, Len(s), c)
  <2> HIDE DEF c
  <2>1. g \in Gid
    BY NextTInv DEF TInv, ServerType, Srv
  <2>2. g \in srv.own => Opening(g)' \/ In(fromServer)
    BY <1>3, <2>1 DEF MemberInv, c
  <2>3. CASE fromServer' = fromServer /\ MemberStep
    <3>1. CASE toServer # <<>> /\ Head(toServer).cmd = "join" /\ Head(toServer).gid = g
      <4>1. Head(toServer) = Packet("join", g)
        <5>1. Head(toServer) \in Piece
          BY <1>1, <3>1, TailFacts DEF Sent
        <5> QED BY <3>1, <5>1 DEF Piece, Packet
      <4>2. Before(toServer, Len(toServer), Packet("join", g))
        BY <1>1, <3>1, <4>1, BeforeTail
      <4> QED BY <1>3, <2>1, <4>2 DEF MemberInv
    <3>2. CASE g \in srv.own
      BY <2>2, <2>3, <3>2 DEF c
    <3> QED BY <2>3, <3>1, <3>2 DEF MemberStep
  <2>4. ASSUME NEW q \in Got, Emits(q) PROVE Opening(g)' \/ In(fromServer')
    <3>1. fromServer' = Append(fromServer, q)
      BY <2>4 DEF Emits
    <3>2. In(fromServer') <=> In(fromServer) \/ q = c
      BY <1>1, <3>1, BeforeAppend
    <3>3. g \notin srv.own => q = c
      BY <2>4 DEF Emits, c
    <3> QED BY <2>2, <3>2, <3>3
  <2>5. CASE /\ fromServer # <<>> /\ fromServer' = Tail(fromServer) /\ srv' = srv
             /\ \A h \in Gid : Head(fromServer) = Packet("create", h) => Opening(h)'
    <3>1. In(fromServer) <=> Head(fromServer) = c \/ In(fromServer')
      BY <1>1, <2>5, BeforeTail
    <3> QED BY <2>1, <2>2, <2>5, <3>1 DEF c
  <2> QED BY <2>3, <2>4, <2>5, FromServerStep DEF c
<1>6. ASSUME NEW g \in Gid, NEW i \in 1 .. Len(fromServer'), ChatOf(fromServer'[i], g)
      PROVE  g \in srv'.other \/ Opening(g)' \/ Before(fromServer', i - 1, Packet("create", g))
  <2> DEFINE c == Packet("create", g)
  <2> HIDE DEF c
  <2>1. ASSUME NEW k \in 1 .. Len(fromServer), ChatOf(fromServer[k], g)
        PROVE  g \in srv'.other \/ Opening(g)' \/ Before(fromServer, k - 1, c)
    BY <1>0, <1>3, <2>1 DEF MemberInv, c
  <2>2. CASE fromServer' = fromServer
    BY <1>6, <2>1, <2>2 DEF c
  <2>3. ASSUME NEW q \in Got, Emits(q) PROVE g \in srv'.other \/ Opening(g)' \/ Before(fromServer', i - 1, c)
    <3>1. fromServer' = Append(fromServer, q)
      BY <2>3 DEF Emits
    <3>2. /\ Len(fromServer) \in Nat /\ Len(fromServer') = Len(fromServer) + 1 /\ fromServer'[Len(fromServer) + 1] = q
          /\ \A k \in 1 .. Len(fromServer) : fromServer'[k] = fromServer[k]
      BY <1>1, <3>1, AppendFacts
    <3>3. i - 1 \in 0 .. Len(fromServer)
      BY <3>2
    <3>4. Before(fromServer', i - 1, c) <=> Before(fromServer, i - 1, c)
      BY <1>1, <3>1, <3>3, BeforeAppend
    <3>5. CASE i \in 1 .. Len(fromServer)
      BY <1>6, <2>1, <3>2, <3>4, <3>5
    <3>6. CASE i = Len(fromServer) + 1
      <4>1. i - 1 = Len(fromServer) /\ q = fromServer'[i]
        BY <3>2, <3>6
      <4>2. g \in srv.own \/ g \in srv.other
        BY <1>6, <2>3, <4>1 DEF Emits, ChatOf, TInv, ServerType
      <4> QED BY <1>0, <1>3, <3>4, <4>1, <4>2 DEF MemberInv, c
    <3> QED BY <3>2, <3>5, <3>6
  <2>4. CASE /\ fromServer # <<>> /\ fromServer' = Tail(fromServer)
             /\ \A h \in Gid : Head(fromServer) = Packet("create", h) => Opening(h)'
    <3>1. /\ Len(fromServer) \in Nat \ {0} /\ Len(fromServer') = Len(fromServer) - 1
          /\ \A k \in 1 .. Len(fromServer) - 1 : fromServer'[k] = fromServer[k + 1]
      BY <1>1, <2>4, TailFacts
    <3>2. i - 1 \in 0 .. Len(fromServer) - 1 /\ i + 1 \in 1 .. Len(fromServer) /\ (i + 1) - 1 = (i - 1) + 1
      BY <3>1
    <3>3. fromServer'[i] = fromServer[i + 1]
      BY <3>1
    <3>4. Before(fromServer, (i - 1) + 1, c) <=> Head(fromServer) = c \/ Before(fromServer', i - 1, c)
      BY <1>1, <2>4, <3>2, BeforeTail
    <3>5. g \in srv'.other \/ Opening(g)' \/ Before(fromServer, (i - 1) + 1, c)
      BY <1>6, <2>1, <3>2, <3>3
    <3> QED BY <2>4, <3>4, <3>5 DEF c
  <2> QED BY <2>2, <2>3, <2>4, FromServerStep DEF c
<1>7. /\ \A g \in srv'.own : Opening(g)' \/ Before(fromServer', Len(fromServer'), Packet("create", g))
      /\ \A g \in Gid : \A i \in 1 .. Len(fromServer') :
           ChatOf(fromServer'[i], g) =>
             g \in srv'.other \/ Opening(g)' \/ Before(fromServer', i - 1, Packet("create", g))
  BY <1>5, <1>6
<1>8. /\ \A g \in Gid : Before(out', Len(out'), Packet("join", g)) => Opening(g)'
      /\ \A g \in Gid : Before(toServer', Len(toServer'), Packet("join", g)) => Opening(g)'
  BY <1>4
<1> QED BY <1>7, <1>8 DEF MemberInv
-----------------------------------------------------------------------------
(* A chat of a window comes after what opened the window *)

\* The server has entered the client in the group, or will when it has taken what
\* is under way; or when the writer has written what is queued.
Asked(g) == g \in srv.own \/ Before(toServer, Len(toServer), Packet("join", g))
Wants(g) == Asked(g) \/ Before(out, Len(out), Packet("join", g))

AcceptInv ==
  conn = "open" /\ ~lost =>
    /\ \A g \in Gid : (\E w \in Window : win[w].pc # "none" /\ win[w].gid = g) => Wants(g)
    /\ \A g \in Gid : main.pc = "join" /\ main.gid = g => Wants(g)
    /\ \A g \in Gid : Before(fromServer, Len(fromServer), Packet("create", g)) => g \in srv.own
    /\ \A g \in Gid : \A i \in 1 .. Len(out) :
         ChatOf(out[i], g) => Asked(g) \/ Before(out, i - 1, Packet("join", g))
    /\ \A g \in Gid : \A i \in 1 .. Len(toServer) :
         ChatOf(toServer[i], g) => g \in srv.own \/ Before(toServer, i - 1, Packet("join", g))

LEMMA InitAcceptInv ==
  ASSUME Init
  PROVE  AcceptInv
<1>1. /\ Len(fromServer) = 0 /\ Len(out) = 0 /\ Len(toServer) = 0
      /\ main.pc = "check" /\ \A w \in Window : win[w].pc = "none"
  BY EmptySeq DEF Init
<1> QED BY <1>1, BeforeEmpty DEF AcceptInv

\* What the connection was entered in grows, by an acceptance that the server takes,
\* unless the server is lost.
LEMMA OwnKept ==
  ASSUME ChatClientAssumption, TInv, ReadInv, [Next]_vars
  PROVE  /\ srv.own \subseteq srv'.own
         /\ ServerTake /\ ~lost' => \A g \in Gid : Head(toServer) = Packet("join", g) => g \in srv'.own
<1>1. srv.own \subseteq srv'.own
  BY FromServerStep DEF Emits, MemberStep
<1>2. ASSUME ServerTake, ~lost', NEW g \in Gid, Head(toServer) = Packet("join", g) PROVE g \in srv'.own
  <2>1. Head(toServer).cmd = "join" /\ Head(toServer).gid = g
    BY <1>2 DEF Packet
  <2>2. ~(srv.read > 0)
    BY <1>2, <2>1 DEF ServerTake, ServerBlock
  <2>3. PICK m : srv' = [srv EXCEPT !.member = m, !.own = @ \cup {g}]
    BY <1>2, <2>1, <2>2 DEF ServerTake, ServerHandle
  <2> QED BY <2>3 DEF TInv, ServerType, Srv
<1> QED BY <1>1, <1>2

\* Windows are opened by the input thread and by the reader.
LEMMA WindowStep ==
  ASSUME ChatClientAssumption, TInv, ReadInv, [Next]_vars, conn' # "eof", NEW w \in Window, win'[w].pc # "none"
  PROVE  \/ win[w].pc # "none" /\ win'[w].gid = win[w].gid
         \/ Join /\ main.pc = "join" /\ win'[w].gid = main.gid
         \/ fromServer # <<>> /\ Head(fromServer).cmd = "create" /\ win'[w].gid = Head(fromServer).gid
<1>1. win \in [Window -> Windows]
  BY DEF TInv, WindowType
<1>2. ASSUME NEW g, create_new_group(g) PROVE win'[w] = win[w] \/ win'[w].gid = g
  <2>1. PICK v \in Window : win' = [win EXCEPT ![v].pc = "new", ![v].gid = g]
    BY <1>2 DEF create_new_group
  <2>2. w # v => win'[w] = win[w]
    BY <1>1, <2>1
  <2>3. w = v => win'[w].gid = g
    BY <1>1, <2>1 DEF Windows
  <2> QED BY <2>2, <2>3
<1>3. CASE win' = win
  BY <1>3
<1>4. CASE Join
  BY <1>2, <1>4 DEF Join
<1>5. CASE CheckRequests \/ Ask \/ LineRest \/ LineCommand \/ LineSendFile \/ LineBlock \/ WriteOut
  BY <1>3, <1>5 DEF CheckRequests, Ask, LineRest, LineCommand, LineSendFile, LineBlock, WriteOut
<1>6. CASE Read
  <2>1. CASE ReadPacket
    <3>1. fromServer # <<>> /\ Handle(Head(fromServer))
      BY <2>1 DEF ReadPacket
    <3>2. CASE Head(fromServer).cmd = "create" /\ create_new_group(Head(fromServer).gid)
      BY <1>2, <3>1, <3>2
    <3> QED BY <1>3, <3>1, <3>2 DEF Handle
  <2>2. CASE ReadBlock \/ ReadEnd
    BY <1>3, <2>2 DEF ReadBlock, ReadEnd
  <2>3. ~ReadFails
    BY DEF ReadFails
  <2> QED BY <1>6, <2>1, <2>2, <2>3 DEF Read
<1>7. ASSUME NEW v \in Window, Win(v) PROVE win[w].pc # "none" /\ win'[w].gid = win[w].gid
  <2>1. ASSUME NEW x, win' = [win EXCEPT ![v] = x], x.gid = win[v].gid, win[v].pc # "none"
        PROVE  win[w].pc # "none" /\ win'[w].gid = win[w].gid
    <3>1. win'[w] = IF w = v THEN x ELSE win[w]
      BY <1>1, <2>1
    <3> QED BY <2>1, <3>1
  <2>2. CASE WindowLine(v)
    BY <2>2 DEF WindowLine
  <2>3. CASE WindowStart(v)
    <3> DEFINE x == [win[v] EXCEPT !.pc = "run", !.use = mapping[win[v].gid]]
    <3>1. win' = [win EXCEPT ![v] = x] /\ win[v].pc # "none" /\ x.gid = win[v].gid
      BY <1>1, <2>3 DEF WindowStart, Windows
    <3> QED BY <2>1, <3>1
  <2>4. CASE WindowSendFile(v)
    <3> DEFINE x == [win[v] EXCEPT !.pc = "file"]
    <3>1. win' = [win EXCEPT ![v] = x] /\ win[v].pc # "none" /\ x.gid = win[v].gid
      BY <1>1, <2>4 DEF WindowSendFile, Windows
    <3> QED BY <2>1, <3>1
  <2>5. CASE WindowBlock(v)
    <3> DEFINE x == IF MoreBlocks(win[v].done + 1) THEN [win[v] EXCEPT !.done = @ + 1]
                    ELSE [win[v] EXCEPT !.pc = "run", !.done = 0]
    <3>1. win' = [win EXCEPT ![v] = x] /\ win[v].pc # "none" /\ x.gid = win[v].gid
      BY <1>1, <2>5 DEF WindowBlock, Windows
    <3> QED BY <2>1, <3>1
  <2>6. CASE WindowShow(v)
    <3>1. PICK m : win' = [win EXCEPT ![v] = [win[v] EXCEPT !.msgs = m]]
      BY <2>6 DEF WindowShow
    <3>2. win[v].pc # "none" /\ [win[v] EXCEPT !.msgs = m].gid = win[v].gid
      BY <1>1, <2>6 DEF WindowShow, Windows
    <3> QED BY <2>1, <3>1, <3>2
  <2>7. CASE WindowEsc(v)
    <3> DEFINE x == [win[v] EXCEPT !.pc = "esc"]
    <3>1. win' = [win EXCEPT ![v] = x] /\ win[v].pc # "none" /\ x.gid = win[v].gid
      BY <1>1, <2>7 DEF WindowEsc, Windows
    <3> QED BY <2>1, <3>1
  <2> QED BY <1>7, <2>2, <2>3, <2>4, <2>5, <2>6, <2>7 DEF Win
<1>8. CASE Server
  BY <1>3, <1>8 DEF Server, ServerTake, ServerSend, ServerInvite, ServerChat, ServerElsewhere, ServerForget, ServerClose, client
<1>9. CASE UNCHANGED vars
  BY <1>3, <1>9 DEF vars, client
<1> QED BY <1>4, <1>5, <1>6, <1>7, <1>8, <1>9 DEF Next, Main

\* An acceptance is queued as the input thread comes to open the group.
LEMMA JoinStep ==
  ASSUME ChatClientAssumption, TInv, [Next]_vars, main'.pc = "join"
  PROVE  main' = main \/ \E p \in Queued : Puts(p) /\ p = Packet("join", main'.gid)
<1>1. CASE Ask
  <2>1. PICK answer \in {"y", "n", "other"} :
          /\ main' = IF answer = "y" THEN [main EXCEPT !.pc = "join"]
                     ELSE [main EXCEPT !.pc = "check", !.gid = NoGid]
          /\ answer = "y" => Queue(Packet("join", main.gid))
    BY <1>1 DEF Ask
  <2>2. answer = "y" /\ main'.gid = main.gid /\ main.gid \in Gid
    BY <1>1, <2>1 DEF Ask, TInv, InputType
  <2>3. Packet("join", main.gid) \in Queued
    BY <2>2, SentPackets
  <2>4. UNCHANGED <<toServer, conn, fromServer, srv, lost, mapping, win>>
    BY <1>1 DEF Ask, wire, server
  <2>5. Puts(Packet("join", main.gid))
    BY <2>1, <2>2, <2>4 DEF Puts, Packet, Queue
  <2> QED BY <2>2, <2>3, <2>5
<1>2. CASE Main /\ ~Ask
  BY <1>2 DEF Main, CheckRequests, Join, LineRest, LineCommand, LineSendFile, LineBlock, TInv, InputType
<1>3. CASE WriteOut \/ Read
  BY <1>3 DEF WriteOut, Read, ReadPacket, ReadBlock, ReadEnd, ReadFails
<1>4. ASSUME NEW w \in Window, Win(w) PROVE main' = main
  BY <1>4 DEF Win, WindowStart, WindowLine, WindowSendFile, WindowBlock, WindowShow, WindowEsc
<1>5. CASE Server \/ UNCHANGED vars
  BY <1>5 DEF Server, ServerTake, ServerSend, ServerInvite, ServerChat, ServerElsewhere, ServerForget, ServerClose, client, vars
<1> QED BY <1>1, <1>2, <1>3, <1>4, <1>5 DEF Next

LEMMA OpenBefore ==
  ASSUME [Next]_vars, conn' = "open", ~lost'
  PROVE  conn = "open" /\ ~lost
<1>1. CASE Main \/ WriteOut \/ \E w \in Window : Win(w)
  BY <1>1, ClientStep DEF ConnStep
<1>2. CASE Read
  BY <1>2 DEF Read, ReadPacket, ReadBlock, ReadEnd, ReadFails, wire, server
<1>3. CASE Server
  <2>1. CASE ServerTake \/ ServerSend \/ ServerInvite \/ ServerChat \/ ServerElsewhere \/ ServerForget
    <3>1. conn = "open" /\ (lost' = lost \/ ~lost)
      BY <2>1 DEF ServerTake, ServerSend, ServerInvite, ServerChat, ServerElsewhere, ServerForget
    <3>2. lost' = lost => ~lost
      BY ONLY ~lost'
    <3> QED BY ONLY <3>1, <3>2
  <2>2. CASE ServerClose
    <3>1. conn' \in {"eof", "reset"}
      BY <2>2 DEF ServerClose
    <3> QED BY <3>1
  <2> QED BY <1>3, <2>1, <2>2 DEF Server
<1>4. CASE UNCHANGED vars
  BY <1>4 DEF vars, wire, server
<1> QED BY <1>1, <1>2, <1>3, <1>4 DEF Next

\* An acceptance goes from the writer's queue to the stream and from there to the
\* server, in front of what was queued after it.
LEMMA AskedStep ==
  ASSUME ChatClientAssumption, TInv, ReadInv, [Next]_vars, conn' = "open", ~lost', NEW g \in Gid
  PROVE  /\ Asked(g) => Asked(g)'
         /\ Wants(g) => Wants(g)'
         /\ WriteOut => toServer' = Append(toServer, Head(out)) /\ (Head(out) = Packet("join", g) => Asked(g)')
<1> DEFINE j == Packet("join", g)
           In(s) == Before(s, Len(s), j)
<1> HIDE DEF j
<1>1. toServer \in Seq(Sent) /\ out \in Seq(Queued) /\ Queued \subseteq Sent
  BY DEF TInv, WireType, Queued
<1>2. Asked(g) <=> g \in srv.own \/ In(toServer)
  BY DEF Asked, j
<1>3. Asked(g)' <=> g \in srv'.own \/ In(toServer')
  BY DEF Asked, j
<1>4. g \in srv.own => g \in srv'.own
  BY OwnKept
<1>5. ASSUME WriteOut PROVE toServer' = Append(toServer, Head(out)) /\ (In(toServer') <=> In(toServer) \/ Head(out) = j)
  <2>1. toServer' = Append(toServer, Head(out)) /\ out # <<>>
    BY <1>5, WriteStep DEF WriteOut
  <2>2. Head(out) \in Sent
    BY <1>1, <2>1, TailFacts
  <2> QED BY <1>1, <2>1, <2>2, BeforeAppend
<1>6. ASSUME In(toServer) PROVE Asked(g)'
  <2>1. CASE ServerTake
    <3>1. toServer # <<>> /\ toServer' = Tail(toServer)
      BY <2>1 DEF ServerTake
    <3>2. In(toServer) <=> Head(toServer) = j \/ In(toServer')
      BY <1>1, <3>1, BeforeTail
    <3>3. Head(toServer) = j => g \in srv'.own
      BY <2>1, OwnKept DEF j
    <3> QED BY <1>3, <1>6, <3>2, <3>3
  <2>2. ASSUME NEW p \in Sent, toServer' = Append(toServer, p) PROVE Asked(g)'
    <3>1. In(toServer') <=> In(toServer) \/ p = j
      BY <1>1, <2>2, BeforeAppend
    <3> QED BY <1>3, <1>6, <3>1
  <2>3. CASE WriteOut
    BY <1>3, <1>5, <1>6, <2>3
  <2>4. CASE toServer' = toServer
    BY <1>3, <1>6, <2>4
  <2> QED BY <2>1, <2>2, <2>3, <2>4, ToServerStep
<1>7. Asked(g) => Asked(g)'
  BY <1>2, <1>3, <1>4, <1>6
<1>8. ASSUME In(out) PROVE Asked(g)' \/ In(out')
  <2>1. CASE WriteOut
    <3>1. out # <<>> /\ out' = Tail(out)
      BY <2>1 DEF WriteOut
    <3>2. In(out) <=> Head(out) = j \/ In(out')
      BY <1>1, <3>1, BeforeTail
    <3> QED BY <1>3, <1>5, <1>8, <2>1, <3>2
  <2>2. ASSUME NEW p \in Queued, Puts(p) PROVE In(out')
    <3>1. In(out') <=> In(out) \/ p = j
      BY <1>1, <2>2, BeforeAppend DEF Puts
    <3> QED BY <1>8, <3>1
  <2> QED BY <1>8, <2>1, <2>2, OutStep
<1>9. Wants(g) => Wants(g)'
  BY <1>7, <1>8 DEF Wants, j
<1>10. WriteOut => toServer' = Append(toServer, Head(out)) /\ (Head(out) = j => Asked(g)')
  BY <1>3, <1>5
<1> QED BY <1>7, <1>9, <1>10 DEF j

LEMMA NextAcceptInv ==
  ASSUME ChatClientAssumption, TInv, ReadInv, AcceptInv, [Next]_vars
  PROVE  AcceptInv'
<1> SUFFICES ASSUME conn' = "open", ~lost'
             PROVE  /\ \A g \in Gid : (\E w \in Window : win'[w].pc # "none" /\ win'[w].gid = g) => Wants(g)'
                    /\ \A g \in Gid : main'.pc = "join" /\ main'.gid = g => Wants(g)'
                    /\ \A g \in Gid : Before(fromServer', Len(fromServer'), Packet("create", g)) => g \in srv'.own
                    /\ \A g \in Gid : \A i \in 1 .. Len(out') :
                         ChatOf(out'[i], g) => Asked(g)' \/ Before(out', i - 1, Packet("join", g))
                    /\ \A g \in Gid : \A i \in 1 .. Len(toServer') :
                         ChatOf(toServer'[i], g) => g \in srv'.own \/ Before(toServer', i - 1, Packet("join", g))
  BY DEF AcceptInv
<1>1. conn = "open" /\ ~lost
  BY OpenBefore
<1>2. toServer \in Seq(Sent) /\ out \in Seq(Queued) /\ Queued \subseteq Sent /\ fromServer \in Seq(Got)
  BY DEF TInv, WireType, Queued
<1>3. \A g \in Gid : (Asked(g) => Asked(g)') /\ (Wants(g) => Wants(g)')
  BY AskedStep
<1>4. srv.own \subseteq srv'.own /\ srv.own \subseteq Gid
  BY OwnKept DEF TInv, ServerType, Srv
<1>5. \A g \in Gid : g \in srv'.own => Wants(g)'
  BY DEF Wants, Asked
<1>6. \A g \in Gid : Before(fromServer, Len(fromServer), Packet("create", g)) => g \in srv'.own
  BY <1>1, <1>4 DEF AcceptInv
<1>7. ASSUME NEW g \in Gid, NEW w \in Window, win'[w].pc # "none", win'[w].gid = g PROVE Wants(g)'
  <2>1. CASE win[w].pc # "none" /\ win'[w].gid = win[w].gid
    BY <1>1, <1>3, <1>7, <2>1 DEF AcceptInv
  <2>2. CASE main.pc = "join" /\ win'[w].gid = main.gid
    BY <1>1, <1>3, <1>7, <2>2 DEF AcceptInv
  <2>3. CASE fromServer # <<>> /\ Head(fromServer).cmd = "create" /\ win'[w].gid = Head(fromServer).gid
    <3>1. Head(fromServer) = Packet("create", g)
      <4>1. Head(fromServer) \in Got
        BY <1>2, <2>3, TailFacts
      <4> QED BY <1>7, <2>3, <4>1 DEF Got, Chats, Answers, Packet
    <3>2. Before(fromServer, Len(fromServer), Packet("create", g))
      BY <1>2, <2>3, <3>1, BeforeTail
    <3> QED BY <1>5, <1>6, <3>2
  <2> QED BY <1>7, <2>1, <2>2, <2>3, WindowStep
<1>8. ASSUME NEW g \in Gid, main'.pc = "join", main'.gid = g PROVE Wants(g)'
  <2>1. CASE main' = main
    BY <1>1, <1>3, <1>8, <2>1 DEF AcceptInv
  <2>2. ASSUME NEW p \in Queued, Puts(p), p = Packet("join", g) PROVE Wants(g)'
    <3>1. Before(out', Len(out'), p)
      BY <1>2, <2>2, BeforeAppend DEF Puts
    <3> QED BY <2>2, <3>1 DEF Wants
  <2> QED BY <1>8, <2>1, <2>2, JoinStep
<1>9. ASSUME NEW g \in Gid, Before(fromServer', Len(fromServer'), Packet("create", g)) PROVE g \in srv'.own
  <2> DEFINE c == Packet("create", g)
             In(s) == Before(s, Len(s), c)
  <2> HIDE DEF c
  <2>1. In(fromServer) => g \in srv'.own
    BY <1>6 DEF c
  <2>2. In(fromServer')
    BY <1>9 DEF c
  <2>3. ASSUME NEW q \in Got, Emits(q) PROVE g \in srv'.own
    <3>1. In(fromServer') <=> In(fromServer) \/ q = c
      BY <1>2, <2>3, BeforeAppend DEF Emits
    <3>2. q = c => g \in srv'.own
      BY <2>3 DEF c, Emits, Packet
    <3> QED BY <2>1, <2>2, <3>1, <3>2
  <2>4. CASE fromServer # <<>> /\ fromServer' = Tail(fromServer)
    <3>1. In(fromServer) <=> Head(fromServer) = c \/ In(fromServer')
      BY <1>2, <2>4, BeforeTail
    <3> QED BY <2>1, <2>2, <3>1
  <2>5. CASE fromServer' = fromServer
    BY <2>1, <2>2, <2>5
  <2> QED BY <2>3, <2>4, <2>5, FromServerStep
<1>10. ASSUME NEW g \in Gid, NEW i \in 1 .. Len(out'), ChatOf(out'[i], g)
       PROVE  Asked(g)' \/ Before(out', i - 1, Packet("join", g))
  <2> DEFINE j == Packet("join", g)
  <2> HIDE DEF j
  <2>1. ASSUME NEW k \in 1 .. Len(out), ChatOf(out[k], g) PROVE Asked(g)' \/ Before(out, k - 1, j)
    BY <1>1, <1>3, <2>1 DEF AcceptInv, j
  <2>2. CASE out' = out
    BY <1>10, <2>1, <2>2 DEF j
  <2>3. CASE WriteOut
    <3>1. out # <<>> /\ out' = Tail(out)
      BY <2>3 DEF WriteOut
    <3>2. /\ Len(out) \in Nat \ {0} /\ Len(out') = Len(out) - 1
          /\ \A k \in 1 .. Len(out) - 1 : out'[k] = out[k + 1]
      BY <1>2, <3>1, TailFacts
    <3>3. i - 1 \in 0 .. Len(out) - 1 /\ i + 1 \in 1 .. Len(out) /\ (i + 1) - 1 = (i - 1) + 1
      BY <3>2
    <3>4. Before(out, (i - 1) + 1, j) <=> Head(out) = j \/ Before(out', i - 1, j)
      BY <1>2, <3>1, <3>3, BeforeTail
    <3>5. out'[i] = out[i + 1]
      BY <3>2
    <3>6. Asked(g)' \/ Before(out, (i - 1) + 1, j)
      BY <1>10, <2>1, <3>3, <3>5
    <3>7. Head(out) = j => Asked(g)'
      BY <2>3, AskedStep DEF j
    <3> QED BY <3>4, <3>6, <3>7 DEF j
  <2>4. ASSUME NEW p \in Queued, Puts(p) PROVE Asked(g)' \/ Before(out', i - 1, j)
    <3>1. out' = Append(out, p)
      BY <2>4 DEF Puts
    <3>2. /\ Len(out) \in Nat /\ Len(out') = Len(out) + 1 /\ out'[Len(out) + 1] = p
          /\ \A k \in 1 .. Len(out) : out'[k] = out[k]
      BY <1>2, <3>1, AppendFacts
    <3>3. i - 1 \in 0 .. Len(out)
      BY <3>2
    <3>4. Before(out', i - 1, j) <=> Before(out, i - 1, j)
      BY <1>2, <3>1, <3>3, BeforeAppend
    <3>5. CASE i \in 1 .. Len(out)
      BY <1>10, <2>1, <3>2, <3>4, <3>5
    <3>6. CASE i = Len(out) + 1
      <4>1. i - 1 = Len(out) /\ p = out'[i]
        BY <3>2, <3>6
      <4>2. \E w \in Window : win[w].pc # "none" /\ win[w].gid = g
        BY <1>10, <2>4, <4>1 DEF Puts, ChatOf
      <4>3. Wants(g)
        BY <1>1, <4>2 DEF AcceptInv
      <4> QED BY <1>3, <3>4, <4>1, <4>3 DEF Wants, j
    <3> QED BY <3>2, <3>5, <3>6
  <2> QED BY <2>2, <2>3, <2>4, OutStep DEF j
<1>11. ASSUME NEW g \in Gid, NEW i \in 1 .. Len(toServer'), ChatOf(toServer'[i], g)
       PROVE  g \in srv'.own \/ Before(toServer', i - 1, Packet("join", g))
  <2> DEFINE j == Packet("join", g)
  <2> HIDE DEF j
  <2>1. ASSUME NEW k \in 1 .. Len(toServer), ChatOf(toServer[k], g) PROVE g \in srv'.own \/ Before(toServer, k - 1, j)
    BY <1>1, <1>4, <2>1 DEF AcceptInv, j
  <2>2. CASE toServer' = toServer
    BY <1>11, <2>1, <2>2 DEF j
  <2>3. CASE ServerTake
    <3>1. toServer # <<>> /\ toServer' = Tail(toServer)
      BY <2>3 DEF ServerTake
    <3>2. /\ Len(toServer) \in Nat \ {0} /\ Len(toServer') = Len(toServer) - 1
          /\ \A k \in 1 .. Len(toServer) - 1 : toServer'[k] = toServer[k + 1]
      BY <1>2, <3>1, TailFacts
    <3>3. i - 1 \in 0 .. Len(toServer) - 1 /\ i + 1 \in 1 .. Len(toServer) /\ (i + 1) - 1 = (i - 1) + 1
      BY <3>2
    <3>4. Before(toServer, (i - 1) + 1, j) <=> Head(toServer) = j \/ Before(toServer', i - 1, j)
      BY <1>2, <3>1, <3>3, BeforeTail
    <3>5. toServer'[i] = toServer[i + 1]
      BY <3>2
    <3>6. g \in srv'.own \/ Before(toServer, (i - 1) + 1, j)
      BY <1>11, <2>1, <3>3, <3>5
    <3>7. Head(toServer) = j => g \in srv'.own
      BY <2>3, OwnKept DEF j
    <3> QED BY <3>4, <3>6, <3>7 DEF j
  <2>4. ASSUME NEW p \in Sent, toServer' = Append(toServer, p), ChatOf(p, g) => Asked(g)
        PROVE  g \in srv'.own \/ Before(toServer', i - 1, j)
    <3>2. /\ Len(toServer) \in Nat /\ Len(toServer') = Len(toServer) + 1 /\ toServer'[Len(toServer) + 1] = p
          /\ \A k \in 1 .. Len(toServer) : toServer'[k] = toServer[k]
      BY <1>2, <2>4, AppendFacts
    <3>3. i - 1 \in 0 .. Len(toServer)
      BY <3>2
    <3>4. Before(toServer', i - 1, j) <=> Before(toServer, i - 1, j)
      BY <1>2, <2>4, <3>3, BeforeAppend
    <3>5. CASE i \in 1 .. Len(toServer)
      BY <1>11, <2>1, <3>2, <3>4, <3>5
    <3>6. CASE i = Len(toServer) + 1
      <4>1. i - 1 = Len(toServer) /\ p = toServer'[i]
        BY <3>2, <3>6
      <4>2. Asked(g)
        BY <1>11, <2>4, <4>1
      <4> QED BY <1>4, <3>4, <4>1, <4>2 DEF Asked, j
    <3> QED BY <3>2, <3>5, <3>6
  <2>5. CASE WriteOut
    <3>1. out # <<>> /\ toServer' = Append(toServer, Head(out))
      BY <2>5, AskedStep DEF WriteOut
    <3>2. Head(out) \in Sent /\ Head(out) = out[1] /\ Len(out) \in Nat \ {0}
      BY <1>2, <3>1, TailFacts
    <3>3. ChatOf(Head(out), g) => Asked(g)
      <4>1. 1 \in 1 .. Len(out) /\ 1 - 1 = 0
        BY <3>2
      <4> QED BY <1>1, <3>2, <4>1, BeforeEmpty DEF AcceptInv
    <3> QED BY <2>4, <3>1, <3>2, <3>3 DEF j
  <2>6. ASSUME NEW p \in Sent, p.cmd \in {"file", "block"}, toServer' = Append(toServer, p)
        PROVE  g \in srv'.own \/ Before(toServer', i - 1, j)
    BY <2>4, <2>6 DEF ChatOf
  <2>7. \/ toServer' = toServer \/ ServerTake \/ WriteOut
        \/ \E p \in Sent : p.cmd \in {"file", "block"} /\ toServer' = Append(toServer, p)
    BY ToServerStep
  <2>8. g \in srv'.own \/ Before(toServer', i - 1, j)
    BY <2>2, <2>3, <2>5, <2>6, <2>7 DEF j
  <2> QED BY <2>8 DEF j
<1> QED BY <1>7, <1>8, <1>9, <1>10, <1>11
-----------------------------------------------------------------------------
(* A window shows the chats of its group in order *)

\* The reader may still deliver chats.
Live == reader.pc \in {"read", "file"} /\ (conn # "eof" \/ fromServer # <<>>)

\* No other window takes from the queue.
Alone(w) == \A v \in Window \ {w} : win[v].use # win[w].use

\* A queue is that of the window it was made with, empty before, and used by
\* windows that have looked it up.
FrameInv ==
  /\ \A g \in Gid : mapping[g] # NoWindow => win[mapping[g]].pc # "none" /\ win[mapping[g]].gid = g
  /\ \A w \in Window : win[w].pc = "none" => queue[w] = <<>>
  /\ \A w \in Window : win[w].pc \in {"none", "new"} => win[w].use = NoWindow
  /\ \A w \in Window : win[w].use = NoWindow => \A i \in 1 .. NUMBER_OF_MSGS : win[w].msgs[i] = 0
  /\ \A w \in Window : win[w].use # NoWindow => win[win[w].use].pc # "none"

\* The chats of a queue are numbered one after the other.  The last may be what
\* the stack held when a read failed.
InOrder(s) ==
  \A i \in 1 .. Len(s) : (s[i].n = 0 => i = Len(s)) /\ (i > 1 /\ s[i].n # 0 => s[i].n = s[i - 1].n + 1)
QueueInv ==
  /\ \A q \in Window : InOrder(queue[q])
  /\ Live => \A q \in Window : \A i \in 1 .. Len(queue[q]) : queue[q][i].n # 0

\* The queue goes on where its window is.
HeadInv ==
  \A w, q \in Window :
    win[w].use = q /\ win[w].msgs[1] # 0 /\ queue[q] # <<>> /\ queue[q][1].n # 0 =>
      win[w].msgs[1] < queue[q][1].n /\ (Alone(w) => queue[q][1].n = win[w].msgs[1] + 1)

\* d chats of g have been read from the stream: the queue ends with the last of
\* them, or has been shown up to it.
QueueAt(g, d) ==
  \A q \in Window :
    Live /\ mapping[g] = q =>
      /\ queue[q] # <<>> => queue[q][Len(queue[q])].n = d
      /\ queue[q] = <<>> =>
           \A w \in Window : win[w].use = q /\ win[w].msgs[1] # 0 =>
             win[w].msgs[1] =< d /\ (Alone(w) => win[w].msgs[1] = d)

OrderInv == FrameInv /\ QueueInv /\ HeadInv /\ ShownInOrder
CountInv == \A g \in Gid : \E d \in Nat : Numbered(fromServer, g, d, said[g]) /\ QueueAt(g, d)

\* What every step but a delivery preserves.
OrderKept == OrderInv' /\ \A g \in Gid, d \in Nat : QueueAt(g, d) => QueueAt(g, d)'

LEMMA InOrderAppend ==
  ASSUME NEW s \in Seq(Chats), NEW c \in Chats, InOrder(s), \A i \in 1 .. Len(s) : s[i].n # 0,
         s # <<>> /\ c.n # 0 => c.n = s[Len(s)].n + 1
  PROVE  InOrder(Append(s, c))
<1>1. /\ Len(s) \in Nat /\ Len(Append(s, c)) = Len(s) + 1 /\ Append(s, c)[Len(s) + 1] = c
      /\ \A i \in 1 .. Len(s) : Append(s, c)[i] = s[i]
  BY AppendFacts
<1> SUFFICES ASSUME NEW i \in 1 .. Len(s) + 1
             PROVE  /\ Append(s, c)[i].n = 0 => i = Len(s) + 1
                    /\ i > 1 /\ Append(s, c)[i].n # 0 => Append(s, c)[i].n = Append(s, c)[i - 1].n + 1
  BY <1>1 DEF InOrder
<1>2. CASE i = Len(s) + 1
  <2>1. Append(s, c)[i] = c
    BY <1>1, <1>2
  <2>2. i > 1 => s # <<>> /\ Append(s, c)[i - 1] = s[Len(s)]
    BY <1>1, <1>2, EmptySeq
  <2> QED BY <1>2, <2>1, <2>2
<1>3. CASE i \in 1 .. Len(s)
  <2>1. Append(s, c)[i] = s[i] /\ (i > 1 => Append(s, c)[i - 1] = s[i - 1])
    BY <1>1, <1>3
  <2> QED BY <1>3, <2>1 DEF InOrder
<1> QED BY <1>1, <1>2, <1>3

LEMMA InOrderTail ==
  ASSUME NEW s \in Seq(Chats), InOrder(s), s # <<>>
  PROVE  /\ InOrder(Tail(s))
         /\ Tail(s) # <<>> => s[1].n # 0 /\ (Tail(s)[1].n # 0 => Tail(s)[1].n = s[1].n + 1)
         /\ Tail(s) # <<>> => Tail(s)[Len(Tail(s))] = s[Len(s)]
         /\ Tail(s) = <<>> => s[Len(s)] = s[1]
         /\ \A i \in 1 .. Len(Tail(s)) : i + 1 \in 1 .. Len(s) /\ Tail(s)[i] = s[i + 1]
<1>1. /\ Len(s) \in Nat \ {0} /\ Len(Tail(s)) = Len(s) - 1 /\ Tail(s) \in Seq(Chats)
      /\ \A i \in 1 .. Len(s) - 1 : Tail(s)[i] = s[i + 1]
  BY TailFacts
<1>2. Tail(s) = <<>> <=> Len(s) = 1
  BY <1>1, EmptySeq
<1>3. InOrder(Tail(s))
  <2> SUFFICES ASSUME NEW i \in 1 .. Len(s) - 1
               PROVE  /\ Tail(s)[i].n = 0 => i = Len(s) - 1
                      /\ i > 1 /\ Tail(s)[i].n # 0 => Tail(s)[i].n = Tail(s)[i - 1].n + 1
    BY <1>1 DEF InOrder
  <2>1. i + 1 \in 1 .. Len(s) /\ i + 1 > 1 /\ (i + 1) - 1 = i /\ (i = Len(s) - 1 <=> i + 1 = Len(s))
    BY <1>1
  <2>2. Tail(s)[i] = s[i + 1] /\ (i > 1 => Tail(s)[i - 1] = s[i])
    BY <1>1
  <2>3. (s[i + 1].n = 0 => i + 1 = Len(s)) /\ (s[i + 1].n # 0 => s[i + 1].n = s[i].n + 1)
    BY <2>1 DEF InOrder
  <2> QED BY <2>1, <2>2, <2>3
<1>4. ASSUME Len(s) > 1 PROVE /\ s[1].n # 0 /\ (s[2].n # 0 => s[2].n = s[1].n + 1)
                              /\ Tail(s)[1] = s[2] /\ Tail(s)[Len(s) - 1] = s[Len(s)]
  <2> DEFINE m == Len(s)
  <2>0. m \in Nat /\ m > 1
    BY <1>1, <1>4
  <2> HIDE DEF m
  <2>1. /\ 1 \in 1 .. m /\ 2 \in 1 .. m /\ 2 - 1 = 1 /\ 1 # m /\ 1 \in 1 .. m - 1
        /\ m - 1 \in 1 .. m - 1 /\ (m - 1) + 1 = m /\ 1 + 1 = 2 /\ 2 > 1
    BY <2>0
  <2> QED BY <1>1, <2>1 DEF InOrder, m
<1>5. \A i \in 1 .. Len(Tail(s)) : i + 1 \in 1 .. Len(s) /\ Tail(s)[i] = s[i + 1]
  BY <1>1
<1>6. Tail(s) # <<>> => Len(s) > 1
  BY <1>1, <1>2
<1>7. Tail(s) = <<>> => s[Len(s)] = s[1]
  BY <1>2
<1> QED BY <1>1, <1>3, <1>4, <1>5, <1>6, <1>7

\* A step of the windows that changes neither queues nor what is shown.
LEMMA SameOrder ==
  ASSUME ChatClientAssumption, OrderInv, Live' => Live, UNCHANGED <<mapping, queue>>,
         \A w \in Window : /\ win'[w].use = win[w].use /\ win'[w].msgs = win[w].msgs /\ win'[w].gid = win[w].gid
                           /\ (win'[w].pc = "none" <=> win[w].pc = "none") /\ (win'[w].pc = "new" <=> win[w].pc = "new"),
         TInv
  PROVE  OrderKept
<1>1. \A w \in Window : Alone(w)' <=> Alone(w)
  BY DEF Alone
<1>2. /\ \A w \in Window : win[w].use \in Window \cup {NoWindow}
      /\ \A g \in Gid : mapping[g] \in Window \cup {NoWindow}
  BY DEF TInv, WindowType, Windows
<1>3. FrameInv'
  <2>1. \A g \in Gid : mapping[g] # NoWindow => win'[mapping[g]].pc # "none" /\ win'[mapping[g]].gid = g
    BY <1>2 DEF OrderInv, FrameInv
  <2>2. \A w \in Window : win'[w].pc = "none" => queue[w] = <<>>
    BY DEF OrderInv, FrameInv
  <2>3. \A w \in Window : win'[w].pc \in {"none", "new"} => win'[w].use = NoWindow
    BY DEF OrderInv, FrameInv
  <2>4. \A w \in Window : win'[w].use = NoWindow => \A i \in 1 .. NUMBER_OF_MSGS : win'[w].msgs[i] = 0
    BY DEF OrderInv, FrameInv
  <2>5. \A w \in Window : win'[w].use # NoWindow => win'[win'[w].use].pc # "none"
    BY <1>2 DEF OrderInv, FrameInv
  <2> QED BY <2>1, <2>2, <2>3, <2>4, <2>5 DEF FrameInv
<1>4. QueueInv'
  BY DEF OrderInv, QueueInv
<1>5. HeadInv'
  BY <1>1 DEF OrderInv, HeadInv
<1>6. ShownInOrder'
  BY DEF OrderInv, ShownInOrder
<1>7. ASSUME NEW g \in Gid, NEW d \in Nat, QueueAt(g, d) PROVE QueueAt(g, d)'
  BY <1>1, <1>7 DEF QueueAt
<1> QED BY <1>3, <1>4, <1>5, <1>6, <1>7 DEF OrderKept, OrderInv

\* A new window: no one has used its queue.
LEMMA CreateOrder ==
  ASSUME ChatClientAssumption, TInv, OrderInv, Live' => Live, NEW h \in Gid, create_new_group(h), queue' = queue
  PROVE  OrderKept
<1>1. PICK u \in Window : /\ win[u].pc = "none" /\ mapping' = [mapping EXCEPT ![h] = u]
                          /\ win' = [win EXCEPT ![u].pc = "new", ![u].gid = h]
  BY DEF create_new_group
<1>2. /\ win \in [Window -> Windows] /\ mapping \in [Gid -> Window \cup {NoWindow}] /\ NoWindow \notin Window
      /\ \A w \in Window : win[w].use \in Window \cup {NoWindow}
  <2>1. win \in [Window -> Windows] /\ mapping \in [Gid -> Window \cup {NoWindow}]
    BY DEF TInv, WindowType
  <2>2. NoWindow \notin Window
    BY DEF Window, NoWindow
  <2> QED BY <2>1, <2>2 DEF Windows
<1>3. \A w \in Window : win'[w].use = win[w].use /\ win'[w].msgs = win[w].msgs
  BY <1>1, <1>2 DEF Windows
<1>4. \A w \in Window : w # u => win'[w] = win[w]
  BY <1>1, <1>2
<1>5. win'[u].pc = "new" /\ win'[u].gid = h
  BY <1>1, <1>2 DEF Windows
<1>6. mapping'[h] = u /\ \A g \in Gid : g # h => mapping'[g] = mapping[g]
  BY <1>1, <1>2
<1>7. \A w \in Window : (Alone(w)' <=> Alone(w)) /\ win[w].use # u
  <2>1. \A w \in Window : win[w].use # u
    BY <1>1, <1>2 DEF OrderInv, FrameInv
  <2> QED BY <1>3, <2>1 DEF Alone
<1>8. queue[u] = <<>> /\ win[u].use = NoWindow
  BY <1>1 DEF OrderInv, FrameInv
<1>9. FrameInv'
  <2>1. ASSUME NEW g \in Gid, mapping'[g] # NoWindow PROVE win'[mapping'[g]].pc # "none" /\ win'[mapping'[g]].gid = g
    <3>1. CASE g = h
      BY <1>5, <1>6, <3>1
    <3>2. CASE g # h
      <4>1. mapping'[g] = mapping[g] /\ mapping[g] \in Window /\ win[mapping[g]].pc # "none" /\ win[mapping[g]].gid = g
        BY <1>2, <1>6, <2>1, <3>2 DEF OrderInv, FrameInv
      <4> QED BY <1>1, <1>4, <4>1
    <3> QED BY <3>1, <3>2
  <2>2. \A w \in Window : win'[w].pc = "none" => queue'[w] = <<>>
    BY <1>4, <1>5 DEF OrderInv, FrameInv
  <2>3. \A w \in Window : win'[w].pc \in {"none", "new"} => win'[w].use = NoWindow
    BY <1>3, <1>4, <1>8 DEF OrderInv, FrameInv
  <2>4. \A w \in Window : win'[w].use = NoWindow => \A i \in 1 .. NUMBER_OF_MSGS : win'[w].msgs[i] = 0
    BY <1>3 DEF OrderInv, FrameInv
  <2>5. \A w \in Window : win'[w].use # NoWindow => win'[win'[w].use].pc # "none"
    BY <1>2, <1>3, <1>4, <1>7 DEF OrderInv, FrameInv
  <2> QED BY <2>1, <2>2, <2>3, <2>4, <2>5 DEF FrameInv
<1>10. QueueInv'
  BY DEF OrderInv, QueueInv
<1>11. HeadInv'
  BY <1>3, <1>7 DEF OrderInv, HeadInv
<1>12. ShownInOrder'
  BY <1>3 DEF OrderInv, ShownInOrder
<1>13. ASSUME NEW g \in Gid, NEW d \in Nat, QueueAt(g, d) PROVE QueueAt(g, d)'
  <2>1. CASE g = h
    BY <1>3, <1>6, <1>7, <1>8, <2>1 DEF QueueAt
  <2>2. CASE g # h
    BY <1>3, <1>6, <1>7, <1>13, <2>2 DEF QueueAt
  <2> QED BY <2>1, <2>2
<1> QED BY <1>9, <1>10, <1>11, <1>12, <1>13 DEF OrderKept, OrderInv

\* A window looks up the queue of its group.
LEMMA StartOrder ==
  ASSUME ChatClientAssumption, TInv, OrderInv, Live' => Live, NEW u \in Window, WindowStart(u)
  PROVE  OrderKept
<1>1. /\ win[u].pc = "new" /\ UNCHANGED <<mapping, queue>>
      /\ win' = [win EXCEPT ![u].pc = "run", ![u].use = mapping[win[u].gid]]
  BY DEF WindowStart
<1>2. /\ win \in [Window -> Windows] /\ mapping \in [Gid -> Window \cup {NoWindow}]
      /\ \A w \in Window : win[w].use \in Window \cup {NoWindow}
  BY DEF TInv, WindowType, Windows
<1>3. win[u].gid \in Gid
  BY <1>1 DEF TInv, WindowType
<1>4. NUMBER_OF_MSGS \in Nat /\ NUMBER_OF_MSGS > 1 /\ 1 \in 1 .. NUMBER_OF_MSGS
  BY DEF ChatClientAssumption
<1>5. \A w \in Window : /\ win'[w].msgs = win[w].msgs /\ win'[w].gid = win[w].gid
                        /\ win'[w].pc = (IF w = u THEN "run" ELSE win[w].pc)
                        /\ win'[w].use = IF w = u THEN mapping[win[u].gid] ELSE win[w].use
  BY <1>1, <1>2 DEF Windows
<1>6. win[u].use = NoWindow /\ \A i \in 1 .. NUMBER_OF_MSGS : win[u].msgs[i] = 0
  BY <1>1 DEF OrderInv, FrameInv
<1>7. \A w \in Window : w # u /\ win[w].use # NoWindow /\ Alone(w)' => Alone(w)
  BY <1>5, <1>6 DEF Alone
<1>8. \A w \in Window : win[w].pc # "none" => win'[w].pc # "none"
  BY <1>5
<1>9. \A g \in Gid : mapping[g] # NoWindow => mapping[g] \in Window /\ win[mapping[g]].pc # "none" /\ win[mapping[g]].gid = g
  BY <1>2 DEF OrderInv, FrameInv
<1>10. FrameInv'
  <2>1. \A g \in Gid : mapping[g] # NoWindow => win'[mapping[g]].pc # "none" /\ win'[mapping[g]].gid = g
    BY <1>5, <1>8, <1>9
  <2>2. \A w \in Window : win'[w].pc = "none" => queue[w] = <<>>
    BY <1>5 DEF OrderInv, FrameInv
  <2>3. \A w \in Window : win'[w].pc \in {"none", "new"} => win'[w].use = NoWindow
    BY <1>5 DEF OrderInv, FrameInv
  <2>4. \A w \in Window : win'[w].use = NoWindow => \A i \in 1 .. NUMBER_OF_MSGS : win'[w].msgs[i] = 0
    BY <1>5, <1>6 DEF OrderInv, FrameInv
  <2>5. ASSUME NEW w \in Window, win'[w].use # NoWindow PROVE win'[win'[w].use].pc # "none"
    <3>1. CASE w = u
      BY <1>3, <1>5, <1>8, <1>9, <2>5, <3>1
    <3>2. CASE w # u
      <4>1. win'[w].use = win[w].use /\ win[w].use \in Window /\ win[win[w].use].pc # "none"
        BY <1>2, <1>5, <2>5, <3>2 DEF OrderInv, FrameInv
      <4> QED BY <1>8, <4>1
    <3> QED BY <3>1, <3>2
  <2> QED BY <1>1, <2>1, <2>2, <2>3, <2>4, <2>5 DEF FrameInv
<1>11. QueueInv'
  BY <1>1 DEF OrderInv, QueueInv
<1>12. NoWindow \notin Window
  BY DEF NoWindow, Window
<1>13. HeadInv'
  <2> SUFFICES ASSUME NEW w \in Window, NEW q \in Window,
                      win'[w].use = q, win'[w].msgs[1] # 0, queue[q] # <<>>, queue[q][1].n # 0
               PROVE  win'[w].msgs[1] < queue[q][1].n /\ (Alone(w)' => queue[q][1].n = win'[w].msgs[1] + 1)
    BY <1>1 DEF HeadInv
  <2>1. w # u /\ win[w].use = q /\ win'[w].msgs = win[w].msgs
    BY <1>4, <1>5, <1>6
  <2>2. Alone(w)' => Alone(w)
    BY <1>7, <1>12, <2>1
  <2> QED BY <2>1, <2>2 DEF OrderInv, HeadInv
<1>14. ShownInOrder'
  <2> SUFFICES ASSUME NEW w \in Window, NEW i \in 1 .. NUMBER_OF_MSGS - 1, win'[w].msgs[i] # 0, win'[w].msgs[i + 1] # 0
               PROVE  /\ win'[w].msgs[i] > win'[w].msgs[i + 1]
                      /\ Alone(w)' => win'[w].msgs[i] = win'[w].msgs[i + 1] + 1
    BY DEF ShownInOrder, Alone
  <2>1. win'[w].msgs = win[w].msgs /\ w # u /\ i \in 1 .. NUMBER_OF_MSGS
    BY <1>4, <1>5, <1>6
  <2>2. win[w].use # NoWindow
    BY <2>1 DEF OrderInv, FrameInv
  <2>3. Alone(w)' => Alone(w)
    BY <1>7, <2>1, <2>2
  <2> QED BY <2>1, <2>3 DEF OrderInv, ShownInOrder, Alone
<1>15. ASSUME NEW g \in Gid, NEW d \in Nat, QueueAt(g, d) PROVE QueueAt(g, d)'
  <2> SUFFICES ASSUME NEW q \in Window, Live', mapping[g] = q, NEW w \in Window, queue[q] = <<>>,
                      win'[w].use = q, win'[w].msgs[1] # 0
               PROVE  win'[w].msgs[1] =< d /\ (Alone(w)' => win'[w].msgs[1] = d)
    BY <1>1, <1>15 DEF QueueAt
  <2>1. w # u /\ win[w].use = q /\ win'[w].msgs = win[w].msgs
    BY <1>4, <1>5, <1>6
  <2>2. Alone(w)' => Alone(w)
    BY <1>7, <1>12, <2>1
  <2> QED BY <1>15, <2>1, <2>2 DEF QueueAt
<1> QED BY <1>10, <1>11, <1>13, <1>14, <1>15 DEF OrderKept, OrderInv

\* A window shows the next chat of its queue.
LEMMA ShowOrder ==
  ASSUME ChatClientAssumption, TInv, OrderInv, Live' => Live, NEW u \in Window, WindowShow(u)
  PROVE  OrderKept
<1> DEFINE q == win[u].use
           s == queue[q]
           n == s[1].n
<1>1. /\ win[u].pc # "none" /\ q # NoWindow /\ s # <<>>
      /\ queue' = [queue EXCEPT ![q] = Tail(s)] /\ mapping' = mapping
  BY DEF WindowShow
<1>2. /\ win \in [Window -> Windows] /\ queue \in [Window -> Seq(Chats)]
      /\ \A w \in Window : win[w].use \in Window \cup {NoWindow}
      /\ \A g \in Gid : mapping[g] \in Window \cup {NoWindow}
  BY DEF TInv, WindowType, Windows
<1>3. q \in Window /\ s \in Seq(Chats)
  BY <1>1, <1>2
<1>4. PICK over \in 0 .. NUMBER_OF_MSGS : win' = [win EXCEPT ![u].msgs = roll_messages(@, Head(s).n, over)]
  BY DEF WindowShow
<1> DEFINE old == win[u].msgs
           new == roll_messages(old, n, over)
<1>5. Head(s) = s[1] /\ n \in 0 .. MaxChats /\ Len(s) \in Nat \ {0}
  <2>1. Head(s) = s[1] /\ Head(s) \in Chats /\ Len(s) \in Nat \ {0}
    BY <1>1, <1>3, TailFacts
  <2> QED BY <2>1 DEF Chats
<1>6. old \in [1 .. NUMBER_OF_MSGS -> 0 .. MaxChats]
  BY <1>2 DEF Windows
<1> HIDE DEF n, old
<1>7. /\ new[1] = n
      /\ \A i \in 2 .. NUMBER_OF_MSGS : new[i] \in {old[i - 1], 0}
  <2>1. NUMBER_OF_MSGS \in Nat /\ NUMBER_OF_MSGS > 1 /\ DOMAIN old = 1 .. NUMBER_OF_MSGS
    BY <1>6 DEF ChatClientAssumption
  <2>2. 1 \in DOMAIN old /\ \A i \in 2 .. NUMBER_OF_MSGS : i \in DOMAIN old /\ i # 1
    BY <2>1
  <2> QED BY <2>2 DEF roll_messages
<1>8. win' = [win EXCEPT ![u].msgs = new]
  BY <1>4, <1>5 DEF n, old
<1> HIDE DEF new
<1>9. \A w \in Window : /\ win'[w].msgs = (IF w = u THEN new ELSE win[w].msgs) /\ win'[w].use = win[w].use
                        /\ win'[w].pc = win[w].pc /\ win'[w].gid = win[w].gid
  BY <1>2, <1>8 DEF Windows
<1>10. queue'[q] = Tail(s) /\ \A v \in Window : v # q => queue'[v] = queue[v]
  BY <1>1, <1>2, <1>3
<1>11. \A w \in Window : Alone(w)' <=> Alone(w)
  BY <1>9 DEF Alone
<1>12. InOrder(s)
  BY <1>3 DEF OrderInv, QueueInv
<1> HIDE DEF s
<1>13. /\ InOrder(Tail(s))
       /\ Tail(s) # <<>> => s[1].n # 0 /\ (Tail(s)[1].n # 0 => Tail(s)[1].n = s[1].n + 1)
       /\ Tail(s) # <<>> => Tail(s)[Len(Tail(s))] = s[Len(s)]
       /\ Tail(s) = <<>> => s[Len(s)] = s[1]
       /\ \A i \in 1 .. Len(Tail(s)) : i + 1 \in 1 .. Len(s) /\ Tail(s)[i] = s[i + 1]
  BY <1>1, <1>3, <1>12, InOrderTail
<1>14. ASSUME NEW w \in Window, win[w].use = q, win[w].msgs[1] # 0, n # 0
       PROVE  win[w].msgs[1] < n /\ (Alone(w) => n = win[w].msgs[1] + 1)
  BY <1>1, <1>3, <1>14 DEF OrderInv, HeadInv, s, n
<1>15. \A w \in Window : w # u /\ win[w].use = q => ~Alone(w)
  BY DEF Alone
<1> HIDE DEF q
<1>16. NUMBER_OF_MSGS \in Nat /\ NUMBER_OF_MSGS > 1 /\ 1 \in 1 .. NUMBER_OF_MSGS /\ MaxChats \in Nat
  BY DEF ChatClientAssumption
<1>17. FrameInv'
  <2>1. \A g \in Gid : mapping[g] # NoWindow => win'[mapping[g]].pc # "none" /\ win'[mapping[g]].gid = g
    BY <1>2, <1>9 DEF OrderInv, FrameInv
  <2>2. \A w \in Window : win'[w].pc = "none" => queue'[w] = <<>>
    <3>1. queue[q] # <<>>
      BY <1>1 DEF s
    <3> QED BY <1>3, <1>9, <1>10, <3>1 DEF OrderInv, FrameInv
  <2>3. \A w \in Window : win'[w].pc \in {"none", "new"} => win'[w].use = NoWindow
    BY <1>9 DEF OrderInv, FrameInv
  <2>4. \A w \in Window : win'[w].use = NoWindow => \A i \in 1 .. NUMBER_OF_MSGS : win'[w].msgs[i] = 0
    BY <1>1, <1>9 DEF OrderInv, FrameInv, q
  <2>5. \A w \in Window : win'[w].use # NoWindow => win'[win'[w].use].pc # "none"
    BY <1>2, <1>9 DEF OrderInv, FrameInv
  <2> QED BY <1>1, <2>1, <2>2, <2>3, <2>4, <2>5 DEF FrameInv
<1>18. QueueInv'
  <2>1. \A v \in Window : InOrder(queue'[v])
    BY <1>10, <1>13 DEF OrderInv, QueueInv
  <2>2. ASSUME Live', NEW v \in Window, NEW i \in 1 .. Len(queue'[v]) PROVE queue'[v][i].n # 0
    <3>1. CASE v # q
      BY <1>10, <2>2, <3>1 DEF OrderInv, QueueInv
    <3>2. CASE v = q
      <4>1. i + 1 \in 1 .. Len(s) /\ queue'[v][i] = s[i + 1]
        BY <1>10, <1>13, <2>2, <3>2
      <4> QED BY <1>3, <2>2, <4>1 DEF OrderInv, QueueInv, s
    <3> QED BY <3>1, <3>2
  <2> QED BY <2>1, <2>2 DEF QueueInv
<1>19. HeadInv'
  <2> SUFFICES ASSUME NEW w \in Window, NEW v \in Window,
                      win'[w].use = v, win'[w].msgs[1] # 0, queue'[v] # <<>>, queue'[v][1].n # 0
               PROVE  win'[w].msgs[1] < queue'[v][1].n /\ (Alone(w)' => queue'[v][1].n = win'[w].msgs[1] + 1)
    BY DEF HeadInv
  <2>1. CASE v # q
    <3>1. w # u /\ win[w].use = v /\ win'[w].msgs = win[w].msgs /\ queue'[v] = queue[v]
      BY <1>9, <1>10, <2>1 DEF q
    <3> QED BY <1>11, <3>1 DEF OrderInv, HeadInv
  <2>2. CASE v = q
    <3>1. n # 0 /\ queue'[v][1].n = n + 1
      BY <1>10, <1>13, <2>2 DEF n
    <3>2. CASE w = u
      BY <1>5, <1>7, <1>9, <3>1, <3>2
    <3>3. CASE w # u
      <4>1. win[w].use = q /\ win'[w].msgs = win[w].msgs
        BY <1>9, <2>2, <3>3
      <4>2. win[w].msgs[1] < n /\ ~Alone(w) /\ win[w].msgs[1] \in 0 .. MaxChats
        BY <1>2, <1>14, <1>15, <1>16, <3>1, <3>3, <4>1 DEF Windows
      <4> QED BY <1>5, <1>11, <3>1, <4>1, <4>2
    <3> QED BY <3>2, <3>3
  <2> QED BY <2>1, <2>2
<1>20. ShownInOrder'
  <2> SUFFICES ASSUME NEW w \in Window, NEW i \in 1 .. NUMBER_OF_MSGS - 1, win'[w].msgs[i] # 0, win'[w].msgs[i + 1] # 0
               PROVE  /\ win'[w].msgs[i] > win'[w].msgs[i + 1]
                      /\ Alone(w)' => win'[w].msgs[i] = win'[w].msgs[i + 1] + 1
    BY DEF ShownInOrder, Alone
  <2>1. ASSUME NEW k \in 1 .. NUMBER_OF_MSGS - 1, win[w].msgs[k] # 0, win[w].msgs[k + 1] # 0
        PROVE  /\ win[w].msgs[k] > win[w].msgs[k + 1]
               /\ Alone(w) => win[w].msgs[k] = win[w].msgs[k + 1] + 1
    BY <2>1 DEF OrderInv, ShownInOrder, Alone
  <2>2. CASE w # u
    BY <1>9, <1>11, <2>1, <2>2
  <2>3. CASE w = u /\ i = 1
    <3>1. new[1] = n /\ 1 + 1 = 2 /\ 2 \in 2 .. NUMBER_OF_MSGS /\ 2 - 1 = 1
      BY <1>7, <1>16
    <3>2. new[2] = old[1] /\ old[1] # 0 /\ n # 0 /\ win'[w].msgs = new
      BY <1>7, <1>9, <2>3, <3>1
    <3>3. old[1] < n /\ (Alone(w) => n = old[1] + 1)
      BY <1>14, <2>3, <3>2 DEF q, old
    <3>4. old[1] \in 0 .. MaxChats
      BY <1>6, <1>16
    <3> QED BY <1>5, <1>11, <2>3, <3>1, <3>2, <3>3, <3>4
  <2>4. CASE w = u /\ i # 1
    <3>1. i \in 2 .. NUMBER_OF_MSGS /\ i + 1 \in 2 .. NUMBER_OF_MSGS /\ i + 1 # 2 /\ (i + 1) - 1 = i
          /\ i - 1 \in 1 .. NUMBER_OF_MSGS - 1 /\ (i - 1) + 1 = i
      BY <1>16, <2>4
    <3>2. win'[w].msgs[i] = old[i - 1] /\ win'[w].msgs[i + 1] = old[i]
      BY <1>7, <1>9, <2>4, <3>1
    <3> QED BY <1>11, <2>1, <2>4, <3>1, <3>2 DEF old
  <2> QED BY <2>2, <2>3, <2>4
<1>21. ASSUME NEW g \in Gid, NEW d \in Nat, QueueAt(g, d) PROVE QueueAt(g, d)'
  <2> SUFFICES ASSUME NEW v \in Window, Live', mapping[g] = v
               PROVE  /\ queue'[v] # <<>> => queue'[v][Len(queue'[v])].n = d
                      /\ queue'[v] = <<>> =>
                           \A w \in Window : win'[w].use = v /\ win'[w].msgs[1] # 0 =>
                             win'[w].msgs[1] =< d /\ (Alone(w)' => win'[w].msgs[1] = d)
    BY <1>1 DEF QueueAt
  <2>1. CASE v # q
    <3>1. queue'[v] = queue[v] /\ \A w \in Window : win[w].use = v => w # u
      BY <1>10, <2>1 DEF q
    <3> QED BY <1>9, <1>11, <1>21, <3>1 DEF QueueAt
  <2>2. CASE v = q
    <3>1. s[Len(s)].n = d
      BY <1>1, <1>21, <2>2 DEF QueueAt, s
    <3>2. queue'[v] # <<>> => queue'[v][Len(queue'[v])].n = d
      BY <1>10, <1>13, <2>2, <3>1
    <3>3. ASSUME queue'[v] = <<>>, NEW w \in Window, win'[w].use = v, win'[w].msgs[1] # 0
          PROVE  win'[w].msgs[1] =< d /\ (Alone(w)' => win'[w].msgs[1] = d)
      <4>1. n = d
        BY <1>10, <1>13, <2>2, <3>1, <3>3 DEF n
      <4>2. CASE w = u
        BY <1>7, <1>9, <4>1, <4>2
      <4>3. CASE w # u
        <5>1. win[w].use = q /\ win'[w].msgs = win[w].msgs /\ ~Alone(w)
          BY <1>9, <1>15, <2>2, <3>3, <4>3
        <5>2. n # 0
          <6>1. 1 \in 1 .. Len(s)
            BY <1>5
          <6> QED BY <1>3, <6>1 DEF OrderInv, QueueInv, s, n
        <5>3. win[w].msgs[1] < n /\ win[w].msgs[1] \in 0 .. MaxChats
          BY <1>2, <1>14, <1>16, <3>3, <5>1, <5>2 DEF Windows
        <5> QED BY <1>11, <4>1, <5>1, <5>3
      <4> QED BY <4>2, <4>3
    <3> QED BY <3>2, <3>3
  <2> QED BY <2>1, <2>2
<1> QED BY <1>17, <1>18, <1>19, <1>20, <1>21 DEF OrderKept, OrderInv

\* A chat is delivered to the queue of its group: the next, or, when the read has
\* failed, what is on the stack.
LEMMA DeliverOrder ==
  ASSUME ChatClientAssumption, TInv, OrderInv, Live, NEW h \in Gid, NEW c \in Chats, c.gid = h, DeliverChat(c),
         UNCHANGED <<mapping, win>>, c.n = 0 => ~Live', c.n # 0 => QueueAt(h, c.n - 1)
  PROVE  /\ OrderInv' /\ (c.n # 0 => QueueAt(h, c.n)')
         /\ \A g \in Gid, d \in Nat : g # h /\ QueueAt(g, d) => QueueAt(g, d)'
<1>1. /\ win \in [Window -> Windows] /\ queue \in [Window -> Seq(Chats)]
      /\ \A g \in Gid : mapping[g] \in Window \cup {NoWindow}
  BY DEF TInv, WindowType
<1>2. \A w \in Window : Alone(w)' <=> Alone(w)
  BY DEF Alone
<1>3. NoWindow \notin Window /\ c.n \in Nat
  BY DEF NoWindow, Window, Chats, ChatClientAssumption
<1>4. CASE mapping[h] = NoWindow
  <2>1. queue' = queue
    BY <1>4 DEF DeliverChat
  <2>2. OrderKept
    BY <2>1, SameOrder
  <2>3. c.n # 0 => QueueAt(h, c.n)'
    BY <1>3, <1>4 DEF QueueAt
  <2> QED BY <2>2, <2>3 DEF OrderKept
<1>5. CASE mapping[h] # NoWindow
  <2> DEFINE q == mapping[h]
             s == queue[q]
  <2>1. q \in Window /\ s \in Seq(Chats) /\ queue' = [queue EXCEPT ![q] = Append(s, c)]
    BY <1>1, <1>5 DEF DeliverChat
  <2>2. queue'[q] = Append(s, c) /\ \A v \in Window : v # q => queue'[v] = queue[v]
    BY <1>1, <2>1
  <2>3. \A g \in Gid : g # h => mapping[g] # q
    BY <1>5 DEF OrderInv, FrameInv
  <2>4. InOrder(s) /\ \A i \in 1 .. Len(s) : s[i].n # 0
    BY <2>1 DEF OrderInv, QueueInv
  <2>5. c.n # 0 => /\ s # <<>> => s[Len(s)].n = c.n - 1
                   /\ s = <<>> => \A w \in Window : win[w].use = q /\ win[w].msgs[1] # 0 =>
                                     win[w].msgs[1] =< c.n - 1 /\ (Alone(w) => win[w].msgs[1] = c.n - 1)
    BY <2>1 DEF QueueAt
  <2>6. win[q].pc # "none"
    BY <1>5 DEF OrderInv, FrameInv
  <2> HIDE DEF q, s
  <2>7. /\ Len(s) \in Nat /\ Len(Append(s, c)) = Len(s) + 1 /\ Append(s, c)[Len(s) + 1] = c
        /\ \A i \in 1 .. Len(s) : Append(s, c)[i] = s[i]
    BY <2>1, AppendFacts
  <2>8. InOrder(Append(s, c))
    <3>1. s # <<>> /\ c.n # 0 => c.n = s[Len(s)].n + 1
      BY <1>3, <2>5
    <3> QED BY <2>1, <2>4, <3>1, InOrderAppend
  <2>9. FrameInv'
    <3>1. \A w \in Window : win[w].pc = "none" => queue'[w] = <<>>
      BY <2>2, <2>6 DEF OrderInv, FrameInv
    <3> QED BY <3>1 DEF OrderInv, FrameInv
  <2>10. QueueInv'
    <3>1. \A v \in Window : InOrder(queue'[v])
      BY <2>2, <2>8 DEF OrderInv, QueueInv
    <3>2. ASSUME Live', NEW v \in Window, NEW i \in 1 .. Len(queue'[v]) PROVE queue'[v][i].n # 0
      <4>1. CASE v # q
        BY <2>2, <3>2, <4>1 DEF OrderInv, QueueInv
      <4>2. CASE v = q
        <5>1. i \in 1 .. Len(s) + 1 /\ queue'[v][i] = Append(s, c)[i]
          BY <2>2, <2>7, <3>2, <4>2
        <5>2. CASE i = Len(s) + 1
          BY <2>7, <3>2, <5>1, <5>2
        <5>3. CASE i \in 1 .. Len(s)
          BY <2>4, <2>7, <5>1, <5>3
        <5> QED BY <2>7, <5>1, <5>2, <5>3
      <4> QED BY <4>1, <4>2
    <3> QED BY <3>1, <3>2 DEF QueueInv
  <2>11. HeadInv'
    <3> SUFFICES ASSUME NEW w \in Window, NEW v \in Window,
                        win[w].use = v, win[w].msgs[1] # 0, queue'[v] # <<>>, queue'[v][1].n # 0
                 PROVE  win[w].msgs[1] < queue'[v][1].n /\ (Alone(w) => queue'[v][1].n = win[w].msgs[1] + 1)
      BY <1>2 DEF HeadInv
    <3>1. CASE v # q
      BY <2>2, <3>1 DEF OrderInv, HeadInv
    <3>2. CASE v = q /\ s # <<>>
      <4>1. 1 \in 1 .. Len(s)
        <5>1. Len(s) \in Nat \ {0}
          BY <2>1, <3>2, TailFacts
        <5> QED BY <5>1
      <4>2. queue'[v][1] = s[1]
        BY <2>2, <2>7, <3>2, <4>1
      <4> QED BY <3>2, <4>2 DEF OrderInv, HeadInv, s
    <3>3. CASE v = q /\ s = <<>>
      <4>1. Len(s) = 0
        BY <3>3, EmptySeq
      <4>2. queue'[v][1] = c
        BY <2>2, <2>7, <3>3, <4>1
      <4>3. win[w].msgs[1] =< c.n - 1 /\ (Alone(w) => win[w].msgs[1] = c.n - 1)
        BY <2>5, <3>3, <4>2
      <4>4. win[w].msgs[1] \in Nat
        <5>1. win[w].msgs \in [1 .. NUMBER_OF_MSGS -> 0 .. MaxChats] /\ 1 \in 1 .. NUMBER_OF_MSGS
          BY <1>1 DEF Windows, ChatClientAssumption
        <5> QED BY <5>1 DEF ChatClientAssumption
      <4> QED BY <1>3, <4>2, <4>3, <4>4
    <3> QED BY <3>1, <3>2, <3>3
  <2>12. ShownInOrder'
    BY DEF OrderInv, ShownInOrder
  <2>13. c.n # 0 => QueueAt(h, c.n)'
    <3>1. Append(s, c) # <<>>
      BY <2>1, AppendProperties
    <3>2. queue'[q][Len(queue'[q])].n = c.n /\ queue'[q] # <<>>
      BY <2>2, <2>7, <3>1
    <3> QED BY <3>2 DEF QueueAt, q
  <2>14. ASSUME NEW g \in Gid, NEW d \in Nat, g # h, QueueAt(g, d) PROVE QueueAt(g, d)'
    BY <1>2, <2>2, <2>3, <2>14 DEF QueueAt
  <2> QED BY <2>9, <2>10, <2>11, <2>12, <2>13, <2>14 DEF OrderInv
<1> QED BY <1>4, <1>5

\* A reader that has come to its end stays there.
LEMMA LiveStep ==
  ASSUME ChatClientAssumption, TInv, [Next]_vars
  PROVE  Live' => Live
<1>1. CASE Main \/ WriteOut \/ \E w \in Window : Win(w)
  BY <1>1, ClientStep DEF ConnStep, Live
<1>2. CASE ReadPacket \/ ReadBlock \/ ReadFails
  BY <1>2 DEF ReadPacket, ReadBlock, ReadFails, Live
<1>3. CASE ReadEnd
  BY <1>3 DEF ReadEnd, Live, TInv, ReaderType
<1>4. CASE Server
  BY <1>4 DEF Server, ServerTake, ServerSend, ServerInvite, ServerChat, ServerElsewhere, ServerForget, ServerClose, client, Live
<1>5. CASE UNCHANGED vars
  BY <1>5 DEF vars, client, wire, Live
<1> QED BY <1>1, <1>2, <1>3, <1>4, <1>5 DEF Next, Read

\* What is sent goes on with the numbers.
LEMMA NumberedKept ==
  ASSUME ChatClientAssumption, TInv, [Next]_vars, ~ReadPacket, ~ReadBlock,
         NEW g \in Gid, NEW d \in Nat, Numbered(fromServer, g, d, said[g])
  PROVE  Numbered(fromServer', g, d, said'[g])
<1>1. CASE fromServer' = fromServer /\ said' = said
  BY <1>1
<1>2. ASSUME NEW q \in Got, Emits(q) PROVE Numbered(fromServer', g, d, said'[g])
  <2>1. fromServer \in Seq(Got) /\ said \in [Gid -> 0 .. MaxChats] /\ said[g] \in Nat
    BY DEF TInv, WireType, ServerType, ChatClientAssumption
  <2>2. fromServer' = Append(fromServer, q)
    BY <1>2 DEF Emits
  <2>3. NextOf(q, g, said[g])
    BY <1>2 DEF Emits, NextOf, ChatOf
  <2>4. said'[g] = IF ChatOf(q, g) THEN said[g] + 1 ELSE said[g]
    BY <1>2, <2>1 DEF Emits, ChatOf
  <2>5. Numbered(Append(fromServer, q), g, d, IF ChatOf(q, g) THEN said[g] + 1 ELSE said[g])
    BY <2>1, <2>3, NumberedAppend
  <2> QED BY <2>2, <2>4, <2>5
<1>3. CASE Main \/ WriteOut \/ \E w \in Window : Win(w)
  BY <1>1, <1>3, ClientStep
<1>4. CASE ReadEnd \/ ReadFails
  BY <1>1, <1>4 DEF ReadEnd, ReadFails, wire, server
<1>5. CASE Server
  BY <1>1, <1>2, <1>5, ServerEmits
<1>6. CASE UNCHANGED vars
  BY <1>1, <1>6 DEF vars, wire, server
<1> QED BY <1>3, <1>4, <1>5, <1>6 DEF Next, Read

LEMMA InitOrder ==
  ASSUME ChatClientAssumption, Init
  PROVE  OrderInv /\ CountInv
<1>1. /\ \A g \in Gid : mapping[g] = NoWindow
      /\ \A w \in Window : /\ queue[w] = <<>> /\ win[w].pc = "none" /\ win[w].use = NoWindow
                            /\ \A i \in 1 .. NUMBER_OF_MSGS : win[w].msgs[i] = 0
  BY DEF Init
<1>2. NoWindow \notin Window
  BY DEF NoWindow, Window
<1>3. FrameInv
  BY <1>1 DEF FrameInv
<1>4. QueueInv
  <2>1. \A w \in Window : Len(queue[w]) = 0
    BY <1>1, EmptySeq
  <2> QED BY <2>1 DEF QueueInv, InOrder
<1>5. HeadInv
  BY <1>1 DEF HeadInv
<1>6. ShownInOrder
  <2>1. \A i \in 1 .. NUMBER_OF_MSGS - 1 : i \in 1 .. NUMBER_OF_MSGS
    BY DEF ChatClientAssumption
  <2> QED BY <1>1, <2>1 DEF ShownInOrder
<1>7. ASSUME NEW g \in Gid PROVE Numbered(fromServer, g, 0, said[g]) /\ QueueAt(g, 0)
  <2>1. fromServer = <<>> /\ said[g] = 0
    BY DEF Init
  <2>2. QueueAt(g, 0)
    BY <1>1, <1>2 DEF QueueAt
  <2> QED BY <2>1, <2>2, NumberedEmpty
<1> QED BY <1>3, <1>4, <1>5, <1>6, <1>7 DEF OrderInv, CountInv

\* A step that neither reads a piece nor delivers a chat.
LEMMA KeptCount ==
  ASSUME ChatClientAssumption, TInv, CountInv, [Next]_vars, ~ReadPacket, ~ReadBlock, OrderKept
  PROVE  OrderInv' /\ CountInv'
<1>1. ASSUME NEW g \in Gid PROVE \E d \in Nat : Numbered(fromServer', g, d, said'[g]) /\ QueueAt(g, d)'
  <2>1. PICK d \in Nat : Numbered(fromServer, g, d, said[g]) /\ QueueAt(g, d)
    BY DEF CountInv
  <2>2. Numbered(fromServer', g, d, said'[g])
    BY <2>1, NumberedKept
  <2>3. QueueAt(g, d)'
    BY <2>1 DEF OrderKept
  <2> QED BY <2>2, <2>3
<1> QED BY <1>1 DEF OrderKept, CountInv

\* A piece is read.
LEMMA ReadCount ==
  ASSUME ChatClientAssumption, TInv, OrderInv, CountInv, fromServer # <<>>, fromServer' = Tail(fromServer), said' = said,
         \/ OrderKept /\ (~Live' \/ Head(fromServer).cmd # "chat")
         \/ Live /\ Head(fromServer).cmd = "chat" /\ DeliverChat(Head(fromServer)) /\ UNCHANGED <<mapping, win>>
  PROVE  OrderInv' /\ CountInv'
<1>0. fromServer \in Seq(Got) /\ Head(fromServer) \in Got
  BY TailFacts DEF TInv, WireType
<1>1. PICK p \in Got : p = Head(fromServer)
  BY <1>0
<1>2. ASSUME NEW g \in Gid
      PROVE  \E d \in Nat : /\ QueueAt(g, d)
                            /\ Numbered(fromServer', g, IF ChatOf(p, g) THEN d + 1 ELSE d, said'[g])
                            /\ ChatOf(p, g) => p.n = d + 1
  <2>1. PICK d \in Nat : Numbered(fromServer, g, d, said[g]) /\ QueueAt(g, d)
    BY DEF CountInv
  <2>2. /\ Numbered(Tail(fromServer), g, IF ChatOf(p, g) THEN d + 1 ELSE d, said[g])
        /\ ChatOf(p, g) => p.n = d + 1
    BY <1>0, <1>1, <2>1, NumberedTail
  <2> QED BY <2>1, <2>2
<1>3. CASE OrderKept /\ (~Live' \/ p.cmd # "chat")
  <2>1. ASSUME NEW g \in Gid PROVE \E d \in Nat : Numbered(fromServer', g, d, said'[g]) /\ QueueAt(g, d)'
    <3>1. PICK d \in Nat : /\ QueueAt(g, d)
                           /\ Numbered(fromServer', g, IF ChatOf(p, g) THEN d + 1 ELSE d, said'[g])
      BY <1>2
    <3>2. CASE p.cmd # "chat"
      <4>1. Numbered(fromServer', g, d, said'[g])
        BY <3>1, <3>2 DEF ChatOf
      <4> QED BY <1>3, <3>1, <4>1 DEF OrderKept
    <3>3. CASE ~Live'
      <4>1. PICK e \in Nat : Numbered(fromServer', g, e, said'[g])
        <5>1. (IF ChatOf(p, g) THEN d + 1 ELSE d) \in Nat
          OBVIOUS
        <5> QED BY <3>1, <5>1
      <4>2. QueueAt(g, e)'
        BY <3>3 DEF QueueAt
      <4> QED BY <4>1, <4>2
    <3> QED BY <1>3, <3>2, <3>3
  <2> QED BY <1>3, <2>1 DEF OrderKept, CountInv
<1>4. CASE Live /\ p.cmd = "chat" /\ DeliverChat(p) /\ UNCHANGED <<mapping, win>>
  <2>1. PICK h \in Gid : p \in Chats /\ p.gid = h
    BY <1>4 DEF Got, Chats, Answers
  <2>2. PICK d \in Nat : /\ QueueAt(h, d) /\ p.n = d + 1 /\ Numbered(fromServer', h, d + 1, said'[h])
    BY <1>2, <1>4, <2>1 DEF ChatOf
  <2>3. p.n # 0 /\ p.n - 1 = d /\ p.n \in Nat
    <3>1. p.n = d + 1
      BY <2>2
    <3> QED BY ONLY <3>1, d \in Nat
  <2>4. /\ OrderInv' /\ QueueAt(h, p.n)'
        /\ \A g \in Gid, b \in Nat : g # h /\ QueueAt(g, b) => QueueAt(g, b)'
    BY <1>4, <2>1, <2>2, <2>3, DeliverOrder
  <2>5. ASSUME NEW g \in Gid PROVE \E b \in Nat : Numbered(fromServer', g, b, said'[g]) /\ QueueAt(g, b)'
    <3>1. CASE g = h
      BY <2>2, <2>3, <2>4, <3>1
    <3>2. CASE g # h
      <4>1. PICK b \in Nat : QueueAt(g, b) /\ Numbered(fromServer', g, b, said'[g])
        BY <1>2, <2>1, <3>2 DEF ChatOf
      <4> QED BY <2>4, <3>2, <4>1
    <3> QED BY <3>1, <3>2
  <2> QED BY <2>4, <2>5 DEF CountInv
<1> QED BY <1>1, <1>3, <1>4

LEMMA NextOrder ==
  ASSUME ChatClientAssumption, TInv, OrderInv, CountInv, [Next]_vars
  PROVE  OrderInv' /\ CountInv'
<1>1. Live' => Live
  BY LiveStep
<1>2. win \in [Window -> Windows]
  BY DEF TInv, WindowType
<1>3. CASE UNCHANGED <<mapping, queue, win>> /\ ~ReadPacket /\ ~ReadBlock
  BY <1>1, <1>3, SameOrder, KeptCount
<1>4. ASSUME NEW h \in Gid, create_new_group(h), queue' = queue PROVE OrderKept
  BY <1>1, <1>4, CreateOrder
<1>5. CASE ReadPacket
  <2>1. /\ fromServer # <<>> /\ fromServer' = Tail(fromServer) /\ said' = said /\ Handle(Head(fromServer))
        /\ reader.pc = "read"
    BY <1>5 DEF ReadPacket, server
  <2>2. Live
    BY <2>1 DEF Live
  <2>3. Head(fromServer) \in Got
    BY <2>1, TailFacts DEF TInv, WireType
  <2>4. CASE Head(fromServer).cmd = "chat"
    BY <2>1, <2>2, <2>4, ReadCount DEF Handle
  <2>5. CASE Head(fromServer).cmd # "chat"
    <3>1. CASE Head(fromServer).cmd = "create"
      <4>1. create_new_group(Head(fromServer).gid) /\ queue' = queue
        BY <2>1, <3>1 DEF Handle
      <4>2. PICK h \in Gid : h = Head(fromServer).gid
        BY <2>3, <3>1 DEF Got, Chats
      <4>3. OrderKept
        BY <1>4, <4>1, <4>2
      <4> QED BY <2>1, <2>5, <4>3, ReadCount
    <3>2. CASE Head(fromServer).cmd # "create"
      <4>1. UNCHANGED <<mapping, queue, win>>
        BY <2>1, <2>5, <3>2 DEF Handle
      <4>2. OrderKept
        BY <1>1, <4>1, SameOrder
      <4> QED BY <2>1, <2>5, <4>2, ReadCount
    <3> QED BY <3>1, <3>2
  <2> QED BY <2>4, <2>5
<1>6. CASE ReadBlock
  <2>1. /\ fromServer # <<>> /\ fromServer' = Tail(fromServer) /\ said' = said /\ UNCHANGED <<mapping, queue, win>>
        /\ Head(fromServer).cmd # "block" => reader' = [pc |-> "astray", todo |-> 0]
    BY <1>6 DEF ReadBlock, server
  <2>2. OrderKept
    BY <1>1, <2>1, SameOrder
  <2>3. ~Live' \/ Head(fromServer).cmd # "chat"
    BY <2>1 DEF Live
  <2> QED BY <2>1, <2>2, <2>3, ReadCount
<1>7. CASE ReadEnd
  BY <1>3, <1>7 DEF ReadEnd, ReadPacket, ReadBlock
<1>8. CASE ReadFails
  <2>1. ~ReadPacket /\ ~ReadBlock
    BY <1>8 DEF ReadFails, ReadPacket, ReadBlock
  <2>2. conn = "reset" /\ conn' = "eof" /\ fromServer' = <<>>
    BY <1>8 DEF ReadFails
  <2>3. ~Live'
    BY <2>2 DEF Live
  <2>4. CASE UNCHANGED <<mapping, queue, win>>
    BY <1>3, <2>1, <2>4
  <2>5. ASSUME NEW h \in Gid, create_new_group(h), queue' = queue PROVE OrderInv' /\ CountInv'
    BY <1>4, <2>1, <2>5, KeptCount
  <2>6. ASSUME NEW h \in Gid, DeliverChat(Chat(h, 0)), UNCHANGED <<mapping, win>>, reader.pc = "read"
        PROVE  OrderInv' /\ CountInv'
    <3>1. Live
      BY <2>2, <2>6 DEF Live
    <3>2. Chat(h, 0) \in Chats /\ Chat(h, 0).n = 0 /\ Chat(h, 0).gid = h
      BY DEF Chat, Chats, ChatClientAssumption
    <3>3. OrderInv'
      BY <2>3, <2>6, <3>1, <3>2, DeliverOrder
    <3>4. \A g \in Gid, d \in Nat : QueueAt(g, d)'
      BY <2>3 DEF QueueAt
    <3> QED BY <2>1, <3>3, <3>4, KeptCount DEF OrderKept
  <2>7. \/ UNCHANGED <<mapping, queue, win>>
        \/ \E h \in Gid : create_new_group(h) /\ queue' = queue
        \/ reader.pc = "read" /\ \E h \in Gid : DeliverChat(Chat(h, 0)) /\ UNCHANGED <<mapping, win>>
    BY <1>8 DEF ReadFails, Handle, Chat, Packet
  <2> QED BY <2>4, <2>5, <2>6, <2>7
<1>9. CASE Join
  <2>1. create_new_group(main.gid) /\ queue' = queue /\ reader' = reader /\ fromServer' = fromServer
    BY <1>9 DEF Join, wire
  <2>2. PICK h \in Gid : h = main.gid
    BY <1>9 DEF Join, TInv, InputType
  <2>3. OrderKept
    BY <1>4, <2>1, <2>2
  <2> QED BY <1>5, <1>6, <2>3, KeptCount
<1>10. CASE Main /\ ~Join
  <2>1. UNCHANGED <<mapping, queue, win>>
    BY <1>10 DEF Main, CheckRequests, Ask, LineRest, LineCommand, LineSendFile, LineBlock
  <2> QED BY <1>3, <1>5, <1>6, <2>1
<1>11. CASE WriteOut \/ Server \/ UNCHANGED vars
  <2>1. UNCHANGED <<mapping, queue, win>>
    BY <1>11 DEF WriteOut, Server, ServerTake, ServerSend, ServerInvite, ServerChat, ServerElsewhere, ServerForget, ServerClose, client, vars
  <2> QED BY <1>3, <1>5, <1>6, <2>1
<1>12. ASSUME NEW u \in Window, Win(u) PROVE OrderInv' /\ CountInv'
  <2>1. ASSUME NEW x, win' = [win EXCEPT ![u] = x], UNCHANGED <<mapping, queue>>,
               x.use = win[u].use, x.msgs = win[u].msgs, x.gid = win[u].gid,
               x.pc \notin {"none", "new"}, win[u].pc \notin {"none", "new"}
        PROVE  OrderKept
    <3>1. \A w \in Window : win'[w] = IF w = u THEN x ELSE win[w]
      BY <1>2, <2>1
    <3>2. \A w \in Window : /\ win'[w].use = win[w].use /\ win'[w].msgs = win[w].msgs /\ win'[w].gid = win[w].gid
                            /\ (win'[w].pc = "none" <=> win[w].pc = "none") /\ (win'[w].pc = "new" <=> win[w].pc = "new")
      BY <2>1, <3>1
    <3> QED BY <1>1, <2>1, <3>2, SameOrder
  <2>2. CASE WindowStart(u)
    BY <1>1, <1>5, <1>6, <2>2, StartOrder, KeptCount
  <2>3. CASE WindowShow(u)
    BY <1>1, <1>5, <1>6, <2>3, ShowOrder, KeptCount
  <2>4. CASE WindowLine(u)
    <3>1. UNCHANGED <<mapping, queue, win>>
      BY <2>4 DEF WindowLine
    <3> QED BY <1>3, <1>5, <1>6, <3>1
  <2>5. CASE WindowSendFile(u)
    <3> DEFINE x == [win[u] EXCEPT !.pc = "file"]
    <3>1. win' = [win EXCEPT ![u] = x] /\ UNCHANGED <<mapping, queue>> /\ win[u].pc = "run"
      BY <2>5 DEF WindowSendFile
    <3>2. x.use = win[u].use /\ x.msgs = win[u].msgs /\ x.gid = win[u].gid /\ x.pc = "file"
      BY <1>2 DEF Windows
    <3> QED BY <1>5, <1>6, <2>1, <3>1, <3>2, KeptCount
  <2>6. CASE WindowBlock(u)
    <3> DEFINE x == IF MoreBlocks(win[u].done + 1) THEN [win[u] EXCEPT !.done = @ + 1]
                    ELSE [win[u] EXCEPT !.pc = "run", !.done = 0]
    <3>1. win' = [win EXCEPT ![u] = x] /\ UNCHANGED <<mapping, queue>> /\ win[u].pc = "file"
      BY <2>6 DEF WindowBlock
    <3>2. x.use = win[u].use /\ x.msgs = win[u].msgs /\ x.gid = win[u].gid /\ x.pc \in {"file", "run"}
      BY <1>2, <3>1 DEF Windows
    <3> QED BY <1>5, <1>6, <2>1, <3>1, <3>2, KeptCount
  <2>7. CASE WindowEsc(u)
    <3> DEFINE x == [win[u] EXCEPT !.pc = "esc"]
    <3>1. win' = [win EXCEPT ![u] = x] /\ UNCHANGED <<mapping, queue>> /\ win[u].pc = "run"
      BY <2>7 DEF WindowEsc
    <3>2. x.use = win[u].use /\ x.msgs = win[u].msgs /\ x.gid = win[u].gid /\ x.pc = "esc"
      BY <1>2 DEF Windows
    <3> QED BY <1>5, <1>6, <2>1, <3>1, <3>2, KeptCount
  <2> QED BY <1>12, <2>2, <2>3, <2>4, <2>5, <2>6, <2>7 DEF Win
<1> QED BY <1>5, <1>6, <1>7, <1>8, <1>9, <1>10, <1>11, <1>12 DEF Next, Read
-----------------------------------------------------------------------------
(* The theorems *)

CInv == TInv /\ ReadInv /\ WriteInv /\ MemberInv /\ AcceptInv /\ OrderInv /\ CountInv

\* The inductive invariant of the client's threads.
THEOREM ClientInvariance == Spec => []CInv
<1>1. Init => CInv
  BY ChatClientAssumption, InitTInv, InitReadInv, InitWriteInv, InitMemberInv, InitAcceptInv, InitOrder DEF CInv
<1>2. CInv /\ [Next]_vars => CInv'
  <2> SUFFICES ASSUME CInv, [Next]_vars PROVE CInv'
    OBVIOUS
  <2> USE ChatClientAssumption
  <2>1. TInv' /\ ReadInv' /\ WriteInv'
    BY NextTInv, NextReadInv, NextWriteInv DEF CInv
  <2>2. MemberInv' /\ AcceptInv'
    BY NextMemberInv, NextAcceptInv DEF CInv
  <2>3. OrderInv' /\ CountInv'
    BY NextOrder DEF CInv
  <2> QED BY <2>1, <2>2, <2>3 DEF CInv
<1> QED BY <1>1, <1>2, PTL DEF Spec

\* The state of the client, its connection and what it knows of the server keeps
\* its type, and the queues and counters their bounds.
THEOREM ClientTypeCorrect == Spec => []TypeOK
<1>1. CInv => TypeOK
  <2> SUFFICES ASSUME TInv PROVE TypeOK
    BY DEF CInv
  <2>1. Queued \subseteq Piece /\ Sent \subseteq Piece /\ Got \subseteq Chats \cup Answers
    BY DEF Queued, Sent, Got
  <2>2. out \in Seq(Piece) /\ toServer \in Seq(Piece) /\ fromServer \in Seq(Chats \cup Answers)
    BY <2>1, SeqMonotonic DEF TInv, WireType
  <2> QED BY <2>2 DEF TInv, InputType, ReaderType, WindowType, WireType, ServerType, TypeOK, Windows, Srv
<1> QED BY <1>1, ClientInvariance, PTL

\* server_read_function finds a packet where it expects one, whatever the server's
\* threads send, and receive_to_file takes a packet for a block only after another
\* thread of the server has written into a download; the server loses its place
\* only after two threads of the client have written at once.
THEOREM StreamsCorrect == Spec => []StreamsParsed
<1>1. CInv => StreamsParsed
  <2> SUFFICES ASSUME CInv PROVE StreamsParsed
    OBVIOUS
  <2>1. lost => mixed
    BY DEF CInv, WriteInv
  <2>2. reader.pc = "read" /\ fromServer # <<>> => Head(fromServer).cmd # "block"
    BY ChatClientAssumption, NextPiece DEF CInv
  <2>3. ASSUME reader.pc = "astray" PROVE srv.cut
    <3>1. PICK b \in Marks : Parse(fromServer, Marks, Astray, b)
      BY <2>3 DEF CInv, ReadInv, Reading
    <3>2. Astray \in Marks
      BY <3>1 DEF Parse
    <3> QED BY <3>2, ChatClientAssumption DEF Marks, Astray
  <2> QED BY <2>1, <2>2, <2>3, Zenon DEF StreamsParsed
<1> QED BY <1>1, ClientInvariance, PTL

\* A chat finds no queue only while the input thread is between the acceptance and
\* create_new_group, or the packet that creates the group is in front of it, or the
\* account is in the group through another connection or an earlier session.
THEOREM DroppedCorrect == Spec => []DroppedOnlyUnopened
<1>1. CInv => DroppedOnlyUnopened
  <2> SUFFICES ASSUME CInv, NEW i \in DOMAIN fromServer, fromServer[i].cmd = "chat",
                      mapping[fromServer[i].gid] = NoWindow
               PROVE  \/ main.pc = "join" /\ main.gid = fromServer[i].gid
                      \/ fromServer[i].gid \in srv.other
                      \/ \E j \in 1 .. i - 1 : fromServer[j] = Packet("create", fromServer[i].gid)
    BY DEF DroppedOnlyUnopened
  <2>1. i \in 1 .. Len(fromServer) /\ fromServer[i] \in Got
    BY SeqFacts DEF CInv, TInv, WireType
  <2>2. PICK g \in Gid : g = fromServer[i].gid
    BY <2>1 DEF Got, Chats, Answers
  <2>3. g \in srv.other \/ Opening(g) \/ Before(fromServer, i - 1, Packet("create", g))
    BY <2>1, <2>2 DEF CInv, MemberInv, ChatOf
  <2> QED BY <2>2, <2>3 DEF Opening, Before
<1> QED BY <1>1, ClientInvariance, PTL

\* A chat entered in a window reaches the server after the create or the acceptance
\* that opened the window.
THEOREM AfterJoinCorrect == Spec => []WindowChatAfterJoin
<1>1. CInv => WindowChatAfterJoin
  <2> SUFFICES ASSUME CInv, toServer # <<>>, conn = "open", ~lost, Head(toServer).cmd = "chat"
               PROVE  Head(toServer).gid \in srv.own
    BY DEF WindowChatAfterJoin
  <2>1. Head(toServer) = toServer[1] /\ Head(toServer) \in Sent /\ Len(toServer) \in Nat \ {0}
    BY TailFacts DEF CInv, TInv, WireType
  <2>2. PICK g \in Gid : g = Head(toServer).gid
    BY <2>1 DEF Sent
  <2>3. 1 \in 1 .. Len(toServer) /\ 1 - 1 = 0
    BY <2>1
  <2>4. g \in srv.own \/ Before(toServer, 0, Packet("join", g))
    BY <2>1, <2>2, <2>3 DEF CInv, AcceptInv, ChatOf
  <2> QED BY <2>2, <2>4, BeforeEmpty
<1> QED BY <1>1, ClientInvariance, PTL

\* roll_messages and the queues keep the chats of a group in order in every window,
\* without a gap where no other window takes from the queue.
THEOREM ShownCorrect == Spec => []ShownInOrder
<1>1. CInv => ShownInOrder
  BY DEF CInv, OrderInv
<1> QED BY <1>1, ClientInvariance, PTL
=============================================================================
