------------------------------ MODULE Accounts -----------------------------
(***************************************************************************)
(* The accounts in credential.txt and the list of active users that        *)
(* ACTIVE_LIST passes through active_name.txt: create_user, match_user_pw, *)
(* find_uid, find_username and get_active_users_str of chat-server.c, run  *)
(* by threads that share both files without a lock.                        *)
(*                                                                         *)
(* stdio reads a short file at the first fgets and writes it at fclose, so *)
(* a reading is one step and a writing is one step at the end.  Names,     *)
(* passwords and active_name.txt are sequences of characters, because the  *)
(* code compares by prefix and overwrites in place.  A request that        *)
(* changes nothing (a name that is taken, a wrong password, an open that   *)
(* fails where the code looks at the result) is no step.  Connections and  *)
(* files of the groups take descriptors too, so any open may fail.         *)
(***************************************************************************)
EXTENDS Integers, Sequences, FiniteSets, SequencesExt

CONSTANTS Thread,
          Letter,
          Name, Pw,        \* what users type
          FirstAccounts,   \* credential.txt at the start
          NULL,
          ListMax,         \* characters that fgets(dest, 1024, ..) keeps of a list
          MaxOpen,         \* limit of the system: files the server can have open
          MaxAccounts      \* bound: lines of credential.txt

\* The lines are numbered, and no name begins with an earlier one: so is the
\* credential.txt of the repository, and so create_user leaves it.
WellKept(lines) ==
  \A i \in DOMAIN lines :
    /\ lines[i].uid = i
    /\ \A j \in 1 .. i - 1 : ~IsPrefix(lines[j].name, lines[i].name)

ASSUME AccountsAssumption ==
  /\ IsFiniteSet(Thread)
  /\ "comma" \in Letter /\ Name \subseteq Seq(Letter) /\ Pw \subseteq Seq(Letter) /\ NULL \notin Name
  /\ FirstAccounts \in Seq([uid : 1 .. MaxAccounts, name : Name, pw : Pw])
  /\ WellKept(FirstAccounts)
  /\ ListMax \in Nat /\ MaxOpen \in Nat /\ MaxAccounts \in Nat

VARIABLES
  up,                \* the server has not died
  cred,              \* the lines of credential.txt
  list,              \* the characters of active_name.txt
  leaked,            \* files that find_username has left open
  online,            \* active_sockets: uid -> data->username
  user,              \* per thread: data->uid
  pc, job,           \* per thread: its step, and its registers
  raced              \* history: two create_user ran at once

vars == <<up, cred, list, leaked, online, user, pc, job, raced>>

Uid == 1 .. MaxAccounts

\* The registers of a handler: the account to append with its uid; the text to
\* write and the one to send; history: whether no other thread was writing or
\* reading active_name.txt meanwhile, and the texts written to it meanwhile.
Idle == [uid |-> 0, name |-> NULL, pw |-> NULL, text |-> <<>>, sent |-> <<>>,
         alone |-> TRUE, wrote |-> {}]

Init ==
  /\ up = TRUE
  /\ cred = FirstAccounts /\ list = <<>> /\ leaked = 0
  /\ online = [u \in Uid |-> NULL] /\ user = [t \in Thread |-> NULL]
  /\ pc = [t \in Thread |-> "idle"] /\ job = [t \in Thread |-> Idle]
  /\ raced = FALSE
----------------------------------------------------------------------------
(* The credential file *)

\* The threads with a file open; those of find_username stay open for good.  Where
\* these alone make up the limit, no file can be opened.
Holding == {t \in Thread : pc[t] \in {"append", "walk", "flush"}}
CanOpen == leaked + Cardinality(Holding) < MaxOpen

ERR_GENERIC == -10
First(S) == IF S = {} THEN 0 ELSE CHOOSE i \in S : \A j \in S : i <= j
UidOf(line) == IF line = 0 THEN ERR_GENERIC ELSE cred[line].uid

\* strncmp( username, uname, strlen(uname) ): the stored name begins the given.
Matches(name) == {i \in DOMAIN cred : IsPrefix(cred[i].name, name)}

find_uid(name) == UidOf(First(Matches(name)))
match_user_pw(name, pw) == UidOf(First({i \in Matches(name) : IsPrefix(cred[i].pw, pw)}))
find_username(uid) ==
  LET line == First({i \in DOMAIN cred : cred[i].uid = uid}) IN
  IF line = 0 THEN NULL ELSE cred[line].name

Goto(t, step, registers) ==
  /\ pc' = [pc EXCEPT ![t] = step]
  /\ job' = [job EXCEPT ![t] = registers]
Finish(t) == Goto(t, "idle", Idle)

\* A mistaken CreateRead that looks for the very name.
CreateReadExact(t, name, pw) ==
  /\ pc[t] = "idle" /\ CanOpen /\ Len(cred) < MaxAccounts
  /\ \A i \in DOMAIN cred : cred[i].name # name
  /\ Goto(t, "append", [Idle EXCEPT !.uid = Len(cred) + 1, !.name = name, !.pw = pw])
  /\ raced' = (raced \/ \E s \in Thread : pc[s] = "append")
  /\ UNCHANGED <<up, cred, list, leaked, online, user>>

\* create_user reads the file to its end and finds the name nowhere.
CreateRead(t, name, pw) ==
  /\ pc[t] = "idle" /\ CanOpen /\ Len(cred) < MaxAccounts
  /\ Matches(name) = {}
  /\ Goto(t, "append", [Idle EXCEPT !.uid = Len(cred) + 1, !.name = name, !.pw = pw])
  /\ raced' = (raced \/ \E s \in Thread : pc[s] = "append")
  /\ UNCHANGED <<up, cred, list, leaked, online, user>>

\* The new line goes to the end of the file as it is by then.
CreateAppend(t) ==
  /\ pc[t] = "append"
  /\ cred' = Append(cred, [uid |-> job[t].uid, name |-> job[t].name, pw |-> job[t].pw])
  /\ Finish(t)
  /\ UNCHANGED <<up, list, leaked, online, user, raced>>

\* A mistaken Login that does not look at what match_user_pw returns.
LoginUnchecked(t, name, pw) ==
  LET uid == match_user_pw(name, pw) IN
  /\ pc[t] = "idle" /\ CanOpen
  /\ user' = [user EXCEPT ![t] = uid]
  /\ online' = [online EXCEPT ![uid] = name]
  /\ UNCHANGED <<up, cred, list, leaked, pc, job, raced>>

\* USR_LOGIN that match_user_pw accepts: the name is kept as it was typed.
Login(t, name, pw) ==
  LET uid == match_user_pw(name, pw) IN
  /\ pc[t] = "idle" /\ CanOpen
  /\ uid # ERR_GENERIC
  /\ user' = [user EXCEPT ![t] = uid]
  /\ online' = [online EXCEPT ![uid] = name]
  /\ UNCHANGED <<up, cred, list, leaked, pc, job, raced>>

\* SEND_CHAT looks the sender's name up, and find_username does not close the
\* file; SEND_FILE does the same.
Chat(t) ==
  /\ pc[t] = "idle" /\ user[t] # NULL /\ CanOpen
  /\ leaked' = leaked + 1
  /\ UNCHANGED <<up, cred, list, online, user, pc, job, raced>>

\* The client leaves between two requests; another may come to the thread.
Depart(t) ==
  /\ pc[t] = "idle" /\ user[t] # NULL
  /\ online' = [online EXCEPT ![user[t]] = NULL]
  /\ user' = [user EXCEPT ![t] = NULL]
  /\ UNCHANGED <<up, cred, list, leaked, pc, job, raced>>
----------------------------------------------------------------------------
(* ACTIVE_LIST: get_active_users_str *)

Listing(t) == pc[t] \in {"walk", "flush", "read"}

\* A mistaken ListOpen with the mode "r+": the old text stays.
ListOpenKeeps(t) ==
  /\ pc[t] = "idle" /\ user[t] # NULL /\ CanOpen
  /\ pc' = [pc EXCEPT ![t] = "walk"]
  /\ job' = [s \in Thread |->
       IF s = t THEN [Idle EXCEPT !.alone = ~ \E o \in Thread : Listing(o)]
       ELSE IF Listing(s) THEN [job[s] EXCEPT !.alone = FALSE] ELSE job[s]]
  /\ UNCHANGED <<up, cred, list, leaked, online, user, raced>>

\* fopen( .., "w") empties the file.
ListOpen(t) ==
  /\ pc[t] = "idle" /\ user[t] # NULL /\ CanOpen
  /\ list' = <<>>
  /\ pc' = [pc EXCEPT ![t] = "walk"]
  /\ job' = [s \in Thread |->
       IF s = t THEN [Idle EXCEPT !.alone = ~ \E o \in Thread : Listing(o)]
       ELSE IF Listing(s) THEN [job[s] EXCEPT !.alone = FALSE] ELSE job[s]]
  /\ UNCHANGED <<up, cred, leaked, online, user, raced>>

\* hashmap_iterate with active_socket_walk: each name and a comma.
ListWalk(t) ==
  LET written == [u \in Uid |-> IF online[u] = NULL THEN <<>> ELSE online[u] \o <<"comma">>] IN
  /\ pc[t] = "walk"
  /\ Goto(t, "flush", [job[t] EXCEPT !.text = FlattenSeq(written)])
  /\ UNCHANGED <<up, cred, list, leaked, online, user, raced>>

\* fclose writes from the start of the file over what is there.
ListFlush(t) ==
  LET text == job[t].text IN
  /\ pc[t] = "flush"
  /\ list' = text \o SubSeq(list, Len(text) + 1, Len(list))
  /\ pc' = [pc EXCEPT ![t] = "read"]
  /\ job' = [s \in Thread |->
       IF Listing(s) THEN [job[s] EXCEPT !.wrote = @ \cup {text}] ELSE job[s]]
  /\ UNCHANGED <<up, cred, leaked, online, user, raced>>

\* The file is opened again, and fgets reads as much of it as dest can hold.
Cut(text) == IF Len(text) <= ListMax THEN text ELSE SubSeq(text, 1, ListMax)
ListRead(t) ==
  /\ pc[t] = "read" /\ CanOpen
  /\ Goto(t, "reply", [job[t] EXCEPT !.sent = Cut(list)])
  /\ UNCHANGED <<up, cred, list, leaked, online, user, raced>>

\* The client is sent what was read.
ListReply(t) ==
  /\ pc[t] = "reply"
  /\ Finish(t)
  /\ UNCHANGED <<up, cred, list, leaked, online, user, raced>>

\* The results of the two fopen are not looked at: if one fails, the server dies
\* of a null FILE.
ListDies(t) ==
  /\ pc[t] = "read" \/ (pc[t] = "idle" /\ user[t] # NULL)
  /\ up' = FALSE
  /\ UNCHANGED <<cred, list, leaked, online, user, pc, job, raced>>
----------------------------------------------------------------------------
Step(t) ==
  \/ \E name \in Name, pw \in Pw : CreateRead(t, name, pw) \/ Login(t, name, pw)
  \/ CreateAppend(t) \/ Chat(t) \/ Depart(t)
  \/ ListOpen(t) \/ ListWalk(t) \/ ListFlush(t) \/ ListRead(t) \/ ListReply(t) \/ ListDies(t)

Next == up /\ \E t \in Thread : Step(t)

Spec == Init /\ [][Next]_vars
----------------------------------------------------------------------------
(* Properties *)

\* The type of the state.
TypeOK ==
  /\ up \in BOOLEAN
  /\ cred \in Seq([uid : Uid, name : Name, pw : Pw])
  /\ leaked \in 0 .. MaxOpen
  /\ online \in [Uid -> Name \cup {NULL}] /\ user \in [Thread -> Uid \cup {NULL}]
  /\ pc \in [Thread -> {"idle", "append", "walk", "flush", "read", "reply"}]
  /\ \A t \in Thread :
       /\ job[t].uid \in Uid \cup {0} /\ job[t].alone \in BOOLEAN
       /\ job[t].name \in Name \cup {NULL} /\ job[t].pw \in Pw \cup {NULL}
  /\ raced \in BOOLEAN

\* Every line of credential.txt is a usable account: logging in with its name and
\* password (149-151) gives its uid, inviting its name (87) finds its uid, and
\* its uid is shown under its name (118).  Comparing by prefix does not spoil
\* this, because create_user refuses a name that begins with a stored one (181)
\* and lines are only appended; two create_user at once do.
AccountsUsable ==
  raced \/ \A i \in DOMAIN cred :
    /\ match_user_pw(cred[i].name, cred[i].pw) = cred[i].uid
    /\ find_uid(cred[i].name) = cred[i].uid
    /\ find_username(cred[i].uid) = cred[i].name

\* A client is sent the list that its own request has collected, as far as dest
\* holds it (217-227, 528-537).  If another thread was in get_active_users_str at
\* the same time, the client may be sent something else, but every character of it
\* stands where it stands in a list collected since the request began: never a
\* piece of an older list.
ListSent ==
  \A t \in Thread : pc[t] = "reply" =>
    /\ job[t].alone => job[t].sent = Cut(job[t].text)
    /\ \A i \in DOMAIN job[t].sent : \E text \in job[t].wrote :
         i \in DOMAIN text /\ job[t].sent[i] = text[i]
============================================================================
