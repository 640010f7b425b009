--------------------------- MODULE AccountsProofs --------------------------
(***************************************************************************)
(* Machine-checked proofs about credential.txt and active_name.txt (module *)
(* Accounts), for any names, passwords, threads and limits.                *)
(***************************************************************************)
EXTENDS Accounts, SequenceTheorems, FiniteSetTheorems, WellFoundedInduction, TLAPS

Text == Seq(Letter)
Registers == [uid : Uid \cup {0}, name : Name \cup {NULL}, pw : Pw \cup {NULL},
              text : Text, sent : Text, alone : BOOLEAN, wrote : SUBSET Text]

\* The types, with those of the texts and of what is about to be appended.
TypeInv ==
  /\ TypeOK
  /\ job \in [Thread -> Registers] /\ list \in Text
  /\ \A t \in Thread : pc[t] = "append" =>
       job[t].uid \in Uid /\ job[t].name \in Name /\ job[t].pw \in Pw

\* Until two create_user run at once, the file is well kept, and the one that
\* runs is about to keep it so.
CredInv ==
  /\ WellKept(cred)
  /\ \A t \in Thread, s \in Thread : pc[t] = "append" /\ pc[s] = "append" => t = s
  /\ \A t \in Thread : pc[t] = "append" =>
       /\ job[t].uid = Len(cred) + 1
       /\ \A j \in DOMAIN cred : ~IsPrefix(cred[j].name, job[t].name)

\* Every character of a text stands where it stands in one of the texts.
From(text, texts) ==
  \A i \in DOMAIN text : \E w \in texts : i \in DOMAIN w /\ text[i] = w[i]

\* A thread that was alone in get_active_users_str so far still is, and the file
\* has nothing but its own text; and whoever else is there, the file has nothing
\* from before.
ListInv ==
  \A t \in Thread : Listing(t) =>
    /\ job[t].alone =>
         /\ \A s \in Thread : Listing(s) => s = t
         /\ pc[t] \in {"walk", "flush"} => list = <<>>
         /\ pc[t] = "read" => list = job[t].text
    /\ From(list, job[t].wrote)

AInv == TypeInv /\ (~raced => CredInv) /\ ListInv /\ ListSent
----------------------------------------------------------------------------
(* Texts and lines *)

LEMMA LeastNat ==
  ASSUME NEW T, T \subseteq Nat, T # {}
  PROVE  \E n \in T : \A m \in T : n <= m
<1>1. PICK n \in T : \A m \in T : ~(<<m, n>> \in OpToRel(<, Nat))
  BY NatLessThanWellFounded, WFMin
<1>2. ASSUME NEW m \in T PROVE n <= m
  <2>1. <<m, n>> \in Nat \X Nat => ~(m < n)
    BY <1>1 DEF OpToRel
  <2> QED BY <2>1
<1> QED BY <1>2

\* The texts that active_socket_walk writes make up a text: by induction on how
\* many have been written, as a least number for which it fails.
LEMMA FlattenType ==
  ASSUME NEW S, NEW s \in Seq(Seq(S))
  PROVE  FlattenSeq(s) \in Seq(S)
<1> DEFINE N == Len(s)
           Is(f, n) == f = [i \in 1 .. n |-> IF i = 1 THEN s[i] ELSE f[i - 1] \o s[i]]
<1>1. N \in Nat /\ \A i \in 1 .. N : s[i] \in Seq(S)
  BY LenProperties, ElementOfSeq
<1>2. CASE N = 0
  <2>1. s = <<>>
    BY <1>2, EmptySeq
  <2> QED BY <1>2, <2>1, EmptySeq DEF FlattenSeq
<1>3. CASE N # 0
  <2>1. ASSUME NEW f, Is(f, N), NEW i \in 1 .. N PROVE f[i] \in Seq(S)
    <3> DEFINE Bad == {n \in 1 .. N : f[n] \notin Seq(S)}
    <3> SUFFICES ASSUME Bad # {} PROVE FALSE
      OBVIOUS
    <3>1. Bad \subseteq Nat
      BY <1>1
    <3> HIDE DEF Bad
    <3>2. PICK n \in Bad : \A m \in Bad : n <= m
      BY <3>1, LeastNat
    <3>3. n \in 1 .. N /\ f[n] \notin Seq(S)
      BY <3>2 DEF Bad
    <3>4. f[n] = IF n = 1 THEN s[n] ELSE f[n - 1] \o s[n]
      BY <2>1, <3>3, Zenon DEF Is
    <3>5. n # 1
      BY <1>1, <3>3, <3>4
    <3>6. n - 1 \in 1 .. N /\ ~(n <= n - 1)
      BY <1>1, <3>3, <3>5
    <3>7. f[n - 1] \in Seq(S)
      BY <3>2, <3>6 DEF Bad
    <3>8. f[n - 1] \o s[n] \in Seq(S)
      BY <1>1, <3>3, <3>7, ConcatProperties
    <3> QED BY <3>3, <3>4, <3>5, <3>8
  <2> HIDE DEF Is
  <2>2. \E f : Is(f, N)
    <3> DEFINE Bad == {n \in 1 .. N : ~ \E f : Is(f, n)}
    <3> SUFFICES ASSUME Bad # {} PROVE FALSE
      <4>1. N \in 1 .. N
        BY <1>1, <1>3
      <4> QED BY <4>1
    <3>1. Bad \subseteq Nat
      BY <1>1
    <3> HIDE DEF Bad
    <3>2. PICK n \in Bad : \A m \in Bad : n <= m
      BY <3>1, LeastNat
    <3>3. n \in 1 .. N /\ ~ \E f : Is(f, n)
      BY <3>2 DEF Bad
    <3>4. n # 1
      <4>1. ASSUME n = 1 PROVE FALSE
        <5> DEFINE f == [i \in 1 .. 1 |-> s[i]]
        <5>1. f = [i \in 1 .. 1 |-> IF i = 1 THEN s[i] ELSE f[i - 1] \o s[i]]
          OBVIOUS
        <5>2. Is(f, 1)
          BY <5>1 DEF Is
        <5> QED BY <3>3, <4>1, <5>2
      <4> QED BY <4>1
    <3>5. n - 1 \in 1 .. N /\ ~(n <= n - 1)
      BY <1>1, <3>3, <3>4
    <3>6. PICK f : Is(f, n - 1)
      <4>1. n - 1 \notin Bad
        BY <3>2, <3>5
      <4> QED BY <3>5, <4>1 DEF Bad
    <3> DEFINE g == [i \in 1 .. n |-> IF i < n THEN f[i] ELSE f[n - 1] \o s[n]]
    <3>7. ASSUME NEW i \in 1 .. n PROVE g[i] = IF i = 1 THEN s[i] ELSE g[i - 1] \o s[i]
      <4>1. CASE i < n
        <5>1. i \in 1 .. n - 1 /\ i \in 1 .. n
          BY <3>3, <4>1
        <5>2. f[i] = IF i = 1 THEN s[i] ELSE f[i - 1] \o s[i]
          BY <3>6, <5>1, Zenon DEF Is
        <5>3. i # 1 => i - 1 \in 1 .. n /\ i - 1 < n
          BY <3>3, <5>1
        <5> QED BY <4>1, <5>1, <5>2, <5>3
      <4>2. CASE ~(i < n)
        <5>1. i = n /\ i # 1 /\ n - 1 \in 1 .. n /\ n - 1 < n /\ ~(n < n)
          BY <3>3, <3>4, <3>7, <4>2
        <5> QED BY <5>1
      <4> QED BY <4>1, <4>2
    <3>8. Is(g, n)
      BY <3>7 DEF Is
    <3> QED BY <3>3, <3>8
  <2>3. PICK f : Is(f, N) /\ FlattenSeq(s) = f[N]
    BY <1>3, <2>2, Zenon DEF FlattenSeq, Is
  <2>4. N \in 1 .. N
    BY <1>1, <1>3
  <2>5. f[N] \in Seq(S)
    BY <2>1, <2>3, <2>4
  <2> QED BY <2>3, <2>5
<1> QED BY <1>2, <1>3

LEMMA PrefixOfItself ==
  ASSUME NEW s \in Text
  PROVE  IsPrefix(s, s)
<1>1. Len(s) \in Nat
  BY LenProperties DEF Text
<1> QED BY <1>1 DEF IsPrefix

\* First is the least of a set of line numbers.
LEMMA FirstLeast ==
  ASSUME NEW S, S \subseteq Nat \ {0}
  PROVE  /\ First(S) = 0 <=> S = {}
         /\ S # {} => First(S) \in S
         /\ \A i \in S : (\A j \in S : i <= j) => First(S) = i
<1>1. CASE S = {}
  BY <1>1 DEF First
<1>2. CASE S # {}
  <2>1. \E i \in S : \A j \in S : i <= j
    BY <1>2, LeastNat
  <2>2. First(S) \in S /\ \A j \in S : First(S) <= j
    BY <1>2, <2>1 DEF First
  <2>3. ASSUME NEW i \in S, \A j \in S : i <= j PROVE First(S) = i
    <3>1. i \in Nat /\ First(S) \in Nat /\ i <= First(S) /\ First(S) <= i
      BY <2>2, <2>3
    <3> QED BY <3>1
  <2> QED BY <1>2, <2>2, <2>3
<1> QED BY <1>1, <1>2

\* In a well-kept file the first line that a stored name matches is its own.
LEMMA WellKeptUsable ==
  ASSUME AccountsAssumption, cred \in Seq([uid : Uid, name : Name, pw : Pw]), WellKept(cred),
         NEW i \in DOMAIN cred
  PROVE  /\ match_user_pw(cred[i].name, cred[i].pw) = cred[i].uid
         /\ find_uid(cred[i].name) = cred[i].uid
         /\ find_username(cred[i].uid) = cred[i].name
<1>1. DOMAIN cred = 1 .. Len(cred) /\ Len(cred) \in Nat /\ DOMAIN cred \subseteq Nat \ {0}
  BY LenProperties
<1>2. cred[i].name \in Text /\ cred[i].pw \in Text
  <2>1. cred[i] \in [uid : Uid, name : Name, pw : Pw]
    BY <1>1, ElementOfSeq
  <2> QED BY <2>1 DEF AccountsAssumption, Text
<1> DEFINE M == Matches(cred[i].name)
           W == {j \in M : IsPrefix(cred[j].pw, cred[i].pw)}
           U == {j \in DOMAIN cred : cred[j].uid = cred[i].uid}
<1>3. /\ M \subseteq Nat \ {0} /\ W \subseteq Nat \ {0} /\ U \subseteq Nat \ {0}
      /\ i \in M /\ i \in W /\ i \in U
  BY <1>1, <1>2, PrefixOfItself DEF Matches
<1>4. \A j \in M : i <= j
  <2> SUFFICES ASSUME NEW j \in M, ~(i <= j) PROVE FALSE
    OBVIOUS
  <2>1. j \in 1 .. i - 1
    BY <1>1, <1>3
  <2>2. IsPrefix(cred[j].name, cred[i].name)
    BY DEF Matches
  <2> QED BY <2>1, <2>2 DEF WellKept
<1>5. \A j \in W : i <= j
  BY <1>4
<1>6. \A j \in U : i <= j
  BY <1>1 DEF WellKept
<1> HIDE DEF M, W, U
<1>7. First(M) = i /\ First(W) = i /\ First(U) = i /\ i # 0
  BY <1>1, <1>3, <1>4, <1>5, <1>6, FirstLeast
<1> QED BY <1>7 DEF match_user_pw, find_uid, find_username, UidOf, M, W, U

\* match_user_pw answers with the uid of a line or with ERR_GENERIC.
LEMMA MatchType ==
  ASSUME cred \in Seq([uid : Uid, name : Name, pw : Pw]), NEW name, NEW pw,
         match_user_pw(name, pw) # ERR_GENERIC
  PROVE  match_user_pw(name, pw) \in Uid
<1> DEFINE W == {i \in Matches(name) : IsPrefix(cred[i].pw, pw)}
<1>1. DOMAIN cred = 1 .. Len(cred) /\ Len(cred) \in Nat
  BY LenProperties
<1>2. W \subseteq DOMAIN cred /\ W \subseteq Nat \ {0}
  BY <1>1 DEF Matches
<1> HIDE DEF W
<1>3. First(W) = 0 \/ First(W) \in DOMAIN cred
  BY <1>2, FirstLeast
<1>4. match_user_pw(name, pw) = IF First(W) = 0 THEN ERR_GENERIC ELSE cred[First(W)].uid
  BY DEF match_user_pw, UidOf, W
<1>5. \A i \in DOMAIN cred : cred[i].uid \in Uid
  <2>1. \A i \in DOMAIN cred : cred[i] \in [uid : Uid, name : Name, pw : Pw]
    BY <1>1, ElementOfSeq
  <2> QED BY <2>1
<1> QED BY <1>3, <1>4, <1>5
----------------------------------------------------------------------------
(* The inductive invariant *)

LEMMA HoldingFinite ==
  ASSUME AccountsAssumption
  PROVE  Cardinality(Holding) \in Nat
<1>1. Holding \in SUBSET Thread /\ IsFiniteSet(Thread)
  BY DEF Holding, AccountsAssumption
<1> QED BY <1>1, FS_Subset, FS_CardinalityType

LEMMA IdleType == Idle \in Registers
<1>1. <<>> \in Text
  BY EmptySeq DEF Text
<1> QED BY <1>1 DEF Idle, Registers

LEMMA InitAInv == AccountsAssumption /\ Init => AInv
<1> SUFFICES ASSUME AccountsAssumption, Init PROVE AInv
  OBVIOUS
<1>1. TypeInv
  <2>1. leaked \in 0 .. MaxOpen
    BY DEF Init, AccountsAssumption
  <2>2. up \in BOOLEAN /\ raced \in BOOLEAN
    BY DEF Init
  <2>3. cred \in Seq([uid : Uid, name : Name, pw : Pw])
    BY DEF Init, AccountsAssumption, Uid
  <2>4. job \in [Thread -> Registers]
    BY IdleType DEF Init
  <2>5. \A t \in Thread :
          /\ job[t].uid \in Uid \cup {0} /\ job[t].alone \in BOOLEAN
          /\ job[t].name \in Name \cup {NULL} /\ job[t].pw \in Pw \cup {NULL}
    BY <2>4 DEF Registers
  <2>6. TypeOK
    BY <2>1, <2>2, <2>3, <2>5 DEF Init, TypeOK
  <2> QED BY <2>4, <2>6, EmptySeq DEF Init, TypeInv, Text
<1>2. CredInv
  BY DEF Init, CredInv, AccountsAssumption
<1>3. ListInv
  BY DEF Init, ListInv, Listing
<1>4. ListSent
  BY DEF Init, ListSent
<1> QED BY <1>1, <1>2, <1>3, <1>4 DEF AInv

\* What follows for the types once the registers have theirs.
LEMMA RegistersTyped ==
  ASSUME job \in [Thread -> Registers]
  PROVE  \A t \in Thread :
           /\ job[t].uid \in Uid \cup {0} /\ job[t].alone \in BOOLEAN
           /\ job[t].name \in Name \cup {NULL} /\ job[t].pw \in Pw \cup {NULL}
BY DEF Registers

\* A step that leaves the threads alone that are about to send a list.
LEMMA SentKept ==
  ASSUME ListSent, \A s \in Thread : pc'[s] = "reply" => pc[s] = "reply" /\ job'[s] = job[s]
  PROVE  ListSent'
<1> SUFFICES ASSUME NEW s \in Thread, pc'[s] = "reply"
             PROVE  /\ job'[s].alone => job'[s].sent = Cut(job'[s].text)
                    /\ \A i \in DOMAIN job'[s].sent : \E text \in job'[s].wrote :
                         i \in DOMAIN text /\ job'[s].sent[i] = text[i]
  BY DEF ListSent
<1>1. pc[s] = "reply" /\ job'[s] = job[s]
  OBVIOUS
<1>2. /\ job[s].alone => job[s].sent = Cut(job[s].text)
      /\ \A i \in DOMAIN job[s].sent : \E text \in job[s].wrote :
           i \in DOMAIN text /\ job[s].sent[i] = text[i]
  BY <1>1 DEF ListSent
<1> QED BY <1>1, <1>2, Zenon

LEMMA CreateReadAInv ==
  ASSUME AccountsAssumption, AInv, up, NEW t \in Thread, NEW name \in Name, NEW pw \in Pw,
         CreateRead(t, name, pw)
  PROVE  AInv'
<1> DEFINE r == [Idle EXCEPT !.uid = Len(cred) + 1, !.name = name, !.pw = pw]
<1>1. /\ pc[t] = "idle" /\ Len(cred) < MaxAccounts /\ Matches(name) = {}
      /\ Goto(t, "append", r)
      /\ raced' = (raced \/ \E s \in Thread : pc[s] = "append")
      /\ UNCHANGED <<up, cred, list, leaked, online, user>>
  BY DEF CreateRead
<1>2. Len(cred) + 1 \in Uid
  <2>1. Len(cred) \in Nat
    BY LenProperties DEF AInv, TypeInv, TypeOK
  <2> QED BY <1>1, <2>1 DEF Uid, AccountsAssumption
<1>3. r \in Registers /\ r.uid = Len(cred) + 1 /\ r.name = name /\ r.pw = pw
  BY <1>2, IdleType DEF Registers
<1> HIDE DEF r
<1>4. /\ pc' \in [Thread -> {"idle", "append", "walk", "flush", "read", "reply"}]
      /\ job' \in [Thread -> Registers]
      /\ \A s \in Thread : s # t => pc'[s] = pc[s] /\ job'[s] = job[s]
      /\ pc'[t] = "append" /\ job'[t] = r
  BY <1>1, <1>3 DEF AInv, TypeInv, TypeOK, Goto
<1>5. TypeInv'
  <2>1. raced' \in BOOLEAN
    BY <1>1, Zenon
  <2>2. TypeOK'
    BY <1>1, <1>4, <2>1 DEF AInv, TypeInv, TypeOK, Registers
  <2> QED BY <1>1, <1>2, <1>3, <1>4, <2>2 DEF AInv, TypeInv
<1>6. ASSUME ~raced' PROVE CredInv'
  <2>1. CredInv /\ \A s \in Thread : pc[s] # "append"
    BY <1>1, <1>6 DEF AInv
  <2>2. \A j \in DOMAIN cred : ~IsPrefix(cred[j].name, name)
    BY <1>1 DEF Matches
  <2> QED BY <1>1, <1>3, <1>4, <2>1, <2>2 DEF CredInv
<1>7. \A s \in Thread : Listing(s)' => s # t /\ Listing(s) /\ pc'[s] = pc[s] /\ job'[s] = job[s]
  BY <1>4 DEF Listing
<1>8. ListInv'
  BY <1>1, <1>7 DEF AInv, ListInv
<1>9. ListSent'
  BY <1>4, SentKept DEF AInv
<1> QED BY <1>5, <1>6, <1>8, <1>9 DEF AInv

\* The appended line has the next number and a name that no line begins.
LEMMA CreateAppendAInv ==
  ASSUME AccountsAssumption, AInv, up, NEW t \in Thread, CreateAppend(t)
  PROVE  AInv'
<1> DEFINE line == [uid |-> job[t].uid, name |-> job[t].name, pw |-> job[t].pw]
           Line == [uid : Uid, name : Name, pw : Pw]
<1>1. /\ pc[t] = "append" /\ cred' = Append(cred, line)
      /\ Goto(t, "idle", Idle)
      /\ UNCHANGED <<up, list, leaked, online, user, raced>>
  BY DEF CreateAppend, Finish
<1>2. line \in Line /\ cred \in Seq(Line)
  BY <1>1 DEF AInv, TypeInv, TypeOK
<1>3. line.uid = job[t].uid /\ line.name = job[t].name
  OBVIOUS
<1> HIDE DEF line, Line
<1>4. /\ cred' \in Seq(Line) /\ Len(cred) \in Nat
      /\ DOMAIN cred = 1 .. Len(cred) /\ DOMAIN cred' = 1 .. Len(cred) + 1
      /\ \A i \in 1 .. Len(cred) : cred'[i] = cred[i]
      /\ cred'[Len(cred) + 1] = line
  BY <1>1, <1>2, AppendProperties, LenProperties
<1>5. /\ pc' \in [Thread -> {"idle", "append", "walk", "flush", "read", "reply"}]
      /\ job' \in [Thread -> Registers]
      /\ \A s \in Thread : s # t => pc'[s] = pc[s] /\ job'[s] = job[s]
      /\ pc'[t] = "idle" /\ job'[t] = Idle
  BY <1>1, IdleType DEF AInv, TypeInv, TypeOK, Goto
<1>6. TypeInv'
  <2>1. TypeOK'
    BY <1>1, <1>4, <1>5 DEF AInv, TypeInv, TypeOK, Registers, Line
  <2> QED BY <1>1, <1>5, <2>1 DEF AInv, TypeInv
<1>7. ASSUME ~raced' PROVE CredInv'
  <2>1. /\ CredInv /\ job[t].uid = Len(cred) + 1
        /\ \A j \in DOMAIN cred : ~IsPrefix(cred[j].name, job[t].name)
    BY <1>1, <1>7 DEF AInv, CredInv
  <2>2. \A s \in Thread : pc'[s] # "append"
    BY <1>1, <1>5, <2>1 DEF CredInv
  <2>3. WellKept(cred')
    <3> SUFFICES ASSUME NEW i \in 1 .. Len(cred) + 1
                 PROVE  /\ cred'[i].uid = i
                        /\ \A j \in 1 .. i - 1 : ~IsPrefix(cred'[j].name, cred'[i].name)
      BY <1>4 DEF WellKept
    <3>1. CASE i \in 1 .. Len(cred)
      <4>1. \A j \in 1 .. i - 1 : j \in 1 .. Len(cred)
        BY <1>4, <3>1
      <4> QED BY <1>4, <2>1, <3>1, <4>1 DEF CredInv, WellKept
    <3>2. CASE i = Len(cred) + 1
      <4>1. \A j \in 1 .. i - 1 : j \in 1 .. Len(cred)
        BY <1>4, <3>2
      <4>2. cred'[i] = line /\ \A j \in 1 .. i - 1 : cred'[j] = cred[j] /\ j \in DOMAIN cred
        BY <1>4, <3>2, <4>1
      <4> QED BY <1>3, <2>1, <3>2, <4>2
    <3>3. i \in 1 .. Len(cred) \/ i = Len(cred) + 1
      <4>1. \A n \in Nat : \A k \in 1 .. n + 1 : k \in 1 .. n \/ k = n + 1
        OBVIOUS
      <4>2. Len(cred) \in Nat
        BY <1>4
      <4> QED BY <4>1, <4>2
    <3> QED BY <3>1, <3>2, <3>3
  <2> QED BY <1>5, <2>2, <2>3 DEF CredInv
<1>8. \A s \in Thread : Listing(s)' => s # t /\ Listing(s) /\ pc'[s] = pc[s] /\ job'[s] = job[s]
  BY <1>5 DEF Listing
<1>9. ListInv'
  BY <1>1, <1>8 DEF AInv, ListInv
<1>10. ListSent'
  BY <1>5, SentKept DEF AInv
<1> QED BY <1>6, <1>7, <1>9, <1>10 DEF AInv

\* A step that leaves the files and the handlers alone.
LEMMA QuietAInv ==
  ASSUME AInv, UNCHANGED <<cred, list, pc, job, raced>>, up' \in BOOLEAN,
         leaked' \in 0 .. MaxOpen,
         online' \in [Uid -> Name \cup {NULL}], user' \in [Thread -> Uid \cup {NULL}]
  PROVE  AInv'
<1>1. TypeInv'
  BY DEF AInv, TypeInv, TypeOK
<1>2. CredInv <=> CredInv'
  BY DEF CredInv
<1>3. ListInv'
  BY DEF AInv, ListInv, Listing
<1>4. ListSent'
  BY SentKept DEF AInv
<1> QED BY <1>1, <1>2, <1>3, <1>4 DEF AInv

LEMMA SessionAInv ==
  ASSUME AccountsAssumption, AInv, up, NEW t \in Thread,
         Chat(t) \/ Depart(t) \/ \E name \in Name, pw \in Pw : Login(t, name, pw)
  PROVE  AInv'
<1>1. up \in BOOLEAN /\ leaked \in 0 .. MaxOpen /\ MaxOpen \in Nat /\ cred \in Seq([uid : Uid, name : Name, pw : Pw])
      /\ online \in [Uid -> Name \cup {NULL}] /\ user \in [Thread -> Uid \cup {NULL}]
  BY DEF AInv, TypeInv, TypeOK, AccountsAssumption
<1>2. CASE Chat(t)
  <2>1. leaked + Cardinality(Holding) < MaxOpen /\ Cardinality(Holding) \in Nat
    BY <1>2, HoldingFinite DEF Chat, CanOpen
  <2>2. leaked' = leaked + 1 /\ UNCHANGED <<up, cred, list, online, user, pc, job, raced>>
    BY <1>2 DEF Chat
  <2>3. leaked' \in 0 .. MaxOpen
    BY <1>1, <2>1, <2>2
  <2> QED BY <1>1, <2>2, <2>3, QuietAInv
<1>3. CASE Depart(t)
  <2>1. UNCHANGED <<up, cred, list, leaked, pc, job, raced>>
    BY <1>3 DEF Depart
  <2>2. online' \in [Uid -> Name \cup {NULL}] /\ user' \in [Thread -> Uid \cup {NULL}]
    BY <1>1, <1>3 DEF Depart
  <2> QED BY <1>1, <2>1, <2>2, QuietAInv
<1>4. ASSUME NEW name \in Name, NEW pw \in Pw, Login(t, name, pw) PROVE AInv'
  <2> DEFINE uid == match_user_pw(name, pw)
  <2>1. /\ uid # ERR_GENERIC
        /\ user' = [user EXCEPT ![t] = uid] /\ online' = [online EXCEPT ![uid] = name]
        /\ UNCHANGED <<up, cred, list, leaked, pc, job, raced>>
    BY <1>4 DEF Login
  <2>2. uid \in Uid
    BY <1>1, <2>1, MatchType
  <2> HIDE DEF uid
  <2>3. online' \in [Uid -> Name \cup {NULL}] /\ user' \in [Thread -> Uid \cup {NULL}]
    BY <1>1, <2>1, <2>2
  <2> QED BY <1>1, <2>1, <2>3, QuietAInv
<1> QED BY <1>2, <1>3, <1>4

\* The thread that opens active_name.txt is alone only if nobody is at it, and
\* nobody who is at it is alone any more.
LEMMA ListOpenAInv ==
  ASSUME AccountsAssumption, AInv, up, NEW t \in Thread, ListOpen(t)
  PROVE  AInv'
<1> DEFINE r(s) == IF s = t THEN [Idle EXCEPT !.alone = ~ \E o \in Thread : Listing(o)]
                   ELSE IF Listing(s) THEN [job[s] EXCEPT !.alone = FALSE] ELSE job[s]
<1>1. /\ pc[t] = "idle" /\ list' = <<>> /\ pc' = [pc EXCEPT ![t] = "walk"]
      /\ job' = [s \in Thread |-> r(s)]
      /\ UNCHANGED <<up, cred, leaked, online, user, raced>>
  BY DEF ListOpen
<1>2. job \in [Thread -> Registers] /\ pc \in [Thread -> {"idle", "append", "walk", "flush", "read", "reply"}]
  BY DEF AInv, TypeInv, TypeOK
<1>3. ASSUME NEW s \in Thread, s # t
      PROVE  /\ r(s) \in Registers
             /\ Listing(s) => ~r(s).alone
             /\ r(s).text = job[s].text /\ r(s).sent = job[s].sent /\ r(s).wrote = job[s].wrote
             /\ ~Listing(s) => r(s) = job[s]
  <2>1. job[s] \in Registers
    BY <1>2
  <2> DEFINE q == [job[s] EXCEPT !.alone = FALSE]
  <2>2. /\ q \in Registers /\ ~q.alone
        /\ q.text = job[s].text /\ q.sent = job[s].sent /\ q.wrote = job[s].wrote
    BY <2>1 DEF Registers
  <2> QED BY <1>3, <2>1, <2>2
<1>4. r(t) \in Registers /\ (r(t).alone => \A s \in Thread : ~Listing(s))
  <2> DEFINE b == ~ \E o \in Thread : Listing(o)
  <2>1. b \in BOOLEAN
    OBVIOUS
  <2> HIDE DEF b
  <2>2. [Idle EXCEPT !.alone = b] \in Registers /\ [Idle EXCEPT !.alone = b].alone = b
    BY <2>1, IdleType DEF Registers
  <2>3. r(t) = [Idle EXCEPT !.alone = b]
    BY DEF b
  <2>4. b => \A s \in Thread : ~Listing(s)
    BY DEF b
  <2> QED BY <2>2, <2>3, <2>4
<1> HIDE DEF r
<1>5. /\ pc' \in [Thread -> {"idle", "append", "walk", "flush", "read", "reply"}]
      /\ job' \in [Thread -> Registers] /\ job'[t] = r(t) /\ pc'[t] = "walk"
      /\ \A s \in Thread : s # t => pc'[s] = pc[s] /\ job'[s] = r(s)
  BY <1>1, <1>2, <1>3, <1>4
<1>6. \A s \in Thread : pc'[s] = "append" => s # t /\ pc[s] = "append" /\ job'[s] = job[s]
  <2>1. \A s \in Thread : pc[s] = "append" => ~Listing(s)
    BY DEF Listing
  <2> QED BY <1>3, <1>5, <2>1
<1>7. TypeInv'
  <2>1. TypeOK'
    BY <1>1, <1>5 DEF AInv, TypeInv, TypeOK, Registers
  <2>2. list' \in Text
    BY <1>1, EmptySeq DEF Text
  <2> QED BY <1>5, <1>6, <2>1, <2>2 DEF AInv, TypeInv
<1>8. ~raced' => CredInv'
  BY <1>1, <1>6 DEF AInv, CredInv
<1>9. \A s \in Thread : Listing(s)' <=> s = t \/ Listing(s)
  BY <1>1, <1>5 DEF Listing
<1>10. ListInv'
  <2>0. \A texts : From(list', texts)
    BY <1>1 DEF From
  <2> SUFFICES ASSUME NEW s \in Thread, Listing(s)', job'[s].alone
               PROVE  /\ \A o \in Thread : Listing(o)' => o = s
                      /\ list' = <<>> /\ pc'[s] # "read"
    BY <2>0 DEF ListInv
  <2>1. s = t
    BY <1>3, <1>5, <1>9
  <2> QED BY <1>1, <1>4, <1>5, <1>9, <2>1
<1>11. ListSent'
  <2>1. \A s \in Thread : pc'[s] = "reply" => s # t /\ pc[s] = "reply" /\ ~Listing(s)
    BY <1>5 DEF Listing
  <2>2. \A s \in Thread : pc'[s] = "reply" => pc[s] = "reply" /\ job'[s] = job[s]
    BY <1>3, <1>5, <2>1
  <2> QED BY <2>2, SentKept DEF AInv
<1> QED BY <1>7, <1>8, <1>10, <1>11 DEF AInv

LEMMA ListWalkAInv ==
  ASSUME AccountsAssumption, AInv, up, NEW t \in Thread, ListWalk(t)
  PROVE  AInv'
<1> DEFINE written == [u \in Uid |-> IF online[u] = NULL THEN <<>> ELSE online[u] \o <<"comma">>]
           r == [job[t] EXCEPT !.text = FlattenSeq(written)]
<1>1. /\ pc[t] = "walk" /\ Goto(t, "flush", r)
      /\ UNCHANGED <<up, cred, list, leaked, online, user, raced>>
  BY DEF ListWalk
<1>2. FlattenSeq(written) \in Text
  <2>1. <<"comma">> \in Text /\ <<>> \in Text
    <3>1. ASSUME NEW c \in Letter PROVE <<c>> \in Seq(Letter)
      OBVIOUS
    <3> QED BY <3>1, EmptySeq DEF Text, AccountsAssumption
  <2>2. ASSUME NEW u \in Uid PROVE written[u] \in Text
    <3>1. online[u] # NULL => online[u] \in Text
      BY DEF AInv, TypeInv, TypeOK, AccountsAssumption, Text
    <3>2. online[u] # NULL => online[u] \o <<"comma">> \in Text
      BY <2>1, <3>1, ConcatProperties DEF Text
    <3> QED BY <2>1, <3>2
  <2>3. written \in [1 .. MaxAccounts -> Text] /\ MaxAccounts \in Nat
    BY <2>2 DEF Uid, AccountsAssumption
  <2> HIDE DEF written
  <2>4. written \in Seq(Text)
    BY <2>3, SeqDef
  <2> QED BY <2>4, FlattenType DEF Text
<1>3. job[t] \in Registers
  BY DEF AInv, TypeInv
<1> HIDE DEF written
<1>4. r \in Registers /\ r.alone = job[t].alone /\ r.wrote = job[t].wrote
  BY <1>2, <1>3 DEF Registers
<1> HIDE DEF r
<1>5. /\ pc' \in [Thread -> {"idle", "append", "walk", "flush", "read", "reply"}]
      /\ job' \in [Thread -> Registers]
      /\ \A s \in Thread : s # t => pc'[s] = pc[s] /\ job'[s] = job[s]
      /\ pc'[t] = "flush" /\ job'[t] = r
  BY <1>1, <1>4 DEF AInv, TypeInv, TypeOK, Goto
<1>6. TypeInv'
  <2>1. TypeOK'
    BY <1>1, <1>5 DEF AInv, TypeInv, TypeOK, Registers
  <2> QED BY <1>1, <1>5, <2>1 DEF AInv, TypeInv
<1>7. ~raced' => CredInv'
  BY <1>1, <1>5 DEF AInv, CredInv
<1>8. \A s \in Thread : /\ Listing(s)' <=> Listing(s)
                       /\ job'[s].alone = job[s].alone /\ job'[s].wrote = job[s].wrote
  BY <1>1, <1>4, <1>5 DEF Listing
<1>9. ListInv'
  BY <1>1, <1>5, <1>8 DEF AInv, ListInv
<1>10. ListSent'
  BY <1>5, SentKept DEF AInv
<1> QED BY <1>6, <1>7, <1>9, <1>10 DEF AInv

\* Writing from the start over an old text: the new text first, then what was
\* beyond it.
Over(text, old) == text \o SubSeq(old, Len(text) + 1, Len(old))

LEMMA Overwrite ==
  ASSUME NEW text \in Text, NEW old \in Text
  PROVE  /\ Over(text, old) \in Text
         /\ old = <<>> => Over(text, old) = text
         /\ \A i \in DOMAIN Over(text, old) :
              \/ i \in DOMAIN text /\ Over(text, old)[i] = text[i]
              \/ i \in DOMAIN old /\ Over(text, old)[i] = old[i]
<1> DEFINE k == Len(text)
           n == Len(old)
           rest == SubSeq(old, k + 1, n)
           new == Over(text, old)
<1>0. new = text \o rest
  BY DEF Over
<1> HIDE DEF new
<1>1. k \in Nat /\ n \in Nat /\ DOMAIN text = 1 .. k /\ DOMAIN old = 1 .. n
  BY LenProperties DEF Text
<1>2. \A i \in 1 .. n : old[i] \in Letter
  BY ElementOfSeq DEF Text
<1> HIDE DEF k, n
<1>3. k + 1 \in Int /\ n \in Int /\ \A i \in k + 1 .. n : old[i] \in Letter
  BY <1>1, <1>2
<1>4. /\ rest \in Seq(Letter)
      /\ Len(rest) = IF k + 1 <= n THEN n - (k + 1) + 1 ELSE 0
      /\ \A i \in 1 .. n - (k + 1) + 1 : rest[i] = old[(k + 1) + i - 1]
  BY <1>3, SubSeqProperties
<1>5. n = 0 => rest = <<>>
  <2>1. n = 0 => n < k + 1
    BY <1>1
  <2> QED BY <1>3, <2>1, SubSeqEmpty
<1> HIDE DEF rest
<1>6. Len(rest) = (IF k < n THEN n - k ELSE 0) /\ Len(rest) \in Nat
  BY <1>1, <1>4
<1>7. /\ new \in Text /\ DOMAIN new = 1 .. k + Len(rest)
      /\ \A i \in 1 .. k + Len(rest) : new[i] = IF i <= k THEN text[i] ELSE rest[i - k]
  <2>1. /\ new \in Seq(Letter) /\ Len(new) = k + Len(rest)
        /\ \A i \in 1 .. k + Len(rest) : new[i] = IF i <= k THEN text[i] ELSE rest[i - k]
    <3>1. /\ text \o rest \in Seq(Letter) /\ Len(text \o rest) = Len(text) + Len(rest)
          /\ \A i \in 1 .. Len(text) + Len(rest) :
               (text \o rest)[i] = IF i <= Len(text) THEN text[i] ELSE rest[i - Len(text)]
      BY <1>4, ConcatProperties DEF Text
    <3> QED BY <1>0, <3>1, Zenon DEF k
  <2> QED BY <2>1, LenProperties DEF Text
<1>8. old = <<>> => new = text
  <2>1. old = <<>> => n = 0
    BY EmptySeq DEF n
  <2> QED BY <1>0, <1>5, <2>1, ConcatEmptySeq DEF Text
<1>9. ASSUME NEW i \in DOMAIN new
      PROVE  \/ i \in DOMAIN text /\ new[i] = text[i]
             \/ i \in DOMAIN old /\ new[i] = old[i]
  <2>1. i \in 1 .. k + Len(rest)
    BY <1>7
  <2>2. CASE i <= k
    <3>1. i \in 1 .. k
      BY <1>1, <1>6, <2>1, <2>2
    <3> QED BY <1>1, <1>7, <2>1, <2>2, <3>1
  <2>3. CASE ~(i <= k)
    <3>1. /\ i \in 1 .. n /\ i - k \in 1 .. n - (k + 1) + 1
          /\ (k + 1) + (i - k) - 1 = i
      BY <1>1, <1>6, <2>1, <2>3
    <3>2. new[i] = rest[i - k] /\ rest[i - k] = old[i]
      BY <1>4, <1>7, <2>1, <2>3, <3>1
    <3> QED BY <1>1, <3>1, <3>2
  <2> QED BY <2>2, <2>3
<1> QED BY <1>7, <1>8, <1>9 DEF new

\* What fclose writes over an empty file is the text itself; and a thread that
\* writes while another is at the file takes from nobody who is alone.
LEMMA ListFlushAInv ==
  ASSUME AccountsAssumption, AInv, up, NEW t \in Thread, ListFlush(t)
  PROVE  AInv'
<1> DEFINE text == job[t].text
           r(s) == IF Listing(s) THEN [job[s] EXCEPT !.wrote = @ \cup {text}] ELSE job[s]
<1>1. /\ pc[t] = "flush" /\ pc' = [pc EXCEPT ![t] = "read"]
      /\ job' = [s \in Thread |-> r(s)]
      /\ list' = text \o SubSeq(list, Len(text) + 1, Len(list))
      /\ UNCHANGED <<up, cred, leaked, online, user, raced>>
  BY DEF ListFlush
<1>2. job \in [Thread -> Registers] /\ job[t] \in Registers /\ text \in Text /\ list \in Text
  BY DEF AInv, TypeInv, Registers
<1>3. /\ list' \in Text
      /\ list = <<>> => list' = text
      /\ \A i \in DOMAIN list' :
           (i \in DOMAIN text /\ list'[i] = text[i]) \/ (i \in DOMAIN list /\ list'[i] = list[i])
  <2>1. list' = text \o SubSeq(list, Len(text) + 1, Len(list)) /\ text \in Text /\ list \in Text
    BY <1>1, <1>2
  <2>2. list' = Over(text, list)
    BY <2>1 DEF Over
  <2> HIDE DEF text
  <2>3. Over(text, list) \in Text
    BY <2>1, Overwrite
  <2>4. list = <<>> => Over(text, list) = text
    BY <2>1, Overwrite
  <2>5. ASSUME NEW i \in DOMAIN Over(text, list)
        PROVE  \/ i \in DOMAIN text /\ Over(text, list)[i] = text[i]
               \/ i \in DOMAIN list /\ Over(text, list)[i] = list[i]
    BY <2>1, Overwrite
  <2> QED BY <2>2, <2>3, <2>4, <2>5
<1>4. ASSUME NEW texts, From(list, texts) PROVE From(list', texts \cup {text})
  BY <1>3, <1>4, Zenon DEF From
<1>5. ASSUME NEW s \in Thread
      PROVE  /\ r(s) \in Registers
             /\ r(s).uid = job[s].uid /\ r(s).name = job[s].name /\ r(s).pw = job[s].pw
             /\ r(s).text = job[s].text /\ r(s).alone = job[s].alone
             /\ Listing(s) => r(s).wrote = job[s].wrote \cup {text}
             /\ ~Listing(s) => r(s) = job[s]
  <2> DEFINE q == [job[s] EXCEPT !.wrote = @ \cup {text}]
  <2>1. job[s] \in Registers
    BY <1>2
  <2>2. job[s].wrote \cup {text} \in SUBSET Text
    BY <1>2, <2>1 DEF Registers
  <2>3. /\ q \in Registers
        /\ q.uid = job[s].uid /\ q.name = job[s].name /\ q.pw = job[s].pw
        /\ q.text = job[s].text /\ q.alone = job[s].alone
        /\ q.wrote = job[s].wrote \cup {text}
    BY <2>1, <2>2 DEF Registers
  <2> QED BY <2>1, <2>3
<1> HIDE DEF r
<1>6. /\ pc' \in [Thread -> {"idle", "append", "walk", "flush", "read", "reply"}]
      /\ job' \in [Thread -> Registers] /\ pc'[t] = "read"
      /\ \A s \in Thread : job'[s] = r(s) /\ (s # t => pc'[s] = pc[s])
  BY <1>1, <1>5 DEF AInv, TypeInv, TypeOK
<1>7. Listing(t) /\ \A s \in Thread : Listing(s)' <=> Listing(s)
  BY <1>1, <1>6 DEF Listing
<1>8. \A s \in Thread : pc'[s] \in {"append", "reply"} => pc[s] = pc'[s] /\ job'[s] = job[s]
  <2>1. \A s \in Thread : pc'[s] \in {"append", "reply"} => s # t /\ pc[s] = pc'[s] /\ ~Listing(s)
    BY <1>6 DEF Listing
  <2> QED BY <1>5, <1>6, <2>1
<1>9. TypeInv'
  <2>1. TypeOK'
    BY <1>1, <1>6 DEF AInv, TypeInv, TypeOK, Registers
  <2> QED BY <1>1, <1>3, <1>6, <1>8, <2>1 DEF AInv, TypeInv
<1>10. ~raced' => CredInv'
  BY <1>1, <1>8 DEF AInv, CredInv
<1>11. ListInv'
  <2> SUFFICES ASSUME NEW s \in Thread, Listing(s)
               PROVE  /\ job'[s].alone =>
                           /\ \A o \in Thread : Listing(o) => o = s
                           /\ pc'[s] \in {"walk", "flush"} => list' = <<>>
                           /\ pc'[s] = "read" => list' = job'[s].text
                      /\ From(list', job'[s].wrote)
    BY <1>7 DEF ListInv
  <2>1. From(list', job'[s].wrote)
    <3>1. From(list, job[s].wrote)
      BY DEF AInv, ListInv
    <3>2. job'[s].wrote = job[s].wrote \cup {text}
      BY <1>5, <1>6
    <3> HIDE DEF text
    <3> QED BY <1>4, <3>1, <3>2, Zenon
  <2>2. ASSUME job'[s].alone PROVE s = t /\ list = <<>> /\ \A o \in Thread : Listing(o) => o = s
    BY <1>1, <1>5, <1>6, <1>7, <2>2 DEF AInv, ListInv
  <2> QED BY <1>3, <1>5, <1>6, <2>1, <2>2
<1>12. ListSent'
  BY <1>8, SentKept DEF AInv
<1> QED BY <1>9, <1>10, <1>11, <1>12 DEF AInv

\* fgets keeps the beginning of the file.
LEMMA CutBegins ==
  ASSUME AccountsAssumption, NEW text \in Text
  PROVE  /\ Cut(text) \in Text
         /\ \A i \in DOMAIN Cut(text) : i \in DOMAIN text /\ Cut(text)[i] = text[i]
<1>1. Len(text) \in Nat /\ ListMax \in Nat /\ DOMAIN text = 1 .. Len(text)
  BY LenProperties DEF AccountsAssumption, Text
<1>2. CASE Len(text) <= ListMax
  BY <1>2 DEF Cut
<1>3. CASE ~(Len(text) <= ListMax)
  <2> DEFINE c == SubSeq(text, 1, ListMax)
  <2>1. \A i \in 1 .. ListMax : i \in 1 .. Len(text)
    BY <1>1, <1>3
  <2>2. \A i \in 1 .. ListMax : text[i] \in Letter
    BY <2>1, ElementOfSeq DEF Text
  <2>3. /\ c \in Text /\ Len(c) = IF 1 <= ListMax THEN ListMax - 1 + 1 ELSE 0
        /\ \A i \in 1 .. ListMax - 1 + 1 : c[i] = text[1 + i - 1]
    BY <1>1, <2>2, SubSeqProperties DEF Text
  <2>4. Len(c) = ListMax /\ DOMAIN c = 1 .. Len(c)
    BY <1>1, <2>3, LenProperties DEF Text
  <2>5. ASSUME NEW i \in 1 .. ListMax PROVE c[i] = text[i]
    <3>1. i \in 1 .. ListMax - 1 + 1 /\ 1 + i - 1 = i
      BY <1>1
    <3> QED BY <2>3, <3>1
  <2>6. Cut(text) = c
    BY <1>3 DEF Cut
  <2> HIDE DEF c
  <2> QED BY <1>1, <2>1, <2>3, <2>4, <2>5, <2>6
<1> QED BY <1>2, <1>3

\* A thread that leaves the files alone on its way to step; what it is about to
\* send, if anything, is as it should be.
LEMMA ReplyStep ==
  ASSUME AInv, NEW t \in Thread, NEW step \in {"idle", "reply"}, NEW r \in Registers,
         Goto(t, step, r), UNCHANGED <<up, cred, list, leaked, online, user, raced>>,
         step = "reply" => (r.alone => r.sent = Cut(r.text)) /\ From(r.sent, r.wrote)
  PROVE  AInv'
<1>1. /\ pc' \in [Thread -> {"idle", "append", "walk", "flush", "read", "reply"}]
      /\ job' \in [Thread -> Registers]
      /\ \A s \in Thread : s # t => pc'[s] = pc[s] /\ job'[s] = job[s]
      /\ pc'[t] = step /\ job'[t] = r
  BY DEF AInv, TypeInv, TypeOK, Goto
<1>2. TypeInv'
  <2>1. TypeOK'
    BY <1>1 DEF AInv, TypeInv, TypeOK, Registers
  <2> QED BY <1>1, <2>1 DEF AInv, TypeInv
<1>3. ~raced' => CredInv'
  BY <1>1 DEF AInv, CredInv
<1>4. \A s \in Thread : Listing(s)' => s # t /\ Listing(s) /\ pc'[s] = pc[s] /\ job'[s] = job[s]
  BY <1>1 DEF Listing
<1>5. ListInv'
  BY <1>4 DEF AInv, ListInv
<1>6. ListSent'
  BY <1>1 DEF AInv, ListSent, From
<1> QED BY <1>2, <1>3, <1>5, <1>6 DEF AInv

LEMMA ListReadAInv ==
  ASSUME AccountsAssumption, AInv, up, NEW t \in Thread, ListRead(t)
  PROVE  AInv'
<1> DEFINE r == [job[t] EXCEPT !.sent = Cut(list)]
<1>1. /\ pc[t] = "read" /\ Goto(t, "reply", r)
      /\ UNCHANGED <<up, cred, list, leaked, online, user, raced>>
  BY DEF ListRead
<1>2. job[t] \in Registers /\ list \in Text
  BY DEF AInv, TypeInv
<1>3. /\ Cut(list) \in Text
      /\ \A i \in DOMAIN Cut(list) : i \in DOMAIN list /\ Cut(list)[i] = list[i]
  BY <1>2, CutBegins
<1>4. /\ r \in Registers /\ r.sent = Cut(list)
      /\ r.alone = job[t].alone /\ r.text = job[t].text /\ r.wrote = job[t].wrote
  BY <1>2, <1>3 DEF Registers
<1>5. From(list, job[t].wrote) /\ (job[t].alone => list = job[t].text)
  BY <1>1 DEF AInv, ListInv, Listing
<1>6. From(r.sent, r.wrote)
  BY <1>3, <1>4, <1>5 DEF From
<1> HIDE DEF r
<1> QED BY <1>1, <1>4, <1>5, <1>6, ReplyStep

LEMMA ListReplyAInv ==
  ASSUME AInv, NEW t \in Thread, ListReply(t)
  PROVE  AInv'
BY IdleType, ReplyStep DEF ListReply, Finish

LEMMA ListDiesAInv ==
  ASSUME AInv, NEW t \in Thread, ListDies(t)
  PROVE  AInv'
BY QuietAInv DEF ListDies, AInv, TypeInv, TypeOK

LEMMA NextAInv ==
  ASSUME AccountsAssumption, AInv, [Next]_vars
  PROVE  AInv'
<1>1. CASE UNCHANGED vars
  BY <1>1, QuietAInv DEF vars, AInv, TypeInv, TypeOK
<1> QED BY <1>1, CreateReadAInv, CreateAppendAInv, SessionAInv, ListOpenAInv, ListWalkAInv,
           ListFlushAInv, ListReadAInv, ListReplyAInv, ListDiesAInv DEF Next, Step
----------------------------------------------------------------------------
(* Theorems *)

\* The inductive invariant of the two files.
THEOREM AccountsInvariance == Spec => []AInv
<1>1. Init => AInv
  BY AccountsAssumption, InitAInv
<1>2. AInv /\ [Next]_vars => AInv'
  BY AccountsAssumption, NextAInv
<1> QED BY <1>1, <1>2, PTL DEF Spec

\* The files, the active users and the handlers' registers keep their types.
THEOREM AccountsTypeCorrect == Spec => []TypeOK
<1>1. AInv => TypeOK
  BY DEF AInv, TypeInv
<1> QED BY <1>1, AccountsInvariance, PTL

\* Every account can log in and be invited and shown under its own name, although
\* names and passwords are compared by prefix, until two create_user run at once.
THEOREM UsableCorrect == Spec => []AccountsUsable
<1>1. AInv => AccountsUsable
  BY AccountsAssumption, WellKeptUsable DEF AInv, TypeInv, TypeOK, CredInv, AccountsUsable
<1> QED BY <1>1, AccountsInvariance, PTL

\* ACTIVE_LIST sends the list that the request has collected, as far as dest holds
\* it; with other threads in get_active_users_str, characters of lists collected
\* since the request began, each at its place.
THEOREM ListCorrect == Spec => []ListSent
<1>1. AInv => ListSent
  BY DEF AInv
<1> QED BY <1>1, AccountsInvariance, PTL
============================================================================
