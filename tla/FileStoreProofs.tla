-------------------------- MODULE FileStoreProofs --------------------------
(***************************************************************************)
(* Machine-checked proofs about the files of the groups (module            *)
(* FileStore), for any number of threads, blocks, uploads and restarts.    *)
(***************************************************************************)
EXTENDS FileStore, FiniteSetTheorems, WellFoundedInduction, TLAPS

\* The threads that have named a file and not yet counted it.
Counting == {t \in Thread : pc[t] \in {"load", "store"}}
\* The threads whose file is counted and not yet told of.
Writing == {t \in Thread : pc[t] \in {"open", "receive"}}

\* Every number in use stays within the uploads so far, however many threads
\* are about to store an old count.
CountInv ==
  /\ IsFiniteSet(Counting)
  /\ file_cnt + Cardinality(Counting) <= uploads + 1
  /\ \A t \in Thread : pc[t] = "store" =>
       job[t].cnt \in Number /\ job[t].cnt + Cardinality(Counting) <= uploads + 1
  /\ \A t \in Counting \cup Writing : job[t].file \in Number /\ job[t].id \in Number
  /\ \A t \in Thread : pc[t] \in {"load", "store", "open"} => job[t].pos = 0
  /\ \A t \in Thread : pc[t] = "send" => job[t].file \in Number

\* As long as no two threads count at once, a number belongs to one upload.
OwnNumber ==
  /\ \A t \in Counting, u \in Counting : t = u
  /\ \A t \in Counting : job[t].file = file_cnt
  /\ \A t \in Thread : pc[t] = "store" => job[t].cnt = file_cnt
  /\ \A t \in Writing : job[t].file < file_cnt
  /\ \A t \in Writing, u \in Writing : job[t].file = job[u].file => t = u
  /\ \A n \in Number : opened[n] <= Run /\ (opened[n] = Run => n < file_cnt)
  /\ \A t \in Thread : pc[t] = "open" => opened[job[t].file] # Run
  /\ \A t \in Thread : pc[t] = "receive" => opened[job[t].file] = Run
  /\ \A a \in announced : a.run <= Run /\ (a.run = Run => a.file < file_cnt)
  /\ \A a \in announced, t \in Writing : a.run = Run => a.file # job[t].file

\* What is on disk of the uploads, and what the downloads rely on.
Contents ==
  /\ \A t \in Thread : pc[t] = "receive" =>
       \A b \in Block : b <= job[t].pos => files[job[t].file][b] = job[t].id
  /\ \A a \in announced : opened[a.file] = a.run =>
       \A b \in Block : files[a.file][b] = a.id
  /\ \A t \in Thread : pc[t] = "send" =>
       /\ job[t].left \/ opened[job[t].file] = Run
       /\ job[t].pos + job[t].todo \in 0 .. FileLen
       /\ ~Emptied(t) /\ job[t].pos + job[t].todo > 0 =>
            files[job[t].file][job[t].pos + job[t].todo] # 0

FInv == TypeOK /\ CountInv /\ (~overlap => OwnNumber /\ Contents)

\* A file that is sent does not end before all of it is sent: at the step where
\* send_file reads the next block there is one.
SendGoesOn ==
  overlap \/ \A t \in Thread :
    pc[t] = "send" /\ job[t].todo > 0 /\ ~Emptied(t) => job[t].pos < Length(job[t].file)
----------------------------------------------------------------------------
(* Lengths *)

LEMMA LeastNat ==
  ASSUME NEW T, T \subseteq Nat, T # {}
  PROVE  \E n \in T : \A m \in T : n <= m
<1>1. PICK n \in T : \A m \in T : ~(<<m, n>> \in OpToRel(<, Nat))
  BY NatLessThanWellFounded, WFMin
<1>2. ASSUME NEW m \in T PROVE n <= m
  <2>1. <<m, n>> \in Nat \X Nat => ~(m < n)
    BY <1>1 DEF OpToRel
  <2> QED BY <2>1
<1> QED BY <1>2

\* Every file has a length, and it is the place of its last block.
LEMMA LengthOfFile ==
  ASSUME FileStoreAssumption, files \in [Number -> [Block -> Number \cup {0}]], NEW n \in Number
  PROVE  /\ Length(n) \in 0 .. FileLen
         /\ Length(n) > 0 => files[n][Length(n)] # 0
         /\ \A b \in Block : b > Length(n) => files[n][b] = 0
<1> DEFINE Ends(len) == \A b \in Block : b > len => files[n][b] = 0
           T == {len \in 0 .. FileLen : Ends(len)}
<1>1. PICK len \in T : \A m \in T : len <= m
  <2>1. T \subseteq Nat
    OBVIOUS
  <2>2. FileLen \in T
    BY DEF FileStoreAssumption, Block
  <2> HIDE DEF T
  <2> QED BY <2>1, <2>2, LeastNat
<1>2. len > 0 => files[n][len] # 0
  <2> SUFFICES ASSUME len > 0, files[n][len] = 0 PROVE FALSE
    OBVIOUS
  <2>1. len \in 1 .. FileLen
    BY <1>1 DEF FileStoreAssumption
  <2>2. len - 1 \in 0 .. FileLen /\ ~(len <= len - 1)
    BY <2>1 DEF FileStoreAssumption
  <2>3. Ends(len - 1)
    <3> SUFFICES ASSUME NEW b \in Block, b > len - 1 PROVE files[n][b] = 0
      OBVIOUS
    <3>1. b = len \/ b > len
      BY <2>1 DEF Block, FileStoreAssumption
    <3> QED BY <1>1, <3>1
  <2>4. len - 1 \in T
    BY <2>2, <2>3
  <2> HIDE DEF T
  <2> QED BY <1>1, <2>2, <2>4
<1>3. len \in 0 .. FileLen /\ Ends(len)
  BY <1>1
<1>4. \E x \in 0 .. FileLen : (x > 0 => files[n][x] # 0) /\ Ends(x)
  BY <1>2, <1>3
<1>5. Length(n) = CHOOSE x \in 0 .. FileLen : (x > 0 => files[n][x] # 0) /\ Ends(x)
  BY DEF Length
<1> HIDE DEF Ends
<1>6. Length(n) \in 0 .. FileLen /\ (Length(n) > 0 => files[n][Length(n)] # 0) /\ Ends(Length(n))
  BY <1>4, <1>5
<1> QED BY <1>6 DEF Ends

\* A file is at least as long as the place of any of its blocks.
LEMMA LengthCovers ==
  ASSUME FileStoreAssumption, files \in [Number -> [Block -> Number \cup {0}]],
         NEW n \in Number, NEW b \in Block, files[n][b] # 0
  PROVE  b <= Length(n)
<1>1. Length(n) \in 0 .. FileLen /\ ~(b > Length(n))
  BY LengthOfFile
<1> QED BY <1>1 DEF Block, FileStoreAssumption

----------------------------------------------------------------------------
(* The inductive invariant *)

LEMMA NoJobType == FileStoreAssumption => NoJob \in Registers
<1> SUFFICES ASSUME FileStoreAssumption PROVE NoJob \in Registers
  OBVIOUS
<1>1. 0 \in 0 .. FileLen
  BY DEF FileStoreAssumption
<1> QED BY <1>1 DEF NoJob, Registers

LEMMA InitFInv == FileStoreAssumption /\ Init => FInv
<1> SUFFICES ASSUME FileStoreAssumption, Init PROVE FInv
  OBVIOUS
<1>1. TypeOK
  <2>1. NoBlocks \in [Block -> Number \cup {0}] /\ file_cnt \in 1 .. MaxUploads + 1
    BY DEF Init, NoBlocks, FileStoreAssumption
  <2>2. uploads \in 0 .. MaxUploads /\ restarts \in 0 .. MaxRestarts
    BY DEF Init, FileStoreAssumption
  <2>3. overlap \in BOOLEAN
    BY DEF Init
  <2>4. opened \in [Number -> 0 .. MaxRestarts + 1]
    BY DEF Init, FileStoreAssumption
  <2> QED BY <2>1, <2>2, <2>3, <2>4, NoJobType DEF Init, TypeOK
<1>2. Counting = {} /\ Writing = {}
  BY DEF Init, Counting, Writing
<1>3. CountInv
  BY <1>2, FS_EmptySet DEF Init, CountInv
<1>4. OwnNumber /\ Contents
  BY <1>2 DEF Init, OwnNumber, Contents, Run
<1> QED BY <1>1, <1>3, <1>4 DEF FInv

\* The steps of one thread change only its own place and registers.
LEMMA CountingStep ==
  ASSUME TypeOK, NEW t \in Thread, NEW step, NEW r, Goto(t, step, r)
  PROVE  /\ \A u \in Thread : u # t => pc'[u] = pc[u] /\ job'[u] = job[u]
         /\ pc'[t] = step /\ job'[t] = r
         /\ Counting' = IF step \in {"load", "store"} THEN Counting \cup {t} ELSE Counting \ {t}
         /\ Writing' = IF step \in {"open", "receive"} THEN Writing \cup {t} ELSE Writing \ {t}
<1>1. /\ \A u \in Thread : u # t => pc'[u] = pc[u] /\ job'[u] = job[u]
      /\ pc'[t] = step /\ job'[t] = r
  BY DEF TypeOK, Goto
<1> QED BY <1>1 DEF Counting, Writing

LEMMA UploadNameFInv ==
  ASSUME FileStoreAssumption, FInv, NEW t \in Thread, UploadName(t)
  PROVE  FInv'
<1> DEFINE r == [NoJob EXCEPT !.file = file_cnt, !.id = uploads + 1]
<1>1. /\ pc[t] = "idle" /\ uploads < MaxUploads /\ uploads' = uploads + 1
      /\ Goto(t, "load", r)
      /\ overlap' = (overlap \/ \E s \in Thread : pc[s] \in {"load", "store"})
      /\ UNCHANGED <<files, file_cnt, gone, restarts, opened, announced>>
  BY DEF UploadName, Ready
<1>2. TypeOK /\ CountInv
  BY DEF FInv
<1>3. t \notin Counting /\ t \notin Writing
  BY <1>1 DEF Counting, Writing
<1>4. Cardinality(Counting) \in Nat /\ uploads \in Nat /\ MaxUploads \in Nat /\ file_cnt \in Nat
  BY <1>2, FS_CardinalityType DEF CountInv, TypeOK, FileStoreAssumption
<1>5. file_cnt \in Number /\ uploads + 1 \in Number
  BY <1>1, <1>2, <1>4 DEF CountInv, TypeOK, Number
<1>6. r \in Registers /\ r.file = file_cnt /\ r.id = uploads + 1 /\ r.pos = 0
  <2>1. NoJob \in Registers /\ NoJob.pos = 0
    BY NoJobType DEF NoJob
  <2> QED BY <1>5, <2>1 DEF Registers
<1> HIDE DEF r
<1>7. /\ \A u \in Thread : u # t => pc'[u] = pc[u] /\ job'[u] = job[u]
      /\ pc'[t] = "load" /\ job'[t] = r
      /\ Counting' = Counting \cup {t} /\ Writing' = Writing
  BY <1>1, <1>2, <1>3, CountingStep
<1>8. TypeOK'
  <2>1. overlap' \in BOOLEAN
    BY <1>1, Zenon
  <2>2. pc' \in [Thread -> {"idle", "load", "store", "open", "receive", "send"}] /\ job' \in [Thread -> Registers]
    BY <1>1, <1>2, <1>6 DEF Goto, TypeOK
  <2> QED BY <1>1, <1>2, <1>4, <2>1, <2>2 DEF TypeOK
<1>9. IsFiniteSet(Counting') /\ Cardinality(Counting') = Cardinality(Counting) + 1
  BY <1>2, <1>3, <1>7, FS_AddElement DEF CountInv
<1>10. CountInv'
  <2>1. \A u \in Thread : pc'[u] = "store" => u # t /\ job'[u] = job[u] /\ pc[u] = "store"
    BY <1>7
  <2>2. \A u \in Thread : pc'[u] = "store" => job'[u].cnt \in Number /\ job'[u].cnt \in Nat
                            /\ job'[u].cnt + Cardinality(Counting') <= uploads' + 1
    BY <1>1, <1>2, <1>4, <1>9, <2>1 DEF CountInv, Number
  <2>3. file_cnt' + Cardinality(Counting') <= uploads' + 1
    BY <1>1, <1>2, <1>4, <1>9 DEF CountInv
  <2>4. \A u \in Counting' \cup Writing' : job'[u].file \in Number /\ job'[u].id \in Number
    BY <1>2, <1>5, <1>6, <1>7 DEF CountInv, Counting, Writing
  <2>5. \A u \in Thread : pc'[u] \in {"load", "store", "open"} => job'[u].pos = 0
    BY <1>1, <1>2, <1>6, <1>7 DEF CountInv
  <2>6. \A u \in Thread : pc'[u] = "send" => job'[u].file \in Number
    BY <1>2, <1>7 DEF CountInv
  <2> QED BY <1>9, <2>2, <2>3, <2>4, <2>5, <2>6 DEF CountInv
<1>11. ASSUME ~overlap' PROVE OwnNumber' /\ Contents'
  <2>1. ~overlap /\ Counting = {} /\ OwnNumber /\ Contents
    BY <1>1, <1>11 DEF FInv, Counting
  <2>2. OwnNumber'
    BY <1>1, <1>3, <1>6, <1>7, <2>1 DEF OwnNumber, Counting, Writing, Run
  <2>3. Contents'
    BY <1>1, <1>7, <2>1 DEF Contents, Emptied, Run
  <2> QED BY <2>2, <2>3
<1> QED BY <1>8, <1>10, <1>11 DEF FInv

LEMMA CountLoadFInv ==
  ASSUME FileStoreAssumption, FInv, NEW t \in Thread, CountLoad(t)
  PROVE  FInv'
<1> DEFINE r == [job[t] EXCEPT !.cnt = file_cnt]
<1>1. /\ pc[t] = "load" /\ Goto(t, "store", r)
      /\ UNCHANGED <<files, file_cnt, gone, uploads, restarts, overlap, opened, announced>>
  BY DEF CountLoad
<1>2. TypeOK /\ CountInv
  BY DEF FInv
<1>3. t \in Counting /\ t \notin Writing
  BY <1>1 DEF Counting, Writing
<1>4. /\ Cardinality(Counting) \in Nat /\ uploads \in Nat /\ MaxUploads \in Nat /\ file_cnt \in Nat
      /\ Cardinality(Counting) >= 1
  BY <1>2, <1>3, FS_CardinalityType, FS_EmptySet DEF CountInv, TypeOK, FileStoreAssumption
<1>5. file_cnt \in Number
  BY <1>1, <1>2, <1>4 DEF CountInv, TypeOK, Number
<1>6. r \in Registers /\ r.file = job[t].file /\ r.id = job[t].id /\ r.cnt = file_cnt /\ r.pos = job[t].pos
  BY <1>2, <1>5 DEF Registers, TypeOK
<1> HIDE DEF r
<1>7. /\ \A u \in Thread : u # t => pc'[u] = pc[u] /\ job'[u] = job[u]
      /\ pc'[t] = "store" /\ job'[t] = r
      /\ Counting' = Counting /\ Writing' = Writing
  BY <1>1, <1>2, <1>3, CountingStep
<1>8. TypeOK'
  BY <1>1, <1>2, <1>6 DEF Goto, TypeOK
<1>9. CountInv'
  BY <1>1, <1>2, <1>3, <1>4, <1>5, <1>6, <1>7 DEF CountInv, Counting, Writing, TypeOK
<1>10. ASSUME ~overlap' PROVE OwnNumber' /\ Contents'
  <2>1. OwnNumber /\ Contents
    BY <1>1, <1>10 DEF FInv
  <2>2. OwnNumber'
    BY <1>1, <1>3, <1>6, <1>7, <2>1 DEF OwnNumber, Counting, Writing, Run
  <2>3. Contents'
    BY <1>1, <1>7, <2>1 DEF Contents, Emptied, Run
  <2> QED BY <2>2, <2>3
<1> QED BY <1>8, <1>9, <1>10 DEF FInv

LEMMA CountStoreFInv ==
  ASSUME FileStoreAssumption, FInv, NEW t \in Thread, CountStore(t)
  PROVE  FInv'
<1> DEFINE r == [job[t] EXCEPT !.cnt = 0]
<1>1. /\ pc[t] = "store" /\ Goto(t, "open", r) /\ file_cnt' = job[t].cnt + 1
      /\ UNCHANGED <<files, gone, uploads, restarts, overlap, opened, announced>>
  BY DEF CountStore
<1>2. TypeOK /\ CountInv
  BY DEF FInv
<1>3. t \in Counting /\ t \notin Writing
  BY <1>1 DEF Counting, Writing
<1>4. /\ Cardinality(Counting) \in Nat /\ uploads \in Nat /\ MaxUploads \in Nat /\ file_cnt \in Nat
      /\ Cardinality(Counting) >= 1
  BY <1>2, <1>3, FS_CardinalityType, FS_EmptySet DEF CountInv, TypeOK, FileStoreAssumption
<1>5. /\ job[t].cnt \in Number /\ job[t].cnt \in Nat
      /\ job[t].cnt + Cardinality(Counting) <= uploads + 1
      /\ job[t].file \in Number /\ job[t].id \in Number
  BY <1>1, <1>2, <1>3 DEF CountInv, Number
<1>6. r \in Registers /\ r.file = job[t].file /\ r.id = job[t].id /\ r.pos = job[t].pos
  BY <1>2 DEF Registers, TypeOK
<1> HIDE DEF r
<1>7. /\ \A u \in Thread : u # t => pc'[u] = pc[u] /\ job'[u] = job[u]
      /\ pc'[t] = "open" /\ job'[t] = r
      /\ Counting' = Counting \ {t} /\ Writing' = Writing \cup {t}
  BY <1>1, <1>2, <1>3, CountingStep
<1>8. TypeOK'
  <2>1. file_cnt' \in 1 .. MaxUploads + 1
    BY <1>1, <1>4, <1>5 DEF Number
  <2> QED BY <1>1, <1>2, <1>6, <2>1 DEF Goto, TypeOK
<1>9. IsFiniteSet(Counting') /\ Cardinality(Counting') = Cardinality(Counting) - 1
  BY <1>2, <1>3, <1>7, FS_RemoveElement DEF CountInv
<1>10. CountInv'
  <2>1. \A u \in Thread : pc'[u] = "store" => u # t /\ job'[u] = job[u] /\ pc[u] = "store"
    BY <1>7
  <2>2. \A u \in Thread : pc'[u] = "store" => job'[u].cnt \in Number /\ job'[u].cnt \in Nat
                            /\ job'[u].cnt + Cardinality(Counting') <= uploads' + 1
    BY <1>1, <1>2, <1>4, <1>9, <2>1 DEF CountInv, Number
  <2>3. file_cnt' + Cardinality(Counting') <= uploads' + 1
    BY <1>1, <1>4, <1>5, <1>9
  <2>4. \A u \in Counting' \cup Writing' : job'[u].file \in Number /\ job'[u].id \in Number
    BY <1>2, <1>5, <1>6, <1>7 DEF CountInv, Counting, Writing
  <2>5. \A u \in Thread : pc'[u] \in {"load", "store", "open"} => job'[u].pos = 0
    BY <1>1, <1>2, <1>6, <1>7 DEF CountInv
  <2>6. \A u \in Thread : pc'[u] = "send" => job'[u].file \in Number
    BY <1>2, <1>7 DEF CountInv
  <2> QED BY <1>9, <2>2, <2>3, <2>4, <2>5, <2>6 DEF CountInv
<1>11. ASSUME ~overlap' PROVE OwnNumber' /\ Contents'
  <2>1. OwnNumber /\ Contents
    BY <1>1, <1>11 DEF FInv
  <2>2. /\ Counting' = {} /\ job[t].file = file_cnt /\ file_cnt' = file_cnt + 1
        /\ \A u \in Thread : pc'[u] # "store"
    BY <1>1, <1>3, <1>7, <2>1 DEF OwnNumber, Counting
  <2>3. \A u \in Writing : job[u].file \in Nat /\ u # t /\ job'[u] = job[u]
    BY <1>2, <1>3, <1>7 DEF CountInv, Number, Writing
  <2>4. \A a \in announced : a.file \in Nat
    BY <1>2 DEF TypeOK, Number
  <2>5. OwnNumber'
    <3>1. \A n \in Number : n \in Nat
      BY DEF Number
    <3>2. Run' = Run
      BY <1>1 DEF Run
    <3>3. opened[job[t].file] # Run
      BY <1>4, <1>5, <2>1, <2>2 DEF OwnNumber
    <3>4. \A u \in Thread : pc'[u] = "open" => opened'[job'[u].file] # Run'
      BY <1>1, <1>6, <1>7, <2>1, <3>2, <3>3 DEF OwnNumber
    <3>5. \A u \in Thread : pc'[u] = "receive" => opened'[job'[u].file] = Run'
      BY <1>1, <1>7, <2>1, <3>2 DEF OwnNumber
    <3>6. \A n \in Number : opened'[n] <= Run' /\ (opened'[n] = Run' => n < file_cnt')
      BY <1>1, <1>4, <2>1, <2>2, <3>1, <3>2 DEF OwnNumber
    <3>7. \A a \in announced' : a.run <= Run' /\ (a.run = Run' => a.file < file_cnt')
      BY <1>1, <1>4, <2>1, <2>2, <2>4, <3>2 DEF OwnNumber
    <3>8. \A a \in announced', u \in Writing' : a.run = Run' => a.file # job'[u].file
      BY <1>1, <1>4, <1>6, <1>7, <2>1, <2>2, <2>3, <2>4, <3>2 DEF OwnNumber
    <3>9. /\ \A u \in Writing' : job'[u].file < file_cnt'
          /\ \A u \in Writing', v \in Writing' : job'[u].file = job'[v].file => u = v
      BY <1>1, <1>4, <1>6, <1>7, <2>1, <2>2, <2>3 DEF OwnNumber
    <3> QED BY <2>2, <3>4, <3>5, <3>6, <3>7, <3>8, <3>9 DEF OwnNumber
  <2>6. Contents'
    BY <1>1, <1>7, <2>1 DEF Contents, Emptied, Run
  <2> QED BY <2>5, <2>6
<1> QED BY <1>8, <1>10, <1>11 DEF FInv

\* A step of a thread that does not count, and that keeps its file while it
\* writes it.
LEMMA KeepStep ==
  ASSUME FileStoreAssumption, TypeOK, CountInv, NEW t \in Thread,
         NEW step \in {"idle", "receive", "send"}, NEW r \in Registers, Goto(t, step, r),
         t \notin Counting,
         step = "receive" => t \in Writing /\ r.file = job[t].file /\ r.id = job[t].id,
         step = "send" => r.file \in Number,
         UNCHANGED <<file_cnt, uploads>>
  PROVE  /\ pc' \in [Thread -> {"idle", "load", "store", "open", "receive", "send"}]
         /\ job' \in [Thread -> Registers]
         /\ \A u \in Thread : u # t => pc'[u] = pc[u] /\ job'[u] = job[u]
         /\ pc'[t] = step /\ job'[t] = r
         /\ Counting' = Counting
         /\ Writing' = IF step = "receive" THEN Writing ELSE Writing \ {t}
         /\ \A u \in Writing' : job'[u].file = job[u].file /\ job'[u].id = job[u].id
         /\ CountInv'
         /\ OwnNumber /\ UNCHANGED <<announced, opened, restarts>>
              /\ (step = "receive" => pc[t] = "receive") => OwnNumber'
<1>1. /\ pc' \in [Thread -> {"idle", "load", "store", "open", "receive", "send"}]
      /\ job' \in [Thread -> Registers]
  BY DEF TypeOK, Goto
<1>2. /\ \A u \in Thread : u # t => pc'[u] = pc[u] /\ job'[u] = job[u]
      /\ pc'[t] = step /\ job'[t] = r
      /\ Counting' = Counting
      /\ Writing' = IF step = "receive" THEN Writing ELSE Writing \ {t}
  BY CountingStep
<1>3. \A u \in Writing' : job'[u].file = job[u].file /\ job'[u].id = job[u].id
  BY <1>2 DEF Writing
<1>4. \A u \in Counting : u # t /\ job'[u] = job[u]
  BY <1>2 DEF Counting
<1>5. \A u \in Thread : pc'[u] \in {"load", "store", "open"} => pc[u] = pc'[u] /\ job'[u] = job[u]
  BY <1>2
<1>6. CountInv'
  BY <1>2, <1>3, <1>4, <1>5 DEF CountInv
<1>7. ASSUME OwnNumber, UNCHANGED <<announced, opened, restarts>>,
             step = "receive" => pc[t] = "receive"
      PROVE  OwnNumber'
  BY <1>2, <1>3, <1>4, <1>5, <1>7 DEF OwnNumber, Run
<1> QED BY <1>1, <1>2, <1>3, <1>6, <1>7

LEMMA UploadOpenFInv ==
  ASSUME FileStoreAssumption, FInv, NEW t \in Thread, UploadOpen(t)
  PROVE  FInv'
<1> DEFINE f == job[t].file
<1>1. /\ pc[t] = "open" /\ Goto(t, "receive", job[t])
      /\ files' = [files EXCEPT ![f] = NoBlocks]
      /\ opened' = [opened EXCEPT ![f] = Run]
      /\ UNCHANGED <<file_cnt, gone, uploads, restarts, overlap, announced>>
  BY DEF UploadOpen
<1>2. TypeOK /\ CountInv
  BY DEF FInv
<1>3. t \notin Counting /\ t \in Writing /\ job[t] \in Registers
  BY <1>1, <1>2 DEF Counting, Writing, TypeOK
<1>4. /\ pc' \in [Thread -> {"idle", "load", "store", "open", "receive", "send"}]
      /\ job' \in [Thread -> Registers]
      /\ \A u \in Thread : u # t => pc'[u] = pc[u] /\ job'[u] = job[u]
      /\ pc'[t] = "receive" /\ job'[t] = job[t]
      /\ Counting' = Counting /\ Writing' = Writing /\ CountInv'
  BY <1>1, <1>2, <1>3, KeepStep
<1>5. NoBlocks \in [Block -> Number \cup {0}]
  BY DEF NoBlocks
<1>6. f \in Number /\ Run \in 1 .. MaxRestarts + 1 /\ Run' = Run
  BY <1>1, <1>2, <1>3 DEF CountInv, TypeOK, Run, FileStoreAssumption
<1>7. /\ opened' \in [Number -> 0 .. MaxRestarts + 1]
      /\ opened'[f] = Run /\ \A n \in Number : n # f => opened'[n] = opened[n]
      /\ files' \in [Number -> [Block -> Number \cup {0}]]
      /\ files'[f] = NoBlocks /\ \A n \in Number : n # f => files'[n] = files[n]
  BY <1>1, <1>2, <1>5, <1>6 DEF TypeOK, FileStoreAssumption
<1>8. TypeOK'
  BY <1>1, <1>2, <1>4, <1>7 DEF TypeOK
<1>9. ASSUME ~overlap' PROVE OwnNumber' /\ Contents'
  <2>1. OwnNumber /\ Contents
    BY <1>1, <1>9 DEF FInv
  <2>2. \A u \in Thread : pc[u] \in {"open", "receive"} /\ u # t => job[u].file # f /\ job[u].file \in Number
    BY <1>2, <1>3, <2>1 DEF OwnNumber, Writing, CountInv
  <2>3. \A a \in announced : a.file \in Number /\ (a.file = f => a.run # Run)
    BY <1>2, <1>3, <2>1 DEF OwnNumber, TypeOK
  <2>4. job[t].pos = 0 /\ opened[f] # Run
    BY <1>1, <1>2, <2>1 DEF CountInv, OwnNumber
  <2>5. OwnNumber'
    <3>1. \A n \in Number : opened'[n] <= Run' /\ (opened'[n] = Run' => n < file_cnt')
      BY <1>1, <1>3, <1>6, <1>7, <2>1 DEF OwnNumber
    <3>2. \A u \in Thread : pc'[u] = "open" => opened'[job'[u].file] # Run'
      BY <1>4, <1>6, <1>7, <2>1, <2>2 DEF OwnNumber
    <3>3. \A u \in Thread : pc'[u] = "receive" => opened'[job'[u].file] = Run'
      BY <1>4, <1>6, <1>7, <2>1, <2>2 DEF OwnNumber
    <3>4. \A u \in Thread : job'[u] = job[u] /\ (pc'[u] = "store" => pc[u] = "store")
      BY <1>4
    <3>5. Counting \subseteq Thread /\ Writing \subseteq Thread
      BY DEF Counting, Writing
    <3>6. /\ \A u \in Counting', v \in Counting' : u = v
          /\ \A u \in Counting' : job'[u].file = file_cnt'
          /\ \A u \in Thread : pc'[u] = "store" => job'[u].cnt = file_cnt'
          /\ \A u \in Writing' : job'[u].file < file_cnt'
          /\ \A u \in Writing', v \in Writing' : job'[u].file = job'[v].file => u = v
      BY <1>1, <1>4, <2>1, <3>4, <3>5 DEF OwnNumber
    <3>7. /\ \A a \in announced' : a.run <= Run' /\ (a.run = Run' => a.file < file_cnt')
          /\ \A a \in announced', u \in Writing' : a.run = Run' => a.file # job'[u].file
      BY <1>1, <1>4, <1>6, <2>1, <3>4, <3>5 DEF OwnNumber
    <3> QED BY <3>1, <3>2, <3>3, <3>6, <3>7 DEF OwnNumber
  <2>6. ASSUME NEW u \in Thread, pc'[u] = "receive", NEW b \in Block, b <= job'[u].pos
        PROVE  files'[job'[u].file][b] = job'[u].id
    <3>1. u # t
      BY <1>4, <2>4, <2>6 DEF Block
    <3>2. pc[u] = "receive" /\ job'[u] = job[u] /\ files'[job[u].file] = files[job[u].file]
      BY <1>4, <1>7, <2>2, <2>6, <3>1
    <3> QED BY <2>1, <2>6, <3>2 DEF Contents
  <2>7. \A a \in announced' : opened'[a.file] = a.run =>
          \A b \in Block : files'[a.file][b] = a.id
    BY <1>1, <1>7, <2>1, <2>3 DEF Contents
  <2>8. ASSUME NEW u \in Thread, pc'[u] = "send"
        PROVE  /\ job'[u].left \/ opened'[job'[u].file] = Run'
               /\ job'[u].pos + job'[u].todo \in 0 .. FileLen
               /\ ~Emptied(u)' /\ job'[u].pos + job'[u].todo > 0 =>
                    files'[job'[u].file][job'[u].pos + job'[u].todo] # 0
    <3>1. pc[u] = "send" /\ job'[u] = job[u] /\ job[u].file \in Number
      BY <1>2, <1>4, <2>8 DEF CountInv
    <3>2. /\ job[u].left \/ opened[job[u].file] = Run
          /\ job[u].pos + job[u].todo \in 0 .. FileLen
          /\ ~Emptied(u) /\ job[u].pos + job[u].todo > 0 =>
               files[job[u].file][job[u].pos + job[u].todo] # 0
      BY <2>1, <3>1 DEF Contents
    <3>3. CASE job[u].file = f
      BY <1>6, <1>7, <2>4, <3>1, <3>2, <3>3 DEF Emptied
    <3>4. CASE job[u].file # f
      BY <1>6, <1>7, <3>1, <3>2, <3>4 DEF Emptied
    <3> QED BY <3>3, <3>4
  <2> QED BY <2>5, <2>6, <2>7, <2>8 DEF Contents
<1> QED BY <1>4, <1>8, <1>9 DEF FInv

LEMMA UploadBlockFInv ==
  ASSUME FileStoreAssumption, FInv, NEW t \in Thread, UploadBlock(t)
  PROVE  FInv'
<1> DEFINE f == job[t].file
           p == job[t].pos + 1
           r == [job[t] EXCEPT !.pos = p]
<1>1. /\ pc[t] = "receive" /\ p \in Block /\ Goto(t, "receive", r)
      /\ files' = [files EXCEPT ![f][p] = job[t].id]
      /\ UNCHANGED <<file_cnt, gone, uploads, restarts, overlap, opened, announced>>
  BY DEF UploadBlock
<1>2. TypeOK /\ CountInv
  BY DEF FInv
<1>3. t \notin Counting /\ t \in Writing /\ f \in Number /\ job[t].id \in Number /\ job[t] \in Registers
  BY <1>1, <1>2 DEF Counting, Writing, TypeOK, CountInv
<1>4. r \in Registers /\ r.file = f /\ r.id = job[t].id /\ r.pos = p
  <2>1. p \in 0 .. FileLen
    BY <1>1 DEF Block, FileStoreAssumption
  <2> QED BY <1>3, <2>1 DEF Registers
<1> HIDE DEF r
<1>5. /\ pc' \in [Thread -> {"idle", "load", "store", "open", "receive", "send"}]
      /\ job' \in [Thread -> Registers]
      /\ \A u \in Thread : u # t => pc'[u] = pc[u] /\ job'[u] = job[u]
      /\ pc'[t] = "receive" /\ job'[t] = r
      /\ CountInv' /\ (OwnNumber => OwnNumber')
  BY <1>1, <1>2, <1>3, <1>4, KeepStep
<1>6. /\ files' \in [Number -> [Block -> Number \cup {0}]]
      /\ \A n \in Number : n # f => files'[n] = files[n]
      /\ \A b \in Block : files'[f][b] = IF b = p THEN job[t].id ELSE files[f][b]
  BY <1>1, <1>2, <1>3 DEF TypeOK
<1>7. TypeOK'
  BY <1>1, <1>2, <1>5, <1>6 DEF TypeOK
<1>8. ASSUME ~overlap' PROVE OwnNumber' /\ Contents'
  <2>1. OwnNumber /\ Contents
    BY <1>1, <1>8 DEF FInv
  <2>2. \A u \in Thread : pc[u] = "receive" /\ u # t => job[u].file # f /\ job[u].file \in Number
    BY <1>2, <1>3, <2>1 DEF OwnNumber, Writing, CountInv
  <2>3. /\ Run' = Run /\ opened[f] = Run
        /\ \A a \in announced : a.file \in Number /\ (a.file = f => a.run # Run)
    BY <1>1, <1>2, <1>3, <2>1 DEF OwnNumber, TypeOK, Run
  <2>4. ASSUME NEW u \in Thread, pc'[u] = "receive", NEW b \in Block, b <= job'[u].pos
        PROVE  files'[job'[u].file][b] = job'[u].id
    <3>1. CASE u = t
      <4>1. b = p \/ b <= job[t].pos
        BY <1>3, <1>4, <1>5, <2>4, <3>1 DEF Block, FileStoreAssumption, Registers
      <4> QED BY <1>1, <1>4, <1>5, <1>6, <2>1, <3>1, <4>1 DEF Contents
    <3>2. CASE u # t
      BY <1>5, <1>6, <2>1, <2>2, <2>4, <3>2 DEF Contents
    <3> QED BY <3>1, <3>2
  <2>5. \A a \in announced' : opened'[a.file] = a.run =>
          \A b \in Block : files'[a.file][b] = a.id
    BY <1>1, <1>6, <2>1, <2>3 DEF Contents
  <2>6. ASSUME NEW u \in Thread, pc'[u] = "send"
        PROVE  /\ job'[u].left \/ opened'[job'[u].file] = Run'
               /\ job'[u].pos + job'[u].todo \in 0 .. FileLen
               /\ ~Emptied(u)' /\ job'[u].pos + job'[u].todo > 0 =>
                    files'[job'[u].file][job'[u].pos + job'[u].todo] # 0
    <3>1. pc[u] = "send" /\ job'[u] = job[u] /\ job[u].file \in Number
      BY <1>2, <1>5, <2>6 DEF CountInv
    <3>2. /\ job[u].left \/ opened[job[u].file] = Run
          /\ job[u].pos + job[u].todo \in 0 .. FileLen
          /\ ~Emptied(u) /\ job[u].pos + job[u].todo > 0 =>
               files[job[u].file][job[u].pos + job[u].todo] # 0
      BY <2>1, <3>1 DEF Contents
    <3>3. Emptied(u)' <=> Emptied(u)
      BY <1>1, <2>3, <3>1 DEF Emptied
    <3>4. job[t].id # 0
      BY <1>3 DEF Number
    <3>5. job[u].pos + job[u].todo > 0 => job[u].pos + job[u].todo \in Block
      BY <3>2 DEF Block, FileStoreAssumption
    <3> QED BY <1>1, <1>6, <2>3, <3>1, <3>2, <3>3, <3>4, <3>5
  <2> QED BY <1>5, <2>1, <2>4, <2>5, <2>6 DEF Contents
<1> QED BY <1>5, <1>7, <1>8 DEF FInv

LEMMA UploadDoneFInv ==
  ASSUME FileStoreAssumption, FInv, NEW t \in Thread, UploadDone(t)
  PROVE  FInv'
<1> DEFINE a0 == [file |-> job[t].file, id |-> job[t].id, run |-> Run]
<1>1. /\ pc[t] = "receive" /\ job[t].pos = FileLen /\ Goto(t, "idle", NoJob)
      /\ announced' = announced \cup {a0}
      /\ UNCHANGED <<files, file_cnt, gone, uploads, restarts, overlap, opened>>
  BY DEF UploadDone
<1>2. TypeOK /\ CountInv
  BY DEF FInv
<1>3. t \notin Counting /\ t \in Writing /\ job[t].file \in Number /\ job[t].id \in Number
  BY <1>1, <1>2 DEF Counting, Writing, CountInv
<1>4. /\ pc' \in [Thread -> {"idle", "load", "store", "open", "receive", "send"}]
      /\ job' \in [Thread -> Registers]
      /\ \A u \in Thread : u # t => pc'[u] = pc[u] /\ job'[u] = job[u]
      /\ pc'[t] = "idle" /\ job'[t] = NoJob
      /\ Counting' = Counting /\ Writing' = Writing \ {t}
      /\ CountInv'
  BY <1>1, <1>2, <1>3, NoJobType, KeepStep
<1>5. TypeOK'
  <2>1. Run \in 1 .. MaxRestarts + 1
    BY <1>2 DEF TypeOK, Run, FileStoreAssumption
  <2> QED BY <1>1, <1>2, <1>3, <1>4, <2>1 DEF TypeOK
<1>6. ASSUME ~overlap' PROVE OwnNumber' /\ Contents'
  <2>1. OwnNumber /\ Contents
    BY <1>1, <1>6 DEF FInv
  <2>2. \A b \in Block : files[a0.file][b] = a0.id
    BY <1>1, <2>1 DEF Contents, Block, FileStoreAssumption
  <2>3. OwnNumber'
    <3>1. \A u \in Writing' : u # t /\ u \in Writing /\ job'[u] = job[u]
      BY <1>4 DEF Writing
    <3>2. \A u \in Counting' : u \in Counting /\ job'[u] = job[u]
      BY <1>3, <1>4 DEF Counting
    <3>3. \A u \in Thread : pc'[u] = "store" => pc[u] = "store" /\ job'[u] = job[u]
      BY <1>4
    <3>4. Run' = Run /\ Run \in Nat
      BY <1>1, <1>2 DEF Run, TypeOK, FileStoreAssumption
    <3>5. \A a \in announced' : /\ a.run <= Run' /\ (a.run = Run' => a.file < file_cnt')
                               /\ \A u \in Writing' : a.run = Run' => a.file # job'[u].file
      BY <1>1, <1>3, <2>1, <3>1, <3>4 DEF OwnNumber
    <3>6. \A u \in Thread : pc'[u] \in {"open", "receive"} => pc[u] = pc'[u] /\ job'[u] = job[u]
      BY <1>4
    <3> QED BY <1>1, <2>1, <3>1, <3>2, <3>3, <3>4, <3>5, <3>6 DEF OwnNumber
  <2>4. Contents'
    BY <1>1, <1>4, <2>1, <2>2 DEF Contents, Emptied, Run
  <2> QED BY <2>3, <2>4
<1> QED BY <1>4, <1>5, <1>6 DEF FInv

\* DOWNLOAD_FILE of any file, whether the group was told of it or not.
LEMMA DownloadFInv ==
  ASSUME FileStoreAssumption, FInv, NEW t \in Thread,
         DownloadBlock(t) \/ DownloadDone(t) \/ \E n \in Number : DownloadOpen(t, n)
  PROVE  FInv'
<1>1. TypeOK /\ CountInv /\ job[t] \in Registers
  BY DEF FInv, TypeOK
<1>2. UNCHANGED <<files, file_cnt, gone, uploads, restarts, overlap, opened, announced>>
  BY DEF DownloadBlock, DownloadDone, DownloadOpen
<1>3. pc[t] \in {"idle", "send"} /\ t \notin Counting
  BY DEF DownloadBlock, DownloadDone, DownloadOpen, Ready, Counting
<1>4. ASSUME NEW step \in {"idle", "send"}, NEW r \in Registers, Goto(t, step, r),
             step = "send" => r.file \in Number,
             ~overlap /\ step = "send" =>
               /\ r.left \/ opened[r.file] = Run
               /\ r.pos + r.todo \in 0 .. FileLen
               /\ ~(r.left /\ opened[r.file] = Run) /\ r.pos + r.todo > 0 =>
                    files[r.file][r.pos + r.todo] # 0
      PROVE  FInv'
  <2>1. /\ pc' \in [Thread -> {"idle", "load", "store", "open", "receive", "send"}]
        /\ job' \in [Thread -> Registers]
        /\ \A u \in Thread : u # t => pc'[u] = pc[u] /\ job'[u] = job[u]
        /\ pc'[t] = step /\ job'[t] = r
        /\ CountInv' /\ (OwnNumber => OwnNumber')
    BY <1>1, <1>2, <1>3, <1>4, KeepStep
  <2>2. TypeOK'
    BY <1>1, <1>2, <2>1 DEF TypeOK
  <2>3. ~overlap => OwnNumber' /\ Contents'
    BY <1>2, <1>4, <2>1 DEF FInv, Contents, Emptied, Run
  <2> QED BY <1>2, <2>1, <2>2, <2>3 DEF FInv
<1>5. CASE DownloadDone(t)
  BY <1>4, <1>5, NoJobType DEF DownloadDone
<1>6. CASE DownloadBlock(t)
  <2> DEFINE r == [job[t] EXCEPT !.pos = @ + 1, !.todo = @ - 1]
  <2>1. r.file = job[t].file /\ r.left = job[t].left /\ r.pos = job[t].pos + 1 /\ r.todo = job[t].todo - 1
    BY <1>1 DEF Registers
  <2>2. /\ pc[t] = "send" /\ job[t].pos < Length(job[t].file) /\ Goto(t, "send", r)
        /\ job[t].pos \in Nat /\ job[t].todo \in 0 .. FileLen /\ FileLen \in Nat /\ job[t].todo > 0
    BY <1>1, <1>6 DEF Registers, FileStoreAssumption, DownloadBlock
  <2>3. job[t].file \in Number /\ Length(job[t].file) \in 0 .. FileLen
    BY <1>1, <2>2, LengthOfFile DEF TypeOK, CountInv
  <2>4. job[t].pos + 1 \in 0 .. FileLen /\ job[t].todo - 1 \in 0 .. FileLen
    BY <2>2, <2>3
  <2>5. r \in Registers
    BY <1>1, <2>4 DEF Registers
  <2>6. r.pos + r.todo = job[t].pos + job[t].todo
    BY <2>1, <2>2
  <2>7. ~overlap => /\ r.left \/ opened[r.file] = Run
                    /\ r.pos + r.todo \in 0 .. FileLen
                    /\ ~(r.left /\ opened[r.file] = Run) /\ r.pos + r.todo > 0 =>
                         files[r.file][r.pos + r.todo] # 0
    BY <2>1, <2>2, <2>6 DEF FInv, Contents, Emptied
  <2> HIDE DEF r
  <2> QED BY <1>4, <2>1, <2>2, <2>3, <2>5, <2>7
<1>7. ASSUME NEW n \in Number, DownloadOpen(t, n) PROVE FInv'
  <2> DEFINE r == [NoJob EXCEPT !.file = n, !.todo = Length(n), !.left = (opened[n] # Run)]
  <2>1. Goto(t, "send", r)
    BY <1>7 DEF DownloadOpen
  <2>2. Length(n) \in 0 .. FileLen /\ (Length(n) > 0 => files[n][Length(n)] # 0)
    BY <1>1, LengthOfFile DEF TypeOK
  <2>3. r \in Registers /\ r.file = n /\ r.pos = 0 /\ r.todo = Length(n) /\ r.left = (opened[n] # Run)
    <3>1. NoJob \in Registers /\ NoJob.pos = 0
      BY NoJobType DEF NoJob
    <3>2. (opened[n] # Run) \in BOOLEAN
      BY Zenon
    <3> QED BY <2>2, <3>1, <3>2 DEF Registers
  <2>4. r.pos + r.todo = Length(n)
    BY <2>2, <2>3 DEF FileStoreAssumption
  <2> HIDE DEF r
  <2>5. /\ r.left \/ opened[r.file] = Run
        /\ r.pos + r.todo \in 0 .. FileLen
        /\ ~(r.left /\ opened[r.file] = Run) /\ r.pos + r.todo > 0 =>
             files[r.file][r.pos + r.todo] # 0
    BY <2>2, <2>3, <2>4
  <2> QED BY <1>4, <2>1, <2>3, <2>5
<1> QED BY <1>5, <1>6, <1>7

LEMMA ClientFInv ==
  ASSUME FInv, NEW t \in Thread, Leave(t) \/ Depart(t)
  PROVE  FInv'
<1>1. /\ UNCHANGED <<files, file_cnt, pc, job, uploads, restarts, overlap, opened, announced>>
      /\ gone' \in SUBSET Thread
  BY DEF Leave, Depart, FInv, TypeOK
<1>2. TypeOK'
  BY <1>1 DEF FInv, TypeOK
<1>3. Counting' = Counting /\ Writing' = Writing
  BY <1>1 DEF Counting, Writing
<1>4. CountInv'
  BY <1>1, <1>3 DEF FInv, CountInv
<1>5. ~overlap => OwnNumber' /\ Contents'
  BY <1>1, <1>3 DEF FInv, OwnNumber, Contents, Emptied, Run
<1> QED BY <1>1, <1>2, <1>4, <1>5 DEF FInv

\* After a restart no number is in use; what is on disk was opened by earlier runs.
LEMMA RestartFInv ==
  ASSUME FileStoreAssumption, FInv, Restart
  PROVE  FInv'
<1>1. TypeOK'
  <2>1. file_cnt' \in 1 .. MaxUploads + 1 /\ restarts' \in 0 .. MaxRestarts
    BY DEF Restart, FInv, TypeOK, FileStoreAssumption
  <2> QED BY <2>1, NoJobType DEF Restart, FInv, TypeOK
<1>2. Counting' = {} /\ Writing' = {}
  BY DEF Restart, Counting, Writing
<1>3. CountInv'
  <2>1. IsFiniteSet(Counting') /\ Cardinality(Counting') = 0
    BY <1>2, FS_EmptySet
  <2> QED BY <1>2, <2>1 DEF Restart, CountInv, FInv, TypeOK, FileStoreAssumption
<1>4. ASSUME ~overlap PROVE OwnNumber' /\ Contents'
  <2>1. OwnNumber /\ Contents /\ TypeOK
    BY <1>4 DEF FInv
  <2>2. Run' = Run + 1 /\ Run \in Nat
    BY <2>1 DEF Restart, Run, TypeOK, FileStoreAssumption
  <2>3. \A n \in Number : opened[n] \in Nat
    BY <2>1 DEF TypeOK, FileStoreAssumption
  <2>4. \A a \in announced : a.run \in Nat
    BY <2>1 DEF TypeOK, FileStoreAssumption
  <2>5. OwnNumber'
    BY <1>2, <2>1, <2>2, <2>3, <2>4 DEF Restart, OwnNumber
  <2> QED BY <2>1, <2>5 DEF Restart, Contents
<1> QED BY <1>1, <1>3, <1>4 DEF FInv, Restart

LEMMA NextFInv ==
  ASSUME FileStoreAssumption, FInv, [Next]_vars
  PROVE  FInv'
<1>1. CASE UNCHANGED vars
  <2>1. Counting' = Counting /\ Writing' = Writing
    BY <1>1 DEF vars, Counting, Writing
  <2>2. TypeOK' /\ CountInv'
    BY <1>1, <2>1 DEF vars, FInv, TypeOK, CountInv
  <2>3. ~overlap => OwnNumber' /\ Contents'
    BY <1>1, <2>1 DEF vars, FInv, OwnNumber, Contents, Emptied, Run
  <2> QED BY <1>1, <2>2, <2>3 DEF FInv, vars
<1> QED BY <1>1, UploadNameFInv, CountLoadFInv, CountStoreFInv, UploadOpenFInv, UploadBlockFInv,
           UploadDoneFInv, DownloadFInv, ClientFInv, RestartFInv DEF Next, Step
----------------------------------------------------------------------------
(* Theorems *)

\* The inductive invariant of the files.
THEOREM FilesInvariance == Spec => []FInv
<1>1. Init => FInv
  BY FileStoreAssumption, InitFInv
<1>2. FInv /\ [Next]_vars => FInv'
  BY FileStoreAssumption, NextFInv
<1> QED BY <1>1, <1>2, PTL DEF Spec

\* The files and the handlers' registers keep their types: file_cnt never runs
\* ahead of the uploads, although its increments may be lost.
THEOREM FilesTypeCorrect == Spec => []TypeOK
<1>1. FInv => TypeOK
  BY DEF FInv
<1> QED BY <1>1, FilesInvariance, PTL

\* A file the group was told of holds what its uploader sent until a later run of
\* the server opens its number again, unless two uploads were between naming and
\* counting at once.
THEOREM AnnouncedCorrect == Spec => []AnnouncedIntact
<1>1. FInv => AnnouncedIntact
  BY DEF FInv, Contents, AnnouncedIntact
<1> QED BY <1>1, FilesInvariance, PTL

\* send_file never waits for a block past the end of the file, whichever file the
\* client named, unless two uploads were between naming and counting at once, or
\* the file was left by an earlier run and this run has opened its number.
THEOREM SendCorrect == Spec => []SendGoesOn
<1>1. ASSUME FInv PROVE SendGoesOn
  <2> SUFFICES ASSUME ~overlap, NEW t \in Thread, pc[t] = "send", job[t].todo > 0, ~Emptied(t)
               PROVE  job[t].pos < Length(job[t].file)
    BY DEF SendGoesOn
  <2> DEFINE last == job[t].pos + job[t].todo
  <2>1. /\ job[t].pos \in 0 .. FileLen /\ job[t].todo \in 0 .. FileLen /\ FileLen \in Nat
        /\ job[t].file \in Number /\ last \in 0 .. FileLen
        /\ last > 0 => files[job[t].file][last] # 0
    BY <1>1, FileStoreAssumption DEF FInv, Contents, CountInv, TypeOK, Registers, FileStoreAssumption
  <2>2. last \in Block /\ files[job[t].file][last] # 0
    BY <2>1 DEF Block
  <2>3. last <= Length(job[t].file) /\ Length(job[t].file) \in 0 .. FileLen
    BY <1>1, <2>1, <2>2, FileStoreAssumption, LengthCovers, LengthOfFile DEF FInv, TypeOK
  <2> QED BY <2>1, <2>3
<1>2. FInv => SendGoesOn
  BY <1>1
<1> QED BY <1>2, FilesInvariance, PTL
============================================================================
