----------------------------- MODULE FileStore -----------------------------
(***************************************************************************)
(* The files of the groups: SEND_FILE and DOWNLOAD_FILE of chat-server.c   *)
(* with receive_to_file and send_file of util.c, run by threads that share *)
(* file_cnt and the files without a lock.                                  *)
(*                                                                         *)
(* All uploads go to one group and have FileLen blocks; the name of a file *)
(* is then the number taken from file_cnt.  A block on disk is the number  *)
(* of the upload that wrote it, 0 where nobody did: a hole, or past the    *)
(* end of the file.                                                        *)
(***************************************************************************)
EXTENDS Naturals, FiniteSets

CONSTANTS Thread,
          FileLen,         \* blocks of an upload
          MaxUploads,      \* bound: uploads
          MaxRestarts      \* bound: restarts of the server

ASSUME FileStoreAssumption ==
  FileLen \in Nat \ {0} /\ MaxUploads \in Nat /\ MaxRestarts \in Nat

VARIABLES
  files,             \* number -> the blocks of the file
  file_cnt,
  pc, job,           \* per thread: its step, and its registers
  gone,              \* the threads whose client has left
  uploads, restarts, \* how many there have been
  overlap,           \* history: two SEND_FILE were between naming and counting at once
  opened,            \* history: number -> the run of the server that last opened it to write
  announced          \* history: files that the group was told of, with upload and run

vars == <<files, file_cnt, pc, job, gone, uploads, restarts, overlap, opened, announced>>

Number == 1 .. MaxUploads
Block == 1 .. FileLen
NoBlocks == [b \in Block |-> 0]
\* The runs of the server are counted from 1: 0 is before all of them.
Run == restarts + 1

\* The registers of a handler: the file, the upload, the file count it has
\* loaded, the blocks received or sent and those to send; history: the file it
\* sends was left on the disk by an earlier run.
Registers == [file : Number \cup {0}, id : Number \cup {0}, cnt : Number \cup {0},
              pos : 0 .. FileLen, todo : 0 .. FileLen, left : BOOLEAN]
NoJob == [file |-> 0, id |-> 0, cnt |-> 0, pos |-> 0, todo |-> 0, left |-> FALSE]

Init ==
  /\ files = [n \in Number |-> NoBlocks] /\ file_cnt = 1
  /\ pc = [t \in Thread |-> "idle"] /\ job = [t \in Thread |-> NoJob]
  /\ gone = {} /\ uploads = 0 /\ restarts = 0
  /\ overlap = FALSE /\ opened = [n \in Number |-> 0] /\ announced = {}

Ready(t) == pc[t] = "idle" /\ t \notin gone
Goto(t, step, registers) ==
  /\ pc' = [pc EXCEPT ![t] = step]
  /\ job' = [job EXCEPT ![t] = registers]
----------------------------------------------------------------------------
(* SEND_FILE *)

\* The file is named by file_cnt ...
UploadName(t) ==
  /\ Ready(t) /\ uploads < MaxUploads
  /\ uploads' = uploads + 1
  /\ Goto(t, "load", [NoJob EXCEPT !.file = file_cnt, !.id = uploads + 1])
  /\ overlap' = (overlap \/ \E s \in Thread : pc[s] \in {"load", "store"})
  /\ UNCHANGED <<files, file_cnt, gone, restarts, opened, announced>>

\* ... which is then incremented: a load and a store.
CountLoad(t) ==
  /\ pc[t] = "load"
  /\ Goto(t, "store", [job[t] EXCEPT !.cnt = file_cnt])
  /\ UNCHANGED <<files, file_cnt, gone, uploads, restarts, overlap, opened, announced>>

\* Mistaken forms of CountStore: the number is not counted, or counted twice.
CountStoreSame(t) ==
  /\ pc[t] = "store"
  /\ file_cnt' = job[t].cnt
  /\ Goto(t, "open", [job[t] EXCEPT !.cnt = 0])
  /\ UNCHANGED <<files, gone, uploads, restarts, overlap, opened, announced>>
CountStoreTwo(t) ==
  /\ pc[t] = "store"
  /\ file_cnt' = job[t].cnt + 2
  /\ Goto(t, "open", [job[t] EXCEPT !.cnt = 0])
  /\ UNCHANGED <<files, gone, uploads, restarts, overlap, opened, announced>>

CountStore(t) ==
  /\ pc[t] = "store"
  /\ file_cnt' = job[t].cnt + 1
  /\ Goto(t, "open", [job[t] EXCEPT !.cnt = 0])
  /\ UNCHANGED <<files, gone, uploads, restarts, overlap, opened, announced>>

\* receive_to_file: fopen( .., "w") empties the file.
UploadOpen(t) ==
  /\ pc[t] = "open"
  /\ files' = [files EXCEPT ![job[t].file] = NoBlocks]
  /\ opened' = [opened EXCEPT ![job[t].file] = Run]
  /\ Goto(t, "receive", job[t])
  /\ UNCHANGED <<file_cnt, gone, uploads, restarts, overlap, announced>>

\* A block arrives.  Once the client has left, read returns 0 again and again,
\* and byte_to_read stays as it is: no step.
UploadBlock(t) ==
  LET pos == job[t].pos + 1 IN
  /\ pc[t] = "receive" /\ t \notin gone
  /\ pos \in Block
  /\ files' = [files EXCEPT ![job[t].file][pos] = job[t].id]
  /\ Goto(t, "receive", [job[t] EXCEPT !.pos = pos])
  /\ UNCHANGED <<file_cnt, gone, uploads, restarts, overlap, opened, announced>>

\* The file is complete, and the group is told.
UploadDone(t) ==
  /\ pc[t] = "receive" /\ job[t].pos = FileLen
  /\ announced' = announced \cup {[file |-> job[t].file, id |-> job[t].id, run |-> Run]}
  /\ Goto(t, "idle", NoJob)
  /\ UNCHANGED <<files, file_cnt, gone, uploads, restarts, overlap, opened>>
----------------------------------------------------------------------------
(* DOWNLOAD_FILE *)

\* The length of file n.
Length(n) == CHOOSE len \in 0 .. FileLen :
  /\ len > 0 => files[n][len] # 0
  /\ \A b \in Block : b > len => files[n][b] = 0

\* send_file opens the file that the client names, whether the group was told of
\* it or not: one that is still uploaded, one that an earlier run left on the disk,
\* one that is not there (and sends nothing).  It takes its length ...
DownloadOpen(t, n) ==
  /\ Ready(t)
  /\ Goto(t, "send", [NoJob EXCEPT !.file = n, !.todo = Length(n), !.left = (opened[n] # Run)])
  /\ UNCHANGED <<files, file_cnt, gone, uploads, restarts, overlap, opened, announced>>

\* ... and sends until it has sent as much.  At the end of a file that is shorter
\* by now, fread returns 0 again and again: no step.
DownloadBlock(t) ==
  /\ pc[t] = "send" /\ job[t].todo > 0
  /\ job[t].pos < Length(job[t].file)
  /\ Goto(t, "send", [job[t] EXCEPT !.pos = @ + 1, !.todo = @ - 1])
  /\ UNCHANGED <<files, file_cnt, gone, uploads, restarts, overlap, opened, announced>>

\* Mistaken form of DownloadDone: the loop wants file_size below 0, which a read
\* at the end of the file never brings about.
DownloadDoneBelow(t) ==
  /\ pc[t] = "send" /\ job[t].todo < 0
  /\ Goto(t, "idle", NoJob)
  /\ UNCHANGED <<files, file_cnt, gone, uploads, restarts, overlap, opened, announced>>

\* All was sent.
DownloadDone(t) ==
  /\ pc[t] = "send" /\ job[t].todo = 0
  /\ Goto(t, "idle", NoJob)
  /\ UNCHANGED <<files, file_cnt, gone, uploads, restarts, overlap, opened, announced>>
----------------------------------------------------------------------------
\* The client leaves, at any point, and its thread ends between two requests;
\* then another client can come.
Leave(t) ==
  /\ t \notin gone
  /\ gone' = gone \cup {t}
  /\ UNCHANGED <<files, file_cnt, pc, job, uploads, restarts, overlap, opened, announced>>
Depart(t) ==
  /\ t \in gone /\ pc[t] = "idle"
  /\ gone' = gone \ {t}
  /\ UNCHANGED <<files, file_cnt, pc, job, uploads, restarts, overlap, opened, announced>>

\* The server dies (the name of a download without a '_' is enough, and so is a
\* write to a client that left) or is stopped, and is started again: the files are
\* still there, those that the groups were told of too, and file_cnt is 1.
Restart ==
  /\ restarts < MaxRestarts
  /\ restarts' = restarts + 1
  /\ file_cnt' = 1
  /\ pc' = [t \in Thread |-> "idle"] /\ job' = [t \in Thread |-> NoJob]
  /\ gone' = {}
  /\ UNCHANGED <<files, uploads, overlap, opened, announced>>

Step(t) ==
  \/ CountLoad(t) \/ CountStore(t) \/ UploadOpen(t) \/ UploadBlock(t) \/ UploadDone(t)
  \/ DownloadBlock(t) \/ DownloadDone(t)

Next ==
  \/ Restart
  \/ \E t \in Thread :
       \/ Step(t) \/ UploadName(t) \/ Leave(t) \/ Depart(t)
       \/ \E n \in Number : DownloadOpen(t, n)

Spec == Init /\ [][Next]_vars

\* A thread inside a handler runs, a client that uploads sends the file, and the
\* clients read what is written to them.
FairSpec == Spec /\ \A t \in Thread : WF_vars(Step(t))
----------------------------------------------------------------------------
(* Properties *)

\* The type of the state.
TypeOK ==
  /\ files \in [Number -> [Block -> Number \cup {0}]]
  /\ file_cnt \in 1 .. MaxUploads + 1
  /\ pc \in [Thread -> {"idle", "load", "store", "open", "receive", "send"}]
  /\ job \in [Thread -> Registers]
  /\ gone \in SUBSET Thread
  /\ uploads \in 0 .. MaxUploads /\ restarts \in 0 .. MaxRestarts
  /\ overlap \in BOOLEAN
  /\ opened \in [Number -> 0 .. MaxRestarts + 1]
  /\ announced \in SUBSET [file : Number, id : Number, run : 1 .. MaxRestarts + 1]

\* A file that the group was told of (571-574) holds what its uploader sent, in
\* that run of the server and in the later ones, until a later run, which counts
\* from 1 again (29), opens the same number: whatever is uploaded before, after and
\* at the same time, unless two uploads were between reading and counting file_cnt
\* (560-561) at once.
AnnouncedIntact ==
  overlap \/ \A a \in announced : opened[a.file] = a.run =>
    \A b \in Block : files[a.file][b] = a.id

\* The file that t sends was left by an earlier run, and is emptied by now for an
\* upload of this run.
Emptied(t) == job[t].left /\ opened[job[t].file] = Run

\* A handler ends, unless its client leaves during an upload (util.c 56-60), or
\* the file it sends is opened for another upload (util.c 30-35): that is only
\* possible after two uploads have counted at once, or for a file left by an
\* earlier run.
HandlerEnds ==
  \A t \in Thread : (pc[t] # "idle") ~>
    \/ pc[t] = "idle"
    \/ pc[t] = "receive" /\ t \in gone
    \/ pc[t] = "send" /\ (overlap \/ Emptied(t))
============================================================================
