------------------------------ MODULE MsgFifo ------------------------------
(***************************************************************************)
(* What a threadqueue promises its callers (queue.h): a waitable FIFO of   *)
(* pointers.  A pointer that was accepted is handed out at most once, in   *)
(* the order of acceptance, and whoever got it owns it; the queue itself   *)
(* frees only pointers that nobody has received.                           *)
(***************************************************************************)
EXTENDS Naturals, Sequences

CONSTANT Msg        \* the message pointers

VARIABLES q,        \* the accepted messages, oldest first
          fate      \* what has become of each message

fifoVars == <<q, fate>>

Fates == {"new", "queued", "got", "refused", "freed", "left"}

FifoInit == q = <<>> /\ fate = [m \in Msg |-> "new"]

\* A message is accepted at the tail.
Put(m) ==
  /\ fate[m] = "new"
  /\ fate' = [fate EXCEPT ![m] = "queued"]
  /\ q' = Append(q, m)

\* A message is refused (no memory): the caller keeps it.
Refuse(m) ==
  /\ fate[m] = "new"
  /\ fate' = [fate EXCEPT ![m] = "refused"]
  /\ UNCHANGED q

\* The oldest message is handed out.
Take ==
  /\ q # <<>>
  /\ fate' = [fate EXCEPT ![Head(q)] = "got"]
  /\ q' = Tail(q)

\* The queue is destroyed: its content is freed with it, or left to its owners.
Discard ==
  /\ q' = <<>>
  /\ \E end \in {"freed", "left"} :
        fate' = [m \in Msg |-> IF \E i \in DOMAIN q : q[i] = m THEN end ELSE fate[m]]

FifoNext == (\E m \in Msg : Put(m) \/ Refuse(m)) \/ Take \/ Discard

FifoSpec == FifoInit /\ [][FifoNext]_fifoVars
============================================================================
