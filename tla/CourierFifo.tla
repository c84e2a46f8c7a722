----------------------------- MODULE CourierFifo -----------------------------
(***************************************************************************)
(* What the queue of couriers without a target promises: a bounded FIFO    *)
(* that refuses a courier when it is full and hands every courier out at   *)
(* most once, for as long as its mutex exists.  The first courier client   *)
(* to disconnect destroys the mutex; nothing is promised from then on.     *)
(***************************************************************************)
EXTENDS Sequences, Naturals

CONSTANTS Couriers, Capacity

VARIABLES fifo,      \* the waiting couriers, oldest first
          offered,   \* every courier ever offered to the queue
          promised   \* the mutex has not been destroyed

fifoVars == <<fifo, offered, promised>>

FifoInit ==
  /\ fifo = <<>>
  /\ offered = {}
  /\ promised = TRUE

Accept(c) ==
  /\ promised
  /\ c \notin offered
  /\ Len(fifo) < Capacity
  /\ fifo' = Append(fifo, c)
  /\ offered' = offered \union {c}
  /\ UNCHANGED promised

Refuse(c) ==
  /\ promised
  /\ c \notin offered
  /\ Len(fifo) = Capacity
  /\ offered' = offered \union {c}
  /\ UNCHANGED <<fifo, promised>>

HandOut ==
  /\ promised
  /\ fifo # <<>>
  /\ fifo' = Tail(fifo)
  /\ UNCHANGED <<offered, promised>>

Abandon ==
  /\ promised
  /\ promised' = FALSE
  /\ fifo' = <<>>
  /\ offered' = {}

FifoNext == \/ \E c \in Couriers : Accept(c) \/ Refuse(c)
            \/ HandOut
            \/ Abandon

FifoSpec == FifoInit /\ [][FifoNext]_fifoVars
=============================================================================
