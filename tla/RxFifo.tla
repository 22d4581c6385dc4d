------------------------------- MODULE RxFifo -------------------------------
(***************************************************************************)
(* What the receive ring of the PY32 link promises: a queue of at most     *)
(* Capacity bytes that the interrupt appends to and the thread takes from. *)
(* A byte that finds the queue full is lost; nothing else is.              *)
(***************************************************************************)
EXTENDS Naturals, Sequences

CONSTANTS
    Data,           \* the bytes
    Capacity        \* how many are held at most

VARIABLE queue

FifoInit == queue = <<>>

Put(d) == Len(queue) < Capacity /\ queue' = Append(queue, d)

Get == queue # <<>> /\ queue' = Tail(queue)

FifoNext == Get \/ \E d \in Data : Put(d)

FifoSpec == FifoInit /\ [][FifoNext]_queue
=============================================================================
