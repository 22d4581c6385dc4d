------------------------------- MODULE RxRing -------------------------------
(***************************************************************************)
(* The receive ring of system_app_py32_uart.c as it is in memory: an array *)
(* with a head the interrupt advances, a tail the thread advances, and a   *)
(* semaphore that wakes the thread.  py32_rx_ring_push copies a chunk byte *)
(* by byte with interrupts locked; py32_uart_ring_drain locks them for     *)
(* each byte it takes.                                                     *)
(***************************************************************************)
EXTENDS Naturals, Sequences

CONSTANTS
    Data,           \* the bytes
    RING_SIZE,      \* PY32_RX_RING_SIZE
    Chunks,         \* what one DMA interrupt may hand over
    SEM_LIMIT       \* the limit py32_rx_wake is defined with

ASSUME RingAssumption ==
    /\ RING_SIZE \in Nat \ {0}
    /\ Chunks \subseteq Seq(Data) \ {<<>>}
    /\ SEM_LIMIT \in Nat \ {0}

Slot == 0..RING_SIZE - 1

VARIABLES
    rx_ring,    \* py32_rx_ring
    rx_head,    \* py32_rx_head
    rx_tail,    \* py32_rx_tail
    chunk,      \* the bytes py32_rx_ring_push still has to copy
    pushed,     \* its count of bytes copied is not zero
    in_isr,     \* the interrupt handler is running
    rx_wake,    \* the count of the semaphore py32_rx_wake
    waiting     \* the thread is in k_sem_take, not in py32_uart_ring_drain

ringVars == <<rx_ring, rx_head, rx_tail, chunk, pushed, in_isr, rx_wake, waiting>>

RingTypeOK ==
    /\ rx_ring \in [Slot -> Data \cup {0}]
    /\ rx_head \in Slot /\ rx_tail \in Slot
    /\ chunk \in Seq(Data)
    /\ pushed \in BOOLEAN /\ in_isr \in BOOLEAN /\ waiting \in BOOLEAN
    /\ rx_wake \in 0..SEM_LIMIT

\* py32_uart_do_init; the ring itself is a zeroed static.
RingInit ==
    /\ rx_ring = [s \in Slot |-> 0]
    /\ rx_head = 0 /\ rx_tail = 0
    /\ chunk = <<>> /\ pushed = FALSE /\ in_isr = FALSE
    /\ rx_wake = 0
    /\ waiting = TRUE

\* Mutant: the index does not wrap.
NextSlotMutant(x) == x + 1

\* (x + 1) % PY32_RX_RING_SIZE
NextSlot(x) == (x + 1) % RING_SIZE

-----------------------------------------------------------------------------
(* py32_dma_rx_isr and py32_dma_rx_timeout_handle.                         *)

\* The interrupt enters py32_rx_ring_push with chunk c.
Enter(c) ==
    /\ ~in_isr
    /\ in_isr' = TRUE
    /\ chunk' = c
    /\ pushed' = FALSE
    /\ UNCHANGED <<rx_ring, rx_head, rx_tail, rx_wake, waiting>>

\* Mutant: the ring is not checked for room.
PushByteMutant ==
    /\ in_isr /\ chunk # <<>>
    /\ rx_ring' = [rx_ring EXCEPT ![rx_head] = Head(chunk)]
    /\ rx_head' = NextSlot(rx_head)
    /\ chunk' = Tail(chunk)
    /\ pushed' = TRUE
    /\ UNCHANGED <<rx_tail, in_isr, rx_wake, waiting>>

\* One round of its loop.
PushByte ==
    /\ in_isr /\ chunk # <<>>
    /\ NextSlot(rx_head) # rx_tail
    /\ rx_ring' = [rx_ring EXCEPT ![rx_head] = Head(chunk)]
    /\ rx_head' = NextSlot(rx_head)
    /\ chunk' = Tail(chunk)
    /\ pushed' = TRUE
    /\ UNCHANGED <<rx_tail, in_isr, rx_wake, waiting>>

\* The ring is full: the rest of the chunk is dropped.
DropRest ==
    /\ in_isr /\ chunk # <<>>
    /\ NextSlot(rx_head) = rx_tail
    /\ chunk' = <<>>
    /\ UNCHANGED <<rx_ring, rx_head, rx_tail, pushed, in_isr, rx_wake, waiting>>

\* k_sem_give if anything was copied, and the end of the interrupt.
Leave ==
    /\ in_isr /\ chunk = <<>>
    /\ in_isr' = FALSE
    /\ rx_wake' = IF pushed /\ rx_wake < SEM_LIMIT THEN rx_wake + 1 ELSE rx_wake
    /\ UNCHANGED <<rx_ring, rx_head, rx_tail, chunk, pushed, waiting>>

-----------------------------------------------------------------------------
(* py32_uart_thread; it does not run while the interrupt does.             *)

\* k_sem_take succeeds, or its 10 ms run out.
Wake ==
    /\ ~in_isr /\ waiting
    /\ waiting' = FALSE
    /\ rx_wake' = IF rx_wake > 0 THEN rx_wake - 1 ELSE 0
    /\ UNCHANGED <<rx_ring, rx_head, rx_tail, chunk, pushed, in_isr>>

\* One round of the loop in py32_uart_ring_drain.
TakeByte ==
    /\ ~in_isr /\ ~waiting
    /\ rx_tail # rx_head
    /\ rx_tail' = NextSlot(rx_tail)
    /\ UNCHANGED <<rx_ring, rx_head, chunk, pushed, in_isr, rx_wake, waiting>>

\* Mutant: the thread leaves the drain loop with bytes in the ring.
DrainDoneMutant ==
    /\ ~in_isr /\ ~waiting
    /\ waiting' = TRUE
    /\ UNCHANGED <<rx_ring, rx_head, rx_tail, chunk, pushed, in_isr, rx_wake>>

\* The ring is empty; the rest of the turn does not touch it.
DrainDone ==
    /\ ~in_isr /\ ~waiting
    /\ rx_tail = rx_head
    /\ waiting' = TRUE
    /\ UNCHANGED <<rx_ring, rx_head, rx_tail, chunk, pushed, in_isr, rx_wake>>

RingNext ==
    \/ \E c \in Chunks : Enter(c)
    \/ PushByte \/ DropRest \/ Leave
    \/ Wake \/ TakeByte \/ DrainDone

RingSpec == RingInit /\ [][RingNext]_ringVars

-----------------------------------------------------------------------------
(* Properties.                                                             *)

\* The number of bytes in the ring.
Count == IF rx_tail <= rx_head THEN rx_head - rx_tail
                               ELSE rx_head + RING_SIZE - rx_tail

\* The slot of the i-th byte in the ring.
SlotOf(i) == IF rx_tail + i - 1 < RING_SIZE THEN rx_tail + i - 1
                                            ELSE rx_tail + i - 1 - RING_SIZE

Contents == [i \in 1..Count |-> rx_ring[SlotOf(i)]]

Fifo == INSTANCE RxFifo WITH Capacity <- RING_SIZE - 1, queue <- Contents

\* The ring is a FIFO: whatever the interrupt and the thread do in whatever
\* order, across wrap-around, every byte that finds a free slot comes out once
\* and in order, and full is never taken for empty.
RingIsFifo == Fifo!FifoSpec

\* Received bytes never wait for the 10 ms timeout: when the thread is about to
\* wait with bytes in the ring, the semaphore has been given for them.
NoLostWakeup == waiting /\ ~in_isr /\ rx_tail # rx_head => rx_wake > 0
=============================================================================
