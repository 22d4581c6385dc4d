---------------------------- MODULE RxRingProofs ----------------------------
(***************************************************************************)
(* The receive ring implements the bounded FIFO, and no wakeup is lost,    *)
(* for every ring size, every set of chunks and every semaphore limit.     *)
(***************************************************************************)
EXTENDS RxRing, SequenceTheorems, TLAPS

Cell == Data \cup {0}

-----------------------------------------------------------------------------
(* Slots and contents.                                                     *)

\* Advancing an index stays in the ring and wraps only at its end.
LEMMA NextSlotWraps ==
    ASSUME NEW x \in Slot
    PROVE  /\ NextSlot(x) \in Slot
           /\ NextSlot(x) = IF x + 1 = RING_SIZE THEN 0 ELSE x + 1
  <1>1. RING_SIZE \in Nat \ {0}
    BY RingAssumption
  <1>2. x \in Nat /\ x + 1 <= RING_SIZE
    BY <1>1 DEF Slot
  <1>3. (x + 1) % RING_SIZE = IF x + 1 = RING_SIZE THEN 0 ELSE x + 1
    BY <1>1, <1>2, Z3
  <1> QED
    BY <1>1, <1>2, <1>3 DEF NextSlot, Slot

\* The i-th byte in the ring sits in a slot of the ring, and the contents are a
\* sequence of Count bytes.
ContentsOk ==
    /\ Count \in Nat /\ Count < RING_SIZE
    /\ \A i \in 1..Count : SlotOf(i) \in Slot
    /\ Contents \in Seq(Cell)
    /\ Len(Contents) = Count
    /\ \A i \in 1..Count : Contents[i] = rx_ring[SlotOf(i)]

\* The types of the indices make the contents well-formed.
LEMMA ContentsAreASequence == RingTypeOK => ContentsOk
  <1> SUFFICES ASSUME RingTypeOK PROVE ContentsOk
    OBVIOUS
  <1>1. RING_SIZE \in Nat \ {0} /\ rx_head \in Slot /\ rx_tail \in Slot
    BY RingAssumption DEF RingTypeOK
  <1>2. Count \in Nat /\ Count < RING_SIZE
    BY <1>1 DEF Count, Slot
  <1>3. \A i \in 1..Count : SlotOf(i) \in Slot
    BY <1>1, <1>2 DEF Count, Slot, SlotOf
  <1>4. \A i \in 1..Count : rx_ring[SlotOf(i)] \in Cell
    BY <1>3 DEF RingTypeOK, Cell
  <1>5. Contents \in [1..Count -> Cell]
    BY <1>4 DEF Contents
  <1>6. Contents \in Seq(Cell) /\ Len(Contents) = Count
    BY <1>2, <1>5
  <1> QED
    BY <1>2, <1>3, <1>6 DEF Contents, ContentsOk

-----------------------------------------------------------------------------
(* The inductive invariant.                                                *)

\* While the interrupt runs, the wakeup may still be owed by k_sem_give.
WakeupOwed == waiting /\ rx_tail # rx_head => rx_wake > 0 \/ (in_isr /\ pushed)

RingInv == RingTypeOK /\ WakeupOwed

\* Every step keeps the types and never forgets an owed wakeup.
LEMMA RingInvInductive == RingInv /\ [RingNext]_ringVars => RingInv'
  <1> SUFFICES ASSUME RingInv, [RingNext]_ringVars
               PROVE  RingInv'
    OBVIOUS
  <1> USE DEF RingInv
  <1>0. SEM_LIMIT \in Nat \ {0} /\ Chunks \subseteq Seq(Data) \ {<<>>}
    BY RingAssumption
  <1>1. ASSUME NEW c \in Chunks, Enter(c)
        PROVE  RingInv'
    BY <1>0, <1>1 DEF Enter, RingTypeOK, WakeupOwed
  <1>2. CASE PushByte
    <2>1. Head(chunk) \in Data /\ Tail(chunk) \in Seq(Data)
      BY <1>2 DEF PushByte, RingTypeOK
    <2>2. NextSlot(rx_head) \in Slot
      BY NextSlotWraps DEF RingTypeOK
    <2>3. rx_ring' \in [Slot -> Data \cup {0}]
      BY <1>2, <2>1 DEF PushByte, RingTypeOK
    <2> QED
      BY <1>2, <2>1, <2>2, <2>3 DEF PushByte, RingTypeOK, WakeupOwed
  <1>3. CASE DropRest
    BY <1>3 DEF DropRest, RingTypeOK, WakeupOwed
  <1>4. CASE Leave
    <2>1. rx_wake' \in 0..SEM_LIMIT /\ rx_wake' >= rx_wake /\ (pushed => rx_wake' > 0)
      BY <1>0, <1>4 DEF Leave, RingTypeOK
    <2> QED
      BY <1>4, <2>1 DEF Leave, RingTypeOK, WakeupOwed
  <1>5. CASE Wake
    <2>1. rx_wake' \in 0..SEM_LIMIT
      BY <1>0, <1>5 DEF Wake, RingTypeOK
    <2> QED
      BY <1>5, <2>1 DEF Wake, RingTypeOK, WakeupOwed
  <1>6. CASE TakeByte
    <2>1. NextSlot(rx_tail) \in Slot
      BY NextSlotWraps DEF RingTypeOK
    <2> QED
      BY <1>6, <2>1 DEF TakeByte, RingTypeOK, WakeupOwed
  <1>7. CASE DrainDone
    BY <1>7 DEF DrainDone, RingTypeOK, WakeupOwed
  <1>8. CASE UNCHANGED ringVars
    BY <1>8 DEF ringVars, RingTypeOK, WakeupOwed
  <1> QED
    BY <1>1, <1>2, <1>3, <1>4, <1>5, <1>6, <1>7, <1>8 DEF RingNext

\* The initial state satisfies the invariant.
LEMMA RingInvInit == RingInit => RingInv
  <1>1. 0 \in Slot /\ <<>> \in Seq(Data) /\ 0 \in 0..SEM_LIMIT
    BY RingAssumption DEF Slot
  <1> QED
    BY <1>1 DEF RingInit, RingInv, RingTypeOK, WakeupOwed

\* The invariant holds in every reachable state.
LEMMA RingInvariant == RingSpec => []RingInv
  BY RingInvInit, RingInvInductive, PTL DEF RingSpec

\* py32_rx_head and py32_rx_tail stay inside the ring and the semaphore within
\* its limit, for every interleaving of interrupt and thread.
THEOREM RingTypeCorrect == RingSpec => []RingTypeOK
  <1>1. RingInv => RingTypeOK
    BY DEF RingInv
  <1> QED
    BY RingInvariant, <1>1, PTL

\* The thread never goes to sleep on received bytes without a wakeup pending.
THEOREM WakeupNeverLost == RingSpec => []NoLostWakeup
  <1>1. RingInv => NoLostWakeup
    BY DEF RingInv, WakeupOwed, NoLostWakeup
  <1> QED
    BY RingInvariant, <1>1, PTL

-----------------------------------------------------------------------------
(* The refinement.                                                         *)

\* Copying a byte appends it to the contents.
LEMMA PushAppends ==
    ASSUME RingInv, RingInv', PushByte
    PROVE  /\ Len(Contents) < RING_SIZE - 1
           /\ Contents' = Append(Contents, Head(chunk))
  <1> USE DEF RingInv
  <1>1. RING_SIZE \in Nat \ {0} /\ rx_head \in Slot /\ rx_tail \in Slot
    BY RingAssumption DEF RingTypeOK
  <1>2. /\ rx_head' = IF rx_head + 1 = RING_SIZE THEN 0 ELSE rx_head + 1
        /\ rx_head' # rx_tail
        /\ rx_tail' = rx_tail
        /\ rx_head' \in Slot
    BY <1>1, NextSlotWraps DEF PushByte
  <1>3. Count' = Count + 1 /\ Count < RING_SIZE - 1
    BY <1>1, <1>2 DEF Count, Slot
  <1>4. /\ SlotOf(Count + 1) = rx_head
        /\ \A i \in 1..Count : SlotOf(i) # rx_head
    BY <1>1, <1>2, <1>3 DEF Count, SlotOf, Slot
  <1>5. \A i \in 1..Count + 1 : SlotOf(i)' = SlotOf(i)
    BY <1>2 DEF SlotOf
  <1>6. /\ rx_ring'[rx_head] = Head(chunk)
        /\ \A s \in Slot : s # rx_head => rx_ring'[s] = rx_ring[s]
    BY <1>1 DEF PushByte, RingTypeOK
  <1>7. Head(chunk) \in Cell
    BY DEF PushByte, RingTypeOK, Cell
  <1>8. /\ Contents \in Seq(Cell) /\ Len(Contents) = Count /\ Count \in Nat
        /\ \A i \in 1..Count : Contents[i] = rx_ring[SlotOf(i)] /\ SlotOf(i) \in Slot
    BY ContentsAreASequence DEF ContentsOk
  <1>9. /\ Contents' \in Seq(Cell) /\ Len(Contents') = Count + 1
        /\ \A i \in 1..Count + 1 : Contents'[i] = rx_ring'[SlotOf(i)]
    <2>1. ContentsOk'
      BY ContentsAreASequence, PTL
    <2> QED
      BY <2>1, <1>3, <1>5 DEF ContentsOk, Cell
  <1>10. \A i \in 1..Count + 1 : Contents'[i] = Append(Contents, Head(chunk))[i]
    <2>1. \A i \in 1..Count : Contents'[i] = Contents[i]
      BY <1>3, <1>4, <1>6, <1>8, <1>9
    <2>2. Contents'[Count + 1] = Head(chunk)
      BY <1>4, <1>6, <1>8, <1>9
    <2> QED
      BY <2>1, <2>2, <1>7, <1>8
  <1>11. /\ Append(Contents, Head(chunk)) \in Seq(Cell)
         /\ Len(Append(Contents, Head(chunk))) = Count + 1
    BY <1>7, <1>8
  <1>12. Contents' = Append(Contents, Head(chunk))
    BY <1>9, <1>10, <1>11, SeqEqual
  <1> QED
    BY <1>3, <1>8, <1>12

\* Taking a byte removes the oldest one.
LEMMA TakeRemovesFirst ==
    ASSUME RingInv, RingInv', TakeByte
    PROVE  Contents # <<>> /\ Contents' = Tail(Contents)
  <1> USE DEF RingInv
  <1>1. RING_SIZE \in Nat \ {0} /\ rx_head \in Slot /\ rx_tail \in Slot
    BY RingAssumption DEF RingTypeOK
  <1>2. /\ rx_tail' = IF rx_tail + 1 = RING_SIZE THEN 0 ELSE rx_tail + 1
        /\ rx_head # rx_tail
        /\ rx_head' = rx_head /\ rx_ring' = rx_ring
        /\ rx_tail' \in Slot
    BY <1>1, NextSlotWraps DEF TakeByte
  <1>3. Count' = Count - 1 /\ Count >= 1
    BY <1>1, <1>2 DEF Count, Slot
  <1>4. \A i \in 1..Count - 1 : SlotOf(i)' = SlotOf(i + 1)
    BY <1>1, <1>2, <1>3 DEF Count, SlotOf, Slot
  <1>5. /\ Contents \in Seq(Cell) /\ Len(Contents) = Count /\ Count \in Nat
        /\ \A i \in 1..Count : Contents[i] = rx_ring[SlotOf(i)]
    BY ContentsAreASequence DEF ContentsOk
  <1>6. /\ Contents' \in Seq(Cell) /\ Len(Contents') = Count - 1
        /\ \A i \in 1..Count - 1 : Contents'[i] = rx_ring[SlotOf(i + 1)]
    <2>1. ContentsOk'
      BY ContentsAreASequence, PTL
    <2> QED
      BY <2>1, <1>2, <1>3, <1>4 DEF ContentsOk, Cell
  <1>7. Contents # <<>>
    BY <1>3, <1>5
  <1>8. /\ Tail(Contents) \in Seq(Cell) /\ Len(Tail(Contents)) = Count - 1
        /\ \A i \in 1..Count - 1 : Tail(Contents)[i] = Contents[i + 1]
    BY <1>5, <1>7, HeadTailProperties
  <1>9. \A i \in 1..Count - 1 : Contents'[i] = Tail(Contents)[i]
    BY <1>3, <1>5, <1>6, <1>8
  <1> QED
    BY <1>6, <1>7, <1>8, <1>9, SeqEqual

\* Every step of the ring is a step of the FIFO or leaves it alone.
LEMMA RingStepIsFifoStep ==
    ASSUME RingInv, RingInv', [RingNext]_ringVars
    PROVE  [Fifo!FifoNext]_Contents
  <1> DEFINE Same == rx_ring' = rx_ring /\ rx_head' = rx_head /\ rx_tail' = rx_tail
  <1>1. ASSUME Same PROVE Contents' = Contents
    BY <1>1 DEF Contents, Count, SlotOf
  <1>2. CASE PushByte
    <2>1. Head(chunk) \in Data
      BY <1>2 DEF PushByte, RingInv, RingTypeOK
    <2>2. Fifo!Put(Head(chunk))
      BY <1>2, PushAppends DEF Fifo!Put
    <2> QED
      BY <2>1, <2>2 DEF Fifo!FifoNext
  <1>3. CASE TakeByte
    BY <1>3, TakeRemovesFirst DEF Fifo!FifoNext, Fifo!Get
  <1>4. ASSUME NEW c \in Chunks, Enter(c) PROVE Same
    BY <1>4 DEF Enter
  <1>5. CASE DropRest \/ Leave \/ Wake \/ DrainDone \/ UNCHANGED ringVars
    <2>1. Same
      BY <1>5 DEF DropRest, Leave, Wake, DrainDone, ringVars
    <2> QED
      BY <2>1, <1>1
  <1> QED
    BY <1>1, <1>2, <1>3, <1>4, <1>5 DEF RingNext

\* The array with its two indices implements the bounded FIFO.
THEOREM RingImplementsFifo == RingSpec => RingIsFifo
  <1>1. RingInit => Fifo!FifoInit
    <2> SUFFICES ASSUME RingInit PROVE Contents = <<>>
      BY DEF Fifo!FifoInit
    <2>1. Count = 0
      BY DEF RingInit, Count
    <2>2. Contents \in Seq(Cell) /\ Len(Contents) = 0
      BY <2>1, RingInvInit, ContentsAreASequence DEF RingInv, ContentsOk
    <2> QED
      BY <2>2
  <1>2. RingInv /\ RingInv' /\ [RingNext]_ringVars => [Fifo!FifoNext]_Contents
    BY RingStepIsFifoStep
  <1> QED
    BY <1>1, <1>2, RingInvariant, PTL DEF RingSpec, RingIsFifo, Fifo!FifoSpec
=============================================================================
