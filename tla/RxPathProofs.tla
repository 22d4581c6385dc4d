---------------------------- MODULE RxPathProofs ----------------------------
(***************************************************************************)
(* The receive path implements both its parts, so what is proved of the    *)
(* DMA driver and of the ring alone holds of the two at work together.     *)
(***************************************************************************)
EXTENDS RxPath, UartDmaRxProofs, RxRingProofs

\* Every step of the path is one of the driver, or leaves the driver alone.
LEMMA PathStepIsDmaStep == [PathNext]_pathVars => [DmaNext]_dmaVars
<1> SUFFICES ASSUME [PathNext]_pathVars PROVE [DmaNext]_dmaVars
  OBVIOUS
<1>1. CASE Arrive
  BY <1>1 DEF Arrive, DmaNext
<1>2. CASE HandleHalf
  BY <1>2 DEF HandleHalf, DmaNext
<1>3. CASE HandlePart
  BY <1>3 DEF HandlePart, DmaNext
<1>4. CASE Handler
  BY <1>4 DEF Handler, DmaNext
<1>5. CASE Tick
  BY <1>5 DEF Tick, DmaNext
<1>6. CASE Push
  BY <1>6 DEF Push
<1>7. CASE Thread
  BY <1>7 DEF Thread
<1>8. CASE UNCHANGED pathVars
  BY <1>8 DEF pathVars
<1> QED
  BY <1>1, <1>2, <1>3, <1>4, <1>5, <1>6, <1>7, <1>8 DEF PathNext

\* The composition implements the driver's specification: pushing into the ring
\* and draining it never disturb the DMA.
THEOREM PathImplementsDma == PathSpec => DmaSpec
<1>1. PathInit => DmaInit
  BY DEF PathInit
<1> QED
  BY <1>1, PathStepIsDmaStep, PTL DEF PathSpec, DmaSpec

-----------------------------------------------------------------------------
\* The elements of a sequence.
LEMMA ElementsOf ==
  ASSUME NEW S, NEW s \in Seq(S)
  PROVE  \A i \in 1..Len(s) : s[i] \in S
OBVIOUS

\* What a callback gets is a chunk of the ring: never longer than a half, and it
\* holds only bytes that arrived, because what has been handed over does.
LEMMA HandedIsChunk ==
  ASSUME NEW n \in 1..Half, NEW r \in Seq(1..MaxBytes), NEW p \in [1..n -> Nat],
         r \o p \in Seq(1..MaxBytes)
  PROVE  p \in Chunks
<1>1. n \in Nat /\ Len(r) \in Nat /\ Half \in Nat /\ MaxBytes \in Nat
  BY DmaAssumption
<1>2. p \in Seq(Nat) /\ Len(p) = n
  BY <1>1, FunctionIsSeq
<1>3. r \in Seq(Nat)
  BY <1>1
<1>4. ASSUME NEW k \in 1..n PROVE p[k] \in 1..MaxBytes
  <2>1. Len(r \o p) = Len(r) + n
    BY <1>2, <1>3
  <2>2. (r \o p)[Len(r) + k] = p[k]
    BY <1>1, <1>2, <1>3
  <2>3. Len(r) + k \in 1..Len(r \o p)
    BY <2>1, <1>1
  <2>4. \A i \in 1..Len(r \o p) : (r \o p)[i] \in 1..MaxBytes
    BY ElementsOf
  <2> QED
    BY <2>2, <2>3, <2>4
<1>5. p \in [1..n -> 1..MaxBytes]
  BY <1>4
<1> QED
  BY <1>5, PathAssumption

\* Every step of the path is one of the ring, or leaves the ring alone.
LEMMA PathStepIsRingStep ==
  DmaInv /\ DmaInv' /\ [PathNext]_pathVars => [RingNext]_ringVars
<1> SUFFICES ASSUME DmaInv, DmaInv', [PathNext]_pathVars PROVE [RingNext]_ringVars
  OBVIOUS
<1>0. /\ rcvd \in Seq(1..MaxBytes) /\ rcvd' \in Seq(1..MaxBytes)
      /\ len \in 0..Half /\ Half \in 1..Half
  BY DmaAssumption DEF DmaInv, RxTypeOK
<1>1. CASE Arrive
  BY <1>1 DEF Arrive
<1>2. CASE HandleHalf
  <2>1. FullHalf \in Chunks
    <3>1. rcvd \o FullHalf \in Seq(1..MaxBytes)
      BY <1>0, <1>2 DEF HandleHalf, IsrEnter
    <3>2. FullHalf \in [1..Half -> Nat]
      BY DmaAssumption DEF FullHalf, Piece, DmaInv, RxTypeOK, Size
    <3> QED
      BY <3>1, <3>2, <1>0, HandedIsChunk
  <2> QED
    BY <2>1, <1>2 DEF HandleHalf, RingNext
<1>3. CASE HandlePart
  <2>1. CASE len > 0
    <3>1. rcvd \o Part \in Seq(1..MaxBytes)
      BY <1>0, <1>3 DEF HandlePart, Hand
    <3>2. Part \in [1..len -> Nat]
      BY DmaAssumption DEF Part, Piece, DmaInv, RxTypeOK, Size
    <3>3. len \in 1..Half
      BY <2>1, <1>0, DmaAssumption
    <3>4. Part \in Chunks
      BY <3>1, <3>2, <3>3, <1>0, HandedIsChunk
    <3> QED
      BY <3>4, <2>1, <1>3 DEF HandlePart, RingNext
  <2>2. CASE ~(len > 0)
    BY <2>2, <1>3 DEF HandlePart
  <2> QED
    BY <2>1, <2>2
<1>4. CASE Handler
  BY <1>4 DEF Handler
<1>5. CASE Tick
  BY <1>5 DEF Tick
<1>6. CASE Push
  BY <1>6 DEF Push, RingNext
<1>7. CASE Thread
  BY <1>7 DEF Thread, RingNext
<1>8. CASE UNCHANGED pathVars
  BY <1>8 DEF pathVars
<1> QED
  BY <1>1, <1>2, <1>3, <1>4, <1>5, <1>6, <1>7, <1>8 DEF PathNext

\* The composition implements the ring's specification: the driver's callbacks
\* only ever bring chunks the ring is specified for, one at a time.
THEOREM PathImplementsRing == PathSpec => RingSpec
<1>1. PathInit => RingInit
  BY DEF PathInit
<1>2. PathSpec => []DmaInv
  BY PathImplementsDma, DmaInvAlways, PTL
<1> QED
  BY <1>1, <1>2, PathStepIsRingStep, PTL DEF PathSpec, RingSpec

-----------------------------------------------------------------------------
\* With ring and thread at work the callbacks still get every byte at most once
\* and in order (uart_acts_dma_timer_rx_transfer_restart and its interrupts).
THEOREM PathHandsInOrder == PathSpec => []HandedInOrder
BY PathImplementsDma, DmaHandsInOrder, PTL

\* Only the window of the restart loses bytes on the way to the callbacks.
THEOREM PathLosesOnlyInWindow == PathSpec => []OnlyWindowLoses
BY PathImplementsDma, OnlyRestartLoses, PTL

\* Fed by the driver, py32_rx_ring is a FIFO.
THEOREM PathRingIsFifo == PathSpec => RingIsFifo
BY PathImplementsRing, RingImplementsFifo, PTL

\* Fed by the driver, the ring never holds bytes for a waiting thread without the
\* semaphore given (py32_rx_ring_push, py32_uart_thread).
THEOREM PathWakesThread == PathSpec => []NoLostWakeup
BY PathImplementsRing, WakeupNeverLost, PTL
=============================================================================
