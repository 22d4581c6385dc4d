------------------------------- MODULE RxPath -------------------------------
(***************************************************************************)
(* The way of a received byte from the DMA buffer to the PY32 parser: the  *)
(* callbacks of UartDmaRx are py32_dma_rx_isr and                          *)
(* py32_dma_rx_timeout_handle, which push what they get into RxRing, and   *)
(* py32_uart_thread takes it from there.                                   *)
(***************************************************************************)
EXTENDS UartDmaRx, RxRing

\* The ring carries the bytes of the DMA buffer, and a callback hands over a half
\* or a part of one.
ASSUME PathAssumption ==
    /\ Data = 1..MaxBytes
    /\ \A n \in 1..Half : [1..n -> Data] \subseteq Chunks

VARIABLES
    top,        \* history: the newest byte py32_uart_ring_drain has taken
    overran     \* history: the ring has dropped bytes

pathVars == <<dmaVars, ringVars, top, overran>>

PathInit == DmaInit /\ RingInit /\ top = 0 /\ overran = FALSE

\* The DMA goes on while the callback pushes.
Arrive == DmaByte /\ UNCHANGED <<ringVars, top, overran>>

HandleHalf == IsrEnter /\ Enter(FullHalf) /\ UNCHANGED <<top, overran>>

HandlePart ==
    /\ Hand
    /\ IF len > 0 THEN Enter(Part) ELSE UNCHANGED ringVars
    /\ UNCHANGED <<top, overran>>

\* The steps of a handler outside the callback.
Handler ==
    /\ ~in_isr
    /\ \/ IsrEnd \/ CheckPending \/ CheckClear \/ ClearReload \/ Restart
    /\ UNCHANGED <<ringVars, top, overran>>

Tick == ~in_isr /\ (TickMoved \/ TickQuiet) /\ UNCHANGED <<ringVars, top, overran>>

Push ==
    /\ PushByte \/ DropRest \/ Leave
    /\ overran' = (overran \/ DropRest)
    /\ UNCHANGED <<dmaVars, top>>

\* The thread runs when no handler does.
Thread ==
    /\ pc = "idle"
    /\ Wake \/ TakeByte \/ DrainDone
    /\ top' = IF rx_tail' # rx_tail THEN rx_ring[rx_tail] ELSE top
    /\ UNCHANGED <<dmaVars, overran>>

PathNext == Arrive \/ HandleHalf \/ HandlePart \/ Handler \/ Tick \/ Push \/ Thread

\* Handlers run to their end, the timer is periodic.  A pending interrupt is taken
\* although ticks come between, and the thread gets the time the handlers leave.
PathSpec ==
    /\ PathInit /\ [][PathNext]_pathVars
    /\ WF_pathVars(HandlePart) /\ WF_pathVars(Handler)
    /\ WF_pathVars(Tick) /\ WF_pathVars(Push)
    /\ SF_pathVars(HandleHalf) /\ SF_pathVars(Thread)

-----------------------------------------------------------------------------
(* Properties.                                                             *)

\* Every byte that arrives reaches the parser, also the last ones of a message
\* that fill no half and after which nothing comes: timer, interrupts, ring and
\* thread bring it there unless the ring was full or the restart lost a half.
ReachesParser ==
    \A n \in 1..MaxBytes :
        sent >= n ~> top >= n \/ lost > 0 \/ overran
=============================================================================
