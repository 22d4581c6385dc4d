------------------------------ MODULE UartDmaRx ------------------------------
(***************************************************************************)
(* The UART receiver of drivers/serial/uart_acts.c in DMA mode with a      *)
(* timeout.  The DMA fills a buffer of two halves round and round and      *)
(* interrupts after each half.  A timer looks every 500 us how far it has  *)
(* come; when nothing arrived since the last look it stops the DMA, hands  *)
(* over the part of a half that has arrived, through the second half of    *)
(* the buffer, and restarts the DMA at the beginning.                      *)
(*                                                                         *)
(* The handlers do not preempt each other, but the DMA writes and raises   *)
(* interrupts while they run.  Bytes are their numbers in the order of     *)
(* arrival; 0 is what the buffer holds at first.                           *)
(***************************************************************************)
EXTENDS Naturals, Sequences

CONSTANTS
    Half,           \* half of dma_buf_size
    MaxBytes        \* bound: the bytes that arrive

\* One byte takes 87 us, a handler some microseconds, so at most one byte arrives
\* during a handler; Half > 1 makes that less than a half.
ASSUME DmaAssumption == Half \in Nat \ {0, 1} /\ MaxBytes \in Nat

Size == 2 * Half

VARIABLES
    buf,        \* dma_buf_ptr
    pos,        \* bytes of the buffer written: framelen - frame_remainlen
    hf, tc,     \* the pending bits of the half and of the full interrupt in DMAIP
    last,       \* last_dma_remain_len
    pc,         \* where the interrupt handlers are
    moved,      \* a byte arrived during this handler
    len,        \* dma_data_len
    sent,       \* history: the number of bytes that arrived
    rcvd,       \* history: the bytes handed to the callbacks
    lost        \* history: the number of bytes forgotten by the restart

dmaVars == <<buf, pos, hf, tc, last, pc, moved, len, sent, rcvd, lost>>

RxTypeOK ==
    /\ buf \in [0..Size - 1 -> 0..MaxBytes]
    /\ pos \in 0..Size /\ last \in 0..Size /\ len \in 0..Half
    /\ hf \in BOOLEAN /\ tc \in BOOLEAN /\ moved \in BOOLEAN
    /\ pc \in {"idle", "isr", "check", "reload", "halt", "hand"}
    /\ sent \in 0..MaxBytes /\ lost \in 0..MaxBytes
    /\ rcvd \in Seq(1..MaxBytes)

\* py32_uart_dma_setup; the buffer is a zeroed static.
DmaInit ==
    /\ buf = [i \in 0..Size - 1 |-> 0]
    /\ pos = 0 /\ hf = FALSE /\ tc = FALSE
    /\ last = 0 /\ len = 0
    /\ pc = "idle" /\ moved = FALSE
    /\ sent = 0 /\ rcvd = <<>> /\ lost = 0

-----------------------------------------------------------------------------
(* The DMA controller (hardware, as the driver configures it).             *)

\* The byte about to be written completes a half.
Completes == pos + 1 \in {Half, Size}

\* History: a half completed after the look at the pending bits is one nobody will
\* hand over, except the second one when the DMA no longer reloads.
Forgotten ==
    \/ pc \in {"reload", "halt"} /\ pos + 1 = Half
    \/ pc = "reload" /\ pos + 1 = Size

\* A byte arrives.  The first interrupt of a half is served before the next half
\* is full (11 ms).  Without the reload flag the DMA stops at the end.
DmaByte ==
    /\ sent < MaxBytes /\ pos < Size
    /\ pc # "idle" => ~moved
    /\ hf \/ tc => ~Completes
    /\ buf' = [buf EXCEPT ![pos] = sent + 1]
    /\ sent' = sent + 1
    /\ hf' = (hf \/ pos + 1 = Half)
    /\ tc' = (tc \/ pos + 1 = Size)
    /\ pos' = IF pos + 1 = Size /\ pc # "halt" THEN 0 ELSE pos + 1
    /\ moved' = (pc # "idle")
    /\ lost' = IF Forgotten THEN lost + Half ELSE lost
    /\ UNCHANGED <<last, pc, len, rcvd>>

-----------------------------------------------------------------------------
(* rom_dma_irq_handle and uart_acts_dma_recv_isr.                          *)

\* n bytes of the buffer from index i on.
Piece(i, n) == [k \in 1..n |-> buf[i + k - 1]]

\* The half the interrupt is about.
FullHalf == Piece(IF hf THEN 0 ELSE Half, Half)

\* The pending bit is cleared and the callback gets the half.
IsrEnter ==
    /\ pc = "idle" /\ (hf \/ tc)
    /\ hf' = FALSE /\ tc' = (tc /\ hf)
    /\ rcvd' = rcvd \o FullHalf
    /\ pc' = "isr"
    /\ UNCHANGED <<buf, pos, last, moved, len, sent, lost>>

\* last_dma_remain_len is taken after the callback.
IsrEnd ==
    /\ pc = "isr"
    /\ last' = Size - pos
    /\ pc' = "idle" /\ moved' = FALSE
    /\ UNCHANGED <<buf, pos, hf, tc, len, sent, rcvd, lost>>

-----------------------------------------------------------------------------
(* uart_acts_dma_recv_check_timer_handle and                               *)
(* uart_acts_dma_timer_rx_transfer_restart.                                *)

\* Mutant: a look that finds nothing new forgets what the last look found.
TickQuietMutant ==
    /\ pc = "idle"
    /\ pos # 0 /\ Size - pos = last
    /\ last' = Size
    /\ UNCHANGED <<buf, pos, hf, tc, pc, moved, len, sent, rcvd, lost>>

\* Something arrived since the last look, or nothing has at all.
TickMoved ==
    /\ pc = "idle"
    /\ pos = 0 \/ Size - pos # last
    /\ last' = Size - pos
    /\ UNCHANGED <<buf, pos, hf, tc, pc, moved, len, sent, rcvd, lost>>

TickQuiet ==
    /\ pc = "idle"
    /\ pos # 0 /\ Size - pos = last
    /\ pc' = "check"
    /\ UNCHANGED <<buf, pos, hf, tc, last, moved, len, sent, rcvd, lost>>

\* acts_dma_check_dma_pending: an interrupt is pending, nothing is done (the
\* callback gets no bytes).
CheckPending ==
    /\ pc = "check" /\ (hf \/ tc)
    /\ last' = Size
    /\ pc' = "idle" /\ moved' = FALSE
    /\ UNCHANGED <<buf, pos, hf, tc, len, sent, rcvd, lost>>

\* Mutant: a pending interrupt is not looked for.
CheckClearMutant ==
    /\ pc = "check"
    /\ pc' = "reload"
    /\ UNCHANGED <<buf, pos, hf, tc, last, moved, len, sent, rcvd, lost>>

CheckClear ==
    /\ pc = "check" /\ ~hf /\ ~tc
    /\ pc' = "reload"
    /\ UNCHANGED <<buf, pos, hf, tc, last, moved, len, sent, rcvd, lost>>

\* rom_dma_stop first clears the reload flag.
ClearReload ==
    /\ pc = "reload"
    /\ pc' = "halt"
    /\ UNCHANGED <<buf, pos, hf, tc, last, moved, len, sent, rcvd, lost>>

\* The buffer after sco_dma_mem_copy of the first n bytes to the second half.
Copied(n) == [i \in 0..Size - 1 |->
    IF Half <= i /\ i < Half + n THEN buf[i - Half] ELSE buf[i]]

\* Mutant: the length of the first half is not taken off.
RestartWholeLength ==
    /\ pc = "halt"
    /\ buf' = IF pos < Half THEN Copied(pos) ELSE buf
    /\ len' = pos
    /\ hf' = FALSE /\ tc' = FALSE
    /\ pos' = 0 /\ last' = Size
    /\ pc' = "hand"
    /\ UNCHANGED <<moved, sent, rcvd, lost>>

\* Mutant: a part of the first half is not copied.
RestartWithoutCopy ==
    /\ pc = "halt"
    /\ len' = IF pos < Half THEN pos ELSE pos - Half
    /\ hf' = FALSE /\ tc' = FALSE
    /\ pos' = 0 /\ last' = Size
    /\ pc' = "hand"
    /\ UNCHANGED <<buf, moved, sent, rcvd, lost>>

\* The DMA stops and forgets pending interrupts, the part that arrived is put
\* into the second half, the DMA starts at 0.  Bytes wait in the UART meanwhile.
Restart ==
    /\ pc = "halt"
    /\ buf' = IF pos < Half THEN Copied(pos) ELSE buf
    /\ len' = IF pos < Half THEN pos ELSE pos - Half
    /\ hf' = FALSE /\ tc' = FALSE
    /\ pos' = 0 /\ last' = Size
    /\ pc' = "hand"
    /\ UNCHANGED <<moved, sent, rcvd, lost>>

\* What the timeout callback gets.
Part == Piece(Half, len)

Hand ==
    /\ pc = "hand"
    /\ rcvd' = rcvd \o Part
    /\ pc' = "idle" /\ moved' = FALSE
    /\ UNCHANGED <<buf, pos, hf, tc, last, len, sent, lost>>

DmaNext ==
    \/ DmaByte
    \/ IsrEnter \/ IsrEnd
    \/ TickMoved \/ TickQuiet \/ CheckPending \/ CheckClear
    \/ ClearReload \/ Restart \/ Hand

DmaSpec == DmaInit /\ [][DmaNext]_dmaVars

-----------------------------------------------------------------------------
(* Properties.                                                             *)

\* However the bytes fall between interrupts and timer, across restarts of the
\* DMA and copies inside the buffer, the callbacks get every byte at most once,
\* in the order of arrival, and never what the buffer held before.
HandedInOrder == \A i, j \in DOMAIN rcvd : i < j => rcvd[i] < rcvd[j]

\* Bytes in the buffer that a callback is still going to get.
InBuffer ==
    LET part == IF pos < Half THEN pos ELSE pos - Half
    IN  CASE pc = "hand"                                -> len + pos
          [] pc \in {"idle", "isr", "check"} /\ hf      -> pos
          [] pc \in {"idle", "isr", "check"} /\ ~hf /\ tc
                                                        -> Half + pos
          [] OTHER                                      -> part

\* Every byte is handed over, will be, or belongs to a half that was completed
\* after the look at the pending bits (line 551) and before the DMA stood still:
\* only that window loses bytes, and it loses exactly the half.
OnlyWindowLoses == Len(rcvd) + lost + InBuffer = sent
=============================================================================
