------------------------------ MODULE Py32Link ------------------------------
(***************************************************************************)
(* The whole receive path of the PY32 link: the host MCU puts frames on    *)
(* the line, the line may damage some of them, the DMA interrupt moves     *)
(* what arrived into the ring, and the py32 thread drains the ring into    *)
(* the parser.  The ring is the bounded FIFO that RxRing implements.       *)
(***************************************************************************)
EXTENDS Py32Parser

CONSTANTS
    RING_SIZE,      \* PY32_RX_RING_SIZE; one slot always stays empty
    HostFrames,     \* the frames the host may send
    Damaged(_),     \* what the line may deliver in place of a frame
    Bursts,         \* the largest chunks one interrupt hands over
    MaxFrames,      \* bound: frames sent in a behaviour
    MaxFaults       \* bound: frames damaged in a behaviour

ASSUME LinkAssumption ==
    /\ RING_SIZE \in Nat \ {0}
    /\ HostFrames \subseteq Seq(Byte)
    /\ \A f \in HostFrames : Damaged(f) \subseteq Seq(Byte)
    /\ Bursts \subseteq Nat \ {0}
    /\ MaxFrames \in Nat /\ MaxFaults \in Nat

VARIABLES
    line,       \* bytes sent and not yet handed over by the DMA
    ring,       \* py32_rx_ring from py32_rx_tail to py32_rx_head
    drained,    \* py32_uart_ring_drain has taken a byte on this turn (n > 0)
    alive,      \* py32_host_alive
    sent,       \* history: the frames sent, and whether the line damaged them
    rcvd,       \* history: the frames that passed the checksum, in order
    asked,      \* history: what the last valid "set parameters" frame asked for
    overrun     \* history: the ring has dropped bytes

linkVars == <<line, ring, drained, alive, sent, rcvd, asked, overrun>>

vars == <<parserVars, linkVars>>

LinkTypeOK ==
    /\ TypeOK
    /\ line \in Seq(Byte)
    /\ ring \in Seq(Byte)
    /\ Len(ring) < RING_SIZE
    /\ drained \in BOOLEAN /\ alive \in BOOLEAN /\ overrun \in BOOLEAN
    /\ sent \in Seq([bytes : HostFrames, intact : BOOLEAN])
    /\ rcvd \in Seq(Frame)
    /\ asked \in (0..24) \X (0..24) \X (0..100)

Init ==
    /\ ParserInit
    /\ line = <<>> /\ ring = <<>>
    /\ drained = FALSE /\ alive = FALSE /\ overrun = FALSE
    /\ sent = <<>> /\ rcvd = <<>>
    /\ asked = <<12, 12, 0>>

-----------------------------------------------------------------------------
(* The host and the line (external: the PY32 firmware and the wire).       *)

HostSend(f) ==
    /\ Len(sent) < MaxFrames
    /\ line' = line \o f
    /\ sent' = Append(sent, [bytes |-> f, intact |-> TRUE])
    /\ UNCHANGED <<parserVars, ring, drained, alive, rcvd, asked, overrun>>

Faults == Len(SelectSeq(sent, LAMBDA s : ~s.intact))

LineFault(f, g) ==
    /\ Len(sent) < MaxFrames
    /\ Faults < MaxFaults
    /\ line' = line \o g
    /\ sent' = Append(sent, [bytes |-> f, intact |-> FALSE])
    /\ UNCHANGED <<parserVars, ring, drained, alive, rcvd, asked, overrun>>

-----------------------------------------------------------------------------
(* py32_dma_rx_isr and py32_dma_rx_timeout_handle, through                 *)
(* py32_rx_ring_push: n bytes arrive, those that do not fit are dropped.   *)

\* Mutant: the slot that must stay empty is used.
RoomMutant == RING_SIZE - Len(ring)

Room == RING_SIZE - 1 - Len(ring)

RingPush(n) ==
    /\ ring' = ring \o SubSeq(line, 1, Clip(n, Room))
    /\ line' = SubSeq(line, n + 1, Len(line))
    /\ overrun' = (overrun \/ n > Room)

\* An interrupt hands over what has arrived, at most b bytes of it.
Interrupt(b) ==
    /\ line # <<>>
    /\ RingPush(Clip(Len(line), b))
    /\ UNCHANGED <<parserVars, drained, alive, sent, rcvd, asked>>

-----------------------------------------------------------------------------
(* py32_uart_thread.                                                       *)

ValidSet(f) == f.cmd = CMD_COMMON /\ f.len = SET_DATA_LEN /\ ValuesOk(f.data)

\* History: note a frame f that passed the checksum.
Note(f) ==
    /\ rcvd' = Append(rcvd, f)
    /\ asked' = IF ValidSet(f) THEN <<f.data[2], f.data[3], f.data[4]>> ELSE asked

\* Mutant: only a good frame counts as activity.
DrainMutant ==
    /\ ring # <<>>
    /\ ring' = Tail(ring)
    /\ Feed(Head(ring))
    /\ drained' = (drained \/ outcome' \in GoodOutcomes)
    /\ IF outcome' \in GoodOutcomes THEN Note(Received(Head(ring)))
                                   ELSE UNCHANGED <<rcvd, asked>>
    /\ UNCHANGED <<line, alive, sent, overrun>>

\* One round of the loop in py32_uart_ring_drain.
Drain ==
    /\ ring # <<>>
    /\ ring' = Tail(ring)
    /\ Feed(Head(ring))
    /\ drained' = TRUE
    /\ IF outcome' \in GoodOutcomes THEN Note(Received(Head(ring)))
                                   ELSE UNCHANGED <<rcvd, asked>>
    /\ UNCHANGED <<line, alive, sent, overrun>>

\* The ring is empty: py32_host_on_rx_activity if anything was received, then
\* the status frame if the host is on and 50 ms have passed since the last one.
EndTurn ==
    /\ ring = <<>>
    /\ alive' = (alive \/ drained)
    /\ drained' = FALSE
    /\ \/ alive' /\ PeriodicStatus
       \/ UNCHANGED parserVars
    /\ UNCHANGED <<line, ring, sent, rcvd, asked, overrun>>

\* py32_host_idle_work_handler, ten seconds after the last activity.
HostIdle ==
    /\ alive
    /\ alive' = FALSE
    /\ UNCHANGED <<parserVars, line, ring, drained, sent, rcvd, asked, overrun>>

\* The phone or a key sets the music volume.
OtherVolume ==
    /\ \E l \in Levels : VolumeChange(l)
    /\ UNCHANGED linkVars

-----------------------------------------------------------------------------
Next ==
    \/ \E f \in HostFrames : HostSend(f)
    \/ \E f \in HostFrames : \E g \in Damaged(f) : LineFault(f, g)
    \/ \E b \in Bursts : Interrupt(b)
    \/ Drain
    \/ EndTurn
    \/ HostIdle
    \/ OtherVolume

\* The interrupt and the thread keep running: the receive timer is periodic,
\* and the thread waits for its semaphore for 10 ms at most.
Spec == Init /\ [][Next]_vars /\ WF_vars(\E b \in Bursts : Interrupt(b))
                           /\ WF_vars(Drain) /\ WF_vars(EndTurn)

-----------------------------------------------------------------------------
(* Properties.                                                             *)

Quiescent == line = <<>> /\ ring = <<>>

\* A Frame record as the bytes on the line.
OnLine(f) == <<f.addr, f.cmd, f.len>> \o f.data \o <<f.crc % 256, f.crc \div 256>>

\* The frames that pass the checksum are frames the host sent, in the order sent
\* and none of them twice: nothing py32_rx_feed_byte assembles from the remains
\* of damaged or overrun frames is acted on.
ReceivedWereSent ==
    \E pos \in [1..Len(rcvd) -> 1..Len(sent)] :
        /\ \A i \in 1..Len(rcvd) : sent[pos[i]].bytes = OnLine(rcvd[i])
        /\ \A i, j \in 1..Len(rcvd) : i < j => pos[i] < pos[j]

\* A frame of the protocol: right LEN and checksum, and no byte after the address
\* that py32_rx_feed_byte could take for the start of the next frame.
WellFormed(f) ==
    /\ Len(f) >= 5 /\ f[3] = Len(f) - 5 /\ f[3] <= LEN_MAX
    /\ f[1] = ADDR_HOST /\ \A i \in 2..Len(f) : f[i] # ADDR_HOST
    /\ Crc16(SubSeq(f, 1, Len(f) - 2)) = f[Len(f) - 1] + 256 * f[Len(f)]

\* The command byte, should a parser out of step take it for a LEN, does not lead
\* it to expect a checksum where the next frame begins.
CmdNoLen(f) == f[2] \notin {Len(f) - 2, Len(f) - 3}

\* After a fault the parser finds its feet: however a frame was damaged, at most
\* one intact frame after it is lost as well, so two intact frames after the
\* last fault (with no ring overrun) the newest one has been received.
\* For frames that are WellFormed and CmdNoLen.
ResyncWithinTwo ==
    (/\ Quiescent /\ ~overrun
     /\ Len(sent) >= 2
     /\ sent[Len(sent)].intact /\ sent[Len(sent) - 1].intact)
    => /\ rcvd # <<>>
       /\ OnLine(rcvd[Len(rcvd)]) = sent[Len(sent)].bytes

\* The tone and vibration settings are those of the last valid "set parameters"
\* frame that arrived, applied or dropped as a duplicate, whatever refused,
\* unsupported or damaged frames came between: suppressing duplicates never
\* leaves an older setting in force.
SettingsFollowHost == <<params.treble, params.bass, params.vibration>> = asked

\* A status frame without error reports a percentage that converts back to the
\* level the audio system is at: a host that echoes what it is told never moves
\* the volume.
ReportedVolumeIsCurrent ==
    [][reply' # reply /\ reply' # NoReply /\ reply'.err = ERR_NONE
        => pct_to_level(reply'.volume, VolMax) = sys_volume']_vars

\* Bytes on the line, whatever they are, wake the speaker: interrupt, thread and
\* py32_host_on_rx_activity bring py32_host_alive up even when the ring overruns
\* and no frame can be made of what is left.
BytesWakeHost == line # <<>> ~> alive

-----------------------------------------------------------------------------
(* What the protocol document and the comments say.                        *)

\* Section 4.1 gives the volume the range 0-100 and section 5.2 has the slave
\* execute every frame with a good checksum: on a line without faults everything
\* sent is received.
EveryFrameReceived ==
    Quiescent /\ ~overrun /\ Faults = 0 => Len(rcvd) = Len(sent)

\* Section 5.2, steps 4 to 6: a frame with a good checksum is executed and
\* answered.  The comment above py32_last_rx_log speaks of printing only once.
GoodFrameAnswered == outcome \in GoodOutcomes => reply # NoReply
=============================================================================
