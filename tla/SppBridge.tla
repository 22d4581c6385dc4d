------------------------------ MODULE SppBridge ------------------------------
(***************************************************************************)
(* system_app_spp_uart_bridge.c: remote commands over the Bluetooth serial *)
(* port, with the way its callbacks are called (btsrv_spp.c,               *)
(* bt_manager_spp.c).  A command is sent bare (D2, sub-command) in a       *)
(* packet of its own, or framed (A5 5A, length, payload); RFCOMM delivers  *)
(* the bytes in order but cuts and joins packets as it likes.  Packets are *)
(* handed over by the hci_rx thread at once, connects and disconnects go   *)
(* through the message queue of the btsrv thread; sppmgr_lock makes each   *)
(* callback one step.                                                      *)
(***************************************************************************)
EXTENDS Naturals, Sequences

CONSTANTS
    Messages,       \* what a peer may send: [bytes, bare, cmd], cmd = <<>> for
                    \* a frame that is no command
    MAX_PAYLOAD,    \* SPP_MAX_PAYLOAD
    SLACK,          \* the room SPP_ACC_CAP has beyond one frame
    BARE_MAX,       \* the longest packet taken for a bare command
    MAX_PACKET,     \* the longest packet of RFCOMM
    MaxMessages,    \* bound: messages sent
    MaxConnects     \* bound: connections tried

SYNC0 == 165
SYNC1 == 90
CMD == 210
FRAME_HDR == 4
ACC_CAP == FRAME_HDR + MAX_PAYLOAD + SLACK

\* The application's id of the one service that is registered.
APP_ID == 128

ASSUME SppAssumption ==
    /\ Messages \subseteq [bytes : Seq(Nat), bare : BOOLEAN, cmd : Seq(Nat)]
    /\ \A m \in Messages : m.bytes # <<>>
    /\ {MAX_PAYLOAD, SLACK, BARE_MAX, MAX_PACKET, MaxMessages, MaxConnects} \subseteq Nat

VARIABLES
    rx_acc,         \* rx_acc up to rx_acc_len
    spp_channel,    \* APP_ID while the bridge takes the service for connected, else 0
    registered,     \* the manager has an entry with the callbacks of the bridge
    connected,      \* spp_info->connected, in btsrv and in the manager's entry
    events,         \* the messages to btsrv
    link,           \* RFCOMM is connected
    line,           \* the bytes sent and not yet delivered
    sent,           \* bound: the number of messages sent
    session,        \* bound: the connections tried, the number of the last one
    out,            \* history: the commands dispatched
    whole,          \* history: the commands delivered to the last byte
    owner,          \* history: the oldest session with bytes in rx_acc, 0 if it is empty
    mixed           \* history: the ways bytes were taken for something they are not

bookVars == <<out, whole, owner, mixed>>
sppVars == <<rx_acc, spp_channel, registered, connected, events, link, line, sent,
             session, bookVars>>

Events == {"connected", "disconnected", "failed"}

Misreadings == {"piece", "bare", "joined", "flushed", "cleared"}

\* memcpy has gone past the end of rx_acc.  What follows is undefined: no step.
Overrun == Len(rx_acc) > ACC_CAP

SppTypeOK ==
    /\ rx_acc \in Seq(Nat)
    /\ spp_channel \in {0, APP_ID}
    /\ registered \in BOOLEAN /\ connected \in BOOLEAN /\ link \in BOOLEAN
    /\ events \in Seq(Events)
    /\ sent \in 0..MaxMessages /\ session \in 0..MaxConnects
    /\ out \in Seq(Seq(Nat)) /\ whole \in Seq(Seq(Nat))
    /\ owner \in 0..session /\ mixed \subseteq Misreadings

\* system_app_spp_uart_bridge_init has registered the service.
SppInit ==
    /\ rx_acc = <<>> /\ spp_channel = 0
    /\ registered = TRUE /\ connected = FALSE
    /\ events = <<>> /\ link = FALSE /\ line = <<>>
    /\ sent = 0 /\ session = 0
    /\ out = <<>> /\ whole = <<>> /\ owner = 0 /\ mixed = {}

-----------------------------------------------------------------------------
(* spp_process_accumulator.                                                *)

\* spp_handle_frame_payload: a payload that starts with D2 is dispatched.
Dispatched(payload) ==
    IF Len(payload) >= 2 /\ payload[1] = CMD THEN <<payload>> ELSE <<>>

\* Mutant: a payload of the greatest length is refused.
ScanAtMutant(acc, after, i) ==
    LET plen == acc[i + 2] * 256 + acc[i + 3]
        next == i + FRAME_HDR + plen
    IN  IF i + FRAME_HDR - 1 > Len(acc) THEN [rest |-> i, cmds |-> <<>>]
        ELSE IF acc[i] # SYNC0 \/ acc[i + 1] # SYNC1 THEN after[i + 1]
        ELSE IF plen >= MAX_PAYLOAD THEN after[i + 2]
        ELSE IF next - 1 > Len(acc) THEN [rest |-> i, cmds |-> <<>>]
        ELSE [after[next] EXCEPT !.cmds = Dispatched(SubSeq(acc, i + FRAME_HDR, next - 1)) \o @]

\* One round of the loop, at index i, where after[j] is what the loop does from
\* index j on: the index it ends at, and the commands it dispatches.
ScanAt(acc, after, i) ==
    LET plen == acc[i + 2] * 256 + acc[i + 3]
        next == i + FRAME_HDR + plen
    IN  IF i + FRAME_HDR - 1 > Len(acc) THEN [rest |-> i, cmds |-> <<>>]
        ELSE IF acc[i] # SYNC0 \/ acc[i + 1] # SYNC1 THEN after[i + 1]
        ELSE IF plen > MAX_PAYLOAD THEN after[i + 2]
        ELSE IF next - 1 > Len(acc) THEN [rest |-> i, cmds |-> <<>>]
        ELSE [after[next] EXCEPT !.cmds = Dispatched(SubSeq(acc, i + FRAME_HDR, next - 1)) \o @]

\* The loop as a whole.
Scan(acc) ==
    LET scan[i \in 1..Len(acc) + 1] == ScanAt(acc, scan, i)
    IN  scan[1]

\* Mutant: the bytes of complete frames stay in the accumulator.
KeptMutant(acc, i) == IF i <= Len(acc) THEN acc ELSE <<>>

\* What stays in the accumulator when the loop ended at i.
Kept(acc, i) ==
    IF 1 < i /\ i <= Len(acc) THEN SubSeq(acc, i, Len(acc))
    ELSE IF i > Len(acc) \/ Len(acc) >= ACC_CAP THEN <<>>
    ELSE acc

-----------------------------------------------------------------------------
(* bridge_spp_receive_data_cb.                                             *)

\* spp_try_bare_cmd.
IsBare(data) ==
    /\ 2 <= Len(data) /\ Len(data) <= BARE_MAX
    /\ data[1] = CMD
    /\ ~(Len(data) >= 4 /\ data[2] = SYNC1)

\* spp_feed_accumulator: a packet that does not fit flushes what is there.
Flushes(data) == Len(rx_acc) + Len(data) > ACC_CAP

\* It is then copied, whether or not it fits alone.
Fed(data) == (IF Flushes(data) THEN <<>> ELSE rx_acc) \o data

\* The bytes of a message on the line, each with what the peer means by it.
OnLine(m) ==
    [i \in 1..Len(m.bytes) |->
        [byte |-> m.bytes[i], bare |-> m.bare, first |-> i = 1,
         last |-> i = Len(m.bytes), cmd |-> m.cmd]]

DataOf(packet) == [i \in 1..Len(packet) |-> packet[i].byte]

\* The packet is one bare command and nothing else.
WholeBare(packet) ==
    /\ packet[1].bare /\ packet[1].first /\ packet[Len(packet)].last
    /\ \A i \in 1..Len(packet) - 1 : ~packet[i].last

\* The callback takes a piece of a frame for a bare command, or a bare command for
\* more, less or a piece of a frame, joins the bytes of two sessions, or drops a
\* part of a frame to make room.
Misread(packet) ==
    LET data == DataOf(packet)
        held == rx_acc # <<>> /\ ~IsBare(data)
    IN  {w \in Misreadings :
            \/ w = "piece" /\ IsBare(data) /\ ~packet[1].bare
            \/ w = "bare" /\ ~WholeBare(packet) /\ \E i \in 1..Len(packet) : packet[i].bare
            \/ w = "bare" /\ ~IsBare(data) /\ WholeBare(packet)
            \/ w = "joined" /\ held /\ owner # session
            \/ w = "flushed" /\ held /\ Flushes(data)}

\* The commands whose last byte is in the packet.
Completed(packet) ==
    LET ends[i \in 1..Len(packet) + 1] ==
            IF i > Len(packet) THEN <<>>
            ELSE IF packet[i].last /\ packet[i].cmd # <<>>
                 THEN <<packet[i].cmd>> \o ends[i + 1]
            ELSE ends[i + 1]
    IN  ends[1]

\* History: the packet has led to the commands cmds.
Note(packet, cmds) ==
    /\ mixed' = mixed \cup Misread(packet)
    /\ out' = out \o cmds
    /\ whole' = whole \o Completed(packet)

\* RFCOMM delivers the next n bytes: hci_rx calls the bridge, connected or not.
ReceiveData(n) ==
    LET packet == SubSeq(line, 1, n)
        data   == DataOf(packet)
        acc    == Fed(data)
        scan   == Scan(acc)
    IN  /\ link /\ n <= MAX_PACKET
        /\ line' = SubSeq(line, n + 1, Len(line))
        /\ \/ /\ ~registered
              /\ UNCHANGED <<rx_acc, bookVars>>
           \/ /\ registered /\ IsBare(data)
              /\ Note(packet, <<data>>)
              /\ UNCHANGED <<rx_acc, owner>>
           \/ /\ registered /\ ~IsBare(data) /\ Len(acc) <= ACC_CAP
              /\ Note(packet, scan.cmds)
              /\ rx_acc' = Kept(acc, scan.rest)
              /\ owner' = IF rx_acc' = <<>> THEN 0
                          ELSE IF Len(rx_acc') > n THEN owner ELSE session
           \/ /\ registered /\ ~IsBare(data) /\ Len(acc) > ACC_CAP
              /\ rx_acc' = acc /\ owner' = session
              /\ UNCHANGED <<out, whole, mixed>>
        /\ UNCHANGED <<spp_channel, registered, connected, events, link, sent, session>>

-----------------------------------------------------------------------------
(* The peer and the connection.  The stack calls spp_connected_cb,         *)
(* spp_disconnected_cb and spp_connect_failed, which send btsrv a message. *)

PeerSends(m) ==
    /\ link /\ sent < MaxMessages
    /\ line' = line \o OnLine(m)
    /\ sent' = sent + 1
    /\ UNCHANGED <<rx_acc, spp_channel, registered, connected, events, link, session,
                   bookVars>>

LinkUp ==
    /\ ~link /\ session < MaxConnects
    /\ link' = TRUE /\ session' = session + 1
    /\ events' = Append(events, "connected")
    /\ UNCHANGED <<rx_acc, spp_channel, registered, connected, line, sent, bookVars>>

\* What is on the line is lost.
LinkDown ==
    /\ link
    /\ link' = FALSE /\ line' = <<>>
    /\ events' = Append(events, "disconnected")
    /\ UNCHANGED <<rx_acc, spp_channel, registered, connected, sent, session, bookVars>>

LinkFails ==
    /\ ~link /\ session < MaxConnects
    /\ session' = session + 1
    /\ events' = Append(events, "failed")
    /\ UNCHANGED <<rx_acc, spp_channel, registered, connected, link, line, sent, bookVars>>

-----------------------------------------------------------------------------
(* btsrv handles its messages: btsrv_spp.c, then bt_manager_spp_callback,  *)
(* then the callback of the bridge.                                        *)

Handles(e) ==
    /\ events # <<>> /\ Head(events) = e
    /\ events' = Tail(events)
    /\ UNCHANGED <<link, line, sent, session, out, whole>>

\* btsrv_spp_connected, bridge_spp_connected_cb.
Connected ==
    /\ Handles("connected")
    /\ connected' = TRUE
    /\ spp_channel' = IF ~connected /\ registered THEN APP_ID ELSE spp_channel
    /\ UNCHANGED <<rx_acc, registered, owner, mixed>>

\* btsrv_spp_connect_failed, bridge_spp_connect_failed_cb; the manager then frees
\* its entry.
ConnectFailed ==
    /\ Handles("failed")
    /\ spp_channel' = IF registered THEN 0 ELSE spp_channel
    /\ registered' = FALSE
    /\ UNCHANGED <<rx_acc, connected, owner, mixed>>

\* Mutant: the accumulator keeps what the connection left behind.
DisconnectedKeeps ==
    /\ Handles("disconnected")
    /\ connected' = FALSE
    /\ spp_channel' = IF connected /\ registered THEN 0 ELSE spp_channel
    /\ UNCHANGED <<rx_acc, registered, owner, mixed>>

\* btsrv_spp_disconnected, bridge_spp_disconnected_cb.
Disconnected ==
    LET told == connected /\ registered
    IN  /\ Handles("disconnected")
        /\ connected' = FALSE
        /\ spp_channel' = IF told THEN 0 ELSE spp_channel
        /\ rx_acc' = IF told THEN <<>> ELSE rx_acc
        /\ owner' = IF told THEN 0 ELSE owner
        /\ mixed' = IF told /\ link /\ rx_acc # <<>> /\ owner = session
                    THEN mixed \cup {"cleared"} ELSE mixed
        /\ UNCHANGED registered

SppNext ==
    /\ ~Overrun
    /\ \/ \E n \in 1..Len(line) : ReceiveData(n)
       \/ \E m \in Messages : PeerSends(m)
       \/ LinkUp \/ LinkDown \/ LinkFails
       \/ Connected \/ ConnectFailed \/ Disconnected

SppSpec == SppInit /\ [][SppNext]_sppVars

-----------------------------------------------------------------------------
(* Properties.                                                             *)

\* However the frames are cut and joined, also inside the header and with frames
\* between them that are too short, too long or no command, and whenever btsrv
\* comes to handle connects and disconnects, every command is dispatched when its
\* last byte reaches the bridge, once, in order, and nothing else is, as long as no bytes are
\* misread and no packet overran the accumulator.
CommandsOnceInOrder == mixed = {} /\ ~Overrun => out = whole

\* After any packet that fits into rx_acc less than one frame is left, whatever was
\* in it, so a packet up to the slack of SPP_ACC_CAP never flushes a started frame.
LeavesLessThanFrame == ~Overrun => Len(rx_acc) < FRAME_HDR + MAX_PAYLOAD

\* What a closed connection left in the accumulator waits there only as long as the
\* message of a disconnect waits in the queue of btsrv: bridge_spp_disconnected_cb
\* clears it, whatever came in between.
OldBytesAwaitDisconnect ==
    registered /\ rx_acc # <<>> /\ ~(link /\ owner = session)
        => \E i \in 1..Len(events) : events[i] = "disconnected"

\* "chunk too large, flush" (spp_feed_accumulator): a packet that is too large is
\* kept out of rx_acc.  The code copies it.
CopyStaysInside == ~Overrun
=============================================================================
