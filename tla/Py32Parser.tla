----------------------------- MODULE Py32Parser -----------------------------
(***************************************************************************)
(* The receive state machine of system_app_py32_uart.c: py32_rx_feed_byte  *)
(* and everything it calls when a frame is complete (CRC check, duplicate  *)
(* suppression, execution of the "set parameters" command, the status      *)
(* frame sent in answer).  All of it runs in the py32 thread, one byte at  *)
(* a time.                                                                 *)
(*                                                                         *)
(* A frame is  Addr CMD LEN DATA[LEN] CRC_L CRC_H.  The checksum is the    *)
(* parameter Crc16, so that what is said here does not depend on which     *)
(* polynomial is used.                                                     *)
(***************************************************************************)
EXTENDS Py32Volume

CONSTANTS
    Crc16(_),       \* py32_crc16: the checksum of a sequence of bytes
    VolMax,         \* audio_policy_get_volume_level()
    Levels          \* the volume levels other parts of the system may set

ASSUME VolMaxAssumption == VolMax \in Nat /\ Levels \subseteq 0..VolMax

Byte == 0..255          \* u8_t

ADDR_HOST    == 1       \* PY32_ADDR_HOST
CMD_COMMON   == 16      \* PY32_CMD_COMMON
SET_DATA_LEN == 4       \* PY32_SET_DATA_LEN
FRAME_MAX    == 128     \* PY32_FRAME_MAX
LEN_MAX      == FRAME_MAX - 5

ERR_NONE        == 0
ERR_UNSUPPORTED == 1
ERR_BAD_LEN     == 2
ERR_BAD_VALUE   == 3
ERR_CRC         == 4

VARIABLES
    parse_state,    \* py32_parse_state
    frame_addr, frame_cmd, frame_len,
    frame_data,     \* the first py32_frame_got bytes of py32_frame_data
    crc_rx,
    last_rx_log,    \* py32_last_rx_log: the last frame that passed the CRC
    params,         \* py32_state
    sys_volume,     \* the music volume level of the audio system
    outcome,        \* history: what the last byte led to
    reply           \* history: the status frame sent on the last step

frameVars  == <<parse_state, frame_addr, frame_cmd, frame_len, frame_data, crc_rx>>
parserVars == <<frameVars, last_rx_log, params, sys_volume, outcome, reply>>

ParseStates == {"ADDR", "CMD", "LEN", "DATA", "CRC_L", "CRC_H"}

\* What a byte can lead to; all but "none" and "resync" end a frame.
Outcomes == {"none", "resync", "bad LEN", "crc_fail", "duplicate",
             "unsupported", "bad_len", "bad_value", "set"}

\* Frames that passed the checksum.
GoodOutcomes == {"duplicate", "unsupported", "bad_len", "bad_value", "set"}

NoReply == [err |-> 256]

Params == [volume : 0..100, treble : 0..24, bass : 0..24,
           vibration : 0..100, last_error : 0..5]

Status == [volume : 0..100, treble : 0..24, bass : 0..24,
           vibration : 0..100, err : 0..5]

Frame == [addr : Byte, cmd : Byte, len : Byte, data : Seq(Byte), crc : Nat]

TypeOK ==
    /\ parse_state \in ParseStates
    /\ frame_addr \in Byte
    /\ frame_cmd \in Byte
    /\ frame_len \in Byte
    /\ frame_data \in Seq(Byte)
    /\ crc_rx \in Byte
    /\ last_rx_log \in Frame
    /\ params \in Params
    /\ sys_volume \in 0..VolMax
    /\ outcome \in Outcomes
    /\ reply \in Status \cup {NoReply}

-----------------------------------------------------------------------------
(* py32_uart_do_init: parameters and parser are reset before the thread    *)
(* that owns them exists.  The duplicate log is a zeroed static.           *)

ParserInit ==
    /\ parse_state = "ADDR"
    /\ frame_addr = 0 /\ frame_cmd = 0 /\ frame_len = 0
    /\ frame_data = <<>>
    /\ crc_rx = 0
    /\ last_rx_log = [addr |-> 0, cmd |-> 0, len |-> 0, data |-> <<>>, crc |-> 0]
    /\ params = [volume |-> 0, treble |-> 12, bass |-> 12, vibration |-> 0,
                 last_error |-> ERR_NONE]
    /\ sys_volume \in Levels
    /\ outcome = "none"
    /\ reply = NoReply

\* py32_parse_reset
ParseReset ==
    /\ parse_state' = "ADDR"
    /\ frame_addr' = 0 /\ frame_cmd' = 0 /\ frame_len' = 0
    /\ frame_data' = <<>>
    /\ crc_rx' = 0

\* Mutant: the volume is not synchronised before a status frame.
SyncedMutant(p, level) == p

\* py32_sync_status_for_response: the volume reported is the level the audio
\* system is at, converted back to percent.
Synced(p, level) == [p EXCEPT !.volume = level_to_pct(level, VolMax)]

\* py32_tx_status_frame, the fields that come from py32_state.
StatusOf(p, err) == [volume |-> p.volume, treble |-> p.treble, bass |-> p.bass,
                     vibration |-> p.vibration, err |-> err]

\* A byte that neither completes nor abandons a frame sends and changes nothing else.
Quiet(what) ==
    /\ outcome' = what
    /\ reply' = NoReply
    /\ UNCHANGED <<last_rx_log, params, sys_volume>>

-----------------------------------------------------------------------------
(* py32_rx_feed_byte, one action per parser state.                         *)

\* Only the host address starts a frame; anything else is discarded.
FeedAddr(c) ==
    /\ parse_state = "ADDR"
    /\ IF c = ADDR_HOST
         THEN /\ frame_addr' = c
              /\ parse_state' = "CMD"
         ELSE UNCHANGED <<frame_addr, parse_state>>
    /\ UNCHANGED <<frame_cmd, frame_len, frame_data, crc_rx>>
    /\ Quiet("none")

FeedCmd(c) ==
    /\ parse_state = "CMD"
    /\ frame_cmd' = c
    /\ parse_state' = "LEN"
    /\ UNCHANGED <<frame_addr, frame_len, frame_data, crc_rx>>
    /\ Quiet("none")

\* Mutant: the bound on LEN is missing.
LenAcceptedMutant(c) == c <= 255

LenAccepted(c) == c <= LEN_MAX

\* A LEN the frame buffer cannot hold abandons the frame without an answer.
FeedLen(c) ==
    /\ parse_state = "LEN"
    /\ IF LenAccepted(c)
         THEN /\ frame_len' = c
              /\ frame_data' = <<>>
              /\ parse_state' = IF c = 0 THEN "CRC_L" ELSE "DATA"
              /\ UNCHANGED <<frame_addr, frame_cmd, crc_rx>>
              /\ Quiet("none")
         ELSE ParseReset /\ Quiet("bad LEN")

\* Mutant: without the resynchronisation the byte is data like any other.
ResyncMutant(c) ==
    /\ parse_state = "DATA"
    /\ c = ADDR_HOST
    /\ frame_data' = Append(frame_data, c)
    /\ parse_state' = IF Len(frame_data) + 1 >= frame_len THEN "CRC_L" ELSE "DATA"
    /\ UNCHANGED <<frame_addr, frame_cmd, frame_len, crc_rx>>
    /\ Quiet("none")

\* A host address inside DATA is taken for the start of the next frame: the
\* frame so far is abandoned and the byte fed again, to state ADDR.
Resync(c) ==
    /\ parse_state = "DATA"
    /\ c = ADDR_HOST
    /\ parse_state' = "CMD"
    /\ frame_addr' = c
    /\ frame_cmd' = 0 /\ frame_len' = 0
    /\ frame_data' = <<>>
    /\ crc_rx' = 0
    /\ Quiet("resync")

FeedData(c) ==
    /\ parse_state = "DATA"
    /\ c # ADDR_HOST
    /\ frame_data' = Append(frame_data, c)
    /\ parse_state' = IF Len(frame_data) + 1 >= frame_len THEN "CRC_L" ELSE "DATA"
    /\ UNCHANGED <<frame_addr, frame_cmd, frame_len, crc_rx>>
    /\ Quiet("none")

FeedCrcL(c) ==
    /\ parse_state = "CRC_L"
    /\ crc_rx' = c
    /\ parse_state' = "CRC_H"
    /\ UNCHANGED <<frame_addr, frame_cmd, frame_len, frame_data>>
    /\ Quiet("none")

-----------------------------------------------------------------------------
(* py32_process_complete_frame, on the last byte of the checksum.  Its     *)
(* first test (LEN beyond the buffer) and py32_handle_frame's test of the  *)
(* address are dead code: FrameFits, below, is why.                        *)

Received(c) == [addr |-> frame_addr, cmd |-> frame_cmd, len |-> frame_len,
                data |-> frame_data, crc |-> crc_rx + 256 * c]

\* Mutant: the checksum is not compared.
CrcOkMutant(f) == TRUE

CrcOk(f) == Crc16(<<f.addr, f.cmd, f.len>> \o f.data) = f.crc

\* Mutant: the data is not compared.
RxFrameSameHeader(f) == f.cmd = last_rx_log.cmd /\ f.len = last_rx_log.len

\* py32_rx_frame_same
RxFrameSame(f) == f = last_rx_log

\* Answer with err.  py32_send_status_response syncs the volume only when
\* there is no error; last_error is the caller's.
Answer(p, err) ==
    /\ params' = p
    /\ reply' = StatusOf(p, err)

CrcFail(f) ==
    /\ ~CrcOk(f)
    /\ outcome' = "crc_fail"
    /\ Answer([params EXCEPT !.last_error = ERR_CRC], ERR_CRC)
    /\ UNCHANGED <<last_rx_log, sys_volume>>

Duplicate(f) ==
    /\ CrcOk(f)
    /\ RxFrameSame(f)
    /\ Quiet("duplicate")

Refuse(what, err) ==
    /\ outcome' = what
    /\ Answer([params EXCEPT !.last_error = err], err)
    /\ UNCHANGED sys_volume

\* The range check of py32_handle_set_params.
ValuesOk(d) == d[1] <= 100 /\ d[2] <= 24 /\ d[3] <= 24 /\ d[4] <= 100

\* py32_apply_volume, py32_apply_treble_bass, then the OK answer.
ApplySet(d) ==
    LET level == pct_to_level(d[1], VolMax)
    IN  /\ sys_volume' = level
        /\ outcome' = "set"
        /\ Answer(Synced([volume |-> d[1], treble |-> d[2], bass |-> d[3],
                          vibration |-> d[4], last_error |-> ERR_NONE], level),
                  ERR_NONE)

\* py32_handle_frame and py32_handle_set_params
HandleFrame(f) ==
    \/ f.cmd # CMD_COMMON /\ Refuse("unsupported", ERR_UNSUPPORTED)
    \/ f.cmd = CMD_COMMON /\ f.len # SET_DATA_LEN /\ Refuse("bad_len", ERR_BAD_LEN)
    \/ /\ f.cmd = CMD_COMMON /\ f.len = SET_DATA_LEN
       /\ \/ ~ValuesOk(f.data) /\ Refuse("bad_value", ERR_BAD_VALUE)
          \/ ValuesOk(f.data) /\ ApplySet(f.data)

Fresh(f) ==
    /\ CrcOk(f)
    /\ ~RxFrameSame(f)
    /\ last_rx_log' = f
    /\ HandleFrame(f)

FeedCrcH(c) ==
    /\ parse_state = "CRC_H"
    /\ \/ CrcFail(Received(c))
       \/ Duplicate(Received(c))
       \/ Fresh(Received(c))
    /\ ParseReset

Feed(c) ==
    \/ FeedAddr(c)
    \/ FeedCmd(c)
    \/ FeedLen(c)
    \/ Resync(c)
    \/ FeedData(c)
    \/ FeedCrcL(c)
    \/ FeedCrcH(c)

-----------------------------------------------------------------------------
(* The 50 ms status frame of py32_uart_thread.                             *)

PeriodicStatus ==
    /\ params' = Synced(params, sys_volume)
    /\ reply' = StatusOf(params', ERR_NONE)
    /\ outcome' = "none"
    /\ UNCHANGED <<frameVars, last_rx_log, sys_volume>>

\* system_volume_set by anyone else: the phone, a key, a remote command.
VolumeChange(level) ==
    /\ level # sys_volume
    /\ sys_volume' = level
    /\ UNCHANGED <<frameVars, last_rx_log, params, outcome, reply>>

-----------------------------------------------------------------------------
(* Safety of the frame buffer.                                             *)

\* py32_frame_data[py32_frame_got++] stays inside the buffer whatever bytes
\* arrive: while data is collected there is room for the next byte, and a frame
\* handed to py32_process_complete_frame came from the host address, has a LEN
\* that fits hdr[] and exactly LEN bytes of data (so memcpy never copies bytes
\* of an earlier frame).
FrameFits ==
    /\ frame_len <= LEN_MAX
    /\ parse_state # "ADDR" => frame_addr = ADDR_HOST
    /\ parse_state = "DATA" => Len(frame_data) < frame_len
    /\ parse_state \in {"CRC_L", "CRC_H"} => Len(frame_data) = frame_len
=============================================================================
