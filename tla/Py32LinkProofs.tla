--------------------------- MODULE Py32LinkProofs ---------------------------
(***************************************************************************)
(* The PY32 receive path for every checksum function, every ring size and  *)
(* every volume scale: types, the frame buffer, settings that follow the   *)
(* host, what a status frame says of the volume, how the parser gets back  *)
(* in step after a damaged frame, and that on a line without faults it     *)
(* receives what was sent, and all of it.                                  *)
(***************************************************************************)
EXTENDS Py32VolumeProofs

\* The tone and vibration settings, and what a frame asks them to be.
Settings == <<params.treble, params.bass, params.vibration>>

Asks(f) == <<f.data[2], f.data[3], f.data[4]>>

\* If the frame in the duplicate log is a valid "set parameters" frame, it is the
\* one in force: what py32_rx_frame_same relies on to drop a repetition.
LogInForce == ValidSet(last_rx_log) => Settings = Asks(last_rx_log)

\* The inductive invariant.  FrameFits is needed for types: a "set" command
\* indexes its data by 1..4, and only FrameFits says there are as many bytes as
\* LEN announced.  LogInForce is needed for SettingsFollowHost: a duplicate
\* changes nothing, so the settings must already be the ones it asks for.
IInv == LinkTypeOK /\ FrameFits /\ LogInForce /\ SettingsFollowHost

\* Elements, tails, concatenations and pieces of sequences are what they should be.
LEMMA ElementType ==
  ASSUME NEW S, NEW s \in Seq(S), NEW i \in 1..Len(s)
  PROVE  s[i] \in S
OBVIOUS

\* The rest of a sequence, as py32_uart_ring_drain leaves it.
LEMMA TailType ==
  ASSUME NEW S, NEW s \in Seq(S), s # <<>>
  PROVE  Tail(s) \in Seq(S) /\ Head(s) \in S /\ Len(Tail(s)) = Len(s) - 1
OBVIOUS

\* A piece of a sequence, as one interrupt hands it over.
LEMMA PieceType ==
  ASSUME NEW S, NEW s \in Seq(S), NEW m \in Nat, NEW n \in Nat, m >= 1, n <= Len(s)
  PROVE  SubSeq(s, m, n) \in Seq(S)
OBVIOUS

\* Bytes added to the line or the ring are a sequence again.
LEMMA ConcatType ==
  ASSUME NEW S, NEW s \in Seq(S), NEW t \in Seq(S)
  PROVE  s \o t \in Seq(S) /\ Len(s \o t) = Len(s) + Len(t)
OBVIOUS

\* One more byte of data makes a sequence again.
LEMMA AppendType ==
  ASSUME NEW S, NEW s \in Seq(S), NEW e \in S
  PROVE  Append(s, e) \in Seq(S) /\ Len(Append(s, e)) = Len(s) + 1
OBVIOUS

\* A byte is a natural number (Byte itself stays folded below).
LEMMA ByteIsNat == ASSUME NEW b \in Byte PROVE b \in Nat
BY DEF Byte

\* Four bytes that pass the range check of py32_handle_set_params make parameters.
LEMMA ParamsType ==
  ASSUME NEW v \in Byte, NEW t \in Byte, NEW b \in Byte, NEW w \in Byte,
         v <= 100, t <= 24, b <= 24, w <= 100
  PROVE  [volume |-> v, treble |-> t, bass |-> b, vibration |-> w,
          last_error |-> ERR_NONE] \in Params
BY DEF Byte, Params, ERR_NONE

\* The status frame and the parameters keep their types when an error is noted.
LEMMA AnswerTypes ==
  ASSUME NEW p \in Params, NEW err \in 0..5
  PROVE  /\ [p EXCEPT !.last_error = err] \in Params
         /\ StatusOf(p, err) \in Status
         /\ StatusOf([p EXCEPT !.last_error = err], err) \in Status
BY DEF Params, Status, StatusOf

\* Copying the audio system's level into the parameters keeps their types.
LEMMA SyncedTypes ==
  ASSUME NEW p \in Params, NEW lvl \in 0..VolMax
  PROVE  /\ Synced(p, lvl) \in Params
         /\ StatusOf(Synced(p, lvl), ERR_NONE) \in Status
<1>1. VolMax \in Nat
  BY VolMaxAssumption
<1>2. lvl \in Nat
  BY <1>1
<1>3. level_to_pct(lvl, VolMax) \in 0..100
  BY <1>1, <1>2, LevelToPctInRange, ZenonT(30)
<1> QED
  BY <1>3, SMTT(30) DEF Synced, StatusOf, Params, Status, ERR_NONE

\* What is common to all the bytes that complete no frame.
LEMMA QuietTypes ==
  ASSUME TypeOK, NEW what \in Outcomes, Quiet(what)
  PROVE  /\ last_rx_log' \in Frame
         /\ params' \in Params
         /\ sys_volume' \in 0..VolMax
         /\ outcome' \in Outcomes
         /\ reply' \in Status \cup {NoReply}
BY DEF TypeOK, Quiet

\* A completed frame is a Frame.
LEMMA ReceivedType ==
  ASSUME TypeOK, NEW c \in Byte
  PROVE  Received(c) \in Frame
<1>1. crc_rx + 256 * c \in Nat
  BY DEF TypeOK, Byte
<1>2. /\ frame_data \in Seq(Byte)
      /\ frame_addr \in Byte /\ frame_cmd \in Byte /\ frame_len \in Byte
  BY DEF TypeOK
<1> QED
  BY <1>1, <1>2 DEF Received, Frame

\* Executing a valid set command keeps the types: the four values are in range.
LEMMA ApplySetTypes ==
  ASSUME NEW d \in Seq(Byte), Len(d) = 4, ValuesOk(d), ApplySet(d)
  PROVE  /\ params' \in Params
         /\ sys_volume' \in 0..VolMax
         /\ outcome' \in Outcomes
         /\ reply' \in Status \cup {NoReply}
<1> DEFINE lvl == pct_to_level(d[1], VolMax)
           p == [volume |-> d[1], treble |-> d[2], bass |-> d[3],
                 vibration |-> d[4], last_error |-> ERR_NONE]
<1>1. d[1] \in Byte /\ d[2] \in Byte /\ d[3] \in Byte /\ d[4] \in Byte
  <2>1. 1 \in 1..Len(d) /\ 2 \in 1..Len(d) /\ 3 \in 1..Len(d) /\ 4 \in 1..Len(d)
    OBVIOUS
  <2> QED
    BY <2>1, ElementType
<1>2. lvl \in 0..VolMax
  <2>1. d[1] \in Nat /\ VolMax \in Nat
    BY <1>1, ByteIsNat, VolMaxAssumption
  <2> QED
    BY <2>1, PctToLevelInRange
<1>3. p \in Params
  BY <1>1, ParamsType DEF ValuesOk
<1>4. /\ sys_volume' = lvl
      /\ outcome' = "set"
      /\ params' = Synced(p, lvl)
      /\ reply' = StatusOf(Synced(p, lvl), ERR_NONE)
  BY DEF ApplySet, Answer
<1> HIDE DEF lvl, p
<1>5. Synced(p, lvl) \in Params /\ StatusOf(Synced(p, lvl), ERR_NONE) \in Status
  BY <1>2, <1>3, SyncedTypes
<1> QED
  BY <1>2, <1>4, <1>5 DEF Outcomes

-----------------------------------------------------------------------------
(* Feeding a byte keeps the types and the frame buffer safe.               *)

ParserInv == TypeOK /\ FrameFits

\* What py32_parse_reset assigns has the right types.
LEMMA EmptyTypes == <<>> \in Seq(Byte) /\ 0 \in Byte
<1>1. <<>> \in Seq(Byte)
  OBVIOUS
<1>2. 0 \in Byte
  BY DEF Byte
<1> QED
  BY <1>1, <1>2

\* py32_parse_reset keeps the frame buffer safe.
LEMMA ResetKeeps ==
  ASSUME ParseReset
  PROVE  /\ parse_state' \in ParseStates
         /\ frame_addr' \in Byte /\ frame_cmd' \in Byte /\ frame_len' \in Byte
         /\ frame_data' \in Seq(Byte)
         /\ crc_rx' \in Byte
         /\ FrameFits'
BY DEF ParseReset, ParseStates, Byte, FrameFits, LEN_MAX, FRAME_MAX

\* State ADDR: discarding a byte or starting a frame.
LEMMA FeedAddrKeeps ==
  ASSUME ParserInv, NEW c \in Byte, FeedAddr(c)
  PROVE  ParserInv'
<1>1. TypeOK'
  BY QuietTypes DEF ParserInv, FeedAddr, TypeOK, ParseStates, Outcomes
<1>2. FrameFits'
  BY DEF ParserInv, FeedAddr, FrameFits, ADDR_HOST
<1> QED
  BY <1>1, <1>2 DEF ParserInv

\* State CMD: taking the command byte.
LEMMA FeedCmdKeeps ==
  ASSUME ParserInv, NEW c \in Byte, FeedCmd(c)
  PROVE  ParserInv'
<1>1. TypeOK'
  BY QuietTypes DEF ParserInv, FeedCmd, TypeOK, ParseStates, Outcomes
<1>2. FrameFits'
  BY DEF ParserInv, FeedCmd, FrameFits
<1> QED
  BY <1>1, <1>2 DEF ParserInv

\* State LEN: the bound on LEN is what makes the buffer safe.
LEMMA FeedLenKeeps ==
  ASSUME ParserInv, NEW c \in Byte, FeedLen(c)
  PROVE  ParserInv'
<1>1. CASE LenAccepted(c)
  <2>1. Quiet("none") /\ frame_len' = c /\ frame_data' = <<>> /\ parse_state = "LEN"
        /\ parse_state' = (IF c = 0 THEN "CRC_L" ELSE "DATA")
        /\ UNCHANGED <<frame_addr, frame_cmd, crc_rx>>
    BY <1>1 DEF FeedLen
  <2>2. TypeOK'
    BY <2>1, EmptyTypes, QuietTypes DEF ParserInv, TypeOK, ParseStates, Outcomes
  <2>3. FrameFits'
    BY <2>1, <1>1 DEF ParserInv, FrameFits, LenAccepted, Byte
  <2> QED
    BY <2>2, <2>3 DEF ParserInv
<1>2. CASE ~LenAccepted(c)
  <2>1. ParseReset /\ Quiet("bad LEN")
    BY <1>2 DEF FeedLen
  <2>2. TypeOK' /\ FrameFits'
    BY <2>1, ResetKeeps, QuietTypes DEF ParserInv, TypeOK, Outcomes
  <2> QED
    BY <2>2 DEF ParserInv
<1> QED
  BY <1>1, <1>2

\* State DATA, host address: the new frame starts with an empty buffer.
LEMMA ResyncKeeps ==
  ASSUME ParserInv, NEW c \in Byte, Resync(c)
  PROVE  ParserInv'
<1>1. TypeOK'
  BY EmptyTypes, QuietTypes DEF ParserInv, Resync, TypeOK, ParseStates, Outcomes
<1>2. FrameFits'
  BY DEF ParserInv, Resync, FrameFits, LEN_MAX, FRAME_MAX
<1> QED
  BY <1>1, <1>2 DEF ParserInv

\* State DATA: there is room for the byte, and the last one ends the data.
LEMMA FeedDataKeeps ==
  ASSUME ParserInv, NEW c \in Byte, FeedData(c)
  PROVE  ParserInv'
<1>1. frame_data' \in Seq(Byte) /\ Len(frame_data') = Len(frame_data) + 1
  BY AppendType DEF ParserInv, FeedData, TypeOK
<1>2. TypeOK'
  BY <1>1, QuietTypes DEF ParserInv, FeedData, TypeOK, ParseStates, Outcomes
<1>3. FrameFits'
  <2>1. /\ Len(frame_data) \in Nat /\ frame_len \in Nat
        /\ Len(frame_data) < frame_len
    BY DEF ParserInv, FeedData, FrameFits, TypeOK, Byte
  <2> QED
    BY <1>1, <2>1 DEF ParserInv, FeedData, FrameFits
<1> QED
  BY <1>2, <1>3 DEF ParserInv

\* State CRC_L: taking the low byte of the checksum.
LEMMA FeedCrcLKeeps ==
  ASSUME ParserInv, NEW c \in Byte, FeedCrcL(c)
  PROVE  ParserInv'
<1>1. TypeOK'
  BY QuietTypes DEF ParserInv, FeedCrcL, TypeOK, ParseStates, Outcomes
<1>2. FrameFits'
  BY DEF ParserInv, FeedCrcL, FrameFits
<1> QED
  BY <1>1, <1>2 DEF ParserInv

-----------------------------------------------------------------------------
(* The last byte of a frame.                                               *)

\* Refusing a frame touches neither the settings nor the volume.
LEMMA RefuseKeeps ==
  ASSUME TypeOK, NEW what \in Outcomes, NEW err \in 0..5, Refuse(what, err)
  PROVE  /\ params' \in Params
         /\ sys_volume' \in 0..VolMax
         /\ outcome' = what
         /\ reply' \in Status \cup {NoReply}
         /\ Settings' = Settings
<1>1. params \in Params /\ sys_volume \in 0..VolMax
  BY DEF TypeOK
<1>2. params' = [params EXCEPT !.last_error = err]
  BY DEF Refuse, Answer
<1>3. Settings' = Settings
  BY <1>1, <1>2 DEF Settings, Params
<1> QED
  BY <1>1, <1>2, <1>3, AnswerTypes DEF Refuse, Answer

\* Handling a frame: types, and which settings are in force afterwards.
LEMMA HandleFrameKeeps ==
  ASSUME TypeOK, NEW f \in Frame, Len(f.data) = f.len, HandleFrame(f)
  PROVE  /\ params' \in Params
         /\ sys_volume' \in 0..VolMax
         /\ outcome' \in GoodOutcomes
         /\ reply' \in Status \cup {NoReply}
         /\ Settings' = IF ValidSet(f) THEN Asks(f) ELSE Settings
<1>a. ERR_UNSUPPORTED \in 0..5 /\ ERR_BAD_LEN \in 0..5 /\ ERR_BAD_VALUE \in 0..5
  BY DEF ERR_UNSUPPORTED, ERR_BAD_LEN, ERR_BAD_VALUE
<1>b. \A what \in {"unsupported", "bad_len", "bad_value"} :
          what \in Outcomes /\ what \in GoodOutcomes
  BY DEF Outcomes, GoodOutcomes
<1>1. CASE f.cmd # CMD_COMMON /\ Refuse("unsupported", ERR_UNSUPPORTED)
  BY <1>1, <1>a, <1>b, RefuseKeeps DEF ValidSet
<1>2. CASE /\ f.cmd = CMD_COMMON /\ f.len # SET_DATA_LEN
           /\ Refuse("bad_len", ERR_BAD_LEN)
  BY <1>2, <1>a, <1>b, RefuseKeeps DEF ValidSet
<1>3. CASE ~ValuesOk(f.data) /\ Refuse("bad_value", ERR_BAD_VALUE)
  BY <1>3, <1>a, <1>b, RefuseKeeps DEF ValidSet
<1>4. CASE /\ f.cmd = CMD_COMMON /\ f.len = SET_DATA_LEN
           /\ ValuesOk(f.data) /\ ApplySet(f.data)
  <2>1. f.data \in Seq(Byte) /\ Len(f.data) = 4
    BY <1>4 DEF Frame, SET_DATA_LEN
  <2>2. /\ params' \in Params
        /\ sys_volume' \in 0..VolMax
        /\ reply' \in Status \cup {NoReply}
    BY <1>4, <2>1, ApplySetTypes
  <2>3. outcome' = "set"
    BY <1>4 DEF ApplySet
  <2>4. Settings' = Asks(f)
    BY <1>4 DEF ApplySet, Answer, Synced, Settings, Asks
  <2> QED
    BY <1>4, <2>2, <2>3, <2>4 DEF ValidSet, GoodOutcomes
<1> QED
  BY <1>1, <1>2, <1>3, <1>4 DEF HandleFrame

\* The effect of a byte on the settings: they change only to what a frame that
\* passed the checksum asks for, and the duplicate log stays in force.
ByteEffect(c) ==
    /\ LogInForce'
    /\ Settings' = IF outcome' \in GoodOutcomes /\ ValidSet(Received(c))
                     THEN Asks(Received(c)) ELSE Settings

\* State CRC_H: py32_process_complete_frame, in all its outcomes.
LEMMA FeedCrcHKeeps ==
  ASSUME ParserInv, LogInForce, NEW c \in Byte, FeedCrcH(c)
  PROVE  ParserInv' /\ ByteEffect(c)
<1> DEFINE f == Received(c)
<1>1. ParseReset /\ parse_state = "CRC_H" /\ TypeOK
  BY DEF FeedCrcH, ParserInv
<1>2. f \in Frame /\ Len(f.data) = f.len
  BY <1>1, ReceivedType DEF ParserInv, FrameFits, Received
<1> HIDE DEF f
<1>3. SUFFICES /\ last_rx_log' \in Frame /\ params' \in Params
               /\ sys_volume' \in 0..VolMax /\ outcome' \in Outcomes
               /\ reply' \in Status \cup {NoReply}
               /\ ByteEffect(c)
  BY <1>1, ResetKeeps DEF ParserInv, TypeOK
<1>4. CASE CrcFail(f)
  <2>1. /\ params' = [params EXCEPT !.last_error = ERR_CRC]
        /\ reply' = StatusOf(params', ERR_CRC)
        /\ outcome' = "crc_fail"
        /\ last_rx_log' = last_rx_log /\ sys_volume' = sys_volume
    BY <1>4 DEF CrcFail, Answer
  <2>2. params \in Params /\ ERR_CRC \in 0..5
    BY <1>1 DEF TypeOK, ERR_CRC
  <2>3. Settings' = Settings
    BY <2>1, <2>2 DEF Settings, Params
  <2>4. outcome' \notin GoodOutcomes /\ outcome' \in Outcomes
    BY <2>1 DEF GoodOutcomes, Outcomes
  <2>5. params' \in Params /\ reply' \in Status
    BY <2>1, <2>2, AnswerTypes
  <2> QED
    BY <1>1, <2>1, <2>3, <2>4, <2>5 DEF TypeOK, ByteEffect, LogInForce
<1>5. CASE Duplicate(f)
  <2>1. /\ Quiet("duplicate") /\ f = last_rx_log
        /\ params' = params /\ last_rx_log' = last_rx_log /\ outcome' = "duplicate"
    BY <1>5 DEF Duplicate, RxFrameSame, Quiet
  <2>2. outcome' \in GoodOutcomes /\ "duplicate" \in Outcomes
    BY <2>1 DEF GoodOutcomes, Outcomes
  <2>3. Settings' = Settings /\ LogInForce'
    BY <2>1 DEF Settings, LogInForce
  <2>4. ValidSet(f) => Settings = Asks(f)
    BY <2>1 DEF LogInForce
  <2>5. ByteEffect(c)
    BY <2>2, <2>3, <2>4 DEF ByteEffect, f
  <2> QED
    BY <1>1, <2>1, <2>2, <2>5, QuietTypes
<1>6. CASE Fresh(f)
  <2>1. last_rx_log' = f /\ HandleFrame(f)
    BY <1>6 DEF Fresh
  <2>2. /\ params' \in Params
        /\ sys_volume' \in 0..VolMax
        /\ outcome' \in GoodOutcomes
        /\ reply' \in Status \cup {NoReply}
        /\ Settings' = IF ValidSet(f) THEN Asks(f) ELSE Settings
    BY <1>1, <1>2, <2>1, HandleFrameKeeps
  <2>3. LogInForce'
    BY <2>1, <2>2 DEF LogInForce
  <2>4. ByteEffect(c)
    BY <2>2, <2>3 DEF ByteEffect, f
  <2>5. outcome' \in Outcomes
    BY <2>2 DEF GoodOutcomes, Outcomes
  <2> QED
    BY <1>2, <2>1, <2>2, <2>4, <2>5
<1> QED
  BY <1>4, <1>5, <1>6 DEF FeedCrcH, f

\* A byte that completes nothing leaves settings and log alone.
LEMMA QuietEffect ==
  ASSUME LogInForce, NEW c \in Byte, NEW what, Quiet(what), what \notin GoodOutcomes
  PROVE  ByteEffect(c)
BY DEF Quiet, ByteEffect, LogInForce, Settings

\* py32_rx_feed_byte as a whole.
LEMMA FeedKeeps ==
  ASSUME ParserInv, LogInForce, NEW c \in Byte, Feed(c)
  PROVE  ParserInv' /\ ByteEffect(c)
<1>a. "none" \notin GoodOutcomes /\ "resync" \notin GoodOutcomes
      /\ "bad LEN" \notin GoodOutcomes
  BY DEF GoodOutcomes
<1>1. CASE FeedAddr(c)
  BY <1>1, <1>a, FeedAddrKeeps, QuietEffect DEF FeedAddr
<1>2. CASE FeedCmd(c)
  BY <1>2, <1>a, FeedCmdKeeps, QuietEffect DEF FeedCmd
<1>3. CASE FeedLen(c)
  <2>1. Quiet("none") \/ Quiet("bad LEN")
    BY <1>3 DEF FeedLen
  <2> QED
    BY <1>3, <2>1, <1>a, FeedLenKeeps, QuietEffect
<1>4. CASE Resync(c)
  BY <1>4, <1>a, ResyncKeeps, QuietEffect DEF Resync
<1>5. CASE FeedData(c)
  BY <1>5, <1>a, FeedDataKeeps, QuietEffect DEF FeedData
<1>6. CASE FeedCrcL(c)
  BY <1>6, <1>a, FeedCrcLKeeps, QuietEffect DEF FeedCrcL
<1>7. CASE FeedCrcH(c)
  BY <1>7, FeedCrcHKeeps
<1> QED
  BY <1>1, <1>2, <1>3, <1>4, <1>5, <1>6, <1>7 DEF Feed

-----------------------------------------------------------------------------
(* The steps of the link.                                                  *)

\* The part of the invariant about the parser, when a step leaves it alone.
LEMMA ParserUnchanged ==
  ASSUME IInv, UNCHANGED parserVars
  PROVE  TypeOK' /\ FrameFits' /\ LogInForce' /\ Settings' = Settings
BY DEF IInv, LinkTypeOK, TypeOK, FrameFits, LogInForce, Settings, parserVars, frameVars

\* The state after py32_uart_do_init satisfies the invariant.
LEMMA InitEstablishes == Init => IInv
<1> SUFFICES ASSUME Init PROVE IInv
  OBVIOUS
<1>1. parse_state \in ParseStates /\ outcome \in Outcomes
  BY DEF Init, ParserInit, ParseStates, Outcomes
<1>2. frame_addr \in Byte /\ frame_cmd \in Byte /\ frame_len \in Byte /\ crc_rx \in Byte
  BY EmptyTypes DEF Init, ParserInit
<1>3. frame_data \in Seq(Byte)
  BY EmptyTypes DEF Init, ParserInit
<1>4. last_rx_log \in Frame
  BY EmptyTypes DEF Init, ParserInit, Frame
<1>5. params \in Params
  BY DEF Init, ParserInit, Params, ERR_NONE
<1>6. sys_volume \in 0..VolMax
  BY VolMaxAssumption DEF Init, ParserInit
<1>7. reply \in Status \cup {NoReply}
  BY DEF Init, ParserInit
<1>8. TypeOK
  BY <1>1, <1>2, <1>3, <1>4, <1>5, <1>6, <1>7 DEF TypeOK
<1>9. /\ line \in Seq(Byte) /\ ring \in Seq(Byte) /\ Len(ring) < RING_SIZE
      /\ sent \in Seq([bytes : HostFrames, intact : BOOLEAN])
      /\ rcvd \in Seq(Frame)
  BY LinkAssumption DEF Init
<1>10. drained \in BOOLEAN /\ alive \in BOOLEAN /\ overrun \in BOOLEAN
  BY DEF Init
<1>11. asked \in (0..24) \X (0..24) \X (0..100)
  BY DEF Init
<1>12. FrameFits
  BY DEF Init, ParserInit, FrameFits, LEN_MAX, FRAME_MAX
<1>13. LogInForce
  BY DEF Init, ParserInit, LogInForce, ValidSet, CMD_COMMON
<1>14. SettingsFollowHost
  BY DEF Init, ParserInit, SettingsFollowHost
<1> QED
  BY <1>8, <1>9, <1>10, <1>11, <1>12, <1>13, <1>14 DEF IInv, LinkTypeOK

\* The host and the line touch no state of the speaker.
LEMMA SendKeeps ==
  ASSUME IInv, NEW f \in HostFrames, NEW g \in Seq(Byte), NEW ok \in BOOLEAN,
         line' = line \o g,
         sent' = Append(sent, [bytes |-> f, intact |-> ok]),
         UNCHANGED <<parserVars, ring, drained, alive, rcvd, asked, overrun>>
  PROVE  IInv'
<1>1. TypeOK' /\ FrameFits' /\ LogInForce' /\ Settings' = Settings
  BY ParserUnchanged
<1>2. line' \in Seq(Byte)
  BY ConcatType DEF IInv, LinkTypeOK
<1>3. sent' \in Seq([bytes : HostFrames, intact : BOOLEAN])
  <2>1. [bytes |-> f, intact |-> ok] \in [bytes : HostFrames, intact : BOOLEAN]
    OBVIOUS
  <2> QED
    BY <2>1, AppendType DEF IInv, LinkTypeOK
<1>4. LinkTypeOK'
  BY <1>1, <1>2, <1>3 DEF IInv, LinkTypeOK
<1>5. SettingsFollowHost'
  BY <1>1 DEF IInv, SettingsFollowHost, Settings
<1> QED
  BY <1>1, <1>4, <1>5 DEF IInv

\* py32_rx_ring_push never fills the last slot of the ring.
LEMMA InterruptKeeps ==
  ASSUME IInv, NEW b \in Bursts, Interrupt(b)
  PROVE  IInv'
<1> DEFINE n == Clip(Len(line), b)
           k == Clip(n, Room)
<1>1. TypeOK' /\ FrameFits' /\ LogInForce' /\ Settings' = Settings
  BY ParserUnchanged DEF Interrupt
<1>2. line \in Seq(Byte) /\ ring \in Seq(Byte) /\ Len(ring) < RING_SIZE
  BY DEF IInv, LinkTypeOK
<1>3. b \in Nat /\ RING_SIZE \in Nat /\ Len(line) \in Nat /\ Len(ring) \in Nat
  BY <1>2, LinkAssumption
<1>4. Room \in Nat /\ Len(ring) + Room < RING_SIZE
  BY <1>2, <1>3 DEF Room
<1>5. n \in Nat /\ k \in Nat /\ n <= Len(line) /\ k <= n /\ k <= Room
  BY <1>3, <1>4 DEF Clip
<1> HIDE DEF n, k
<1>6. /\ ring' = ring \o SubSeq(line, 1, k)
      /\ line' = SubSeq(line, n + 1, Len(line))
      /\ overrun' \in BOOLEAN
      /\ UNCHANGED <<drained, alive, sent, rcvd, asked>>
  BY DEF Interrupt, RingPush, n, k
<1>7. SubSeq(line, 1, k) \in Seq(Byte) /\ Len(SubSeq(line, 1, k)) = k
  BY <1>2, <1>3, <1>5
<1>8. ring' \in Seq(Byte) /\ Len(ring') = Len(ring) + k
  BY <1>2, <1>6, <1>7, ConcatType
<1>9. Len(ring') < RING_SIZE
  BY <1>3, <1>4, <1>5, <1>8
<1>10. line' \in Seq(Byte)
  BY <1>2, <1>3, <1>5, <1>6, PieceType
<1>11. LinkTypeOK'
  BY <1>1, <1>6, <1>8, <1>9, <1>10 DEF IInv, LinkTypeOK
<1>12. SettingsFollowHost'
  BY <1>1, <1>6 DEF IInv, SettingsFollowHost, Settings
<1> QED
  BY <1>1, <1>11, <1>12 DEF IInv

\* A byte taken from the ring and fed to the parser.
LEMMA DrainKeeps ==
  ASSUME IInv, Drain
  PROVE  IInv'
<1> DEFINE c == Head(ring)
<1>1. /\ ring \in Seq(Byte) /\ Len(ring) < RING_SIZE /\ ring # <<>>
      /\ TypeOK /\ FrameFits /\ LogInForce
  BY DEF IInv, LinkTypeOK, Drain
<1>2. c \in Byte /\ Tail(ring) \in Seq(Byte) /\ Len(Tail(ring)) = Len(ring) - 1
  BY <1>1, TailType
<1>3. Feed(c) /\ ring' = Tail(ring) /\ drained' = TRUE
      /\ UNCHANGED <<line, alive, sent, overrun>>
  BY DEF Drain
<1>4. \/ outcome' \in GoodOutcomes /\ Note(Received(c))
      \/ outcome' \notin GoodOutcomes /\ UNCHANGED <<rcvd, asked>>
  BY DEF Drain
<1> HIDE DEF c
<1>5. TypeOK' /\ FrameFits' /\ ByteEffect(c)
  BY <1>1, <1>2, <1>3, FeedKeeps DEF ParserInv
<1>6. Len(ring') < RING_SIZE
  BY <1>1, <1>2, <1>3, LinkAssumption
<1>7. Received(c) \in Frame
  BY <1>1, <1>2, ReceivedType
<1>8. rcvd' \in Seq(Frame)
  <2>1. rcvd \in Seq(Frame)
    BY DEF IInv, LinkTypeOK
  <2>2. Append(rcvd, Received(c)) \in Seq(Frame)
    BY <1>7, <2>1, AppendType
  <2> QED
    BY <1>4, <2>1, <2>2 DEF Note
<1>9. SettingsFollowHost'
  <2>1. Settings = asked
    BY DEF IInv, SettingsFollowHost, Settings
  <2>2. Settings' = asked'
    BY <1>4, <1>5, <2>1 DEF Note, ByteEffect, Asks
  <2> QED
    BY <2>2 DEF SettingsFollowHost, Settings
<1>10. asked' \in (0..24) \X (0..24) \X (0..100)
  <2>1. params' \in Params
    BY <1>5 DEF TypeOK
  <2>2. /\ params'.treble \in 0..24 /\ params'.bass \in 0..24
        /\ params'.vibration \in 0..100
    BY <2>1 DEF Params
  <2> QED
    BY <1>9, <2>2 DEF SettingsFollowHost
<1>11. LinkTypeOK'
  BY <1>2, <1>3, <1>5, <1>6, <1>8, <1>10 DEF IInv, LinkTypeOK
<1> QED
  BY <1>5, <1>9, <1>11 DEF IInv, ByteEffect

\* The periodic status frame changes the volume field only.
LEMMA PeriodicStatusKeeps ==
  ASSUME IInv, PeriodicStatus
  PROVE  TypeOK' /\ FrameFits' /\ LogInForce' /\ Settings' = Settings
<1>1. params \in Params /\ sys_volume \in 0..VolMax /\ TypeOK
  BY DEF IInv, LinkTypeOK, TypeOK
<1>2. /\ params' = Synced(params, sys_volume)
      /\ reply' = StatusOf(Synced(params, sys_volume), ERR_NONE)
      /\ outcome' = "none"
      /\ UNCHANGED <<frameVars, last_rx_log, sys_volume>>
  BY DEF PeriodicStatus
<1>3. params' \in Params /\ reply' \in Status
  BY <1>1, <1>2, SyncedTypes
<1>4. Settings' = Settings
  BY <1>1, <1>2 DEF Settings, Synced, Params
<1>5. TypeOK'
  BY <1>1, <1>2, <1>3 DEF TypeOK, frameVars, Outcomes
<1>6. FrameFits'
  BY <1>2 DEF IInv, FrameFits, frameVars
<1>7. LogInForce'
  BY <1>2, <1>4 DEF IInv, LogInForce
<1> QED
  BY <1>4, <1>5, <1>6, <1>7

\* The end of a turn of py32_uart_thread.
LEMMA EndTurnKeeps ==
  ASSUME IInv, EndTurn
  PROVE  IInv'
<1>1. TypeOK' /\ FrameFits' /\ LogInForce' /\ Settings' = Settings
  BY PeriodicStatusKeeps, ParserUnchanged DEF EndTurn
<1>2. /\ alive' \in BOOLEAN /\ drained' \in BOOLEAN
      /\ UNCHANGED <<line, ring, sent, rcvd, asked, overrun>>
  BY DEF EndTurn
<1>3. LinkTypeOK'
  BY <1>1, <1>2 DEF IInv, LinkTypeOK
<1>4. SettingsFollowHost'
  BY <1>1, <1>2 DEF IInv, SettingsFollowHost, Settings
<1> QED
  BY <1>1, <1>3, <1>4 DEF IInv

\* The idle timeout touches neither parser nor ring.
LEMMA HostIdleKeeps ==
  ASSUME IInv, HostIdle
  PROVE  IInv'
<1>1. TypeOK' /\ FrameFits' /\ LogInForce' /\ Settings' = Settings
  BY ParserUnchanged DEF HostIdle
<1>2. /\ alive' \in BOOLEAN
      /\ UNCHANGED <<line, ring, drained, sent, rcvd, asked, overrun>>
  BY DEF HostIdle
<1>3. LinkTypeOK'
  BY <1>1, <1>2 DEF IInv, LinkTypeOK
<1>4. SettingsFollowHost'
  BY <1>1, <1>2 DEF IInv, SettingsFollowHost, Settings
<1> QED
  BY <1>1, <1>3, <1>4 DEF IInv

\* A volume change by phone or key.
LEMMA OtherVolumeKeeps ==
  ASSUME IInv, OtherVolume
  PROVE  IInv'
<1>1. PICK l \in Levels : VolumeChange(l)
  BY DEF OtherVolume
<1>2. sys_volume' \in 0..VolMax
  BY <1>1, VolMaxAssumption DEF VolumeChange
<1>3. UNCHANGED <<frameVars, last_rx_log, params, outcome, reply>>
  BY <1>1 DEF VolumeChange
<1>4. TypeOK'
  BY <1>2, <1>3 DEF IInv, LinkTypeOK, TypeOK, frameVars
<1>5. FrameFits' /\ LogInForce' /\ Settings' = Settings
  BY <1>3 DEF IInv, FrameFits, LogInForce, Settings, frameVars
<1>6. LinkTypeOK' /\ SettingsFollowHost'
  BY <1>4, <1>5 DEF OtherVolume, IInv, LinkTypeOK, SettingsFollowHost, Settings, linkVars
<1> QED
  BY <1>5, <1>6 DEF IInv

\* Every step of the link keeps the invariant.
LEMMA NextKeeps == IInv /\ [Next]_vars => IInv'
<1> SUFFICES ASSUME IInv, [Next]_vars PROVE IInv'
  OBVIOUS
<1>1. CASE \E f \in HostFrames : HostSend(f)
  <2>1. PICK f \in HostFrames : HostSend(f)
    BY <1>1
  <2>2. f \in Seq(Byte)
    BY LinkAssumption
  <2> QED
    BY <2>1, <2>2, SendKeeps DEF HostSend
<1>2. CASE \E f \in HostFrames : \E g \in Damaged(f) : LineFault(f, g)
  <2>1. PICK f \in HostFrames : \E g \in Damaged(f) : LineFault(f, g)
    BY <1>2
  <2>2. PICK g \in Damaged(f) : LineFault(f, g)
    BY <2>1
  <2>3. g \in Seq(Byte)
    BY LinkAssumption
  <2> QED
    BY <2>2, <2>3, SendKeeps DEF LineFault
<1>3. CASE \E b \in Bursts : Interrupt(b)
  BY <1>3, InterruptKeeps
<1>4. CASE Drain
  BY <1>4, DrainKeeps
<1>5. CASE EndTurn
  BY <1>5, EndTurnKeeps
<1>6. CASE HostIdle
  BY <1>6, HostIdleKeeps
<1>7. CASE OtherVolume
  BY <1>7, OtherVolumeKeeps
<1>8. CASE UNCHANGED vars
  <2>1. UNCHANGED parserVars /\ UNCHANGED linkVars
    BY <1>8 DEF vars
  <2>2. TypeOK' /\ FrameFits' /\ LogInForce' /\ Settings' = Settings
    BY <2>1, ParserUnchanged
  <2>3. LinkTypeOK' /\ SettingsFollowHost'
    BY <2>1, <2>2 DEF linkVars, IInv, LinkTypeOK, SettingsFollowHost, Settings
  <2> QED
    BY <2>2, <2>3 DEF IInv
<1> QED
  BY <1>1, <1>2, <1>3, <1>4, <1>5, <1>6, <1>7, <1>8 DEF Next

\* The invariant holds in every reachable state.
LEMMA Invariance == Spec => []IInv
BY InitEstablishes, NextKeeps, PTL DEF Spec

-----------------------------------------------------------------------------
\* Type correctness of the receive path: whatever bytes the line delivers, the
\* parameters of py32_state stay within the ranges of the protocol and the ring
\* holds fewer than PY32_RX_RING_SIZE bytes.
THEOREM LinkTypeCorrect == Spec => []LinkTypeOK
<1>1. IInv => LinkTypeOK
  BY DEF IInv
<1> QED
  BY <1>1, Invariance, PTL

\* py32_rx_feed_byte never writes outside py32_frame_data, and the frame it hands
\* on is complete and from the host address, whatever bytes arrive.
THEOREM FrameBufferSafe == Spec => []FrameFits
<1>1. IInv => FrameFits
  BY DEF IInv
<1> QED
  BY <1>1, Invariance, PTL

\* The settings in force are those of the last valid "set parameters" frame that
\* passed the checksum: dropping duplicates in py32_process_complete_frame never
\* leaves an older setting in force.
THEOREM SettingsAreTheHosts == Spec => []SettingsFollowHost
<1>1. IInv => SettingsFollowHost
  BY DEF IInv
<1> QED
  BY <1>1, Invariance, PTL

-----------------------------------------------------------------------------
(* The volume reported.                                                    *)

\* Whatever a byte makes the speaker answer: either an error, or the percentage
\* that belongs to the level just set.
LEMMA FeedReports ==
  ASSUME NEW c \in Byte, Feed(c), ParserInv, VolMax \in 0..16
  PROVE  \/ reply' = NoReply
         \/ reply'.err # ERR_NONE
         \/ pct_to_level(reply'.volume, VolMax) = sys_volume'
<1>1. CASE \E what : Quiet(what)
  BY <1>1 DEF Quiet
<1>2. CASE FeedCrcH(c)
  <2> DEFINE f == Received(c)
  <2>1. CASE CrcFail(f)
    BY <2>1 DEF CrcFail, Answer, StatusOf, ERR_CRC, ERR_NONE
  <2>2. CASE Duplicate(f)
    BY <2>2 DEF Duplicate, Quiet
  <2>3. CASE \E what, err : Refuse(what, err) /\ err # ERR_NONE
    BY <2>3 DEF Refuse, Answer, StatusOf
  <2>4. CASE ApplySet(f.data) /\ f.len = SET_DATA_LEN
    <3> DEFINE lvl == pct_to_level(f.data[1], VolMax)
    <3>1. reply'.volume = level_to_pct(lvl, VolMax) /\ sys_volume' = lvl
      BY <2>4 DEF ApplySet, Answer, StatusOf, Synced
    <3>2. f.data \in Seq(Byte) /\ Len(f.data) = 4
      BY <1>2, <2>4 DEF ParserInv, TypeOK, FrameFits, FeedCrcH, Received, SET_DATA_LEN
    <3>3. f.data[1] \in Nat /\ VolMax \in Nat
      BY <3>2, ElementType, ByteIsNat
    <3>4. lvl \in 0..VolMax
      BY <3>3, PctToLevelInRange
    <3> HIDE DEF lvl
    <3> QED
      BY <3>1, <3>4, LevelSurvivesEcho
  <2>5. ERR_UNSUPPORTED # ERR_NONE /\ ERR_BAD_LEN # ERR_NONE /\ ERR_BAD_VALUE # ERR_NONE
    BY DEF ERR_UNSUPPORTED, ERR_BAD_LEN, ERR_BAD_VALUE, ERR_NONE
  <2>6. Fresh(f) => \/ \E what, err : Refuse(what, err) /\ err # ERR_NONE
                    \/ ApplySet(f.data) /\ f.len = SET_DATA_LEN
    BY <2>5 DEF Fresh, HandleFrame
  <2> QED
    BY <1>2, <2>1, <2>2, <2>3, <2>4, <2>6 DEF FeedCrcH
<1>3. FeedCrcH(c) \/ Quiet("none") \/ Quiet("resync") \/ Quiet("bad LEN")
  BY DEF Feed, FeedAddr, FeedCmd, FeedLen, Resync, FeedData, FeedCrcL
<1> QED
  BY <1>1, <1>2, <1>3

\* A host that echoes the volume it is told never moves it: every status frame
\* without an error, the periodic one and the answer to a command, reports a
\* percentage that py32_volume_pct_to_level turns back into the level the audio
\* system is at.  For audio policies of up to 16 levels, the product's number:
\* with more levels than that two of them share a percentage.
THEOREM ReportsCurrentVolume ==
  ASSUME VolMax \in 0..16
  PROVE  Spec => ReportedVolumeIsCurrent
<1> DEFINE Step == reply' # reply /\ reply' # NoReply /\ reply'.err = ERR_NONE
                     => pct_to_level(reply'.volume, VolMax) = sys_volume'
<1>1. ASSUME IInv, [Next]_vars PROVE [Step]_vars
  <2>1. CASE Drain
    <3>1. Head(ring) \in Byte /\ Feed(Head(ring)) /\ ParserInv
      BY <1>1, <2>1, TailType DEF Drain, IInv, LinkTypeOK, ParserInv
    <3> QED
      BY <3>1, FeedReports
  <2>2. CASE EndTurn /\ PeriodicStatus
    <3>1. /\ reply'.volume = level_to_pct(sys_volume, VolMax)
          /\ sys_volume' = sys_volume
      BY <1>1, <2>2 DEF PeriodicStatus, StatusOf, Synced, IInv, LinkTypeOK, TypeOK, Params
    <3>2. sys_volume \in 0..VolMax
      BY <1>1 DEF IInv, LinkTypeOK, TypeOK
    <3> QED
      BY <3>1, <3>2, LevelSurvivesEcho
  <2>3. CASE reply' = reply
    BY <2>3
  <2>4. Drain \/ (EndTurn /\ PeriodicStatus) \/ reply' = reply
    BY <1>1 DEF Next, HostSend, LineFault, Interrupt, EndTurn, HostIdle, OtherVolume,
                VolumeChange, vars, parserVars
  <2> QED
    BY <2>1, <2>2, <2>3, <2>4
<1> QED
  BY <1>1, Invariance, PTL DEF Spec, ReportedVolumeIsCurrent

-----------------------------------------------------------------------------
(* Sequences of bytes on their way.                                        *)

\* Taking the next element of the rest of a sequence.
LEMMA NextOf ==
  ASSUME NEW S, NEW s \in Seq(S), NEW L \in Nat, L = Len(s), NEW p \in 0..L - 1
  PROVE  /\ SubSeq(s, p + 1, L) # <<>>
         /\ Head(SubSeq(s, p + 1, L)) = s[p + 1]
         /\ Tail(SubSeq(s, p + 1, L)) = SubSeq(s, p + 2, L)
<1>1. SubSeq(s, p + 1, L) \in Seq(S) /\ Len(SubSeq(s, p + 1, L)) = L - p
      /\ SubSeq(s, p + 1, L)[1] = s[p + 1]
  OBVIOUS
<1>2. Tail(SubSeq(s, p + 1, L)) = SubSeq(s, p + 2, L)
  OBVIOUS
<1>3. ASSUME NEW r \in Seq(S), Len(r) >= 1 PROVE r # <<>> /\ Head(r) = r[1]
  BY <1>3
<1>4. L - p >= 1
  OBVIOUS
<1> QED
  BY <1>1, <1>2, <1>3, <1>4

\* Taking the first of two sequences one after the other.
LEMMA FirstOf ==
  ASSUME NEW S, NEW s \in Seq(S), NEW t \in Seq(S), s # <<>>
  PROVE  /\ s \o t # <<>>
         /\ Head(s \o t) = Head(s)
         /\ Tail(s \o t) = Tail(s) \o t
OBVIOUS

\* Putting sequences one after the other is associative.
LEMMA ConcatAssoc ==
  ASSUME NEW S, NEW r \in Seq(S), NEW s \in Seq(S), NEW t \in Seq(S)
  PROVE  (r \o s) \o t = r \o (s \o t)
OBVIOUS

\* The same for bytes, in the form in which it is easily used.
LEMMA BytesAssoc ==
  \A x, y, z \in Seq(Byte) : (x \o y) \o z = x \o (y \o z)
<1>1. ASSUME NEW x \in Seq(Byte), NEW y \in Seq(Byte), NEW z \in Seq(Byte)
      PROVE  (x \o y) \o z = x \o (y \o z)
  BY ConcatAssoc
<1> QED
  BY <1>1, Zenon

\* One more element is the last.
LEMMA LastOfAppend ==
  ASSUME NEW S, NEW s \in Seq(S), NEW e \in S
  PROVE  /\ Append(s, e) # <<>>
         /\ Append(s, e)[Len(Append(s, e))] = e
OBVIOUS

\* Two adjoining pieces make one.
LEMMA Joined ==
  ASSUME NEW S, NEW s \in Seq(S), NEW n \in 0..Len(s), NEW m \in 0..n
  PROVE  SubSeq(s, 1, m) \o SubSeq(s, m + 1, n) = SubSeq(s, 1, n)
OBVIOUS

\* The header and the checksum of a frame as pieces of it.
LEMMA TwoAndThree ==
  ASSUME NEW S, NEW s \in Seq(S), NEW L \in Nat, L = Len(s), L >= 5
  PROVE  /\ SubSeq(s, 1, 3) = <<s[1], s[2], s[3]>>
         /\ SubSeq(s, L - 1, L) = <<s[L - 1], s[L]>>
<1>1. ASSUME NEW t \in Seq(S), Len(t) = 3 PROVE t = <<t[1], t[2], t[3]>>
  BY <1>1
<1>2. ASSUME NEW t \in Seq(S), Len(t) = 2 PROVE t = <<t[1], t[2]>>
  BY <1>2
<1>3. SubSeq(s, 1, 3) \in Seq(S) /\ Len(SubSeq(s, 1, 3)) = 3
  OBVIOUS
<1>4. SubSeq(s, 1, 3)[1] = s[1] /\ SubSeq(s, 1, 3)[2] = s[2] /\ SubSeq(s, 1, 3)[3] = s[3]
  OBVIOUS
<1>5. SubSeq(s, L - 1, L) \in Seq(S) /\ Len(SubSeq(s, L - 1, L)) = 2
  OBVIOUS
<1>6. SubSeq(s, L - 1, L)[1] = s[L - 1] /\ SubSeq(s, L - 1, L)[2] = s[L]
  OBVIOUS
<1>7. SubSeq(s, 1, 3) = <<SubSeq(s, 1, 3)[1], SubSeq(s, 1, 3)[2], SubSeq(s, 1, 3)[3]>>
  BY <1>1, <1>3
<1>8. SubSeq(s, L - 1, L) = <<SubSeq(s, L - 1, L)[1], SubSeq(s, L - 1, L)[2]>>
  BY <1>2, <1>5
<1> QED
  BY <1>4, <1>6, <1>7, <1>8

\* Nothing left, and nothing before.
LEMMA EndsOf ==
  ASSUME NEW S, NEW s \in Seq(S)
  PROVE  /\ SubSeq(s, Len(s) + 1, Len(s)) = <<>>
         /\ SubSeq(s, 1, Len(s)) = s
         /\ <<>> \o s = s /\ s \o <<>> = s
OBVIOUS

-----------------------------------------------------------------------------
(* The parser and a well-formed frame, byte by byte.                       *)

\* How many bytes of data the parser still waits for.
DataLeft == frame_len - Len(frame_data)

\* The parser has taken the first p bytes of f for what they are.
InStep(f, p) ==
    /\ p = 1 => parse_state = "CMD"
    /\ p = 2 => parse_state = "LEN"
    /\ p \in 2..Len(f) - 1 => frame_cmd = f[2]
    /\ p \in 3..Len(f) - 1 => frame_len = Len(f) - 5
    /\ p \in 3..Len(f) - 2 => frame_data = SubSeq(f, 4, p)
    /\ p \in 3..Len(f) - 3 => parse_state = "DATA"
    /\ p = Len(f) - 2 => parse_state = "CRC_L"
    /\ p = Len(f) - 1 => /\ parse_state = "CRC_H"
                         /\ crc_rx = f[Len(f) - 1]
                         /\ frame_data = SubSeq(f, 4, Len(f) - 2)
    /\ p = Len(f) => parse_state = "ADDR"

\* After p bytes of f, whatever state it was in before them, the parser is on its
\* way to be done with f when f ends, or to be waiting for data then: what it takes
\* for a frame ends inside f, or its data do not end before f does.
Settles(f, p) ==
    \/ p = 0
    \/ parse_state = "ADDR"
    \/ p = 1 /\ parse_state \in {"CMD", "LEN"}
    \/ p = 2 /\ parse_state = "LEN"
    \/ /\ parse_state = "DATA"
       /\ p + DataLeft + 2 <= Len(f) \/ DataLeft > Len(f) - p
    \/ parse_state = "CRC_L" /\ p + 2 <= Len(f)
    \/ parse_state = "CRC_H" /\ p + 1 <= Len(f)

\* The states in which a host address starts a frame.
Ready == parse_state \in {"ADDR", "DATA"}

\* What a byte does to the parser state, whatever it was.
LEMMA FeedMoves ==
  ASSUME ParserInv, NEW c \in Byte, Feed(c)
  PROVE  /\ parse_state = "ADDR" =>
              parse_state' = IF c = ADDR_HOST THEN "CMD" ELSE "ADDR"
         /\ parse_state = "CMD" => parse_state' = "LEN" /\ frame_cmd' = c
         /\ parse_state = "LEN" =>
              \/ c > LEN_MAX /\ parse_state' = "ADDR"
              \/ /\ frame_len' = c /\ frame_data' = <<>> /\ frame_cmd' = frame_cmd
                 /\ parse_state' = IF c = 0 THEN "CRC_L" ELSE "DATA"
         /\ parse_state = "DATA" /\ c = ADDR_HOST => parse_state' = "CMD"
         /\ parse_state = "DATA" /\ c # ADDR_HOST =>
              /\ frame_data' = Append(frame_data, c)
              /\ Len(frame_data') = Len(frame_data) + 1
              /\ frame_len' = frame_len /\ frame_cmd' = frame_cmd
              /\ parse_state' = IF DataLeft = 1 THEN "CRC_L" ELSE "DATA"
         /\ parse_state = "CRC_L" =>
              /\ parse_state' = "CRC_H" /\ crc_rx' = c
              /\ UNCHANGED <<frame_len, frame_data, frame_cmd>>
         /\ parse_state = "CRC_H" => parse_state' = "ADDR"
         /\ parse_state # "CRC_H" => outcome' \notin GoodOutcomes
<1>0. /\ frame_data \in Seq(Byte) /\ Len(frame_data) \in Nat
      /\ frame_len \in Nat /\ c \in Nat
      /\ parse_state = "DATA" => Len(frame_data) < frame_len
  BY ByteIsNat DEF ParserInv, TypeOK, FrameFits
<1>a. "none" \notin GoodOutcomes /\ "resync" \notin GoodOutcomes
      /\ "bad LEN" \notin GoodOutcomes
  BY DEF GoodOutcomes
<1>1. CASE FeedAddr(c)
  BY <1>1, <1>a DEF FeedAddr, Quiet
<1>2. CASE FeedCmd(c)
  BY <1>2, <1>a DEF FeedCmd, Quiet
<1>3. CASE FeedLen(c)
  <2>1. CASE LenAccepted(c)
    BY <1>3, <2>1, <1>a DEF FeedLen, Quiet
  <2>2. CASE ~LenAccepted(c)
    <3>1. c > LEN_MAX
      BY <2>2, <1>0 DEF LenAccepted, LEN_MAX, FRAME_MAX
    <3> QED
      BY <1>3, <2>2, <3>1, <1>a DEF FeedLen, Quiet, ParseReset
  <2> QED
    BY <2>1, <2>2
<1>4. CASE Resync(c)
  BY <1>4, <1>a DEF Resync, Quiet
<1>5. CASE FeedData(c)
  <2>1. Len(frame_data') = Len(frame_data) + 1
    BY <1>0, <1>5, AppendType DEF FeedData
  <2>2. parse_state' = IF DataLeft = 1 THEN "CRC_L" ELSE "DATA"
    BY <1>0, <1>5 DEF FeedData, DataLeft
  <2> QED
    BY <1>5, <2>1, <2>2, <1>a DEF FeedData, Quiet
<1>6. CASE FeedCrcL(c)
  BY <1>6, <1>a DEF FeedCrcL, Quiet
<1>7. CASE FeedCrcH(c)
  BY <1>7 DEF FeedCrcH, ParseReset
<1> QED
  BY <1>1, <1>2, <1>3, <1>4, <1>5, <1>6, <1>7 DEF Feed

\* The bytes of a well-formed frame.
LEMMA FrameBytes ==
  ASSUME NEW f \in Seq(Byte), WellFormed(f)
  PROVE  /\ Len(f) \in Nat /\ Len(f) >= 5
         /\ \A i \in 1..Len(f) : f[i] \in Byte /\ f[i] \in Nat
         /\ f[1] = ADDR_HOST
         /\ \A i \in 2..Len(f) : f[i] # ADDR_HOST
         /\ f[3] = Len(f) - 5
<1>1. ASSUME NEW i \in 1..Len(f) PROVE f[i] \in Byte
  BY ElementType
<1>2. ASSUME NEW i \in 1..Len(f) PROVE f[i] \in Nat
  BY <1>1, ByteIsNat
<1>3. Len(f) \in Nat
  OBVIOUS
<1>4. /\ Len(f) >= 5 /\ f[1] = ADDR_HOST /\ f[3] = Len(f) - 5
      /\ \A i \in 2..Len(f) : f[i] # ADDR_HOST
  BY Zenon DEF WellFormed
<1> QED
  BY <1>1, <1>2, <1>3, <1>4, Zenon

\* One byte of a frame, in step or not: the parser goes on settling.  The command
\* byte taken for a LEN is the case that needs CmdNoLen.
LEMMA SettlesNext ==
  ASSUME ParserInv, NEW f \in Seq(Byte), WellFormed(f), CmdNoLen(f),
         NEW p \in 0..Len(f) - 1, Settles(f, p), Feed(f[p + 1])
  PROVE  Settles(f, p + 1)'
<1> DEFINE c == f[p + 1]
<1>1. /\ Len(f) \in Nat /\ Len(f) >= 5 /\ f[1] = ADDR_HOST
      /\ p > 0 => c # ADDR_HOST
      /\ p = 0 => c = ADDR_HOST
      /\ p = 1 => c # Len(f) - 2 /\ c # Len(f) - 3
      /\ p = 2 => c = Len(f) - 5
      /\ c \in Byte /\ c \in Nat /\ p \in Nat
  BY FrameBytes DEF CmdNoLen
<1>2. /\ frame_data \in Seq(Byte) /\ Len(frame_data) \in Nat /\ frame_len \in Nat
      /\ parse_state = "DATA" => Len(frame_data) < frame_len
      /\ parse_state \in ParseStates
  BY ByteIsNat DEF ParserInv, TypeOK, FrameFits
<1>3. ADDR_HOST = 1 /\ LEN_MAX = 123
  BY DEF ADDR_HOST, LEN_MAX, FRAME_MAX
<1>4. Feed(c)
  OBVIOUS
<1> HIDE DEF c
<1>5. CASE parse_state = "ADDR"
  BY <1>1, <1>4, <1>5, FeedMoves DEF Settles
<1>6. CASE parse_state = "CMD"
  <2>1. p = 0 \/ p = 1
    BY <1>6 DEF Settles
  <2>2. parse_state' = "LEN"
    BY <1>1, <1>4, <1>6, FeedMoves
  <2> QED
    BY <2>1, <2>2 DEF Settles
<1>7. CASE parse_state = "LEN"
  <2>1. p = 0 \/ p = 1 \/ p = 2
    BY <1>7 DEF Settles
  <2>2. CASE parse_state' = "ADDR"
    BY <2>2 DEF Settles
  <2>3. CASE frame_len' = c /\ frame_data' = <<>>
             /\ parse_state' = IF c = 0 THEN "CRC_L" ELSE "DATA"
    <3>1. DataLeft' = c
      BY <1>1, <2>3 DEF DataLeft
    <3> QED
      BY <1>1, <1>3, <2>1, <2>3, <3>1 DEF Settles
  <2> QED
    BY <1>1, <1>4, <1>7, <2>2, <2>3, FeedMoves
<1>8. CASE parse_state = "DATA"
  <2>1. CASE p = 0
    <3>1. parse_state' = "CMD"
      BY <1>1, <1>4, <1>8, <2>1, FeedMoves
    <3> QED
      BY <2>1, <3>1 DEF Settles
  <2>2. CASE p > 0
    <3>1. /\ Len(frame_data') = Len(frame_data) + 1 /\ frame_len' = frame_len
          /\ parse_state' = IF DataLeft = 1 THEN "CRC_L" ELSE "DATA"
      BY <1>1, <1>4, <1>8, <2>2, FeedMoves
    <3>2. DataLeft \in Nat /\ DataLeft >= 1 /\ DataLeft' = DataLeft - 1
      BY <1>2, <1>8, <3>1 DEF DataLeft
    <3>3. p + DataLeft + 2 <= Len(f) \/ DataLeft > Len(f) - p
      BY <1>8, <2>2 DEF Settles
    <3> QED
      BY <1>1, <3>1, <3>2, <3>3 DEF Settles
  <2> QED
    BY <1>1, <2>1, <2>2
<1>9. CASE parse_state = "CRC_L"
  <2>1. p + 2 <= Len(f)
    BY <1>1, <1>9 DEF Settles
  <2>2. parse_state' = "CRC_H"
    BY <1>1, <1>4, <1>9, FeedMoves
  <2> QED
    BY <1>1, <2>1, <2>2 DEF Settles
<1>10. CASE parse_state = "CRC_H"
  BY <1>1, <1>4, <1>10, FeedMoves DEF Settles
<1> QED
  BY <1>2, <1>5, <1>6, <1>7, <1>8, <1>9, <1>10 DEF ParseStates

\* At the end of a frame the parser is ready for the next one.
LEMMA SettledIsReady ==
  ASSUME NEW f \in Seq(Byte), WellFormed(f), NEW L \in Nat, L = Len(f), Settles(f, L)
  PROVE  Ready
<1>1. L >= 5
  BY DEF WellFormed
<1>2. L # 0 /\ L # 1 /\ L # 2 /\ ~(L + 2 <= L) /\ ~(L + 1 <= L)
  BY <1>1
<1> QED
  BY <1>2 DEF Settles, Ready

\* From a parser that is ready, the address gets it into step.
LEMMA GetsInStep ==
  ASSUME ParserInv, Ready, NEW f \in Seq(Byte), WellFormed(f),
         NEW L \in Nat, L = Len(f), Feed(f[1])
  PROVE  InStep(f, 1)' /\ outcome' \notin GoodOutcomes
<1>1. Len(f) \in Nat /\ Len(f) >= 5 /\ f[1] = ADDR_HOST /\ f[1] \in Byte
  BY FrameBytes
<1>2. parse_state' = "CMD" /\ outcome' \notin GoodOutcomes
  BY <1>1, FeedMoves DEF Ready
<1>3. L >= 5
  BY <1>1
<1>4. /\ 1 # 2 /\ 1 \notin 2..L - 1 /\ 1 \notin 3..L - 1 /\ 1 \notin 3..L - 2
      /\ 1 \notin 3..L - 3 /\ 1 # L - 2 /\ 1 # L - 1 /\ 1 # L
  BY <1>3
<1> QED
  BY <1>2, <1>4 DEF InStep
\* Splitting the checksum into its bytes.
LEMMA TwoBytes ==
  ASSUME NEW lo \in 0..255, NEW hi \in 0..255
  PROVE  (lo + 256 * hi) % 256 = lo /\ (lo + 256 * hi) \div 256 = hi
OBVIOUS

\* The checksum of a frame record as the two bytes it was put together from.
LEMMA ChecksumOnLine ==
  ASSUME NEW r, NEW lo \in 0..255, NEW hi \in 0..255, r.crc = lo + 256 * hi
  PROVE  OnLine(r) = (<<r.addr, r.cmd, r.len>> \o r.data) \o <<lo, hi>>
<1>1. r.crc % 256 = lo /\ r.crc \div 256 = hi
  BY TwoBytes
<1> QED
  BY <1>1, Zenon DEF OnLine

\* A complete frame is the frame that was on the line.
LEMMA ReceivedOnLine ==
  ASSUME ParserInv, NEW f \in Seq(Byte), WellFormed(f), NEW L \in Nat, L = Len(f),
         frame_cmd = f[2], frame_len = L - 5,
         frame_data = SubSeq(f, 4, L - 2), crc_rx = f[L - 1],
         parse_state = "CRC_H"
  PROVE  OnLine(Received(f[L])) = f /\ CrcOk(Received(f[L]))
<1> DEFINE c == f[L]
           d == SubSeq(f, 4, L - 2)
           h == SubSeq(f, 1, 3)
           t == SubSeq(f, L - 1, L)
<1>1. L >= 5 /\ f[1] = ADDR_HOST /\ f[3] = L - 5
  BY FrameBytes
<1>a. c \in 0..255 /\ crc_rx \in 0..255
  <2>1. L \in 1..L /\ L - 1 \in 1..L
    BY <1>1
  <2>2. c \in Byte /\ crc_rx \in Byte
    BY <2>1, FrameBytes
  <2> QED
    BY <2>2 DEF Byte
<1>b. Crc16(SubSeq(f, 1, L - 2)) = crc_rx + 256 * c
  BY Zenon DEF WellFormed
<1>2. frame_addr = f[1]
  BY <1>1 DEF ParserInv, FrameFits
<1>3. h = <<f[1], f[2], f[3]>> /\ t = <<f[L - 1], f[L]>>
  BY <1>1, TwoAndThree
<1>4. PICK lo \in 0..255, hi \in 0..255 : lo = crc_rx /\ hi = c
  BY <1>a, Zenon
<1>5. Received(c) = [addr |-> f[1], cmd |-> f[2], len |-> f[3], data |-> d,
                     crc |-> crc_rx + 256 * c]
  BY <1>1, <1>2 DEF Received
<1>6. h \o d = SubSeq(f, 1, L - 2)
  <2>1. L - 2 \in 0..Len(f) /\ 3 \in 0..L - 2 /\ 3 + 1 = 4
    BY <1>1
  <2> QED
    BY <2>1, Joined
<1>7. SubSeq(f, 1, L - 2) \o t = f
  <2>1. L \in 0..Len(f) /\ L - 2 \in 0..L /\ (L - 2) + 1 = L - 1
    BY <1>1
  <2>2. SubSeq(f, 1, L - 2) \o t = SubSeq(f, 1, L)
    BY <2>1, Joined
  <2> QED
    BY <2>2, EndsOf
<1>8. OnLine(Received(c)) = (<<f[1], f[2], f[3]>> \o d) \o <<crc_rx, c>>
  <2> DEFINE r == Received(c)
  <2>1. /\ r.addr = f[1] /\ r.cmd = f[2] /\ r.len = f[3] /\ r.data = d
        /\ r.crc = crc_rx + 256 * c
    BY <1>5
  <2> HIDE DEF c, d, r
  <2>2. r.crc = lo + 256 * hi
    BY <1>4, <2>1, Zenon
  <2>3. OnLine(r) = (<<r.addr, r.cmd, r.len>> \o r.data) \o <<lo, hi>>
    BY <2>2, ChecksumOnLine, Zenon
  <2>4. OnLine(r) = (<<f[1], f[2], f[3]>> \o d) \o <<crc_rx, c>>
    BY <1>4, <2>1, <2>3, Zenon
  <2> QED
    BY <2>4 DEF r
<1>9. OnLine(Received(c)) = f
  BY <1>3, <1>6, <1>7, <1>8, Zenon
<1>10. CrcOk(Received(c))
  <2>1. CrcOk(Received(c)) <=> Crc16(<<f[1], f[2], f[3]>> \o d) = crc_rx + 256 * c
    <3> HIDE DEF c, d
    <3> QED
      BY <1>5 DEF CrcOk
  <2> QED
    BY <1>b, <1>3, <1>6, <2>1, Zenon
<1> QED
  BY <1>9, <1>10

\* A frame with a good checksum is received, duplicate or not.
LEMMA GoodIsReceived ==
  ASSUME NEW c \in Byte, Feed(c), parse_state = "CRC_H", CrcOk(Received(c))
  PROVE  outcome' \in GoodOutcomes
<1> DEFINE f == Received(c)
<1>1. FeedCrcH(c)
  BY DEF Feed, FeedAddr, FeedCmd, FeedLen, Resync, FeedData, FeedCrcL
<1>2. CASE Duplicate(f)
  BY <1>2 DEF Duplicate, Quiet, GoodOutcomes
<1>3. CASE Fresh(f)
  BY <1>3 DEF Fresh, HandleFrame, Refuse, ApplySet, GoodOutcomes
<1> QED
  BY <1>1, <1>2, <1>3 DEF FeedCrcH, CrcFail

\* One byte of a frame the parser is in step with: it stays in step, and the last
\* byte completes the frame.
LEMMA InStepNext ==
  ASSUME ParserInv, NEW f \in Seq(Byte), WellFormed(f),
         NEW L \in Nat, L = Len(f),
         NEW p \in 1..L - 1, InStep(f, p), Feed(f[p + 1])
  PROVE  /\ InStep(f, p + 1)'
         /\ p + 1 < L => outcome' \notin GoodOutcomes
         /\ p + 1 = L => /\ outcome' \in GoodOutcomes
                         /\ OnLine(Received(f[L])) = f
<1> DEFINE c == f[p + 1]
<1>1. /\ L \in Nat /\ L >= 5 /\ p \in Nat /\ p >= 1 /\ p <= L - 1
      /\ c # ADDR_HOST /\ c \in Byte /\ c \in Nat
      /\ p = 2 => c = L - 5
  BY FrameBytes
<1>2. L - 5 <= LEN_MAX /\ LEN_MAX \in Nat
  BY DEF LEN_MAX, FRAME_MAX, WellFormed
<1>3. Feed(c) /\ c = f[p + 1]
  OBVIOUS
<1> HIDE DEF c
<1>4. CASE p = 1
  <2>1. parse_state' = "LEN" /\ frame_cmd' = f[2] /\ outcome' \notin GoodOutcomes
    BY <1>1, <1>3, <1>4, FeedMoves DEF InStep
  <2>2. /\ 2 # 1 /\ 2 \notin 3..L - 1 /\ 2 \notin 3..L - 2 /\ 2 \notin 3..L - 3
        /\ 2 # L - 2 /\ 2 # L - 1 /\ 2 # L /\ p + 1 = 2
    BY <1>1, <1>4
  <2> QED
    BY <2>1, <2>2 DEF InStep
<1>5. CASE p = 2
  <2>1. parse_state = "LEN" /\ frame_cmd = f[2] /\ parse_state # "CRC_H"
    BY <1>1, <1>5 DEF InStep
  <2>2. /\ frame_len' = L - 5 /\ frame_data' = <<>> /\ frame_cmd' = f[2]
        /\ parse_state' = IF L - 5 = 0 THEN "CRC_L" ELSE "DATA"
        /\ outcome' \notin GoodOutcomes
    <3>1. ~(c > LEN_MAX) /\ c = L - 5
      BY <1>1, <1>2, <1>5
    <3>2. /\ frame_len' = c /\ frame_data' = <<>> /\ frame_cmd' = frame_cmd
          /\ parse_state' = IF c = 0 THEN "CRC_L" ELSE "DATA"
      BY <1>1, <1>3, <2>1, <3>1, FeedMoves
    <3>3. outcome' \notin GoodOutcomes
      BY <1>1, <1>3, <2>1, FeedMoves
    <3> QED
      BY <2>1, <3>1, <3>2, <3>3
  <2>3. SubSeq(f, 4, 3) = <<>>
    BY <1>1
  <2>4. p + 1 = 3 /\ 3 # 1 /\ 3 # 2 /\ 3 # L - 1 /\ 3 # L
        /\ (3 = L - 2 <=> L - 5 = 0) /\ (3 \in 3..L - 3 => L - 5 # 0)
    BY <1>1, <1>5
  <2> QED
    BY <2>2, <2>3, <2>4 DEF InStep
<1>6. CASE p >= 3 /\ p <= L - 3
  <2>1. /\ frame_cmd = f[2] /\ frame_len = L - 5 /\ frame_data = SubSeq(f, 4, p)
        /\ parse_state = "DATA" /\ parse_state # "CRC_H"
    BY <1>1, <1>6 DEF InStep
  <2>2. Len(SubSeq(f, 4, p)) = p - 3
    BY <1>1, <1>6
  <2>3. DataLeft = L - 2 - p
    BY <1>1, <2>1, <2>2 DEF DataLeft
  <2>4. /\ frame_data' = Append(frame_data, c) /\ frame_len' = L - 5 /\ frame_cmd' = f[2]
        /\ parse_state' = IF p = L - 3 THEN "CRC_L" ELSE "DATA"
        /\ outcome' \notin GoodOutcomes
    BY <1>1, <1>3, <2>1, <2>3, FeedMoves
  <2>5. Append(SubSeq(f, 4, p), f[p + 1]) = SubSeq(f, 4, p + 1)
    BY <1>1, <1>6
  <2>6. /\ p + 1 # 1 /\ p + 1 # 2 /\ p + 1 # L - 1 /\ p + 1 # L
        /\ (p + 1 = L - 2 <=> p = L - 3) /\ (p + 1 \in 3..L - 3 => p # L - 3)
    BY <1>1, <1>6
  <2>7. frame_data' = SubSeq(f, 4, p + 1)
    BY <1>3, <2>1, <2>4, <2>5
  <2> QED
    BY <2>4, <2>6, <2>7 DEF InStep
<1>7. CASE p = L - 2
  <2>1. /\ frame_cmd = f[2] /\ frame_len = L - 5 /\ frame_data = SubSeq(f, 4, L - 2)
        /\ parse_state = "CRC_L" /\ parse_state # "CRC_H"
    BY <1>1, <1>7 DEF InStep
  <2>2. /\ parse_state' = "CRC_H" /\ crc_rx' = c /\ outcome' \notin GoodOutcomes
        /\ frame_cmd' = f[2] /\ frame_len' = L - 5 /\ frame_data' = SubSeq(f, 4, L - 2)
    BY <1>1, <1>3, <2>1, FeedMoves
  <2>3. /\ p + 1 = L - 1 /\ L - 1 # 1 /\ L - 1 # 2 /\ L - 1 \notin 3..L - 2
        /\ L - 1 \notin 3..L - 3 /\ L - 1 # L - 2 /\ L - 1 # L /\ c = f[L - 1]
    <3>1. L >= 5
      BY <1>1
    <3>2. p + 1 = L - 1
      BY <1>7
    <3>3. /\ L - 1 # 1 /\ L - 1 # 2 /\ L - 1 \notin 3..L - 2
          /\ L - 1 \notin 3..L - 3 /\ L - 1 # L - 2 /\ L - 1 # L
      BY <3>1
    <3>4. c = f[L - 1]
      BY <1>3, <3>2, Zenon
    <3> QED
      BY <3>2, <3>3, <3>4, Zenon
  <2> QED
    BY <2>2, <2>3 DEF InStep
<1>8. CASE p = L - 1
  <2>1. /\ frame_cmd = f[2] /\ frame_len = L - 5 /\ frame_data = SubSeq(f, 4, L - 2)
        /\ parse_state = "CRC_H" /\ crc_rx = f[L - 1]
    BY <1>1, <1>8 DEF InStep
  <2>2. OnLine(Received(f[L])) = f /\ CrcOk(Received(f[L]))
    BY <2>1, ReceivedOnLine
  <2>3. p + 1 = L /\ c = f[L]
    BY <1>1, <1>3, <1>8
  <2>4. parse_state' = "ADDR"
    BY <1>1, <1>3, <2>1, FeedMoves
  <2>5. outcome' \in GoodOutcomes
    BY <1>1, <1>3, <2>1, <2>2, <2>3, GoodIsReceived
  <2>6. /\ L # 1 /\ L # 2 /\ L \notin 2..L - 1 /\ L \notin 3..L - 1 /\ L \notin 3..L - 2
        /\ L \notin 3..L - 3 /\ L # L - 2 /\ L # L - 1
    BY <1>1
  <2> QED
    BY <2>2, <2>3, <2>4, <2>5, <2>6 DEF InStep
<1> QED
  BY <1>1, <1>4, <1>5, <1>6, <1>7, <1>8

-----------------------------------------------------------------------------
(* The parser and the frames on their way.                                 *)

\* The bytes sent that the parser has not seen yet.
Pending == ring \o line

\* The newest frame received is f.
Newest(f) == rcvd # <<>> /\ OnLine(rcvd[Len(rcvd)]) = f

\* Where the parser is in f, the last frame sent, if f is intact: not there yet, or
\* settling.
LastOne(f) ==
    \/ \E a \in Seq(Byte) : Pending = a \o f
    \/ \E p \in 1..Len(f) : Pending = SubSeq(f, p + 1, Len(f)) /\ Settles(f, p)

\* The same if the frame e before it is intact too: the parser settles in e, so it
\* is in step with f.
LastTwo(e, f) ==
    \/ \E a \in Seq(Byte) : Pending = a \o (e \o f)
    \/ \E p \in 1..Len(e) : Pending = SubSeq(e, p + 1, Len(e)) \o f /\ Settles(e, p)
    \/ \E p \in 1..Len(f) : /\ Pending = SubSeq(f, p + 1, Len(f))
                            /\ InStep(f, p)
                            /\ p = Len(f) => Newest(f)

\* The inductive invariant for ResyncWithinTwo, which itself says nothing of the
\* states in which bytes are still on their way.
Tracking ==
    ~overrun =>
        /\ sent # <<>> /\ sent[Len(sent)].intact => LastOne(sent[Len(sent)].bytes)
        /\ Len(sent) >= 2 /\ sent[Len(sent)].intact /\ sent[Len(sent) - 1].intact
             => LastTwo(sent[Len(sent) - 1].bytes, sent[Len(sent)].bytes)

\* The frames of the host: what the theorems below ask of them.
Recoverable == \A f \in HostFrames : WellFormed(f) /\ CmdNoLen(f)

\* One round of py32_uart_ring_drain takes the first byte pending.
LEMMA DrainTakes ==
  ASSUME IInv, Drain
  PROVE  /\ Pending \in Seq(Byte) /\ Pending # <<>>
         /\ Pending' = Tail(Pending)
         /\ Head(Pending) \in Byte /\ Feed(Head(Pending))
         /\ ParserInv
         /\ \/ /\ outcome' \in GoodOutcomes
               /\ rcvd' = Append(rcvd, Received(Head(Pending)))
            \/ outcome' \notin GoodOutcomes /\ rcvd' = rcvd
         /\ rcvd \in Seq(Frame)
         /\ UNCHANGED <<sent, overrun>>
<1>1. ring \in Seq(Byte) /\ line \in Seq(Byte) /\ ring # <<>> /\ rcvd \in Seq(Frame)
  BY DEF IInv, LinkTypeOK, Drain
<1>2. Pending \in Seq(Byte) /\ Pending # <<>> /\ Head(Pending) = Head(ring)
      /\ Tail(Pending) = Tail(ring) \o line /\ Head(ring) \in Byte
  BY <1>1, FirstOf, ConcatType, TailType DEF Pending
<1>3. Pending' = Tail(ring) \o line
  BY DEF Pending, Drain
<1>4. Feed(Head(ring)) /\ UNCHANGED <<sent, overrun>>
  BY DEF Drain
<1>5. \/ outcome' \in GoodOutcomes /\ rcvd' = Append(rcvd, Received(Head(ring)))
      \/ outcome' \notin GoodOutcomes /\ rcvd' = rcvd
  BY DEF Drain, Note
<1>6. ParserInv
  BY DEF IInv, LinkTypeOK, ParserInv
<1> QED
  BY <1>1, <1>2, <1>3, <1>4, <1>5, <1>6

\* An interrupt that drops nothing only moves bytes from the line to the ring.
LEMMA InterruptMoves ==
  ASSUME IInv, NEW b \in Bursts, Interrupt(b)
  PROVE  /\ ~overrun' => Pending' = Pending /\ ~overrun
         /\ UNCHANGED <<frameVars, sent, rcvd>>
<1> DEFINE n == Clip(Len(line), b)
           k == Clip(n, Room)
<1>1. line \in Seq(Byte) /\ ring \in Seq(Byte) /\ Len(ring) < RING_SIZE
  BY DEF IInv, LinkTypeOK
<1>2. b \in Nat /\ RING_SIZE \in Nat /\ Len(line) \in Nat /\ Len(ring) \in Nat
  BY <1>1, LinkAssumption
<1>3. Room \in Nat
  BY <1>1, <1>2 DEF Room
<1>4. n \in 0..Len(line) /\ (~(n > Room) => k = n)
  BY <1>2, <1>3 DEF Clip
<1>5. /\ ring' = ring \o SubSeq(line, 1, k)
      /\ line' = SubSeq(line, n + 1, Len(line))
      /\ overrun' = (overrun \/ n > Room)
      /\ UNCHANGED <<frameVars, sent, rcvd>>
  BY DEF Interrupt, RingPush, parserVars
<1> HIDE DEF n, k
<1>6. SubSeq(line, 1, n) \o SubSeq(line, n + 1, Len(line)) = line
  <2>1. Len(line) \in 0..Len(line)
    BY <1>2
  <2> QED
    BY <1>1, <1>4, <2>1, Joined, EndsOf
<1>7. SubSeq(line, 1, n) \in Seq(Byte) /\ SubSeq(line, n + 1, Len(line)) \in Seq(Byte)
  BY <1>1, <1>2, <1>4
<1>8. ASSUME ~overrun' PROVE Pending' = Pending /\ ~overrun
  <2>1. k = n /\ ~overrun
    BY <1>4, <1>5, <1>8
  <2>2. Pending' = (ring \o SubSeq(line, 1, n)) \o SubSeq(line, n + 1, Len(line))
    BY <1>5, <2>1 DEF Pending
  <2>3. Pending' = ring \o (SubSeq(line, 1, n) \o SubSeq(line, n + 1, Len(line)))
    <3> DEFINE x == SubSeq(line, 1, n)
               y == SubSeq(line, n + 1, Len(line))
    <3>1. x \in Seq(Byte) /\ y \in Seq(Byte) /\ ring \in Seq(Byte)
      BY <1>1, <1>7
    <3> HIDE DEF x, y
    <3>2. (ring \o x) \o y = ring \o (x \o y)
      BY <3>1, BytesAssoc, Zenon
    <3> QED
      BY <2>2, <3>2, Zenon DEF x, y
  <2> QED
    BY <1>6, <2>1, <2>3, Zenon DEF Pending
<1> QED
  BY <1>5, <1>8

\* Every other step leaves the bytes and the parser where they are.
LEMMA OthersStay ==
  ASSUME EndTurn \/ HostIdle \/ OtherVolume \/ UNCHANGED vars
  PROVE  UNCHANGED <<frameVars, sent, rcvd, overrun, Pending>>
BY DEF EndTurn, PeriodicStatus, HostIdle, OtherVolume, VolumeChange, vars, parserVars,
       linkVars, Pending

\* What is said of the last frames stays true while bytes and parser stay.
LEMMA PlacesStay ==
  ASSUME UNCHANGED <<frameVars, rcvd, Pending>>, NEW e, NEW f
  PROVE  /\ LastOne(f) => LastOne(f)'
         /\ LastTwo(e, f) => LastTwo(e, f)'
<1>1. UNCHANGED <<parse_state, frame_cmd, frame_len, frame_data, crc_rx, rcvd, Pending>>
  BY DEF frameVars
<1>2. ASSUME NEW g, NEW p
      PROVE  (Settles(g, p) => Settles(g, p)') /\ (InStep(g, p) => InStep(g, p)')
             /\ (Newest(g) => Newest(g)')
  BY <1>1 DEF Settles, InStep, DataLeft, Newest
<1> QED
  BY <1>1, <1>2 DEF LastOne, LastTwo

\* The parser takes the next byte: the last frame.
LEMMA LastOneNext ==
  ASSUME IInv, Drain, NEW f \in Seq(Byte), WellFormed(f), CmdNoLen(f), LastOne(f)
  PROVE  LastOne(f)'
<1> DEFINE c == Head(Pending)
<1>1. /\ Pending # <<>> /\ Pending' = Tail(Pending) /\ Feed(c) /\ ParserInv
  BY DrainTakes
<1>2. PICK L \in Nat : L = Len(f)
  OBVIOUS
<1>3. L >= 5
  BY <1>2 DEF WellFormed
<1>4. ASSUME NEW p \in 0..L - 1, Pending = SubSeq(f, p + 1, L), Settles(f, p)
      PROVE  LastOne(f)'
  <2>1. c = f[p + 1] /\ Pending' = SubSeq(f, p + 2, L)
    BY <1>1, <1>2, <1>4, NextOf
  <2>2. Settles(f, p + 1)'
    BY <1>1, <1>2, <1>4, <2>1, SettlesNext
  <2>3. p + 1 \in 1..L /\ p + 2 = (p + 1) + 1
    BY <1>3
  <2> QED
    BY <1>2, <2>1, <2>2, <2>3 DEF LastOne
<1>5. CASE \E a \in Seq(Byte) : Pending = a \o f
  <2>1. PICK a \in Seq(Byte) : Pending = a \o f
    BY <1>5
  <2>2. CASE a = <<>>
    <3>1. Pending = SubSeq(f, 0 + 1, L)
      BY <1>2, <2>1, <2>2, EndsOf
    <3>2. Settles(f, 0) /\ 0 \in 0..L - 1
      BY <1>3 DEF Settles
    <3> QED
      BY <1>4, <3>1, <3>2
  <2>3. CASE a # <<>>
    <3>1. Pending' = Tail(a) \o f /\ Tail(a) \in Seq(Byte)
      BY <1>1, <2>1, <2>3, FirstOf, TailType
    <3> QED
      BY <3>1 DEF LastOne
  <2> QED
    BY <2>2, <2>3
<1>6. CASE \E p \in 1..L : Pending = SubSeq(f, p + 1, L) /\ Settles(f, p)
  <2>1. PICK p \in 1..L : Pending = SubSeq(f, p + 1, L) /\ Settles(f, p)
    BY <1>6
  <2>2. p # L
    BY <1>1, <1>2, <2>1, EndsOf
  <2> QED
    BY <1>4, <2>1, <2>2
<1> QED
  BY <1>2, <1>5, <1>6 DEF LastOne

\* The parser takes the next byte: the last two frames.
LEMMA LastTwoNext ==
  ASSUME IInv, Drain, NEW e \in Seq(Byte), WellFormed(e), CmdNoLen(e),
         NEW f \in Seq(Byte), WellFormed(f), LastTwo(e, f)
  PROVE  LastTwo(e, f)'
<1> DEFINE c == Head(Pending)
<1>1. /\ Pending # <<>> /\ Pending' = Tail(Pending) /\ Feed(c) /\ ParserInv /\ c \in Byte
      /\ \/ outcome' \in GoodOutcomes /\ rcvd' = Append(rcvd, Received(c))
         \/ outcome' \notin GoodOutcomes /\ rcvd' = rcvd
      /\ rcvd \in Seq(Frame)
  BY DrainTakes
<1>2. PICK K \in Nat : K = Len(e)
  OBVIOUS
<1>3. PICK L \in Nat : L = Len(f)
  OBVIOUS
<1>4. K >= 5 /\ L >= 5
  BY <1>2, <1>3 DEF WellFormed
<1> HIDE DEF c
<1>5. ASSUME NEW p \in 0..K - 1, Pending = SubSeq(e, p + 1, K) \o f, Settles(e, p)
      PROVE  LastTwo(e, f)'
  <2>1. SubSeq(e, p + 1, K) \in Seq(Byte)
    BY <1>2
  <2>2. c = e[p + 1] /\ Pending' = SubSeq(e, p + 2, K) \o f
    <3>1. /\ SubSeq(e, p + 1, K) # <<>> /\ Head(SubSeq(e, p + 1, K)) = e[p + 1]
          /\ Tail(SubSeq(e, p + 1, K)) = SubSeq(e, p + 2, K)
      BY <1>2, NextOf
    <3>2. Head(Pending) = Head(SubSeq(e, p + 1, K))
          /\ Tail(Pending) = Tail(SubSeq(e, p + 1, K)) \o f
      BY <1>5, <2>1, <3>1, FirstOf, Zenon
    <3> QED
      BY <1>1, <3>1, <3>2, Zenon DEF c
  <2>3. Settles(e, p + 1)'
    BY <1>1, <1>2, <1>5, <2>2, SettlesNext
  <2>4. p + 1 \in 1..K /\ p + 2 = (p + 1) + 1
    BY <1>4
  <2> QED
    BY <1>2, <2>2, <2>3, <2>4 DEF LastTwo
<1>6. CASE \E a \in Seq(Byte) : Pending = a \o (e \o f)
  <2>1. PICK a \in Seq(Byte) : Pending = a \o (e \o f)
    BY <1>6
  <2>2. e \o f \in Seq(Byte)
    BY ConcatType
  <2>3. CASE a = <<>>
    <3>1. Pending = SubSeq(e, 0 + 1, K) \o f
      <4>1. Pending = e \o f
        BY <2>1, <2>2, <2>3, EndsOf, Zenon
      <4>2. SubSeq(e, 1, Len(e)) = e /\ 0 + 1 = 1
        BY EndsOf
      <4> QED
        BY <1>2, <4>1, <4>2, Zenon
    <3>2. Settles(e, 0) /\ 0 \in 0..K - 1
      BY <1>4 DEF Settles
    <3> QED
      BY <1>5, <3>1, <3>2
  <2>4. CASE a # <<>>
    <3>1. Pending' = Tail(a) \o (e \o f) /\ Tail(a) \in Seq(Byte)
      BY <1>1, <2>1, <2>2, <2>4, FirstOf, TailType
    <3> QED
      BY <3>1 DEF LastTwo
  <2> QED
    BY <2>3, <2>4
<1>7. CASE \E p \in 1..K : Pending = SubSeq(e, p + 1, K) \o f /\ Settles(e, p)
  <2>1. PICK p \in 1..K : Pending = SubSeq(e, p + 1, K) \o f /\ Settles(e, p)
    BY <1>7
  <2>2. CASE p # K
    <3>1. p \in 0..K - 1
      BY <2>2
    <3> QED
      BY <1>5, <2>1, <3>1
  <2>3. CASE p = K
    <3>1. Ready
      BY <1>2, <2>1, <2>3, SettledIsReady
    <3>2. Pending = f
      BY <1>2, <2>1, <2>3, EndsOf
    <3>3. c = f[1] /\ Pending' = SubSeq(f, 2, L)
      <4>1. SubSeq(f, 0 + 1, L) = f /\ 0 \in 0..L - 1 /\ 0 + 1 = 1 /\ 0 + 2 = 2
        BY <1>3, <1>4, EndsOf
      <4> QED
        BY <1>1, <1>3, <3>2, <4>1, NextOf DEF c
    <3>4. InStep(f, 1)'
      BY <1>1, <1>3, <3>1, <3>3, GetsInStep
    <3>5. 1 \in 1..L /\ 2 = 1 + 1 /\ 1 # L
      BY <1>4
    <3> QED
      BY <1>3, <3>3, <3>4, <3>5 DEF LastTwo
  <2> QED
    BY <2>2, <2>3
<1>8. CASE \E p \in 1..L : Pending = SubSeq(f, p + 1, L) /\ InStep(f, p)
  <2>1. PICK p \in 1..L : Pending = SubSeq(f, p + 1, L) /\ InStep(f, p)
    BY <1>8
  <2>2. p # L
    BY <1>1, <1>3, <2>1, EndsOf
  <2>3. p \in 1..L - 1 /\ p \in 0..L - 1 /\ p + 1 \in 1..L /\ p + 2 = (p + 1) + 1
    BY <2>2
  <2>4. c = f[p + 1] /\ Pending' = SubSeq(f, p + 2, L)
    BY <1>1, <1>3, <2>1, <2>3, NextOf DEF c
  <2>5. /\ InStep(f, p + 1)'
        /\ p + 1 = L => /\ outcome' \in GoodOutcomes
                        /\ OnLine(Received(f[L])) = f
    BY <1>1, <1>3, <2>1, <2>3, <2>4, InStepNext
  <2>6. p + 1 = L => Newest(f)'
    <3> SUFFICES ASSUME p + 1 = L PROVE Newest(f)'
      OBVIOUS
    <3>1. rcvd' = Append(rcvd, Received(c)) /\ OnLine(Received(c)) = f
      BY <1>1, <2>4, <2>5
    <3>2. Received(c) \in Frame
      BY <1>1, ReceivedType DEF ParserInv
    <3> DEFINE r == Received(c)
    <3> HIDE DEF r
    <3>3. rcvd' # <<>> /\ rcvd'[Len(rcvd')] = r
      <4>1. rcvd \in Seq(Frame) /\ r \in Frame /\ rcvd' = Append(rcvd, r)
        BY <1>1, <3>1, <3>2, Zenon DEF r
      <4> QED
        BY <4>1, LastOfAppend, Zenon
    <3> QED
      BY <3>1, <3>3 DEF Newest, r
  <2> QED
    BY <1>3, <2>3, <2>4, <2>5, <2>6 DEF LastTwo
<1> QED
  BY <1>2, <1>3, <1>6, <1>7, <1>8 DEF LastTwo

\* The frames in the history are frames of the host.
LEMMA SentFrames ==
  ASSUME IInv, Recoverable, NEW i \in 1..Len(sent)
  PROVE  /\ sent[i].bytes \in HostFrames /\ sent[i].bytes \in Seq(Byte)
         /\ WellFormed(sent[i].bytes) /\ CmdNoLen(sent[i].bytes)
<1>1. sent[i] \in [bytes : HostFrames, intact : BOOLEAN]
  BY ElementType DEF IInv, LinkTypeOK
<1>2. sent[i].bytes \in HostFrames
  BY <1>1
<1> QED
  BY <1>2, LinkAssumption DEF Recoverable

\* The host sends an intact frame g: it becomes the last one, and the frame that was
\* the last one the one before it.
LEMMA SendTracks ==
  ASSUME IInv, Recoverable, Tracking, NEW g \in HostFrames, HostSend(g)
  PROVE  Tracking'
<1>1. /\ sent \in Seq([bytes : HostFrames, intact : BOOLEAN])
      /\ ring \in Seq(Byte) /\ line \in Seq(Byte) /\ g \in Seq(Byte)
  BY LinkAssumption DEF IInv, LinkTypeOK
<1>2. PICK n \in Nat : n = Len(sent)
  BY <1>1
<1>3. /\ sent' = Append(sent, [bytes |-> g, intact |-> TRUE])
      /\ UNCHANGED <<parserVars, ring, rcvd, overrun>> /\ line' = line \o g
  BY DEF HostSend
<1>4. /\ Len(sent') = n + 1 /\ sent'[n + 1].bytes = g
      /\ \A i \in 1..n : sent'[i] = sent[i]
  BY <1>1, <1>2, <1>3
<1>5. Pending \in Seq(Byte)
  BY <1>1, ConcatType DEF Pending
<1>6. Pending' = Pending \o g
  <2>1. (ring \o line) \o g = ring \o (line \o g)
    BY <1>1, ConcatAssoc
  <2> QED
    BY <1>3, <2>1 DEF Pending
<1>7. LastOne(g)'
  BY <1>5, <1>6 DEF LastOne
<1>8. ASSUME NEW e \in Seq(Byte), LastOne(e)
      PROVE  LastTwo(e, g)'
  <2>1. CASE \E a \in Seq(Byte) : Pending = a \o e
    <3>1. PICK a \in Seq(Byte) : Pending = a \o e
      BY <2>1
    <3>2. (a \o e) \o g = a \o (e \o g)
      <4>1. g \in Seq(Byte)
        BY <1>1
      <4> QED
        BY <4>1, ConcatAssoc
    <3>3. Pending' = a \o (e \o g)
      BY <1>6, <3>1, <3>2, Zenon
    <3> QED
      BY <3>3 DEF LastTwo
  <2>2. CASE \E p \in 1..Len(e) : Pending = SubSeq(e, p + 1, Len(e)) /\ Settles(e, p)
    <3>1. PICK p \in 1..Len(e) : Pending = SubSeq(e, p + 1, Len(e)) /\ Settles(e, p)
      BY <2>2
    <3>2. Settles(e, p)'
      BY <1>3, <3>1 DEF Settles, DataLeft, parserVars, frameVars
    <3>3. Pending' = SubSeq(e, p + 1, Len(e)) \o g
      BY <1>6, <3>1
    <3> QED
      BY <3>2, <3>3 DEF LastTwo
  <2> QED
    BY <1>8, <2>1, <2>2 DEF LastOne
<1>9. ASSUME ~overrun', Len(sent') >= 2, sent'[Len(sent') - 1].intact
      PROVE  LastTwo(sent[Len(sent) - 1].bytes, sent[Len(sent)].bytes)'
  <2>1. n >= 1 /\ n \in 1..Len(sent) /\ n \in 1..n /\ Len(sent') - 1 = n /\ sent # <<>>
    BY <1>1, <1>2, <1>4, <1>9
  <2>2. sent'[n] = sent[n]
    BY <1>4, <2>1
  <2>3. PICK e \in Seq(Byte) : e = sent[n].bytes
    BY <2>1, SentFrames
  <2>4. LastOne(e)
    BY <1>2, <1>3, <1>9, <2>1, <2>2, <2>3 DEF Tracking
  <2>5. LastTwo(e, g)'
    BY <1>8, <2>4
  <2>6. sent'[Len(sent') - 1].bytes = e /\ sent'[Len(sent')].bytes = g
    BY <1>4, <2>1, <2>2, <2>3
  <2> QED
    BY <2>5, <2>6
<1>10. sent'[Len(sent')].bytes = g
  BY <1>4
<1> QED
  BY <1>7, <1>9, <1>10 DEF Tracking

\* A damaged frame: nothing is said while it is among the last two.
LEMMA FaultTracks ==
  ASSUME IInv, NEW f \in HostFrames, NEW g \in Damaged(f), LineFault(f, g)
  PROVE  Tracking'
<1>1. /\ sent \in Seq([bytes : HostFrames, intact : BOOLEAN])
      /\ sent' = Append(sent, [bytes |-> f, intact |-> FALSE])
  BY DEF IInv, LinkTypeOK, LineFault
<1>2. ~sent'[Len(sent')].intact
  BY <1>1
<1> QED
  BY <1>2 DEF Tracking

\* A byte is drained, and what is said of the last frames stays true.
LEMMA DrainTracks ==
  ASSUME IInv, Recoverable, Tracking, Drain
  PROVE  Tracking'
<1>1. sent' = sent /\ overrun' = overrun
  BY DrainTakes
<1>2. PICK n \in Nat : n = Len(sent)
  BY DEF IInv, LinkTypeOK
<1>3. ASSUME n >= 1, ~overrun, sent[n].intact
      PROVE  LastOne(sent[Len(sent)].bytes)'
  <2>1. n \in 1..Len(sent) /\ sent # <<>>
    BY <1>2, <1>3
  <2>2. PICK f \in Seq(Byte) : f = sent[n].bytes /\ WellFormed(f) /\ CmdNoLen(f)
    BY <2>1, SentFrames
  <2>3. LastOne(f)
    BY <1>2, <1>3, <2>1, <2>2 DEF Tracking
  <2>4. LastOne(f)'
    BY <2>2, <2>3, LastOneNext
  <2> QED
    BY <1>1, <1>2, <2>2, <2>4
<1>4. ASSUME n >= 2, ~overrun, sent[n].intact, sent[n - 1].intact
      PROVE  LastTwo(sent[Len(sent) - 1].bytes, sent[Len(sent)].bytes)'
  <2>1. n \in 1..Len(sent) /\ n - 1 \in 1..Len(sent)
    BY <1>2, <1>4
  <2>2. PICK f \in Seq(Byte) : f = sent[n].bytes /\ WellFormed(f)
    BY <2>1, SentFrames
  <2>3. PICK e \in Seq(Byte) : e = sent[n - 1].bytes /\ WellFormed(e) /\ CmdNoLen(e)
    BY <2>1, SentFrames
  <2>4. LastTwo(e, f)
    BY <1>2, <1>4, <2>2, <2>3 DEF Tracking
  <2>5. LastTwo(e, f)'
    BY <2>2, <2>3, <2>4, LastTwoNext
  <2> QED
    BY <1>1, <1>2, <2>2, <2>3, <2>5
<1>5. sent # <<>> => n >= 1
  BY <1>2 DEF IInv, LinkTypeOK
<1> QED
  BY <1>1, <1>2, <1>3, <1>4, <1>5 DEF Tracking

\* Bytes and parser stay where they are, or bytes move on without loss.
LEMMA StillTracks ==
  ASSUME Tracking, UNCHANGED <<frameVars, sent, rcvd>>,
         ~overrun' => Pending' = Pending /\ ~overrun
  PROVE  Tracking'
<1> SUFFICES ASSUME ~overrun' PROVE Tracking'
  BY DEF Tracking
<1>1. UNCHANGED <<frameVars, rcvd, Pending>> /\ sent' = sent /\ ~overrun
  OBVIOUS
<1>2. PICK f : f = sent[Len(sent)].bytes
  OBVIOUS
<1>3. PICK e : e = sent[Len(sent) - 1].bytes
  OBVIOUS
<1>4. (LastOne(f) => LastOne(f)') /\ (LastTwo(e, f) => LastTwo(e, f)')
  BY <1>1, PlacesStay
<1>5. sent'[Len(sent')].bytes = f /\ sent'[Len(sent') - 1].bytes = e
  BY <1>1, <1>2, <1>3
<1> QED
  BY <1>1, <1>2, <1>3, <1>4, <1>5 DEF Tracking

\* Every step keeps track of the last frames.
LEMMA NextTracks ==
  ASSUME IInv, Recoverable, Tracking, [Next]_vars
  PROVE  Tracking'
<1>1. CASE \E f \in HostFrames : HostSend(f)
  BY <1>1, SendTracks
<1>2. CASE \E f \in HostFrames : \E g \in Damaged(f) : LineFault(f, g)
  BY <1>2, FaultTracks
<1>3. CASE \E b \in Bursts : Interrupt(b)
  BY <1>3, InterruptMoves, StillTracks
<1>4. CASE Drain
  BY <1>4, DrainTracks
<1>5. CASE EndTurn \/ HostIdle \/ OtherVolume \/ UNCHANGED vars
  <2>1. UNCHANGED <<frameVars, sent, rcvd, overrun, Pending>>
    BY <1>5, OthersStay
  <2> QED
    BY <2>1, StillTracks
<1> QED
  BY <1>1, <1>2, <1>3, <1>4, <1>5 DEF Next

\* When nothing is pending the parser has seen the last frame to its end.
LEMMA TrackingResyncs ==
  ASSUME IInv, Recoverable, Tracking
  PROVE  ResyncWithinTwo
<1> SUFFICES ASSUME Quiescent, ~overrun, Len(sent) >= 2,
                    sent[Len(sent)].intact, sent[Len(sent) - 1].intact
             PROVE  Newest(sent[Len(sent)].bytes)
  BY DEF ResyncWithinTwo, Newest
<1>1. PICK n \in Nat : n = Len(sent)
  BY DEF IInv, LinkTypeOK
<1>2. n \in 1..Len(sent) /\ n - 1 \in 1..Len(sent)
  BY <1>1
<1>3. PICK f \in Seq(Byte) : f = sent[n].bytes /\ WellFormed(f)
  BY <1>2, SentFrames
<1>4. PICK e \in Seq(Byte) : e = sent[n - 1].bytes /\ WellFormed(e)
  BY <1>2, SentFrames
<1>5. LastTwo(e, f)
  BY <1>1, <1>3, <1>4 DEF Tracking
<1>6. PICK L \in Nat : L = Len(f)
  OBVIOUS
<1>7. L >= 5
  BY <1>3, <1>6 DEF WellFormed
<1>8. Pending = <<>>
  BY EndsOf, EmptyTypes DEF Pending, Quiescent
<1>9. ASSUME NEW a \in Seq(Byte) PROVE a \o f # <<>>
  <2>1. Len(a \o f) = Len(a) + L /\ Len(a) \in Nat
    BY <1>6, ConcatType
  <2> QED
    BY <1>7, <2>1
<1>10. ASSUME NEW a \in Seq(Byte) PROVE Pending # a \o (e \o f)
  <2>1. a \o (e \o f) = (a \o e) \o f /\ a \o e \in Seq(Byte)
    BY BytesAssoc, ConcatType, Zenon
  <2> QED
    BY <1>8, <1>9, <2>1
<1>11. ASSUME NEW p \in 1..Len(e) PROVE Pending # SubSeq(e, p + 1, Len(e)) \o f
  <2>1. SubSeq(e, p + 1, Len(e)) \in Seq(Byte)
    OBVIOUS
  <2> QED
    BY <1>8, <1>9, <2>1
<1>12. PICK p \in 1..L : Pending = SubSeq(f, p + 1, L) /\ (p = L => Newest(f))
  BY <1>5, <1>6, <1>10, <1>11 DEF LastTwo
<1>13. p = L
  <2>1. p # L => p \in 0..L - 1
    OBVIOUS
  <2> QED
    BY <1>6, <1>8, <1>12, <2>1, NextOf
<1> QED
  BY <1>1, <1>3, <1>12, <1>13

\* Nothing sent, nothing to track.
LEMMA TrackingInit == Init => Tracking
BY DEF Init, Tracking

\* However many frames the line damages, and in whatever way, and whatever the
\* checksum is: py32_rx_feed_byte loses at most one intact frame after the last
\* fault.  For hosts whose frames follow the protocol, hold no second 0x01, and have
\* a command byte that taken for LEN does not put a checksum where the next frame
\* begins (with command 7 and four bytes of data, for one, the frame after that is
\* lost as well).
THEOREM RecoversWithinTwo ==
  ASSUME Recoverable
  PROVE  Spec => []ResyncWithinTwo
<1>1. IInv /\ Tracking /\ [Next]_vars => Tracking'
  BY NextTracks
<1>2. Spec => []Tracking
  BY <1>1, TrackingInit, Invariance, PTL DEF Spec
<1>3. IInv /\ Tracking => ResyncWithinTwo
  BY TrackingResyncs
<1> QED
  BY <1>2, <1>3, Invariance, PTL

-----------------------------------------------------------------------------
(* A line without faults.                                                  *)

\* What the theorems below ask of the frames of the host.
ProtocolFrames == \A f \in HostFrames : WellFormed(f)

AllIntact == \A i \in 1..Len(sent) : sent[i].intact

\* behind[i] is what was sent behind the i-th frame.
Behind(behind) ==
    /\ behind[Len(sent)] = <<>>
    /\ \A i \in 1..Len(sent) : behind[i - 1] = sent[i].bytes \o behind[i]

\* The frames received are the first of the frames sent.
Matched ==
    /\ Len(rcvd) <= Len(sent)
    /\ \A i \in 1..Len(rcvd) : OnLine(rcvd[i]) = sent[i].bytes

\* The parser has k frames behind it and is in step with the next, of which it has
\* taken p bytes.
Place(behind, k, p) ==
    /\ p <= Len(behind[k])
    /\ Pending = SubSeq(behind[k], p + 1, Len(behind[k]))
    /\ p = 0 => parse_state = "ADDR"
    /\ p > 0 => /\ k < Len(sent)
                /\ p < Len(sent[k + 1].bytes)
                /\ InStep(sent[k + 1].bytes, p)

\* The inductive invariant for ReceivedWereSent and EveryFrameReceived: as long as
\* nothing was damaged or dropped, the parser is in step with the line.
Lockstep ==
    ~overrun /\ AllIntact =>
        /\ Matched
        /\ \E behind \in [0..Len(sent) -> Seq(Byte)] : \E p \in Nat :
              Behind(behind) /\ Place(behind, Len(rcvd), p)

\* The frames in the history are frames of the protocol.
LEMMA SentIsProtocol ==
  ASSUME IInv, ProtocolFrames, NEW i \in 1..Len(sent)
  PROVE  sent[i].bytes \in Seq(Byte) /\ WellFormed(sent[i].bytes)
<1>1. sent[i] \in [bytes : HostFrames, intact : BOOLEAN]
  BY ElementType DEF IInv, LinkTypeOK
<1>2. sent[i].bytes \in HostFrames
  BY <1>1
<1> QED
  BY <1>2, LinkAssumption DEF ProtocolFrames

\* The elements of two sequences put together.
LEMMA ConcatAt ==
  ASSUME NEW S, NEW x \in Seq(S), NEW y \in Seq(S), NEW A \in Nat, A = Len(x),
         NEW i \in 1..A + Len(y)
  PROVE  (x \o y)[i] = IF i <= A THEN x[i] ELSE y[i - A]
OBVIOUS

\* Sequences with the same elements are the same.
LEMMA SameElements ==
  ASSUME NEW S, NEW x \in Seq(S), NEW y \in Seq(S), Len(x) = Len(y),
         \A i \in 1..Len(x) : x[i] = y[i]
  PROVE  x = y
OBVIOUS

\* What is left of a sequence when more is put behind it.
LEMMA RestConcat ==
  ASSUME NEW S, NEW s \in Seq(S), NEW t \in Seq(S), NEW p \in Nat, p <= Len(s)
  PROVE  /\ SubSeq(s, p + 1, Len(s)) \o t = SubSeq(s \o t, p + 1, Len(s \o t))
         /\ p <= Len(s \o t)
<1>1. PICK L \in Nat : L = Len(s) /\ p <= L
  OBVIOUS
<1>2. PICK a \in Seq(S) : a = SubSeq(s, p + 1, L)
  <2>1. SubSeq(s, p + 1, L) \in Seq(S)
    BY <1>1
  <2> QED
    BY <2>1, Zenon
<1>3. PICK A \in Nat : A = L - p
  <2>1. L - p \in Nat
    BY <1>1
  <2> QED
    BY <2>1, Zenon
<1>4. A = Len(a) /\ \A i \in 1..A : a[i] = s[p + i]
  BY <1>1, <1>2, <1>3
<1>5. PICK u \in Seq(S) : u = s \o t
  BY ConcatType, Zenon
<1>6. PICK M \in Nat : M = L + Len(t) /\ M = Len(u) /\ p <= M
  BY <1>1, <1>5
<1>7. PICK v \in Seq(S) : v = SubSeq(u, p + 1, M)
  <2>1. SubSeq(u, p + 1, M) \in Seq(S)
    BY <1>1, <1>6
  <2> QED
    BY <2>1, Zenon
<1>8. Len(v) = M - p /\ \A i \in 1..M - p : v[i] = u[p + i]
  BY <1>1, <1>6, <1>7
<1>9. PICK w \in Seq(S) : w = a \o t
  BY ConcatType, Zenon
<1>10. Len(w) = M - p
  <2>1. Len(w) = A + Len(t)
    BY <1>4, <1>9, ConcatType, Zenon
  <2>2. A + Len(t) = M - p
    BY <1>3, <1>6
  <2> QED
    BY <2>1, <2>2, Zenon
<1>11. ASSUME NEW i \in 1..M - p PROVE w[i] = v[i]
  <2>1. /\ p + i \in 1..L + Len(t) /\ i \in 1..A + Len(t)
        /\ p + i <= L <=> i <= A
        /\ (p + i) - L = i - A
    BY <1>3, <1>6
  <2>2. u[p + i] = IF p + i <= L THEN s[p + i] ELSE t[(p + i) - L]
    BY <1>1, <1>5, <2>1, ConcatAt
  <2>3. w[i] = IF i <= A THEN a[i] ELSE t[i - A]
    BY <1>4, <1>9, <2>1, ConcatAt
  <2>4. i <= A => a[i] = s[p + i]
    BY <1>4
  <2>5. v[i] = u[p + i]
    BY <1>8
  <2> QED
    BY <2>1, <2>2, <2>3, <2>4, <2>5
<1>12. w = v
  <2>1. Len(w) = Len(v) /\ \A i \in 1..Len(w) : w[i] = v[i]
    BY <1>8, <1>10, <1>11
  <2> QED
    BY <2>1, SameElements
<1> QED
  BY <1>1, <1>2, <1>5, <1>6, <1>7, <1>9, <1>12, Zenon

\* The parser takes a byte of the frame it is in step with, and perhaps its last.
LEMMA DrainInLockstep ==
  ASSUME IInv, ProtocolFrames, Drain, Matched, AllIntact,
         NEW n \in Nat, n = Len(sent), NEW k \in Nat, k = Len(rcvd),
         NEW behind \in [0..n -> Seq(Byte)], NEW p \in Nat,
         Behind(behind), Place(behind, k, p)
  PROVE  /\ Matched'
         /\ Behind(behind)'
         /\ \E q \in Nat : Place(behind, Len(rcvd), q)'
<1> DEFINE c == Head(Pending)
<1>1. /\ Pending # <<>> /\ Pending' = Tail(Pending) /\ Feed(c) /\ ParserInv /\ c \in Byte
      /\ \/ outcome' \in GoodOutcomes /\ rcvd' = Append(rcvd, Received(c))
         \/ outcome' \notin GoodOutcomes /\ rcvd' = rcvd
      /\ rcvd \in Seq(Frame) /\ sent' = sent
  BY DrainTakes
<1>2. Behind(behind)'
  BY <1>1 DEF Behind
<1>3. k <= n /\ k \in 0..n /\ behind[k] \in Seq(Byte)
  BY DEF Matched
<1>4. PICK M \in Nat : M = Len(behind[k])
  BY <1>3
<1>5. p <= M /\ Pending = SubSeq(behind[k], p + 1, M)
  BY <1>4 DEF Place
<1>6. p # M
  BY <1>1, <1>3, <1>4, <1>5, EndsOf
<1>7. p \in 0..M - 1
  BY <1>5, <1>6
<1>8. k < n
  <2>1. SUFFICES ASSUME k = n PROVE FALSE
    BY <1>3
  <2>2. behind[k] = <<>>
    BY <2>1 DEF Behind
  <2> QED
    BY <1>4, <1>7, <2>2
<1>9. k + 1 \in 1..Len(sent) /\ k + 1 \in 0..n /\ (k + 1) - 1 = k
  BY <1>3, <1>8
<1>10. PICK f \in Seq(Byte) : f = sent[k + 1].bytes /\ WellFormed(f)
  BY <1>9, SentIsProtocol
<1>11. PICK t \in Seq(Byte) : t = behind[k + 1]
  BY <1>9
<1>12. behind[k] = f \o t
  BY <1>9, <1>10, <1>11 DEF Behind
<1>13. PICK L \in Nat : L = Len(f)
  OBVIOUS
<1>14. L >= 5 /\ M = L + Len(t) /\ Len(t) \in Nat
  BY <1>4, <1>10, <1>12, <1>13, ConcatType DEF WellFormed
<1>15. p < L
  BY <1>10, <1>13, <1>14 DEF Place
<1>16. c = f[p + 1] /\ Pending' = SubSeq(behind[k], p + 2, M)
  <2>1. c = behind[k][p + 1] /\ Pending' = SubSeq(behind[k], p + 2, M)
    BY <1>1, <1>3, <1>4, <1>5, <1>7, NextOf
  <2>2. (f \o t)[p + 1] = f[p + 1]
    BY <1>13, <1>14, <1>15
  <2> QED
    BY <1>12, <2>1, <2>2
<1> HIDE DEF c
<1>17. ASSUME rcvd' = rcvd, InStep(f, p + 1)', p + 1 < L
       PROVE  Matched' /\ \E q \in Nat : Place(behind, Len(rcvd), q)'
  <2>1. Matched'
    BY <1>1, <1>17 DEF Matched
  <2>2. p + 1 \in Nat /\ p + 1 <= M /\ p + 1 > 0 /\ p + 2 = (p + 1) + 1
    BY <1>7
  <2>3. sent'[k + 1].bytes = f /\ Len(rcvd') = k /\ k < Len(sent')
    BY <1>1, <1>8, <1>10, <1>17
  <2>4. InStep(sent[k + 1].bytes, p + 1)'
    BY <1>17, <2>3
  <2>5. Pending' = SubSeq(behind[k], (p + 1) + 1, M)
    BY <1>16, <2>2
  <2>6. Place(behind, k, p + 1)'
    BY <1>4, <1>13, <1>17, <2>2, <2>3, <2>4, <2>5 DEF Place
  <2> QED
    BY <2>1, <2>2, <2>3, <2>6
<1>18. CASE p = 0
  <2>1. Ready
    BY <1>18 DEF Place, Ready
  <2>2. Feed(f[1])
    BY <1>1, <1>16, <1>18
  <2>3. InStep(f, 1)' /\ outcome' \notin GoodOutcomes
    BY <1>1, <1>10, <1>13, <2>1, <2>2, GetsInStep
  <2>4. rcvd' = rcvd /\ p + 1 = 1 /\ p + 1 < L
    BY <1>1, <1>14, <1>18, <2>3
  <2> QED
    BY <1>2, <1>17, <2>3, <2>4
<1>19. CASE p > 0
  <2>1. p \in 1..L - 1 /\ InStep(f, p)
    BY <1>10, <1>15, <1>19 DEF Place
  <2>2. /\ InStep(f, p + 1)'
        /\ p + 1 < L => outcome' \notin GoodOutcomes
        /\ p + 1 = L => /\ outcome' \in GoodOutcomes
                        /\ OnLine(Received(f[L])) = f
    BY <1>1, <1>10, <1>13, <1>16, <2>1, InStepNext
  <2>3. CASE p + 1 < L
    BY <1>1, <1>2, <1>17, <2>2, <2>3
  <2>4. CASE p + 1 = L
    <3>1. rcvd' = Append(rcvd, Received(c)) /\ OnLine(Received(c)) = f
      BY <1>1, <1>16, <2>2, <2>4
    <3>2. PICK r \in Frame : r = Received(c)
      BY <1>1, ReceivedType DEF ParserInv
    <3>3. /\ Len(rcvd') = k + 1 /\ rcvd'[k + 1] = r
          /\ \A i \in 1..k : rcvd'[i] = rcvd[i]
      BY <1>1, <3>1, <3>2
    <3>4. Matched'
      <4>1. Len(rcvd') <= Len(sent')
        BY <1>1, <1>8, <3>3
      <4>2. ASSUME NEW i \in 1..k + 1 PROVE OnLine(rcvd'[i]) = sent'[i].bytes
        <5>1. CASE i = k + 1
          BY <1>1, <1>10, <3>1, <3>2, <3>3, <5>1
        <5>2. CASE i # k + 1
          <6>1. i \in 1..k
            BY <5>2
          <6> QED
            BY <1>1, <3>3, <6>1 DEF Matched
        <5> QED
          BY <5>1, <5>2
      <4> QED
        BY <3>3, <4>1, <4>2 DEF Matched
    <3>5. parse_state' = "ADDR"
      BY <1>13, <2>2, <2>4 DEF InStep
    <3>6. Pending' = t
      <4>1. p + 2 = L + 1
        BY <2>4
      <4>2. SubSeq(f \o t, L + 1, M) = t
        BY <1>13, <1>14
      <4> QED
        BY <1>12, <1>16, <4>1, <4>2
    <3>7. t = SubSeq(t, 0 + 1, Len(t))
      BY EndsOf
    <3>8. Place(behind, k + 1, 0)'
      BY <1>11, <1>14, <3>5, <3>6, <3>7 DEF Place
    <3> QED
      BY <1>2, <3>3, <3>4, <3>8
  <2> QED
    BY <1>14, <1>15, <2>3, <2>4
<1> QED
  BY <1>18, <1>19

\* RestConcat, for bytes.
LEMMA BytesBehind ==
  \A x, y \in Seq(Byte), p \in Nat :
     p <= Len(x) => /\ SubSeq(x, p + 1, Len(x)) \o y
                         = SubSeq(x \o y, p + 1, Len(x \o y))
                    /\ p <= Len(x \o y)
<1>1. ASSUME NEW x \in Seq(Byte), NEW y \in Seq(Byte), NEW p \in Nat, p <= Len(x)
      PROVE  /\ SubSeq(x, p + 1, Len(x)) \o y = SubSeq(x \o y, p + 1, Len(x \o y))
             /\ p <= Len(x \o y)
  BY <1>1, RestConcat
<1> QED
  BY <1>1, Zenon

\* The host sends a frame: it comes behind everything pending.
LEMMA SendInLockstep ==
  ASSUME IInv, NEW g \in Seq(Byte), HostSend(g), Matched,
         NEW n \in Nat, n = Len(sent), NEW k \in Nat, k = Len(rcvd),
         NEW behind \in [0..n -> Seq(Byte)], NEW p \in Nat,
         Behind(behind), Place(behind, k, p)
  PROVE  /\ Matched'
         /\ \E after \in [0..n + 1 -> Seq(Byte)] :
               Behind(after)' /\ Place(after, Len(rcvd), p)'
<1>1. /\ line \in Seq(Byte) /\ ring \in Seq(Byte) /\ g \in Seq(Byte)
      /\ line' = line \o g /\ ring' = ring /\ rcvd' = rcvd
      /\ sent' = Append(sent, [bytes |-> g, intact |-> TRUE])
      /\ UNCHANGED <<parse_state, frame_cmd, frame_len, frame_data, crc_rx>>
  BY LinkAssumption DEF IInv, LinkTypeOK, HostSend, parserVars, frameVars
<1>2. /\ Len(sent') = n + 1 /\ sent'[n + 1].bytes = g
      /\ \A i \in 1..n : sent'[i] = sent[i]
  BY <1>1 DEF IInv, LinkTypeOK
<1>3. Pending' = Pending \o g
  <2>1. line \in Seq(Byte) /\ ring \in Seq(Byte) /\ g \in Seq(Byte)
    BY <1>1
  <2>2. (ring \o line) \o g = ring \o (line \o g)
    BY <2>1, BytesAssoc, Zenon
  <2> QED
    BY <1>1, <2>2 DEF Pending
<1>4. k <= n /\ k \in 0..n /\ behind[k] \in Seq(Byte)
  BY DEF Matched
<1>5. Matched'
  <2>1. Len(rcvd') <= Len(sent')
    BY <1>1, <1>2, <1>4
  <2>2. ASSUME NEW i \in 1..k PROVE OnLine(rcvd'[i]) = sent'[i].bytes
    <3>1. i \in 1..n
      BY <1>4
    <3> QED
      BY <1>1, <1>2, <3>1 DEF Matched
  <2> QED
    BY <1>1, <2>1, <2>2 DEF Matched
<1>6. PICK after \in [0..n + 1 -> Seq(Byte)] :
         after[n + 1] = <<>> /\ \A i \in 0..n : after[i] = behind[i] \o g
  <2> DEFINE h == [i \in 0..n + 1 |-> IF i = n + 1 THEN <<>> ELSE behind[i] \o g]
  <2>1. ASSUME NEW i \in 0..n + 1, i # n + 1 PROVE i \in 0..n
    BY <2>1
  <2>2. ASSUME NEW i \in 0..n PROVE behind[i] \o g \in Seq(Byte)
    BY <1>1, ConcatType
  <2>3. ASSUME NEW i \in 0..n PROVE i \in 0..n + 1 /\ i # n + 1
    OBVIOUS
  <2>4. n + 1 \in 0..n + 1 /\ <<>> \in Seq(Byte)
    OBVIOUS
  <2>5. h \in [0..n + 1 -> Seq(Byte)]
    BY <2>1, <2>2, <2>4
  <2>6. h[n + 1] = <<>> /\ \A i \in 0..n : h[i] = behind[i] \o g
    BY <2>3, <2>4
  <2> HIDE DEF h
  <2> QED
    BY <2>5, <2>6
<1>7. Behind(after)'
  <2>1. ASSUME NEW i \in 1..n + 1 PROVE after[i - 1] = sent'[i].bytes \o after[i]
    <3>1. CASE i = n + 1
      <4>1. i - 1 = n /\ n \in 0..n
        BY <3>1
      <4>2. after[i - 1] = behind[n] \o g /\ behind[n] = <<>>
        BY <1>6, <4>1 DEF Behind
      <4>3. after[i - 1] = g
        BY <1>1, <4>2, EndsOf
      <4>4. sent'[i].bytes \o after[i] = g
        BY <1>1, <1>2, <1>6, <3>1, EndsOf
      <4> QED
        BY <4>3, <4>4
    <3>2. CASE i # n + 1
      <4>1. i \in 1..n /\ i \in 0..n /\ i - 1 \in 0..n /\ i \in 1..Len(sent)
        BY <3>2
      <4>2. PICK e \in Seq(Byte) : e = sent[i].bytes
        <5>1. sent[i] \in [bytes : HostFrames, intact : BOOLEAN]
          BY <4>1, ElementType DEF IInv, LinkTypeOK
        <5>2. sent[i].bytes \in Seq(Byte)
          BY <5>1, LinkAssumption
        <5> QED
          BY <5>2
      <4>3. behind[i - 1] = e \o behind[i]
        BY <4>1, <4>2 DEF Behind
      <4>4. PICK t \in Seq(Byte) : t = behind[i]
        BY <4>1
      <4>5. after[i - 1] = (e \o t) \o g /\ after[i] = t \o g
        BY <1>6, <4>1, <4>3, <4>4
      <4>6. (e \o t) \o g = e \o (t \o g)
        BY BytesAssoc, Zenon
      <4>7. sent'[i].bytes = e
        BY <1>2, <4>1, <4>2
      <4> QED
        BY <4>5, <4>6, <4>7
    <3> QED
      BY <3>1, <3>2
  <2> QED
    BY <1>2, <1>6, <2>1 DEF Behind
<1>8. Place(after, k, p)'
  <2>1. PICK b \in Seq(Byte) : b = behind[k]
    BY <1>4
  <2>2. p <= Len(b) /\ Pending = SubSeq(b, p + 1, Len(b))
        /\ (p = 0 => parse_state = "ADDR")
    BY <2>1 DEF Place
  <2>3. after[k] = b \o g
    BY <1>4, <1>6, <2>1
  <2>4. /\ SubSeq(b, p + 1, Len(b)) \o g = SubSeq(b \o g, p + 1, Len(b \o g))
        /\ p <= Len(b \o g)
    BY <2>2, BytesBehind, Zenon
  <2>5. Pending' = SubSeq(after[k], p + 1, Len(after[k])) /\ p <= Len(after[k])
    BY <1>3, <2>2, <2>3, <2>4, Zenon
  <2>6. ASSUME p > 0
        PROVE  k < Len(sent') /\ p < Len(sent'[k + 1].bytes)
               /\ InStep(sent[k + 1].bytes, p)'
    <3>1. k < n /\ p < Len(sent[k + 1].bytes) /\ InStep(sent[k + 1].bytes, p)
      BY <2>6 DEF Place
    <3>2. k + 1 \in 1..n
      BY <3>1
    <3>3. sent'[k + 1].bytes = sent[k + 1].bytes
      BY <1>2, <3>2
    <3>4. PICK e : e = sent[k + 1].bytes
      OBVIOUS
    <3>5. InStep(e, p) => InStep(e, p)'
      BY <1>1 DEF InStep, DataLeft
    <3>6. k < n + 1
      BY <3>1
    <3> QED
      BY <1>2, <3>1, <3>3, <3>4, <3>5, <3>6
  <2> QED
    BY <1>1, <2>2, <2>5, <2>6 DEF Place
<1> QED
  BY <1>1, <1>5, <1>6, <1>7, <1>8

\* Bytes and parser stay where they are, or bytes move on without loss.
LEMMA StillInLockstep ==
  ASSUME Lockstep, UNCHANGED <<frameVars, sent, rcvd>>,
         ~overrun' => Pending' = Pending /\ ~overrun
  PROVE  Lockstep'
<1> SUFFICES ASSUME ~overrun', AllIntact' PROVE Lockstep'
  BY DEF Lockstep
<1>1. /\ UNCHANGED <<parse_state, frame_cmd, frame_len, frame_data, crc_rx>>
      /\ Pending' = Pending /\ ~overrun /\ sent' = sent /\ rcvd' = rcvd
  BY DEF frameVars
<1>2. AllIntact
  BY <1>1 DEF AllIntact
<1>3. PICK behind \in [0..Len(sent) -> Seq(Byte)], p \in Nat :
         Behind(behind) /\ Place(behind, Len(rcvd), p)
  BY <1>1, <1>2 DEF Lockstep
<1>4. Matched'
  BY <1>1, <1>2 DEF Lockstep, Matched
<1>5. Behind(behind)'
  BY <1>1, <1>3 DEF Behind
<1>6. Place(behind, Len(rcvd), p)'
  <2>1. ASSUME NEW e PROVE InStep(e, p) => InStep(e, p)'
    BY <1>1 DEF InStep, DataLeft
  <2>2. PICK e : e = sent[Len(rcvd) + 1].bytes
    OBVIOUS
  <2>3. InStep(sent[Len(rcvd) + 1].bytes, p) => InStep(sent[Len(rcvd) + 1].bytes, p)'
    BY <1>1, <2>1, <2>2
  <2> QED
    BY <1>1, <1>3, <2>3 DEF Place
<1> QED
  BY <1>1, <1>4, <1>5, <1>6 DEF Lockstep

\* As long as nothing is damaged or dropped, every step keeps parser and line in
\* step.
LEMMA NextInLockstep ==
  ASSUME IInv, ProtocolFrames, Lockstep, [Next]_vars
  PROVE  Lockstep'
<1>1. CASE \E f \in HostFrames : HostSend(f)
  <2>1. PICK g \in HostFrames : HostSend(g)
    BY <1>1
  <2>2. g \in Seq(Byte)
    BY LinkAssumption
  <2>3. PICK n \in Nat : n = Len(sent)
    BY DEF IInv, LinkTypeOK
  <2>4. PICK k \in Nat : k = Len(rcvd)
    BY DEF IInv, LinkTypeOK
  <2>5. /\ overrun' = overrun /\ Len(sent') = n + 1
        /\ \A i \in 1..n : sent'[i] = sent[i] /\ i \in 1..n + 1
    BY <2>1, <2>3 DEF HostSend, IInv, LinkTypeOK
  <2>6. SUFFICES ASSUME ~overrun', AllIntact' PROVE Lockstep'
    BY DEF Lockstep
  <2>7. ~overrun /\ AllIntact
    BY <2>3, <2>5, <2>6 DEF AllIntact
  <2>8. Matched
    BY <2>7 DEF Lockstep
  <2>9. PICK behind \in [0..n -> Seq(Byte)], p \in Nat :
           Behind(behind) /\ Place(behind, k, p)
    BY <2>3, <2>4, <2>7 DEF Lockstep
  <2>10. /\ Matched'
         /\ \E after \in [0..n + 1 -> Seq(Byte)] :
               Behind(after)' /\ Place(after, Len(rcvd), p)'
    BY <2>1, <2>2, <2>3, <2>4, <2>8, <2>9, SendInLockstep
  <2> QED
    BY <2>5, <2>10 DEF Lockstep
<1>2. CASE \E f \in HostFrames : \E g \in Damaged(f) : LineFault(f, g)
  <2>1. PICK f \in HostFrames : \E g \in Damaged(f) : LineFault(f, g)
    BY <1>2
  <2>2. sent' = Append(sent, [bytes |-> f, intact |-> FALSE])
        /\ sent \in Seq([bytes : HostFrames, intact : BOOLEAN])
    BY <2>1 DEF LineFault, IInv, LinkTypeOK
  <2>3. Len(sent') \in 1..Len(sent') /\ ~sent'[Len(sent')].intact
    BY <2>2
  <2>4. ~AllIntact'
    BY <2>3 DEF AllIntact
  <2> QED
    BY <2>4 DEF Lockstep
<1>3. CASE \E b \in Bursts : Interrupt(b)
  BY <1>3, InterruptMoves, StillInLockstep
<1>4. CASE Drain
  <2>1. PICK n \in Nat : n = Len(sent)
    BY DEF IInv, LinkTypeOK
  <2>2. PICK k \in Nat : k = Len(rcvd)
    BY DEF IInv, LinkTypeOK
  <2>3. sent' = sent /\ overrun' = overrun
    BY <1>4, DrainTakes
  <2>4. SUFFICES ASSUME ~overrun', AllIntact' PROVE Lockstep'
    BY DEF Lockstep
  <2>5. ~overrun /\ AllIntact
    BY <2>3, <2>4 DEF AllIntact
  <2>6. Matched
    BY <2>5 DEF Lockstep
  <2>7. PICK behind \in [0..n -> Seq(Byte)], p \in Nat :
           Behind(behind) /\ Place(behind, k, p)
    BY <2>1, <2>2, <2>5 DEF Lockstep
  <2>8. /\ Matched'
        /\ Behind(behind)'
        /\ \E q \in Nat : Place(behind, Len(rcvd), q)'
    BY <1>4, <2>1, <2>2, <2>5, <2>6, <2>7, DrainInLockstep
  <2>9. behind \in [0..Len(sent') -> Seq(Byte)]
    BY <2>1, <2>3
  <2> QED
    BY <2>8, <2>9 DEF Lockstep
<1>5. CASE EndTurn \/ HostIdle \/ OtherVolume \/ UNCHANGED vars
  <2>1. UNCHANGED <<frameVars, sent, rcvd, overrun, Pending>>
    BY <1>5, OthersStay
  <2> QED
    BY <2>1, StillInLockstep
<1> QED
  BY <1>1, <1>2, <1>3, <1>4, <1>5 DEF Next

\* Nothing sent, nothing pending, and the parser waits for an address.
LEMMA LockstepInit == Init => Lockstep
<1> SUFFICES ASSUME Init PROVE Lockstep
  OBVIOUS
<1>1. /\ sent = <<>> /\ rcvd = <<>> /\ Pending = <<>> /\ parse_state = "ADDR"
  BY DEF Init, ParserInit, Pending
<1>2. PICK none \in Seq(Byte) : none = <<>>
  <2>1. <<>> \in Seq(Byte)
    OBVIOUS
  <2> QED
    BY <2>1, Zenon
<1>3. Len(none) = 0 /\ SubSeq(none, 1, 0) = none
  BY <1>2
<1>4. PICK behind \in [0..0 -> Seq(Byte)] : behind[0] = none
  <2>1. [i \in 0..0 |-> none] \in [0..0 -> Seq(Byte)] /\ [i \in 0..0 |-> none][0] = none
    OBVIOUS
  <2> QED
    BY <2>1
<1>5. Matched
  BY <1>1 DEF Matched
<1>6. Behind(behind)
  BY <1>1, <1>2, <1>4 DEF Behind
<1>7. Place(behind, 0, 0)
  BY <1>1, <1>2, <1>3, <1>4 DEF Place
<1> QED
  BY <1>1, <1>4, <1>5, <1>6, <1>7 DEF Lockstep

\* The parser and the line are in step as long as nothing is damaged or dropped.
LEMMA AlwaysInLockstep ==
  ASSUME ProtocolFrames
  PROVE  Spec => []Lockstep
<1>1. IInv /\ Lockstep /\ [Next]_vars => Lockstep'
  BY NextInLockstep
<1> QED
  BY <1>1, LockstepInit, Invariance, PTL DEF Spec

\* As long as the line damages nothing and the ring drops nothing, py32_rx_feed_byte
\* invents, repeats and reorders nothing, whatever the checksum is: the frames
\* received are the first of the frames sent.  For hosts whose frames follow the
\* protocol and hold no second 0x01.  (Behind a fault it is the checksum that keeps
\* ReceivedWereSent, which no theorem about every checksum can show.)
THEOREM ReceivesWhatWasSent ==
  ASSUME ProtocolFrames
  PROVE  Spec => [](~overrun /\ AllIntact => ReceivedWereSent)
<1>1. ASSUME IInv, Lockstep, ~overrun, AllIntact PROVE ReceivedWereSent
  <2>1. PICK n \in Nat : n = Len(sent)
    BY <1>1 DEF IInv, LinkTypeOK
  <2>2. PICK k \in Nat : k = Len(rcvd)
    BY <1>1 DEF IInv, LinkTypeOK
  <2>3. k <= n /\ \A i \in 1..k : OnLine(rcvd[i]) = sent[i].bytes
    BY <1>1, <2>1, <2>2 DEF Lockstep, Matched
  <2>4. PICK pos \in [1..k -> 1..n] : \A i \in 1..k : pos[i] = i
    <3>1. ASSUME NEW i \in 1..k PROVE i \in 1..n
      BY <2>3
    <3>2. [i \in 1..k |-> i] \in [1..k -> 1..n]
      BY <3>1
    <3> QED
      BY <3>2
  <2>5. ASSUME NEW i \in 1..k PROVE sent[pos[i]].bytes = OnLine(rcvd[i])
    BY <2>3, <2>4
  <2>6. ASSUME NEW i \in 1..k, NEW j \in 1..k, i < j PROVE pos[i] < pos[j]
    BY <2>4, <2>6
  <2> QED
    BY <2>1, <2>2, <2>5, <2>6 DEF ReceivedWereSent
<1>2. IInv /\ Lockstep => (~overrun /\ AllIntact => ReceivedWereSent)
  BY <1>1
<1>3. Spec => []Lockstep
  BY AlwaysInLockstep
<1> QED
  BY <1>2, <1>3, Invariance, PTL

\* When nothing is pending, every frame has been received.
LEMMA LockstepDelivers ==
  ASSUME IInv, ProtocolFrames, Lockstep, AllIntact, ~overrun, Quiescent
  PROVE  Len(rcvd) = Len(sent)
<1>1. PICK n \in Nat : n = Len(sent)
  BY DEF IInv, LinkTypeOK
<1>2. PICK k \in Nat : k = Len(rcvd)
  BY DEF IInv, LinkTypeOK
<1>3. k <= n /\ k \in 0..n
  BY <1>1, <1>2 DEF Lockstep, Matched
<1>4. PICK behind \in [0..n -> Seq(Byte)], p \in Nat : Behind(behind) /\ Place(behind, k, p)
  BY <1>1, <1>2 DEF Lockstep
<1>5. SUFFICES ASSUME k < n PROVE FALSE
  BY <1>1, <1>2, <1>3
<1>6. k + 1 \in 1..Len(sent) /\ k + 1 \in 0..n /\ (k + 1) - 1 = k
  BY <1>1, <1>3, <1>5
<1>7. PICK f \in Seq(Byte) : f = sent[k + 1].bytes /\ WellFormed(f)
  BY <1>6, SentIsProtocol
<1>8. PICK t \in Seq(Byte) : t = behind[k + 1]
  BY <1>6
<1>9. PICK b \in Seq(Byte) : b = behind[k] /\ b = f \o t
  BY <1>3, <1>4, <1>6, <1>7, <1>8 DEF Behind
<1>10. PICK L \in Nat : L = Len(f)
  OBVIOUS
<1>11. PICK M \in Nat : M = Len(b)
  OBVIOUS
<1>12. L >= 5 /\ L <= M
  BY <1>7, <1>9, <1>10, <1>11, ConcatType DEF WellFormed
<1>13. p <= M /\ Pending = SubSeq(b, p + 1, M) /\ (p > 0 => p < L)
  BY <1>4, <1>7, <1>9, <1>10, <1>11 DEF Place
<1>14. p \in 0..M - 1
  BY <1>12, <1>13
<1>15. Pending # <<>>
  BY <1>11, <1>13, <1>14, NextOf
<1>16. Pending = <<>>
  BY DEF Quiescent, Pending
<1> QED
  BY <1>15, <1>16

\* On a line without faults, with a ring that never overran, everything sent is
\* received: once line and ring are empty py32_rx_feed_byte has found every frame.
\* For hosts whose frames follow the protocol and hold no second 0x01: the run
\* address_in_data shows that with a second one frames are lost.
THEOREM ReceivesEverything ==
  ASSUME ProtocolFrames, \A f \in HostFrames : Damaged(f) = {}
  PROVE  Spec => []EveryFrameReceived
<1>1. Init => AllIntact
  BY DEF Init, AllIntact
<1>2. ASSUME IInv, AllIntact, [Next]_vars PROVE AllIntact'
  <2>1. CASE \E f \in HostFrames : HostSend(f)
    <3>1. PICK f \in HostFrames : HostSend(f)
      BY <2>1
    <3>2. sent' = Append(sent, [bytes |-> f, intact |-> TRUE])
          /\ sent \in Seq([bytes : HostFrames, intact : BOOLEAN])
      BY <1>2, <3>1 DEF HostSend, IInv, LinkTypeOK
    <3> QED
      BY <1>2, <3>2 DEF AllIntact
  <2>2. CASE ~ \E f \in HostFrames : HostSend(f)
    <3>1. sent' = sent
      BY <1>2, <2>2 DEF Next, Interrupt, Drain, EndTurn, HostIdle, OtherVolume, vars, linkVars
    <3> QED
      BY <1>2, <3>1 DEF AllIntact
  <2> QED
    BY <2>1, <2>2
<1>3. IInv /\ AllIntact /\ [Next]_vars => AllIntact'
  BY <1>2
<1>4. Spec => []AllIntact
  BY <1>1, <1>3, Invariance, PTL DEF Spec
<1>5. IInv /\ AllIntact /\ Lockstep => EveryFrameReceived
  BY LockstepDelivers DEF EveryFrameReceived
<1>6. Spec => []Lockstep
  BY AlwaysInLockstep
<1> QED
  BY <1>4, <1>5, <1>6, Invariance, PTL
=============================================================================
