------------------------- MODULE AudioControlProofs -------------------------
(***************************************************************************)
(* The amplifier for every set of levels and set frames: its state keeps   *)
(* its type, the tone ends up at the settings, and the volume set last is  *)
(* the one in force unless something came in between.                      *)
(***************************************************************************)
EXTENDS AudioControl, SequenceTheorems, TLAPS

\* A thread selects pages 4 and 12 and writes levels everywhere else; AudioTypeOK
\* alone would allow a page number for a volume.
Access == ({"page"} \X {4, 12}) \cup ((Kinds \ {"page"}) \X Levels)

Chip == [page : {0, 4, 12}, vol : [Channels -> Levels],
         ctrl : {"play", "mute", "off"}, fault : BOOLEAN]

\* The types, one fact per variable, with the calls as above.
Types ==
    /\ chip \in Chip
    /\ stream \in Levels /\ volume \in Levels /\ arg \in Levels
    /\ tone \in [treble : Levels, bass : Levels,
                 band_treble : Levels, band_bass : Levels]
    /\ todo \in [Threads -> Seq(Access)]
    /\ old \in [Threads -> Levels] /\ clean \in [Threads -> BOOLEAN]
    /\ bus \in BOOLEAN /\ playing \in BOOLEAN /\ due \in BOOLEAN
    /\ jack \in BOOLEAN /\ hp_prev \in BOOLEAN
    /\ hung \in BOOLEAN /\ settled \in BOOLEAN
    /\ wq \in {"idle", "recover", "tables", "cleared", "played", "again",
               "cleared2", "final"}
    /\ events \in 0..MaxEvents

\* A sequence over a set is one over any larger set.
LEMMA WiderSeq ==
  ASSUME NEW S, NEW T, S \subseteq T, NEW s \in Seq(S) PROVE s \in Seq(T)
OBVIOUS

\* The types used here imply the ones the run checks.
LEMMA TypesImplyTypeOK == Types => AudioTypeOK
<1> SUFFICES ASSUME Types PROVE AudioTypeOK
  OBVIOUS
<1>1. Access \subseteq Kinds \X (Levels \cup {0, 4, 12})
  BY DEF Access, Kinds
<1>2. \A t \in Threads : todo[t] \in Seq(Kinds \X (Levels \cup {0, 4, 12}))
  BY <1>1, WiderSeq DEF Types
<1>3. todo \in [Threads -> Seq(Kinds \X (Levels \cup {0, 4, 12}))]
  BY <1>2 DEF Types
<1> QED
  BY <1>3 DEF Types, AudioTypeOK, Chip

-----------------------------------------------------------------------------
(* Calls are sequences of accesses.                                        *)

\* system_volume_set as a call.
LEMMA VolumeCallType == ASSUME NEW v \in Levels PROVE VolumeCall(v) \in Seq(Access)
BY DEF VolumeCall, Access, Kinds, Channels

\* py32_apply_treble_bass as a call.
LEMMA ToneCallType ==
  ASSUME NEW x \in Levels, NEW y \in Levels PROVE ToneCall(x, y) \in Seq(Access)
BY DEF ToneCall, Access, Kinds, Channels

\* A set frame is one call after the other.
LEMMA ConcatAccess ==
  ASSUME NEW s \in Seq(Access), NEW u \in Seq(Access) PROVE s \o u \in Seq(Access)
OBVIOUS

\* What is left when the amplifier writes are skipped.
LEMMA SkipAccess ==
  ASSUME NEW s \in Seq(Access) PROVE SubSeq(s, 9, Len(s)) \in Seq(Access)
OBVIOUS

\* The next access, and what is left after it.
LEMMA NextAccess ==
  ASSUME NEW s \in Seq(Access), s # <<>>
  PROVE  Head(s) \in Access /\ Tail(s) \in Seq(Access)
OBVIOUS

\* The kind of an access tells its value.
LEMMA AccessValue ==
  ASSUME NEW a \in Access
  PROVE  /\ a[1] # "page" => a[2] \in Levels
         /\ a[1] = "page" => a[2] \in {4, 12}
BY DEF Access

-----------------------------------------------------------------------------
(* The chip.                                                               *)

\* Writes of page and volume do not touch control and fault.
LEMMA OnPageType ==
  ASSUME Types, NEW p \in {0, 4, 12}
  PROVE  OnPage(p) \in Chip /\ OnPage(p).ctrl = chip.ctrl
BY DEF Types, OnPage, Written, Chip

\* The same for a volume register.
LEMMA WithVolumeType ==
  ASSUME Types, NEW c \in Channels, NEW v \in Levels
  PROVE  WithVolume(c, v) \in Chip /\ WithVolume(c, v).ctrl = chip.ctrl
BY DEF Types, WithVolume, Written, Chip

\* The whole of acm8635_set_volume.
LEMMA AllAtType ==
  ASSUME NEW c \in Chip, NEW v \in Levels
  PROVE  AllAt(c, v) \in Chip /\ AllAt(c, v).ctrl = c.ctrl
BY DEF AllAt, Chip

\* acm8635_play_enable.
LEMMA EnabledType == ASSUME NEW c \in Chip PROVE Enabled(c) \in Chip
BY DEF Enabled, Chip

-----------------------------------------------------------------------------
\* The invariant holds after boot.
LEMMA TypesInit == AudioInit => Types
<1> SUFFICES ASSUME AudioInit PROVE Types
  OBVIOUS
<1>1. InitVolume \in Levels /\ MaxEvents \in Nat
  BY AudioAssumption
<1>2. chip \in Chip
  BY <1>1 DEF AudioInit, Chip
<1>3. todo \in [Threads -> Seq(Access)]
  BY DEF AudioInit
<1>4. clean \in [Threads -> BOOLEAN]
  BY DEF AudioInit
<1> QED
  <2>1. /\ bus \in BOOLEAN /\ playing \in BOOLEAN /\ due \in BOOLEAN
        /\ jack \in BOOLEAN /\ hp_prev \in BOOLEAN
        /\ hung \in BOOLEAN /\ settled \in BOOLEAN
    BY DEF AudioInit
  <2>2. /\ tone \in [treble : Levels, bass : Levels,
                     band_treble : Levels, band_bass : Levels]
        /\ stream \in Levels /\ volume \in Levels /\ arg \in Levels
        /\ old \in [Threads -> Levels]
    BY <1>1 DEF AudioInit
  <2>3. wq = "idle" /\ events \in 0..MaxEvents
    BY <1>1 DEF AudioInit
  <2> QED
    BY <2>1, <2>2, <2>3, <1>2, <1>3, <1>4 DEF Types

\* A call begins.
LEMMA CallKeeps ==
  ASSUME Types, NEW t \in Threads, NEW s \in Seq(Access), Call(t, s)
  PROVE  Types'
BY AudioAssumption
   DEF Types, Call, Event, workVars, histVars

\* One access of a call.
LEMMA ThreadKeeps ==
  ASSUME Types, NEW t \in Threads, Thread(t) PROVE Types'
<1>1. todo[t] # <<>> /\ todo[t] \in Seq(Access)
  BY DEF Types, Thread, ReadOld, WriteStream, CheckOld, WriteChip, SaveVolume,
         WriteTone, Runs
<1>2. Now(t) \in Access /\ Tail(todo[t]) \in Seq(Access)
  BY <1>1, NextAccess DEF Now
<1>3. Done(t) => todo' \in [Threads -> Seq(Access)]
  BY <1>2 DEF Types, Done
<1>4. Touch(t) => clean' \in [Threads -> BOOLEAN]
  BY DEF Touch, Types
<1>v. /\ Now(t)[1] # "page" => Now(t)[2] \in Levels
      /\ Now(t)[1] = "page" => Now(t)[2] \in {4, 12}
  BY <1>2, AccessValue
<1>5. CASE ReadOld(t)
  BY <1>5, <1>3 DEF ReadOld, Types, workVars
<1>6. CASE WriteStream(t)
  <2>1. stream' \in Levels /\ settled' \in BOOLEAN
    BY <1>6, <1>v DEF WriteStream
  <2> QED
    BY <2>1, <1>6, <1>3, <1>4 DEF WriteStream, Types, workVars
<1>7. CASE CheckOld(t)
  <2>1. todo' \in [Threads -> Seq(Access)] /\ settled' \in BOOLEAN
    BY <1>7, <1>3, <1>1, SkipAccess DEF CheckOld, Types
  <2> QED
    BY <2>1, <1>7 DEF CheckOld, Types, workVars
<1>8. CASE WriteChip(t)
  <2>1. chip' \in Chip /\ chip'.ctrl = chip.ctrl
    <3>1. CASE Now(t)[1] = "page" /\ chip' = OnPage(Now(t)[2])
      BY <3>1, <1>v, OnPageType
    <3>2. CASE Now(t)[1] \in Channels /\ chip' = WithVolume(Now(t)[1], Now(t)[2])
      <4>1. Now(t)[2] \in Levels
        BY <3>2, <1>v DEF Channels
      <4> QED
        BY <4>1, <3>2, WithVolumeType
    <3> QED
      BY <3>1, <3>2, <1>8 DEF WriteChip
  <2> QED
    BY <2>1, <1>8, <1>3, <1>4 DEF WriteChip, Types, workVars
<1>9. CASE SaveVolume(t)
  <2>1. volume' \in Levels /\ settled' \in BOOLEAN
    BY <1>9, <1>v DEF SaveVolume
  <2> QED
    BY <2>1, <1>9, <1>3, <1>4 DEF SaveVolume, Types, workVars
<1>10. CASE WriteTone(t)
  <2>1. tone' \in [treble : Levels, bass : Levels,
                   band_treble : Levels, band_bass : Levels]
    BY <1>10, <1>v DEF WriteTone, Types
  <2> QED
    BY <2>1, <1>10, <1>3 DEF WriteTone, Types, workVars, histVars
<1> QED
  BY <1>5, <1>6, <1>7, <1>8, <1>9, <1>10 DEF Thread

-----------------------------------------------------------------------------
(* The work queue.                                                         *)

Places == {"idle", "recover", "tables", "cleared", "played", "again",
           "cleared2", "final"}

\* Volume and play as one step of amp_start.
LEMMA PlayAtType ==
  ASSUME NEW c \in Chip, NEW v \in Levels, PlayAt(c, v)
  PROVE  chip' \in Chip /\ wq' \in Places
BY AllAtType, EnabledType DEF PlayAt, Places

\* What amp_start does once the chip answers.
LEMMA ProceedType ==
  ASSUME NEW c \in Chip, NEW v \in Levels, Proceed(c, v)
  PROVE  chip' \in Chip /\ wq' \in Places
<1>1. CASE chip' = [c EXCEPT !.page = 0] /\ wq' = "idle"
  BY <1>1 DEF Chip, Places
<1>2. CASE chip' = [c EXCEPT !.page = 0, !.fault = FALSE] /\ wq' = "cleared"
  BY <1>2 DEF Chip, Places
<1>3. CASE PlayAt(c, v)
  BY <1>3, PlayAtType
<1> QED
  BY <1>1, <1>2, <1>3 DEF Proceed

\* What a step of amp_start has to show: the rest is common to all.
LEMMA WorkKeeps ==
  ASSUME Types, TouchAll, UNCHANGED workSame,
         chip' \in Chip, wq' \in Places,
         volume' \in Levels, arg' \in Levels,
         bus' \in BOOLEAN, playing' \in BOOLEAN, due' \in BOOLEAN, settled' \in BOOLEAN
  PROVE  Types'
<1>1. UNCHANGED <<jack, hung, events, hp_prev, stream, tone, todo, old>>
  BY DEF workSame, threadVars
<1>2. clean' \in [Threads -> BOOLEAN]
  BY DEF TouchAll
<1> QED
  BY <1>1, <1>2 DEF Types, Places

\* acm8635_amp_start, from sleep to sleep.
LEMMA AmpStartKeeps == ASSUME Types, AmpStart PROVE Types'
<1>0. /\ chip \in Chip /\ volume \in Levels /\ arg \in Levels
      /\ bus \in BOOLEAN /\ playing \in BOOLEAN /\ due \in BOOLEAN /\ settled \in BOOLEAN
      /\ Types
  BY DEF Types
<1>p. OnPage(0) \in Chip
  BY <1>0, OnPageType
<1>e. /\ Written(Enabled(chip)) \in Chip
      /\ Written([chip EXCEPT !.page = 0, !.fault = FALSE]) \in Chip
      /\ [chip EXCEPT !.page = 0, !.fault = FALSE] \in Chip
      /\ [chip EXCEPT !.page = 0, !.ctrl = "off"] \in Chip
  BY <1>0, EnabledType DEF Written, Chip
<1>1. CASE StartBegin
  <2>1. chip' \in Chip /\ wq' \in Places
    <3>1. CASE Online(bus)
      BY <3>1, <1>1, <1>0, ProceedType DEF StartBegin
    <3>2. CASE ~Online(bus)
      BY <3>2, <1>1, <1>p DEF StartBegin, Places
    <3> QED
      BY <3>1, <3>2
  <2> QED
    BY <2>1, <1>1, <1>0, WorkKeeps DEF StartBegin
<1>2. CASE StartRecovered
  <2>0. bus' \in BOOLEAN
    BY <1>2, <1>0 DEF StartRecovered
  <2>1. chip' \in Chip /\ wq' \in Places /\ arg' \in Levels
    <3>1. CASE Online(bus')
      BY <3>1, <1>2, <1>0, ProceedType DEF StartRecovered
    <3>2. CASE ~Online(bus')
      BY <3>2, <1>2, <1>0, <1>e DEF StartRecovered, Places
    <3> QED
      BY <3>1, <3>2
  <2> QED
    BY <2>0, <2>1, <1>2, <1>0, WorkKeeps DEF StartRecovered
<1>3. CASE StartTables
  <2>0. settled' \in BOOLEAN
    BY <1>3, <1>0 DEF StartTables
  <2>1. chip' \in Chip /\ wq' \in Places /\ volume' \in Levels
    <3>1. CASE bus
      <4>1. [AllAt(chip, arg) EXCEPT !.ctrl = "play"] \in Chip
        BY <1>0, AllAtType DEF Chip
      <4> QED
        BY <4>1, <3>1, <1>3, <1>0, ProceedType DEF StartTables
    <3>2. CASE ~bus
      BY <3>2, <1>3, <1>0 DEF StartTables, Places
    <3> QED
      BY <3>1, <3>2
  <2> QED
    BY <2>0, <2>1, <1>3, <1>0, WorkKeeps DEF StartTables
<1>4. CASE StartCleared
  <2>1. chip' \in Chip /\ wq' \in Places
    BY <1>4, <1>0, PlayAtType DEF StartCleared
  <2> QED
    BY <2>1, <1>4, <1>0, WorkKeeps DEF StartCleared
<1>5. CASE StartPlayed
  <2>1. chip' \in Chip /\ wq' \in Places
    BY <1>5, <1>e, <1>p DEF StartPlayed, Places
  <2>2. playing' \in BOOLEAN
    BY <1>5 DEF StartPlayed
  <2> QED
    BY <2>1, <2>2, <1>5, <1>0, WorkKeeps DEF StartPlayed
<1>6. CASE StartAgain
  <2>1. chip' \in Chip /\ wq' \in Places
    BY <1>6, <1>e DEF StartAgain, Places
  <2> QED
    BY <2>1, <1>6, <1>0, WorkKeeps DEF StartAgain
<1>7. CASE StartCleared2
  <2>1. chip' \in Chip /\ wq' \in Places
    BY <1>7, <1>e DEF StartCleared2, Places
  <2> QED
    BY <2>1, <1>7, <1>0, WorkKeeps DEF StartCleared2
<1>8. CASE StartFinal
  <2>1. chip' \in Chip /\ wq' \in Places
    BY <1>8, <1>p DEF StartFinal, Places
  <2> QED
    BY <2>1, <1>8, <1>0, WorkKeeps DEF StartFinal
<1> QED
  BY <1>1, <1>2, <1>3, <1>4, <1>5, <1>6, <1>7, <1>8 DEF AmpStart

\* The headphone handler writes what the jack says.
LEMMA HpDetectKeeps == ASSUME Types, HpDetect PROVE Types'
<1>1. chip' \in Chip
  BY DEF HpDetect, Written, Types, Chip
<1>2. /\ hp_prev' \in BOOLEAN /\ settled' \in BOOLEAN
      /\ clean' \in [Threads -> BOOLEAN]
  BY DEF HpDetect, Types, TouchAll
<1>3. UNCHANGED <<bus, hung, volume, jack, events, stream, tone, todo, old,
                  playing, due, wq, arg>>
  BY DEF HpDetect, threadVars
<1> QED
  BY <1>1, <1>2, <1>3 DEF Types

\* The user and the hardware.
LEMMA OutsideKeeps ==
  ASSUME Types,
         ScheduleStart \/ StopPlayback \/ PlugOrUnplug \/ ChipFault \/ ChipReset \/ BusFails
  PROVE  Types'
<1>1. Event => events' \in 0..MaxEvents
  BY AudioAssumption DEF Event, Types
<1> USE DEF Types, threadVars, workVars, histVars
<1>2. CASE ScheduleStart
  BY <1>2, <1>1 DEF ScheduleStart
<1>3. CASE StopPlayback
  BY <1>3, <1>1 DEF StopPlayback
<1>4. CASE PlugOrUnplug
  BY <1>4, <1>1 DEF PlugOrUnplug
<1>5. CASE ChipFault
  <2>1. chip' \in Chip /\ chip'.ctrl = chip.ctrl
    BY <1>5 DEF ChipFault, Chip
  <2> QED
    BY <2>1, <1>5, <1>1 DEF ChipFault
<1>6. CASE ChipReset
  <2>1. chip' \in Chip /\ chip'.ctrl = "off"
    BY <1>6, AudioAssumption DEF ChipReset, Chip
  <2>2. settled' \in BOOLEAN /\ clean' \in [Threads -> BOOLEAN]
    BY <1>6 DEF ChipReset, TouchAll
  <2> QED
    BY <2>1, <2>2, <1>6, <1>1 DEF ChipReset
<1>7. CASE BusFails
  <2>1. bus' \in BOOLEAN /\ hung' \in BOOLEAN /\ clean' \in [Threads -> BOOLEAN]
    BY <1>7 DEF BusFails, TouchAll
  <2> QED
    BY <2>1, <1>7, <1>1 DEF BusFails
<1> QED
  BY <1>2, <1>3, <1>4, <1>5, <1>6, <1>7

-----------------------------------------------------------------------------
\* Every step keeps the invariant.
LEMMA TypesInductive == Types /\ [AudioNext]_audioVars => Types'
<1> SUFFICES ASSUME Types, [AudioNext]_audioVars PROVE Types'
  OBVIOUS
<1>1. ASSUME NEW v \in Levels, PhoneVolume(v) PROVE Types'
  BY <1>1, VolumeCallType, CallKeeps DEF PhoneVolume, Threads
<1>2. CASE ReapplyEq
  <2>1. tone.treble \in Levels /\ tone.bass \in Levels
    BY DEF Types
  <2> QED
    BY <2>1, <1>2, ToneCallType, CallKeeps DEF ReapplyEq, Threads
<1>3. ASSUME NEW f \in Frames, SetFrame(f) PROVE Types'
  <2>1. f[1] \in Levels /\ f[2] \in Levels /\ f[3] \in Levels
    BY AudioAssumption
  <2>2. VolumeCall(f[1]) \o ToneCall(f[2], f[3]) \in Seq(Access)
    BY <2>1, VolumeCallType, ToneCallType, ConcatAccess
  <2> QED
    BY <2>2, <1>3, CallKeeps DEF SetFrame, Threads
<1>4. ASSUME NEW t \in Threads, Thread(t) PROVE Types'
  BY <1>4, ThreadKeeps
<1>5. CASE AmpStart
  BY <1>5, AmpStartKeeps
<1>6. CASE HpDetect
  BY <1>6, HpDetectKeeps
<1>7. CASE ScheduleStart \/ StopPlayback \/ PlugOrUnplug \/ ChipFault \/ ChipReset \/ BusFails
  BY <1>7, OutsideKeeps
<1>8. CASE UNCHANGED audioVars
  BY <1>8 DEF Types, audioVars, threadVars, workVars, histVars
<1> QED
  BY <1>1, <1>2, <1>3, <1>4, <1>5, <1>6, <1>7, <1>8 DEF AudioNext

\* So it always holds.
LEMMA TypesAlways == AudioSpec => []Types
BY TypesInit, TypesInductive, PTL DEF AudioSpec

\* The state of amplifier, volume calls and work keeps its type; in particular no
\* thread ever writes a page number into a volume or a level into the page
\* register (acm8635_set_volume).
THEOREM AudioTypeCorrect == AudioSpec => []AudioTypeOK
<1>1. Types => AudioTypeOK
  BY TypesImplyTypeOK
<1> QED
  BY <1>1, TypesAlways, PTL

-----------------------------------------------------------------------------
(* The tone.  ToneFollowsSettings speaks of the end of the calls; what is  *)
(* needed on the way is that each call ends in the four writes of          *)
(* py32_apply_treble_bass or makes none of them, and which of them have    *)
(* been made.                                                              *)

ToneKinds == {"treble", "bass", "band_bass", "band_treble"}

NoTone(s) == \A i \in 1..Len(s) : s[i][1] \notin ToneKinds

\* s ends in what is left of ToneCall(x, y).
EndsInTone(s, x, y) ==
    \A i \in 1..Len(s) :
        /\ Len(s) - i = 3 => s[i] = <<"treble", x>>
        /\ Len(s) - i = 2 => s[i] = <<"bass", y>>
        /\ Len(s) - i = 1 => s[i] = <<"band_bass", y>>
        /\ Len(s) - i = 0 => s[i] = <<"band_treble", x>>
        /\ s[i][1] \in ToneKinds => Len(s) - i <= 3

\* The rest of system_volume_set may be skipped, the tone may not.
SkipsToTone(s) == \A i \in 1..Len(s) : s[i][1] = "check" => Len(s) - i = 11

\* The application thread only ever writes the tone that is set.
AppTone ==
    \/ NoTone(todo["app"])
    \/ EndsInTone(todo["app"], tone.treble, tone.bass)

\* py32_uart_thread has set x and y, or is going to.
Py32Tone(x, y) ==
    /\ EndsInTone(todo["py32"], x, y)
    /\ Len(todo["py32"]) <= 3 => tone.treble = x
    /\ Len(todo["py32"]) <= 2 => tone.bass = y

\* The bands lag behind only while py32_uart_thread is going to write them.
Bands ==
    /\ Len(todo["py32"]) = 0 => tone.band_treble = tone.treble
    /\ Len(todo["py32"]) <= 1 => tone.band_bass = tone.bass

ToneInv ==
    /\ AppTone
    /\ SkipsToTone(todo["py32"])
    /\ \E x, y \in Levels : Py32Tone(x, y)
    /\ Bands

\* u is s without its first m elements.
Without(s, u, m) ==
    /\ Len(u) = Len(s) - m
    /\ \A i \in 1..Len(u) : u[i] = s[i + m]

\* What is said of a call survives its progress.
LEMMA DropFirst ==
  ASSUME NEW s \in Seq(Access), NEW u \in Seq(Access), NEW m \in 0..Len(s),
         Without(s, u, m), NEW x, NEW y
  PROVE  /\ NoTone(s) => NoTone(u)
         /\ EndsInTone(s, x, y) => EndsInTone(u, x, y)
         /\ SkipsToTone(s) => SkipsToTone(u)
<1>1. Len(s) \in Nat /\ Len(u) \in Nat
  OBVIOUS
<1>2. ASSUME NEW i \in 1..Len(u)
      PROVE  i + m \in 1..Len(s) /\ Len(s) - (i + m) = Len(u) - i /\ u[i] = s[i + m]
  BY <1>1 DEF Without
<1>3. NoTone(s) => NoTone(u)
  BY <1>2 DEF NoTone
<1>4. EndsInTone(s, x, y) => EndsInTone(u, x, y)
  BY <1>2 DEF EndsInTone
<1>5. SkipsToTone(s) => SkipsToTone(u)
  BY <1>2 DEF SkipsToTone
<1> QED
  BY <1>3, <1>4, <1>5

\* One access done.
LEMMA TailDrops ==
  ASSUME NEW s \in Seq(Access), s # <<>>
  PROVE  /\ 1 \in 0..Len(s) /\ Tail(s) \in Seq(Access)
         /\ Without(s, Tail(s), 1)
BY DEF Without

\* The length after the skip.
LEMMA EightLess ==
  ASSUME NEW n \in Nat, n >= 8, NEW k, k = IF 9 <= n THEN n - 9 + 1 ELSE 0
  PROVE  k = n - 8
OBVIOUS

\* The amplifier writes skipped (CheckOld).
LEMMA SkipDrops ==
  ASSUME NEW s \in Seq(Access)
  PROVE  \E m \in 0..Len(s) :
            /\ Without(s, SubSeq(s, 9, Len(s)), m)
            /\ Len(s) >= 8 => m = 8
<1>1. CASE Len(s) >= 8
  <2>1. 8 \in 0..Len(s)
    BY <1>1
  <2>2. Without(s, SubSeq(s, 9, Len(s)), 8)
    <3>0. /\ Len(s) \in Int /\ 9 \in Int
          /\ \A i \in 9..Len(s) : s[i] \in Access
      OBVIOUS
    <3>a. Len(SubSeq(s, 9, Len(s))) = IF 9 <= Len(s) THEN Len(s) - 9 + 1 ELSE 0
      BY ONLY <3>0, SubSeqProperties
    <3>1. Len(SubSeq(s, 9, Len(s))) = Len(s) - 8
      <4>1. Len(s) \in Nat
        OBVIOUS
      <4> QED
        BY ONLY <4>1, <1>1, <3>a, EightLess
    <3>2. ASSUME NEW i \in 1..Len(s) - 8
          PROVE  SubSeq(s, 9, Len(s))[i] = s[i + 8]
      BY <1>1
    <3> QED
      BY <3>1, <3>2 DEF Without
  <2> QED
    BY <2>1, <2>2
<1>2. CASE ~(Len(s) >= 8)
  <2>1. Len(s) \in 0..Len(s)
    OBVIOUS
  <2>2. Without(s, SubSeq(s, 9, Len(s)), Len(s))
    BY <1>2 DEF Without
  <2> QED
    BY <2>1, <2>2, <1>2
<1> QED
  BY <1>1, <1>2

\* A volume call leaves the tone alone.
LEMMA VolumeCallTone ==
  ASSUME NEW v \in Levels PROVE NoTone(VolumeCall(v))
BY DEF NoTone, VolumeCall, ToneKinds

\* A tone call is nothing but the four writes.
LEMMA ToneCallTone ==
  ASSUME NEW x \in Levels, NEW y \in Levels PROVE EndsInTone(ToneCall(x, y), x, y)
BY DEF EndsInTone, ToneCall

\* A set frame ends in them, and skips to them.
LEMMA SetCallTone ==
  ASSUME NEW v \in Levels, NEW x \in Levels, NEW y \in Levels
  PROVE  LET s == VolumeCall(v) \o ToneCall(x, y)
         IN  EndsInTone(s, x, y) /\ SkipsToTone(s) /\ Len(s) = 14
BY DEF EndsInTone, SkipsToTone, ToneCall, VolumeCall, ToneKinds

\* All bands are at their setting after boot.
LEMMA ToneInit == AudioInit => ToneInv
<1> SUFFICES ASSUME AudioInit PROVE ToneInv
  OBVIOUS
<1>1. todo["app"] = <<>> /\ todo["py32"] = <<>> /\ InitVolume \in Levels
  BY AudioAssumption DEF AudioInit, Threads
<1>2. /\ tone.treble = InitVolume /\ tone.bass = InitVolume
      /\ tone.band_treble = InitVolume /\ tone.band_bass = InitVolume
  BY DEF AudioInit
<1>3. AppTone /\ SkipsToTone(todo["py32"]) /\ Bands
  BY <1>1, <1>2 DEF AppTone, NoTone, SkipsToTone, Bands
<1>4. Py32Tone(InitVolume, InitVolume)
  BY <1>1, <1>2 DEF Py32Tone, EndsInTone
<1> QED
  BY <1>1, <1>3, <1>4 DEF ToneInv

\* Who touches neither tone nor calls keeps the invariant.
LEMMA ToneAlone ==
  ASSUME ToneInv, UNCHANGED <<tone, todo>> PROVE ToneInv'
BY DEF ToneInv, AppTone, Py32Tone, Bands

\* A new call.
LEMMA ToneCalls ==
  ASSUME Types, ToneInv,
         \/ \E v \in Levels : PhoneVolume(v)
         \/ ReapplyEq
         \/ \E f \in Frames : SetFrame(f)
  PROVE  ToneInv'
<1>1. ASSUME NEW v \in Levels, PhoneVolume(v) PROVE ToneInv'
  <2>1. todo'["app"] = VolumeCall(v) /\ UNCHANGED <<tone, todo["py32"]>>
    BY <1>1 DEF PhoneVolume, Call, Types, Threads
  <2> QED
    BY <2>1, VolumeCallTone DEF ToneInv, AppTone, Py32Tone, Bands
<1>2. CASE ReapplyEq
  <2>1. todo'["app"] = ToneCall(tone.treble, tone.bass) /\ UNCHANGED <<tone, todo["py32"]>>
    BY <1>2 DEF ReapplyEq, Call, Types, Threads
  <2>2. EndsInTone(ToneCall(tone.treble, tone.bass), tone.treble, tone.bass)
    BY ToneCallTone DEF Types
  <2> QED
    BY <2>1, <2>2 DEF ToneInv, AppTone, Py32Tone, Bands
<1>3. ASSUME NEW f \in Frames, SetFrame(f) PROVE ToneInv'
  <2>0. f[1] \in Levels /\ f[2] \in Levels /\ f[3] \in Levels
    BY AudioAssumption
  <2>1. todo'["py32"] = VolumeCall(f[1]) \o ToneCall(f[2], f[3])
        /\ UNCHANGED <<tone, todo["app"]>>
    BY <1>3 DEF SetFrame, Call, Types, Threads
  <2>2. /\ EndsInTone(todo'["py32"], f[2], f[3]) /\ SkipsToTone(todo'["py32"])
        /\ Len(todo'["py32"]) = 14
    <3>1. LET s == VolumeCall(f[1]) \o ToneCall(f[2], f[3])
          IN  EndsInTone(s, f[2], f[3]) /\ SkipsToTone(s) /\ Len(s) = 14
      BY <2>0, SetCallTone
    <3> QED
      BY <3>1, <2>1, Zenon
  <2>3. AppTone' /\ Bands' /\ SkipsToTone(todo["py32"])'
    BY <2>1, <2>2 DEF ToneInv, AppTone, Bands
  <2>4. Py32Tone(f[2], f[3])'
    BY <2>2 DEF Py32Tone
  <2> QED
    BY <2>0, <2>3, <2>4 DEF ToneInv
<1> QED
  BY <1>1, <1>2, <1>3

\* A thread goes on in its call; the other one's is what it was.
LEMMA CallGoesOn ==
  ASSUME Types, NEW t \in Threads, Thread(t)
  PROVE  /\ todo[t] \in Seq(Access) /\ todo[t] # <<>>
         /\ todo'[t] \in Seq(Access)
         /\ \A u \in Threads \ {t} : todo'[u] = todo[u]
         /\ \/ Without(todo[t], todo'[t], 1)
            \/ /\ todo[t][1][1] = "check" /\ UNCHANGED tone
               /\ \E m \in 0..Len(todo[t]) :
                    /\ Without(todo[t], todo'[t], m)
                    /\ Len(todo[t]) >= 8 => m = 8
         /\ t = "py32" => todo["app"] = <<>>
<1>1. /\ todo[t] # <<>> /\ todo[t] \in Seq(Access)
      /\ t = "py32" => todo["app"] = <<>>
  BY DEF Types, Thread, ReadOld, WriteStream, CheckOld, WriteChip, SaveVolume,
         WriteTone, Runs, Idle
<1>2. CASE Done(t)
  <2>1. todo'[t] = Tail(todo[t]) /\ \A u \in Threads \ {t} : todo'[u] = todo[u]
    BY <1>2 DEF Done, Types
  <2> QED
    BY <2>1, <1>1, TailDrops
<1>3. CASE CheckOld(t) /\ todo' = [todo EXCEPT ![t] = SubSeq(@, 9, Len(@))]
  <2>1. /\ todo'[t] = SubSeq(todo[t], 9, Len(todo[t]))
        /\ \A u \in Threads \ {t} : todo'[u] = todo[u]
    BY <1>3 DEF Types
  <2>2. todo[t][1][1] = "check" /\ UNCHANGED tone
    BY <1>1, <1>3 DEF CheckOld, Now
  <2>3. todo'[t] \in Seq(Access)
    BY <2>1, <1>1, SkipAccess
  <2> QED
    BY <2>1, <2>2, <2>3, <1>1, SkipDrops
<1> QED
  BY <1>2, <1>3 DEF Thread, ReadOld, WriteStream, CheckOld, WriteChip, SaveVolume,
         WriteTone

\* Which access is a write of the tone, and what it writes.
LEMMA ToneWrites ==
  ASSUME Types, NEW t \in Threads, Thread(t)
  PROVE  \/ /\ todo[t][1][1] \notin ToneKinds
            /\ UNCHANGED tone
         \/ /\ todo[t][1][1] = "treble"
            /\ tone' = [tone EXCEPT !.treble = todo[t][1][2]]
         \/ /\ todo[t][1][1] = "bass"
            /\ tone' = [tone EXCEPT !.bass = todo[t][1][2]]
         \/ /\ todo[t][1][1] = "band_bass"
            /\ tone' = [tone EXCEPT !.band_bass = todo[t][1][2]]
         \/ /\ todo[t][1][1] = "band_treble"
            /\ tone' = [tone EXCEPT !.band_treble = todo[t][1][2]]
<1>1. Now(t) = todo[t][1]
  BY CallGoesOn DEF Now
<1>2. CASE WriteTone(t)
  BY <1>1, <1>2 DEF WriteTone
<1>3. CASE ~WriteTone(t)
  <2>1. UNCHANGED tone
    BY <1>3 DEF Thread, ReadOld, WriteStream, CheckOld, WriteChip, SaveVolume
  <2>2. Now(t)[1] \in {"old", "stream", "check", "page", "save"} \cup Channels
    BY <1>3 DEF Thread, ReadOld, WriteStream, CheckOld, WriteChip, SaveVolume
  <2> QED
    BY <2>1, <2>2, <1>1 DEF ToneKinds, Channels
<1> QED
  BY <1>2, <1>3

\* The head of what is left of a tone call says how much is left.
LEMMA HeadOfTone ==
  ASSUME NEW s \in Seq(Access), s # <<>>, NEW x, NEW y, EndsInTone(s, x, y)
  PROVE  \/ Len(s) > 4 /\ s[1][1] \notin ToneKinds
         \/ Len(s) = 4 /\ s[1] = <<"treble", x>>
         \/ Len(s) = 3 /\ s[1] = <<"bass", y>>
         \/ Len(s) = 2 /\ s[1] = <<"band_bass", y>>
         \/ Len(s) = 1 /\ s[1] = <<"band_treble", x>>
<1>1. 1 \in 1..Len(s) /\ Len(s) \in Nat
  OBVIOUS
<1>2. /\ Len(s) - 1 = 3 => s[1] = <<"treble", x>>
      /\ Len(s) - 1 = 2 => s[1] = <<"bass", y>>
      /\ Len(s) - 1 = 1 => s[1] = <<"band_bass", y>>
      /\ Len(s) - 1 = 0 => s[1] = <<"band_treble", x>>
      /\ s[1][1] \in ToneKinds => Len(s) - 1 <= 3
  BY <1>1 DEF EndsInTone
<1>3. PICK n \in Nat : n = Len(s) /\ n >= 1
  BY <1>1
<1>4. n > 4 \/ n = 4 \/ n = 3 \/ n = 2 \/ n = 1
  BY <1>3
<1> QED
  BY <1>2, <1>3, <1>4

\* The application thread: its writes repeat what is set.
LEMMA ToneApp ==
  ASSUME Types, ToneInv, Thread("app") PROVE ToneInv'
<1> DEFINE s == todo["app"]
<1>0. "app" \in Threads /\ "py32" \in Threads \ {"app"}
  BY DEF Threads
<1>1. s \in Seq(Access) /\ s # <<>> /\ todo'["app"] \in Seq(Access)
      /\ todo'["py32"] = todo["py32"]
  BY <1>0, CallGoesOn
<1>2. PICK m \in 0..Len(s) : Without(s, todo'["app"], m)
  BY <1>0, <1>1, CallGoesOn, TailDrops
<1>3. /\ tone'.treble = tone.treble /\ tone'.bass = tone.bass
      /\ tone'.band_treble \in {tone.band_treble, tone.treble}
      /\ tone'.band_bass \in {tone.band_bass, tone.bass}
  <2>1. CASE NoTone(s)
    <3>1. s[1][1] \notin ToneKinds
      BY <2>1, <1>1 DEF NoTone
    <3>2. UNCHANGED tone
      BY <3>1, <1>0, ToneWrites DEF ToneKinds
    <3> QED
      BY <3>2
  <2>2. CASE EndsInTone(s, tone.treble, tone.bass)
    BY <2>2, <1>0, <1>1, HeadOfTone, ToneWrites DEF Types, ToneKinds
  <2> QED
    BY <2>1, <2>2 DEF ToneInv, AppTone
<1>4. AppTone'
  BY <1>1, <1>2, <1>3, DropFirst DEF ToneInv, AppTone
<1>5. SkipsToTone(todo["py32"])' /\ Bands'
  BY <1>1, <1>3 DEF ToneInv, Bands
<1>6. \E x, y \in Levels : Py32Tone(x, y)'
  BY <1>1, <1>3 DEF ToneInv, Py32Tone
<1> QED
  BY <1>4, <1>5, <1>6 DEF ToneInv

\* py32_uart_thread: settings first, then the bands.
LEMMA TonePy32 ==
  ASSUME Types, ToneInv, Thread("py32") PROVE ToneInv'
<1> DEFINE s == todo["py32"]
           u == todo'["py32"]
<1>0. "py32" \in Threads /\ "app" \in Threads \ {"py32"}
  BY DEF Threads
<1>1. s \in Seq(Access) /\ s # <<>> /\ u \in Seq(Access) /\ todo'["app"] = <<>>
  BY <1>0, CallGoesOn
<1>2. AppTone'
  BY <1>1 DEF AppTone, NoTone
<1>3. PICK x \in Levels, y \in Levels : Py32Tone(x, y)
  BY DEF ToneInv
<1>4. PICK m \in 0..Len(s) :
        /\ Without(s, u, m)
        /\ \/ m = 1
           \/ s[1][1] = "check" /\ UNCHANGED tone /\ (Len(s) >= 8 => m = 8)
  BY <1>0, <1>1, CallGoesOn, TailDrops
<1>5. EndsInTone(u, x, y) /\ SkipsToTone(u)
  BY <1>1, <1>3, <1>4, DropFirst DEF Py32Tone, ToneInv
<1>6. Len(s) \in Nat /\ Len(u) = Len(s) - m
  BY <1>1, <1>4 DEF Without
<1>7. CASE m # 1
  <2>1. s[1][1] = "check" /\ UNCHANGED tone /\ (Len(s) >= 8 => m = 8)
    BY <1>4, <1>7
  <2>0. 1 \in 1..Len(s)
    BY <1>1
  <2>2. Len(s) - 1 = 11
    BY <2>0, <2>1 DEF ToneInv, SkipsToTone
  <2>3. Len(s) = 12
    BY <2>2, <1>6
  <2>4. Len(u) = 4
    BY <2>1, <2>3, <1>6
  <2> QED
    BY <2>1, <2>4, <1>2, <1>3, <1>5 DEF ToneInv, Py32Tone, Bands
<1>8. CASE m = 1
  <2>1. Len(u) = Len(s) - 1
    BY <1>6, <1>8
  <2>2. /\ Len(s) <= 3 => tone.treble = x
        /\ Len(s) <= 2 => tone.bass = y
        /\ Len(s) <= 1 => tone.band_bass = tone.bass
        /\ EndsInTone(s, x, y)
    BY <1>3 DEF Py32Tone, ToneInv, Bands
  <2>3. /\ Len(u) <= 3 => tone'.treble = x
        /\ Len(u) <= 2 => tone'.bass = y
        /\ Len(u) <= 1 => tone'.band_bass = y
        /\ Len(u) = 0 => tone'.band_treble = x
    <3>0. PICK n \in Nat, k \in Nat : n = Len(s) /\ k = Len(u) /\ k = n - 1
      BY <2>1, <1>1, <1>6
    <3>1. \/ n > 4
          \/ n = 4 /\ s[1] = <<"treble", x>>
          \/ n = 3 /\ s[1] = <<"bass", y>>
          \/ n = 2 /\ s[1] = <<"band_bass", y>>
          \/ n = 1 /\ s[1] = <<"band_treble", x>>
      BY <3>0, <2>2, <1>1, HeadOfTone
    <3>2. /\ s[1] = <<"treble", x>> => tone' = [tone EXCEPT !.treble = x]
          /\ s[1] = <<"bass", y>> => tone' = [tone EXCEPT !.bass = y]
          /\ s[1] = <<"band_bass", y>> => tone' = [tone EXCEPT !.band_bass = y]
          /\ s[1] = <<"band_treble", x>> => tone' = [tone EXCEPT !.band_treble = x]
      BY <1>0, ToneWrites DEF ToneKinds
    <3>3. /\ n <= 3 => tone.treble = x
          /\ n <= 2 => tone.bass = y
          /\ n <= 1 => tone.band_bass = tone.bass
      BY <3>0, <2>2
    <3>4. /\ k <= 3 => tone'.treble = x
          /\ k <= 2 => tone'.bass = y
          /\ k <= 1 => tone'.band_bass = y
          /\ k = 0 => tone'.band_treble = x
      <4>1. CASE n > 4
        <5>1. k > 3
          BY <4>1, <3>0
        <5> QED
          BY <5>1
      <4>0. tone \in [treble : Levels, bass : Levels,
                      band_treble : Levels, band_bass : Levels]
        BY DEF Types
      <4>2. CASE n = 4
        <5>1. tone' = [tone EXCEPT !.treble = x]
          BY <4>2, <3>1, <3>2
        <5>2. k = 3
          BY <4>2, <3>0
        <5>3. tone'.treble = x /\ tone'.bass = tone.bass /\ tone'.band_bass = tone.band_bass
          BY <5>1, <4>0
        <5> QED
          BY <5>2, <5>3, <4>2, <3>3
      <4>3. CASE n = 3
        <5>1. tone' = [tone EXCEPT !.bass = y]
          BY <4>3, <3>1, <3>2
        <5>2. k = 2
          BY <4>3, <3>0
        <5>3. tone'.bass = y /\ tone'.treble = tone.treble /\ tone'.band_bass = tone.band_bass
          BY <5>1, <4>0
        <5> QED
          BY <5>2, <5>3, <4>3, <3>3
      <4>4. CASE n = 2
        <5>1. tone' = [tone EXCEPT !.band_bass = y]
          BY <4>4, <3>1, <3>2
        <5>2. k = 1
          BY <4>4, <3>0
        <5>3. tone'.band_bass = y /\ tone'.treble = tone.treble /\ tone'.bass = tone.bass
          BY <5>1, <4>0
        <5> QED
          BY <5>2, <5>3, <4>4, <3>3
      <4>5. CASE n = 1
        <5>1. tone' = [tone EXCEPT !.band_treble = x]
          BY <4>5, <3>1, <3>2
        <5>2. k = 0
          BY <4>5, <3>0
        <5>3. tone'.band_treble = x /\ tone'.treble = tone.treble /\ tone'.bass = tone.bass /\ tone'.band_bass = tone.band_bass
          BY <5>1, <4>0
        <5> QED
          BY <5>2, <5>3, <4>5, <3>3
      <4> QED
        BY <4>1, <4>2, <4>3, <4>4, <4>5, <3>1
    <3> QED
      BY <3>0, <3>4
  <2>4. Len(u) \in Nat
    BY <1>1
  <2>5. Py32Tone(x, y)' /\ Bands'
    BY <2>3, <2>4, <1>5 DEF Py32Tone, Bands
  <2> QED
    BY <2>5, <1>2, <1>3, <1>5 DEF ToneInv
<1> QED
  BY <1>7, <1>8

\* Every step keeps the tone invariant.
LEMMA ToneInductive == Types /\ ToneInv /\ [AudioNext]_audioVars => ToneInv'
<1> SUFFICES ASSUME Types, ToneInv, [AudioNext]_audioVars PROVE ToneInv'
  OBVIOUS
<1>1. CASE \/ \E v \in Levels : PhoneVolume(v)
           \/ ReapplyEq
           \/ \E f \in Frames : SetFrame(f)
  BY <1>1, ToneCalls
<1>2. ASSUME NEW t \in Threads, Thread(t) PROVE ToneInv'
  BY <1>2, ToneApp, TonePy32 DEF Threads
<1>3. CASE AmpStart \/ HpDetect
  <2>1. UNCHANGED <<tone, todo>>
    BY <1>3 DEF AmpStart, StartBegin, StartRecovered, StartTables, StartCleared,
           StartPlayed, StartAgain, StartCleared2, StartFinal, HpDetect, workSame,
           threadVars
  <2> QED
    BY <2>1, ToneAlone
<1>4. CASE \/ ScheduleStart \/ StopPlayback \/ PlugOrUnplug
           \/ ChipFault \/ ChipReset \/ BusFails \/ UNCHANGED audioVars
  <2>1. UNCHANGED <<tone, todo>>
    BY <1>4 DEF ScheduleStart, StopPlayback, PlugOrUnplug, ChipFault, ChipReset,
           BusFails, audioVars, threadVars
  <2> QED
    BY <2>1, ToneAlone
<1> QED
  BY <1>1, <1>2, <1>3, <1>4 DEF AudioNext

\* Once both threads are through, the equalizer has the tone of py32_state, wherever
\* in py32_apply_treble_bass of the py32 thread system_app_py32_reapply_eq of the
\* application thread came between.
THEOREM ToneIsTheSettings == AudioSpec => []ToneFollowsSettings
<1>1. ToneInv => ToneFollowsSettings
  BY DEF ToneInv, Bands, ToneFollowsSettings, Idle
<1>2. AudioSpec => []ToneInv
  BY ToneInit, ToneInductive, TypesAlways, PTL DEF AudioSpec
<1> QED
  BY <1>1, <1>2, PTL

-----------------------------------------------------------------------------
(* The volume.  VolumeInForce speaks of settled changes only; what makes a *)
(* change settle is how far an undisturbed call has got: what it has       *)
(* written so far is still in place.                                       *)

OnlyTone(s) == \A i \in 1..Len(s) : s[i][1] \in ToneKinds

\* The next access of s is the k-th one of VolumeCall(v); tone follows.
At(s, k, v) ==
    /\ Len(s) >= 11 - k
    /\ \A i \in 1..Len(s) : IF i <= 11 - k THEN s[i] = VolumeCall(v)[k + i - 1]
                                           ELSE s[i][1] \in ToneKinds

\* What a call that nobody disturbed has achieved when its k-th access is next.
Progress(k, v) ==
    /\ bus
    /\ k >= 3 => stream = v
    /\ k \in {5, 7} => chip.page = 4
    /\ k = 9 => chip.page = 12
    /\ k >= 6 => chip.vol["left"] = v
    /\ k >= 8 => chip.vol["right"] = v
    /\ k = 10 => chip.vol["sub"] = v

\* A thread in the middle of acm8635_set_volume has unsettled the volume.
InVolume(t, k, v) ==
    /\ At(todo[t], k, v)
    /\ clean[t] /\ k > 1 => Progress(k, v)
    /\ settled => k <= 3

CallState(t) ==
    \/ OnlyTone(todo[t])
    \/ \E k \in 1..10, v \in Levels : InVolume(t, k, v)

\* The chip has the volume of the stream, or has lost its registers and not been
\* started since.
ChipState ==
    \/ \A c \in Channels : chip.vol[c] = stream
    \/ chip.ctrl = "off" /\ wq \in {"idle", "recover", "tables"}

SettledState == settled => volume = stream /\ ChipState

VolInv == (\A t \in Threads : CallState(t)) /\ SettledState

\* The accesses of system_volume_set.
LEMMA VolumeAccess ==
  ASSUME NEW v
  PROVE  /\ VolumeCall(v)[1] = <<"old", v>> /\ VolumeCall(v)[2] = <<"stream", v>>
         /\ VolumeCall(v)[3] = <<"check", v>> /\ VolumeCall(v)[4] = <<"page", 4>>
         /\ VolumeCall(v)[5] = <<"left", v>> /\ VolumeCall(v)[6] = <<"page", 4>>
         /\ VolumeCall(v)[7] = <<"right", v>> /\ VolumeCall(v)[8] = <<"page", 12>>
         /\ VolumeCall(v)[9] = <<"sub", v>> /\ VolumeCall(v)[10] = <<"save", v>>
         /\ Len(VolumeCall(v)) = 10
BY DEF VolumeCall

\* The next access of a call in the middle of system_volume_set.
LEMMA AtHead ==
  ASSUME NEW s \in Seq(Access), NEW k \in 1..10, NEW v, At(s, k, v)
  PROVE  s # <<>> /\ Head(s) = VolumeCall(v)[k]
<1>1. PICK n \in Nat : n = Len(s)
  OBVIOUS
<1>2. 1 \in 1..Len(s) /\ 1 <= 11 - k /\ k + 1 - 1 = k
  BY <1>1 DEF At
<1>3. s[1] = VolumeCall(v)[k]
  BY <1>2 DEF At
<1>4. s # <<>> /\ Head(s) = s[1]
  BY <1>2
<1> QED
  BY <1>3, <1>4

\* The next access is made.
LEMMA AtNext ==
  ASSUME NEW s \in Seq(Access), NEW u \in Seq(Access), Without(s, u, 1),
         NEW k \in 1..10, NEW v, At(s, k, v)
  PROVE  IF k = 10 THEN OnlyTone(u) ELSE At(u, k + 1, v)
<1>1. PICK n \in Nat, m \in Nat : n = Len(s) /\ m = Len(u) /\ m = n - 1
  BY DEF Without
<1>2. n >= 11 - k
  BY <1>1 DEF At
<1>3. ASSUME NEW i \in 1..Len(u)
      PROVE  /\ u[i] = s[i + 1] /\ i + 1 \in 1..Len(s)
             /\ k + (i + 1) - 1 = (k + 1) + i - 1
             /\ i + 1 <= 11 - k <=> i <= 11 - (k + 1)
  BY <1>1 DEF Without
<1>4. CASE k = 10
  <2>1. ASSUME NEW i \in 1..Len(u) PROVE u[i][1] \in ToneKinds
    <3>1. ~(i + 1 <= 11 - k)
      BY <1>4
    <3> QED
      BY <1>3, <3>1 DEF At
  <2> QED
    BY <1>4, <2>1 DEF OnlyTone
<1>5. CASE k # 10
  <2>1. Len(u) >= 11 - (k + 1)
    BY <1>1, <1>2, <1>5
  <2>2. ASSUME NEW i \in 1..Len(u)
        PROVE  IF i <= 11 - (k + 1) THEN u[i] = VolumeCall(v)[(k + 1) + i - 1]
                                    ELSE u[i][1] \in ToneKinds
    BY <1>3 DEF At
  <2> QED
    BY <1>5, <2>1, <2>2 DEF At
<1> QED
  BY <1>4, <1>5

\* The rest of system_volume_set is skipped.
LEMMA AtSkip ==
  ASSUME NEW s \in Seq(Access), NEW u \in Seq(Access), Without(s, u, 8),
         NEW v, At(s, 3, v)
  PROVE  OnlyTone(u)
<1>1. PICK n \in Nat, m \in Nat : n = Len(s) /\ m = Len(u) /\ m = n - 8
  BY DEF Without
<1>2. ASSUME NEW i \in 1..Len(u)
      PROVE  u[i] = s[i + 8] /\ i + 8 \in 1..Len(s) /\ ~(i + 8 <= 11 - 3)
  BY <1>1 DEF Without
<1> QED
  BY <1>2 DEF At, OnlyTone

\* Tone is written, and tone is left.
LEMMA ToneNext ==
  ASSUME NEW s \in Seq(Access), NEW u \in Seq(Access), s # <<>>, OnlyTone(s)
  PROVE  /\ Head(s)[1] \in ToneKinds
         /\ Without(s, u, 1) => OnlyTone(u)
<1>1. 1 \in 1..Len(s) /\ Head(s) = s[1]
  OBVIOUS
<1>2. PICK n \in Nat, m \in Nat : n = Len(s) /\ m = Len(u)
  OBVIOUS
<1>3. Without(s, u, 1) => \A i \in 1..Len(u) : i + 1 \in 1..Len(s) /\ u[i] = s[i + 1]
  BY <1>2 DEF Without
<1> QED
  BY <1>1, <1>3 DEF OnlyTone

-----------------------------------------------------------------------------
(* Steps of others.                                                        *)

\* The calls a thread makes.
LEMMA NewCallState ==
  ASSUME NEW v \in Levels, NEW x, NEW y
  PROVE  /\ At(VolumeCall(v), 1, v)
         /\ At(VolumeCall(v) \o ToneCall(x, y), 1, v)
         /\ OnlyTone(ToneCall(x, y))
<1>1. At(VolumeCall(v), 1, v)
  <2>1. Len(VolumeCall(v)) = 10
    BY DEF VolumeCall
  <2>2. \A i \in 1..10 : i <= 11 - 1 /\ 1 + i - 1 = i
    OBVIOUS
  <2> QED
    BY <2>1, <2>2 DEF At
<1>2. OnlyTone(ToneCall(x, y))
  BY DEF OnlyTone, ToneCall, ToneKinds
<1>3. At(VolumeCall(v) \o ToneCall(x, y), 1, v)
  BY DEF At, VolumeCall, ToneCall, ToneKinds
<1> QED
  BY <1>1, <1>2, <1>3

\* In the middle of system_volume_set from the check on, the model's MidVolume.
LEMMA MidIsMid ==
  ASSUME Types, NEW t \in Threads, NEW k \in 1..10, NEW v, At(todo[t], k, v), k > 2
  PROVE  MidVolume(t)
<1>1. todo[t] # <<>> /\ Now(t) = VolumeCall(v)[k]
  BY AtHead DEF Types, Now
<1>2. k \in {3, 4, 5, 6, 7, 8, 9, 10}
  OBVIOUS
<1> QED
  BY <1>1, <1>2, VolumeAccess DEF MidVolume, Channels

\* A thread whose turn it is not.
LEMMA OtherCall ==
  ASSUME Types, NEW u \in Threads, CallState(u), todo'[u] = todo[u],
         settled' => settled \/ ~MidVolume(u),
         clean'[u] => /\ clean[u] /\ bus' = bus /\ stream' = stream
                      /\ chip'.page = chip.page /\ chip'.vol = chip.vol
  PROVE  CallState(u)'
<1>1. CASE OnlyTone(todo[u])
  BY <1>1 DEF CallState
<1>2. CASE \E k \in 1..10, v \in Levels : InVolume(u, k, v)
  <2>1. PICK k \in 1..10, v \in Levels : InVolume(u, k, v)
    BY <1>2
  <2>2. At(todo'[u], k, v)
    BY <2>1 DEF InVolume
  <2>3. clean'[u] /\ k > 1 => Progress(k, v)'
    BY <2>1 DEF InVolume, Progress
  <2>4. settled' => k <= 3
    <3>1. k > 2 => MidVolume(u)
      BY <2>1, MidIsMid DEF InVolume
    <3> QED
      BY <2>1, <3>1 DEF InVolume
  <2>5. InVolume(u, k, v)'
    BY <2>2, <2>3, <2>4 DEF InVolume
  <2> QED
    BY <2>5 DEF CallState
<1> QED
  BY <1>1, <1>2 DEF CallState

-----------------------------------------------------------------------------
(* Steps of the thread itself.                                             *)

\* Where the call of a thread is when it makes the access Now(t).
LEMMA WhereInCall ==
  ASSUME Types, NEW t \in Threads, Thread(t), CallState(t)
  PROVE  \/ OnlyTone(todo[t]) /\ Now(t)[1] \in ToneKinds
         \/ \E k \in 1..10, v \in Levels :
              InVolume(t, k, v) /\ Now(t) = VolumeCall(v)[k]
<1>1. todo[t] \in Seq(Access) /\ todo[t] # <<>>
  BY CallGoesOn
<1>2. CASE OnlyTone(todo[t])
  BY <1>1, <1>2, ToneNext DEF Now
<1>3. CASE \E k \in 1..10, v \in Levels : InVolume(t, k, v)
  <2>1. PICK k \in 1..10, v \in Levels : InVolume(t, k, v)
    BY <1>3
  <2>2. Now(t) = VolumeCall(v)[k]
    BY <1>1, <2>1, AtHead DEF InVolume, Now
  <2> QED
    BY <2>1, <2>2
<1> QED
  BY <1>2, <1>3 DEF CallState

\* The kind of an access says where in system_volume_set it is.
LEMMA KindOf ==
  ASSUME NEW k \in 1..10, NEW v
  PROVE  LET a == VolumeCall(v)[k]
         IN  /\ a[1] = "old" => k = 1
             /\ a[1] = "stream" => k = 2 /\ a[2] = v
             /\ a[1] = "check" => k = 3
             /\ a[1] = "page" => (k \in {4, 6} /\ a[2] = 4) \/ (k = 8 /\ a[2] = 12)
             /\ a[1] = "left" => k = 5 /\ a[2] = v
             /\ a[1] = "right" => k = 7 /\ a[2] = v
             /\ a[1] = "sub" => k = 9 /\ a[2] = v
             /\ a[1] = "save" => k = 10 /\ a[2] = v
             /\ a[1] \notin ToneKinds
<1>1. k \in {1, 2, 3, 4, 5, 6, 7, 8, 9, 10}
  OBVIOUS
<1> QED
  BY <1>1, VolumeAccess DEF ToneKinds

\* An access of system_volume_set other than the skip.
LEMMA DoneNext ==
  ASSUME Types, NEW t \in Threads, Thread(t), Done(t), NEW k \in 1..10, NEW v \in Levels,
         InVolume(t, k, v)
  PROVE  IF k = 10 THEN OnlyTone(todo'[t]) ELSE At(todo'[t], k + 1, v)
<1>1. todo[t] \in Seq(Access) /\ todo[t] # <<>> /\ todo'[t] = Tail(todo[t])
  BY CallGoesOn DEF Done, Types
<1>2. Without(todo[t], todo'[t], 1) /\ todo'[t] \in Seq(Access)
  BY <1>1, TailDrops
<1> QED
  BY <1>1, <1>2, AtNext DEF InVolume

\* A call goes on to its next access.
LEMMA GoesOn ==
  ASSUME NEW t \in Threads, NEW k \in 1..9, NEW v \in Levels, At(todo'[t], k + 1, v),
         clean'[t] => Progress(k + 1, v)', settled' => k + 1 <= 3
  PROVE  CallState(t)'
<1>1. k + 1 \in 1..10
  OBVIOUS
<1>2. InVolume(t, k + 1, v)'
  BY DEF InVolume
<1> QED
  BY <1>1, <1>2 DEF CallState

\* The old level is read: the call is clean if the bus works.
LEMMA VolumeReadOld ==
  ASSUME Types, VolInv, NEW t \in Threads, ReadOld(t) PROVE VolInv'
<1>0. Thread(t) /\ CallState(t)
  BY DEF Thread, VolInv
<1>1. PICK k \in 1..10, v \in Levels : InVolume(t, k, v) /\ Now(t) = VolumeCall(v)[k]
  BY <1>0, WhereInCall DEF ReadOld, ToneKinds
<1>2. k = 1
  BY <1>1, KindOf DEF ReadOld
<1>3. At(todo'[t], 1 + 1, v)
  BY <1>0, <1>1, <1>2, DoneNext DEF ReadOld
<1>4. UNCHANGED <<chip, bus, volume, stream, settled, wq>>
  BY DEF ReadOld, workVars
<1>5. clean'[t] => Progress(1 + 1, v)'
  BY <1>4 DEF ReadOld, Types, Progress
<1>6. CallState(t)'
  BY <1>3, <1>5, GoesOn
<1>7. ASSUME NEW u \in Threads \ {t} PROVE CallState(u)'
  <2>1. todo'[u] = todo[u] /\ clean'[u] = clean[u] /\ CallState(u)
    BY <1>0, CallGoesOn DEF ReadOld, Types, VolInv
  <2> QED
    BY <1>4, <2>1, OtherCall
<1>8. SettledState'
  BY <1>4 DEF VolInv, SettledState, ChipState
<1> QED
  BY <1>6, <1>7, <1>8 DEF VolInv

\* The stream volume is written; a new one unsettles the volume.
LEMMA VolumeWriteStream ==
  ASSUME Types, VolInv, NEW t \in Threads, WriteStream(t) PROVE VolInv'
<1>0. Thread(t) /\ CallState(t)
  BY DEF Thread, VolInv
<1>1. PICK k \in 1..10, v \in Levels : InVolume(t, k, v) /\ Now(t) = VolumeCall(v)[k]
  BY <1>0, WhereInCall DEF WriteStream, ToneKinds
<1>2. k = 2 /\ stream' = v
  BY <1>1, KindOf DEF WriteStream
<1>3. At(todo'[t], 2 + 1, v)
  BY <1>0, <1>1, <1>2, DoneNext DEF WriteStream
<1>4. UNCHANGED <<chip, bus, volume, wq>> /\ (settled' => settled /\ stream' = stream)
  BY DEF WriteStream, workVars
<1>5. clean'[t] => Progress(2 + 1, v)'
  <2>1. clean'[t] => clean[t]
    BY DEF WriteStream, Touch
  <2>2. clean[t] => bus
    BY <1>1, <1>2 DEF InVolume, Progress
  <2>3. bus /\ stream' = v => Progress(2 + 1, v)'
    BY <1>4 DEF Progress
  <2> QED
    BY <1>2, <2>1, <2>2, <2>3
<1>6. CallState(t)'
  BY <1>3, <1>5, GoesOn
<1>7. ASSUME NEW u \in Threads \ {t} PROVE CallState(u)'
  <2>1. todo'[u] = todo[u] /\ ~clean'[u] /\ CallState(u)
    BY <1>0, CallGoesOn DEF WriteStream, Touch, VolInv
  <2> QED
    BY <1>4, <2>1, OtherCall
<1>8. SettledState'
  BY <1>4 DEF VolInv, SettledState, ChipState
<1> QED
  BY <1>6, <1>7, <1>8 DEF VolInv

\* The rest is skipped, or the chip is going to be written and nothing is settled.
LEMMA VolumeCheckOld ==
  ASSUME Types, VolInv, NEW t \in Threads, CheckOld(t) PROVE VolInv'
<1>0. Thread(t) /\ CallState(t)
  BY DEF Thread, VolInv
<1>1. PICK k \in 1..10, v \in Levels : InVolume(t, k, v) /\ Now(t) = VolumeCall(v)[k]
  BY <1>0, WhereInCall DEF CheckOld, ToneKinds
<1>2. k = 3
  BY <1>1, KindOf DEF CheckOld
<1>4. UNCHANGED <<chip, bus, stream, volume, clean, wq>> /\ (settled' => settled)
  BY DEF CheckOld, workVars
<1>5. CASE Done(t) /\ settled' = FALSE
  <2>1. At(todo'[t], 3 + 1, v)
    BY <1>0, <1>1, <1>2, <1>5, DoneNext
  <2>2. clean'[t] => Progress(3 + 1, v)'
    BY <1>1, <1>2, <1>4 DEF InVolume, Progress
  <2> QED
    <3>1. CallState(t)'
      BY <1>5, <2>1, <2>2, GoesOn
    <3>2. ASSUME NEW u \in Threads \ {t} PROVE CallState(u)'
      <4>1. todo'[u] = todo[u] /\ CallState(u)
        BY <1>0, CallGoesOn DEF VolInv
      <4> QED
        BY <1>4, <4>1, OtherCall
    <3> QED
      BY <1>5, <3>1, <3>2 DEF VolInv, SettledState
<1>6. CASE todo' = [todo EXCEPT ![t] = SubSeq(@, 9, Len(@))]
  <2>1. todo[t] \in Seq(Access) /\ todo'[t] \in Seq(Access)
        /\ todo'[t] = SubSeq(todo[t], 9, Len(todo[t]))
    BY <1>0, <1>6, CallGoesOn DEF Types
  <2>2. Len(todo[t]) >= 8
    BY <1>1, <1>2 DEF InVolume, At
  <2>3. Without(todo[t], todo'[t], 8)
    BY <2>1, <2>2, SkipDrops
  <2>4. CallState(t)'
    BY <1>1, <1>2, <2>1, <2>3, AtSkip DEF InVolume, CallState
  <2>5. ASSUME NEW u \in Threads \ {t} PROVE CallState(u)'
    <3>1. todo'[u] = todo[u] /\ CallState(u)
      BY <1>0, CallGoesOn DEF VolInv
    <3> QED
      BY <1>4, <3>1, OtherCall
  <2>6. SettledState'
    BY <1>4 DEF VolInv, SettledState, ChipState
  <2> QED
    BY <2>4, <2>5, <2>6 DEF VolInv
<1> QED
  BY <1>5, <1>6 DEF CheckOld

\* A write of acm8635_set_volume: page, then the register of that page.
LEMMA VolumeWriteChip ==
  ASSUME Types, VolInv, NEW t \in Threads, WriteChip(t) PROVE VolInv'
<1>0. Thread(t) /\ CallState(t) /\ chip \in Chip
  BY DEF Thread, VolInv, Types
<1>1. PICK k \in 1..10, v \in Levels : InVolume(t, k, v) /\ Now(t) = VolumeCall(v)[k]
  <2>1. Now(t)[1] \notin ToneKinds
    BY DEF WriteChip, ToneKinds, Channels
  <2> QED
    BY <1>0, <2>1, WhereInCall
<1>2. \/ k \in {4, 6} /\ chip' = OnPage(4)
      \/ k = 8 /\ chip' = OnPage(12)
      \/ k = 5 /\ chip' = WithVolume("left", v)
      \/ k = 7 /\ chip' = WithVolume("right", v)
      \/ k = 9 /\ chip' = WithVolume("sub", v)
  BY <1>1, KindOf DEF WriteChip, Channels
<1>3. k \in 1..9 /\ k > 3
  BY <1>2
<1>4. At(todo'[t], k + 1, v)
  BY <1>0, <1>1, <1>3, DoneNext DEF WriteChip
<1>5. UNCHANGED <<bus, stream, volume, settled, wq>> /\ ~settled
  BY <1>1, <1>3 DEF WriteChip, workVars, InVolume
<1>6. clean'[t] => Progress(k + 1, v)'
  <2>1. SUFFICES ASSUME clean[t] PROVE Progress(k + 1, v)'
    BY DEF WriteChip, Touch
  <2>2. Progress(k, v)
    BY <1>1, <1>3, <2>1 DEF InVolume
  <2>3. bus /\ stream = v
    BY <1>3, <2>2 DEF Progress
  <2>4. bus' /\ stream' = v
    BY <1>5, <2>3
  <2>5. CASE k = 4
    <3>1. chip'.page = 4
      BY <1>0, <1>2, <2>3, <2>5 DEF OnPage, Written, Chip
    <3> QED
      BY <2>4, <2>5, <3>1 DEF Progress
  <2>6. CASE k = 5
    <3>1. chip.page = 4
      BY <2>2, <2>6 DEF Progress
    <3>2. chip'.vol["left"] = v
      BY <1>0, <1>2, <2>3, <2>6, <3>1 DEF WithVolume, Written, VolumePage, Chip, Channels
    <3> QED
      BY <2>4, <2>6, <3>2 DEF Progress
  <2>7. CASE k = 6
    <3>1. chip.vol["left"] = v
      BY <2>2, <2>7 DEF Progress
    <3>2. chip'.page = 4 /\ chip'.vol = chip.vol
      BY <1>0, <1>2, <2>3, <2>7 DEF OnPage, Written, Chip
    <3> QED
      BY <2>4, <2>7, <3>1, <3>2 DEF Progress
  <2>8. CASE k = 7
    <3>1. chip.page = 4 /\ chip.vol["left"] = v
      BY <2>2, <2>8 DEF Progress
    <3>2. chip'.vol["left"] = v /\ chip'.vol["right"] = v
      BY <1>0, <1>2, <2>3, <2>8, <3>1 DEF WithVolume, Written, VolumePage, Chip, Channels
    <3> QED
      BY <2>4, <2>8, <3>2 DEF Progress
  <2>9. CASE k = 8
    <3>1. chip.vol["left"] = v /\ chip.vol["right"] = v
      BY <2>2, <2>9 DEF Progress
    <3>2. chip'.page = 12 /\ chip'.vol = chip.vol
      BY <1>0, <1>2, <2>3, <2>9 DEF OnPage, Written, Chip
    <3> QED
      BY <2>4, <2>9, <3>1, <3>2 DEF Progress
  <2>10. CASE k = 9
    <3>1. chip.page = 12 /\ chip.vol["left"] = v /\ chip.vol["right"] = v
      BY <2>2, <2>10 DEF Progress
    <3>2. chip'.vol["left"] = v /\ chip'.vol["right"] = v /\ chip'.vol["sub"] = v
      BY <1>0, <1>2, <2>3, <2>10, <3>1 DEF WithVolume, Written, VolumePage, Chip, Channels
    <3> QED
      BY <2>4, <2>10, <3>2 DEF Progress
  <2> QED
    BY <1>2, <2>5, <2>6, <2>7, <2>8, <2>9, <2>10
<1>7. CallState(t)'
  BY <1>3, <1>4, <1>5, <1>6, GoesOn
<1>8. ASSUME NEW u \in Threads \ {t} PROVE CallState(u)'
  <2>1. todo'[u] = todo[u] /\ ~clean'[u] /\ CallState(u)
    BY <1>0, CallGoesOn DEF WriteChip, Touch, VolInv
  <2> QED
    BY <1>5, <2>1, OtherCall
<1> QED
  BY <1>5, <1>7, <1>8 DEF VolInv, SettledState

\* The call ends: if it was never disturbed, the volume is everywhere.
LEMMA VolumeSave ==
  ASSUME Types, VolInv, NEW t \in Threads, SaveVolume(t) PROVE VolInv'
<1>0. Thread(t) /\ CallState(t)
  BY DEF Thread, VolInv
<1>1. PICK k \in 1..10, v \in Levels : InVolume(t, k, v) /\ Now(t) = VolumeCall(v)[k]
  BY <1>0, WhereInCall DEF SaveVolume, ToneKinds
<1>2. k = 10 /\ volume' = v
  BY <1>1, KindOf DEF SaveVolume
<1>3. OnlyTone(todo'[t])
  BY <1>0, <1>1, <1>2, DoneNext DEF SaveVolume
<1>4. /\ UNCHANGED <<chip, bus, stream, wq>>
      /\ settled' => clean[t] /\ \A u \in Threads \ {t} : ~MidVolume(u)
  BY DEF SaveVolume, workVars
<1>5. CallState(t)'
  BY <1>3 DEF CallState
<1>6. ASSUME NEW u \in Threads \ {t} PROVE CallState(u)'
  <2>1. todo'[u] = todo[u] /\ ~clean'[u] /\ CallState(u)
    BY <1>0, CallGoesOn DEF SaveVolume, Touch, VolInv
  <2> QED
    BY <1>4, <2>1, OtherCall
<1>7. SettledState'
  <2>1. SUFFICES ASSUME settled' PROVE (volume = stream /\ ChipState)'
    BY DEF SettledState
  <2>2. Progress(10, v)
    BY <1>1, <1>2, <1>4, <2>1 DEF InVolume
  <2>3. stream = v /\ \A c \in Channels : chip.vol[c] = v
    BY <2>2 DEF Progress, Channels
  <2> QED
    BY <1>2, <1>4, <2>3 DEF ChipState
<1> QED
  BY <1>5, <1>6, <1>7 DEF VolInv

\* Tone does not touch the volume.
LEMMA VolumeWriteTone ==
  ASSUME Types, VolInv, NEW t \in Threads, WriteTone(t) PROVE VolInv'
<1>0. Thread(t) /\ CallState(t)
  BY DEF Thread, VolInv
<1>1. OnlyTone(todo[t])
  <2>1. Now(t)[1] \in ToneKinds
    BY DEF WriteTone, ToneKinds
  <2> QED
    BY <1>0, <2>1, WhereInCall, KindOf
<1>2. CallState(t)'
  <2>1. todo[t] \in Seq(Access) /\ todo[t] # <<>> /\ todo'[t] = Tail(todo[t])
    BY <1>0, CallGoesOn DEF WriteTone, Done, Types
  <2> QED
    BY <1>1, <2>1, TailDrops, ToneNext DEF CallState
<1>3. UNCHANGED <<chip, bus, volume, stream, clean, settled, wq>>
  BY DEF WriteTone, workVars, histVars
<1>4. ASSUME NEW u \in Threads \ {t} PROVE CallState(u)'
  <2>1. todo'[u] = todo[u] /\ CallState(u)
    BY <1>0, CallGoesOn DEF VolInv
  <2> QED
    BY <1>3, <2>1, OtherCall
<1>5. SettledState'
  BY <1>3 DEF VolInv, SettledState, ChipState
<1> QED
  BY <1>2, <1>4, <1>5 DEF VolInv

-----------------------------------------------------------------------------
(* Steps of the work queue, of the hardware and of the user.               *)

\* Whoever disturbs all calls and starts none has only the settled volume to show.
LEMMA Disturbs ==
  ASSUME Types, VolInv, UNCHANGED todo, TouchAll, settled' => settled, SettledState'
  PROVE  VolInv'
<1>1. ASSUME NEW u \in Threads PROVE CallState(u)'
  <2>1. ~clean'[u] /\ todo'[u] = todo[u] /\ CallState(u)
    BY DEF TouchAll, VolInv
  <2> QED
    BY <2>1, OtherCall
<1> QED
  BY <1>1 DEF VolInv

\* The three channels of c are at v.
Sounds(c, v) == \A ch \in Channels : c.vol[ch] = v

\* acm8635_set_volume at once, then play.
LEMMA PlaysAt ==
  ASSUME NEW c \in Chip, NEW v, PlayAt(c, v), Sounds(c, v)
  PROVE  Sounds(chip', v)
<1>1. Sounds(Enabled(AllAt(c, v)), v)
  BY DEF Sounds, Enabled, AllAt, Chip
<1> QED
  BY <1>1 DEF PlayAt

\* What amp_start does once the chip answers leaves a volume that is right alone.
LEMMA ProceedSounds ==
  ASSUME NEW c \in Chip, NEW v, Proceed(c, v), Sounds(c, v)
  PROVE  Sounds(chip', v)
<1>1. CASE chip' = [c EXCEPT !.page = 0]
  BY <1>1 DEF Sounds, Chip
<1>2. CASE chip' = [c EXCEPT !.page = 0, !.fault = FALSE]
  BY <1>2 DEF Sounds, Chip
<1>3. CASE PlayAt(c, v)
  BY <1>3, PlaysAt
<1> QED
  BY <1>1, <1>2, <1>3 DEF Proceed

\* A step that leaves the volume registers alone, and the chip off if it was off
\* and the start is not past the tables.
LEMMA SameRegisters ==
  ASSUME VolInv, UNCHANGED <<stream, volume>>, settled' => settled,
         chip'.vol = chip.vol,
         chip.ctrl = "off" /\ wq \in {"idle", "recover", "tables"}
            => chip'.ctrl = "off" /\ wq' \in {"idle", "recover", "tables"}
  PROVE  SettledState'
BY DEF VolInv, SettledState, ChipState

\* amp_start: every write of a volume is one of the volume in force.
LEMMA VolumeAmpStart == ASSUME Types, VolInv, AmpStart PROVE VolInv'
<1>0. chip \in Chip /\ SettledState
  BY DEF Types, VolInv
<1>1. UNCHANGED <<stream, todo>> /\ TouchAll /\ (settled' => settled)
  <2>1. UNCHANGED workSame /\ TouchAll
    BY DEF AmpStart, StartBegin, StartRecovered, StartTables, StartCleared, StartPlayed,
           StartAgain, StartCleared2, StartFinal
  <2>2. StartTables => (settled' => settled)
    BY DEF StartTables
  <2>3. ~StartTables => UNCHANGED settled
    BY DEF AmpStart, StartBegin, StartRecovered, StartCleared, StartPlayed,
           StartAgain, StartCleared2, StartFinal
  <2> QED
    BY <2>1, <2>2, <2>3 DEF workSame, threadVars
<1>2. SUFFICES SettledState'
  BY <1>1, Disturbs
<1>3. ASSUME settled, chip.ctrl # "off" \/ wq \notin {"idle", "recover", "tables"}
      PROVE  Sounds(chip, stream) /\ volume = stream
  BY <1>0, <1>3 DEF SettledState, ChipState, Sounds
<1>4. Sounds(chip', stream') /\ volume' = stream' => SettledState'
  BY DEF SettledState, ChipState, Sounds
<1>5. ASSUME settled, chip.ctrl # "off", Proceed(chip, volume), UNCHANGED volume
      PROVE  SettledState'
  <2>1. Sounds(chip, stream) /\ volume = stream
    BY <1>3, <1>5
  <2>2. Sounds(chip', volume)
    BY <1>0, <1>5, <2>1, ProceedSounds
  <2> QED
    BY <1>1, <1>4, <1>5, <2>1, <2>2
<1>n. ~settled => SettledState'
  BY <1>1 DEF SettledState
<1>p. OnPage(0).vol = chip.vol /\ OnPage(0).ctrl = chip.ctrl
  BY <1>0 DEF OnPage, Written, Chip
<1>w. /\ Written(Enabled(chip)).vol = chip.vol
      /\ Written([chip EXCEPT !.page = 0, !.fault = FALSE]).vol = chip.vol
      /\ [chip EXCEPT !.page = 0, !.fault = FALSE].vol = chip.vol
  BY <1>0 DEF Written, Enabled, Chip
<1>6. CASE StartBegin
  <2>1. CASE Online(bus)
    BY <1>6, <2>1, <1>5, <1>n DEF StartBegin, Online
  <2>2. CASE ~Online(bus)
    <3>1. chip' = OnPage(0) /\ wq' = "recover" /\ UNCHANGED volume
      BY <1>6, <2>2 DEF StartBegin
    <3> QED
      BY <1>1, <1>p, <3>1, SameRegisters
  <2> QED
    BY <2>1, <2>2
<1>7. CASE StartRecovered
  <2>1. CASE Online(bus')
    BY <1>7, <2>1, <1>5, <1>n DEF StartRecovered, Online
  <2>2. CASE ~Online(bus')
    <3>1. /\ wq' \in {"idle", "tables"} /\ UNCHANGED volume
          /\ chip' = chip \/ chip' = [chip EXCEPT !.page = 0, !.ctrl = "off"]
      BY <1>7, <2>2 DEF StartRecovered
    <3>2. chip'.vol = chip.vol /\ (chip.ctrl = "off" => chip'.ctrl = "off")
      BY <1>0, <3>1 DEF Chip
    <3> QED
      BY <1>1, <3>1, <3>2, SameRegisters
  <2> QED
    BY <2>1, <2>2
<1>8. CASE StartTables
  <2>1. CASE bus /\ settled'
    <3> DEFINE c == [AllAt(chip, arg) EXCEPT !.ctrl = "play"]
    <3>1. Proceed(c, arg) /\ volume' = arg /\ arg = volume /\ settled
      BY <1>8, <2>1 DEF StartTables
    <3>2. volume = stream
      BY <1>0, <3>1 DEF SettledState
    <3>3. c \in Chip /\ Sounds(c, arg)
      BY <1>0 DEF AllAt, Chip, Sounds, Types
    <3> HIDE DEF c
    <3>4. Sounds(chip', arg)
      BY <3>1, <3>3, ProceedSounds
    <3> QED
      BY <1>1, <1>4, <3>1, <3>2, <3>4
  <2>2. CASE ~bus
    <3>1. wq' = "idle" /\ UNCHANGED <<chip, volume>>
      BY <1>8, <2>2 DEF StartTables
    <3> QED
      BY <1>1, <3>1, SameRegisters
  <2>3. ~settled' => SettledState'
    BY DEF SettledState
  <2> QED
    BY <2>1, <2>2, <2>3
<1>9. CASE StartCleared
  <2>1. CASE settled
    <3>1. PlayAt(chip, volume) /\ wq = "cleared" /\ UNCHANGED volume
      BY <1>9 DEF StartCleared
    <3>2. Sounds(chip, stream) /\ volume = stream
      BY <1>3, <2>1, <3>1
    <3>3. Sounds(chip', volume)
      BY <1>0, <3>1, <3>2, PlaysAt
    <3> QED
      BY <1>1, <1>4, <3>1, <3>2, <3>3
  <2> QED
    BY <2>1, <1>n
<1>10. CASE StartPlayed
  <2>1. /\ wq = "played" /\ UNCHANGED volume
        /\ \/ chip' = Written(Enabled(chip))
           \/ chip' = [chip EXCEPT !.page = 0, !.fault = FALSE]
           \/ chip' = OnPage(0)
    BY <1>10 DEF StartPlayed
  <2>2. chip'.vol = chip.vol
    BY <1>p, <1>w, <2>1
  <2> QED
    BY <1>1, <2>1, <2>2, SameRegisters
<1>11. CASE StartAgain
  BY <1>1, <1>11, <1>w, SameRegisters DEF StartAgain
<1>12. CASE StartCleared2
  BY <1>1, <1>12, <1>w, SameRegisters DEF StartCleared2
<1>13. CASE StartFinal
  BY <1>1, <1>13, <1>p, SameRegisters DEF StartFinal
<1> QED
  BY <1>6, <1>7, <1>8, <1>9, <1>10, <1>11, <1>12, <1>13 DEF AmpStart

\* The headphone handler on a chip that has its tables.
LEMMA VolumeHpDetect == ASSUME Types, VolInv, HpDetect PROVE VolInv'
<1>1. /\ UNCHANGED <<stream, todo, volume, wq>> /\ TouchAll
      /\ settled' => settled /\ chip.ctrl # "off"
  BY DEF HpDetect, threadVars
<1>2. chip'.vol = chip.vol
  BY DEF HpDetect, Written, Types, Chip
<1>3. SettledState'
  BY <1>1, <1>2 DEF VolInv, SettledState, ChipState
<1> QED
  BY <1>1, <1>3, Disturbs

\* A reset loses the registers, and is seen if no start is on its way.
LEMMA VolumeChipReset == ASSUME Types, VolInv, ChipReset PROVE VolInv'
<1>1. /\ UNCHANGED <<stream, todo, volume, wq>> /\ TouchAll
      /\ settled' => settled /\ wq = "idle"
      /\ chip'.ctrl = "off"
  BY DEF ChipReset, threadVars, workVars
<1>2. SettledState'
  BY <1>1 DEF VolInv, SettledState, ChipState
<1> QED
  BY <1>1, <1>2, Disturbs

\* The bus goes down.
LEMMA VolumeBusFails == ASSUME Types, VolInv, BusFails PROVE VolInv'
<1>1. UNCHANGED <<stream, todo, volume, wq, chip, settled>> /\ TouchAll
  BY DEF BusFails, threadVars, workVars
<1>2. SettledState'
  BY <1>1 DEF VolInv, SettledState, ChipState
<1> QED
  BY <1>1, <1>2, Disturbs

\* What touches neither calls nor volume.
LEMMA VolumeAlone ==
  ASSUME Types, VolInv, UNCHANGED <<bus, stream, todo, volume, wq, settled, clean>>,
         chip'.page = chip.page, chip'.vol = chip.vol, chip'.ctrl = chip.ctrl
  PROVE  VolInv'
<1>1. ASSUME NEW u \in Threads PROVE CallState(u)'
  BY OtherCall DEF VolInv
<1>2. SettledState'
  BY DEF VolInv, SettledState, ChipState
<1> QED
  BY <1>1, <1>2 DEF VolInv

\* A new call.
LEMMA VolumeNewCall ==
  ASSUME Types, VolInv, NEW t \in Threads, NEW s, Call(t, s),
         OnlyTone(s) \/ \E v \in Levels : At(s, 1, v)
  PROVE  VolInv'
<1>1. UNCHANGED <<bus, stream, volume, wq, settled, clean, chip>> /\ todo'[t] = s
  BY DEF Call, Types, workVars, histVars
<1>2. CallState(t)'
  <2>1. ASSUME NEW v \in Levels, At(s, 1, v) PROVE CallState(t)'
    <3>1. InVolume(t, 1, v)'
      BY <1>1, <2>1 DEF InVolume
    <3> QED
      BY <3>1 DEF CallState
  <2> QED
    BY <1>1, <2>1 DEF CallState
<1>3. ASSUME NEW u \in Threads \ {t} PROVE CallState(u)'
  <2>1. todo'[u] = todo[u]
    BY DEF Call, Types
  <2> QED
    BY <1>1, <2>1, OtherCall DEF VolInv
<1>4. SettledState'
  BY <1>1 DEF VolInv, SettledState, ChipState
<1> QED
  BY <1>2, <1>3, <1>4 DEF VolInv

\* Every step keeps the volume invariant.
LEMMA VolumeInductive == Types /\ VolInv /\ [AudioNext]_audioVars => VolInv'
<1> SUFFICES ASSUME Types, VolInv, [AudioNext]_audioVars PROVE VolInv'
  OBVIOUS
<1>0. "app" \in Threads /\ "py32" \in Threads
  BY DEF Threads
<1>1. ASSUME NEW v \in Levels, PhoneVolume(v) PROVE VolInv'
  BY <1>0, <1>1, NewCallState, VolumeNewCall DEF PhoneVolume
<1>2. CASE ReapplyEq
  <2>1. OnlyTone(ToneCall(tone.treble, tone.bass))
    BY DEF OnlyTone, ToneCall, ToneKinds
  <2> QED
    BY <1>0, <1>2, <2>1, VolumeNewCall DEF ReapplyEq
<1>3. ASSUME NEW f \in Frames, SetFrame(f) PROVE VolInv'
  <2>1. f[1] \in Levels
    BY AudioAssumption
  <2> QED
    BY <1>0, <1>3, <2>1, NewCallState, VolumeNewCall DEF SetFrame
<1>4. ASSUME NEW t \in Threads, Thread(t) PROVE VolInv'
  BY <1>4, VolumeReadOld, VolumeWriteStream, VolumeCheckOld, VolumeWriteChip,
     VolumeSave, VolumeWriteTone DEF Thread
<1>5. CASE AmpStart
  BY <1>5, VolumeAmpStart
<1>6. CASE HpDetect
  BY <1>6, VolumeHpDetect
<1>7. CASE ChipReset
  BY <1>7, VolumeChipReset
<1>8. CASE BusFails
  BY <1>8, VolumeBusFails
<1>9. CASE ScheduleStart \/ StopPlayback \/ PlugOrUnplug \/ UNCHANGED audioVars
  <2>1. UNCHANGED <<chip, bus, stream, todo, volume, wq, settled, clean>>
    BY <1>9 DEF ScheduleStart, StopPlayback, PlugOrUnplug, audioVars, threadVars,
           workVars, histVars
  <2> QED
    BY <2>1, VolumeAlone
<1>10. CASE ChipFault
  <2>1. UNCHANGED <<bus, stream, todo, volume, wq, settled, clean>>
    BY <1>10 DEF ChipFault, threadVars, workVars, histVars
  <2>2. chip'.page = chip.page /\ chip'.vol = chip.vol /\ chip'.ctrl = chip.ctrl
    BY <1>10 DEF ChipFault, Types, Chip
  <2> QED
    BY <2>1, <2>2, VolumeAlone
<1> QED
  BY <1>1, <1>2, <1>3, <1>4, <1>5, <1>6, <1>7, <1>8, <1>9, <1>10 DEF AudioNext

\* A volume change that nobody disturbed stays in force in stream, driver and all
\* three channels: no later start, stop, headphone, fault, lost write or reset
\* leaves the amplifier on with another volume.  For any set of levels and set
\* frames and any number of events.
THEOREM VolumeStaysInForce == AudioSpec => []VolumeInForce
<1>1. AudioInit => VolInv
  <2>1. AudioInit => ~settled /\ \A t \in Threads : todo[t] = <<>>
    BY DEF AudioInit
  <2> QED
    BY <2>1 DEF VolInv, CallState, OnlyTone, SettledState
<1>2. VolInv => VolumeInForce
  BY DEF VolInv, SettledState, ChipState, VolumeInForce
<1>3. AudioSpec => []VolInv
  BY <1>1, VolumeInductive, TypesAlways, PTL DEF AudioSpec
<1> QED
  BY <1>2, <1>3, PTL
=============================================================================
