---------------------------- MODULE AudioControl ----------------------------
(***************************************************************************)
(* Who sets volume, tone and play state of the ACM8635 amplifier, and in   *)
(* which order the writes can fall.  Three actors share the chip without a *)
(* lock:                                                                   *)
(*   - the system work queue, cooperative, runs amp_start_work and         *)
(*     hp_detect_work_handler; only a k_sleep lets others run;             *)
(*   - the application thread ("app", priority 10) sets the volume the     *)
(*     phone or a key asks for, and reapplies the tone at playback start;  *)
(*   - py32_uart_thread ("py32", priority 14) executes set frames.         *)
(* The work queue strikes between any two writes of a thread, and "app"    *)
(* between any two of "py32".  A thread's call is the sequence of its      *)
(* accesses to shared state.  One write of four bytes to a volume register *)
(* is one access.                                                          *)
(***************************************************************************)
EXTENDS Naturals, Sequences

CONSTANTS
    Levels,         \* volume levels; tone settings too
    InitVolume,     \* CONFIG_CODEC_ACM8635_INIT_VOLUME
    TableVolume,    \* the level in acm8635_reg_tab_main
    Frames,         \* volume, treble and bass of the set frames the host may send
    MaxEvents       \* bound: calls, plugs, starts, stops and faults in all

ASSUME AudioAssumption ==
    /\ {InitVolume, TableVolume} \subseteq Levels
    /\ Frames \subseteq Levels \X Levels \X Levels
    /\ MaxEvents \in Nat

Threads == {"app", "py32"}

Channels == {"left", "right", "sub"}

VolumePage == [left |-> 4, right |-> 4, sub |-> 12]

VARIABLES
    chip,       \* the registers: page, volumes, 0x04 (control), 0x17-0x19 (fault)
    bus,        \* the I2C bus works
    hung,       \* if it does not: a recovery frees it for sure
    stream,     \* the stream volume of audio_system
    volume,     \* data->volume
    playing,    \* acm8635_amp_playing
    tone,       \* py32_state.treble and bass, and the two bands of dy_peq
    todo,       \* the accesses each thread has left in its call
    old,        \* old_volume in system_volume_set
    due,        \* amp_work is submitted
    wq,         \* where amp_start sleeps in the work queue
    arg,        \* vol in acm8635_dsp_configure
    jack,       \* a headphone is plugged in
    hp_prev,    \* hp_prev_inserted
    events,     \* bound: the events so far
    clean,      \* history: nobody touched the volume since the call began
    settled     \* history: the newest volume change neither was disturbed nor disturbs

threadVars == <<stream, tone, todo, old>>
workVars == <<playing, due, wq, arg, hp_prev>>
histVars == <<clean, settled>>
audioVars == <<chip, bus, hung, volume, jack, events, threadVars, workVars, histVars>>

Kinds == {"old", "stream", "check", "page", "save", "treble", "bass",
          "band_bass", "band_treble"} \cup Channels

AudioTypeOK ==
    /\ chip \in [page : {0, 4, 12}, vol : [Channels -> Levels],
                 ctrl : {"play", "mute", "off"}, fault : BOOLEAN]
    /\ {stream, volume, arg} \subseteq Levels
    /\ tone \in [treble : Levels, bass : Levels,
                 band_treble : Levels, band_bass : Levels]
    /\ todo \in [Threads -> Seq(Kinds \X (Levels \cup {0, 4, 12}))]
    /\ old \in [Threads -> Levels] /\ clean \in [Threads -> BOOLEAN]
    /\ {bus, hung, playing, due, jack, hp_prev, settled} \subseteq BOOLEAN
    /\ wq \in {"idle", "recover", "tables", "cleared", "played", "again",
               "cleared2", "final"}
    /\ events \in 0..MaxEvents

\* acm8635_register_init has loaded the tables and the volume, and
\* system_app_headphone_detect_init has read the jack.  The stream volume is the
\* stored one.
AudioInit ==
    /\ chip = [page |-> 0, vol |-> [c \in Channels |-> InitVolume],
               ctrl |-> "play", fault |-> FALSE]
    /\ bus = TRUE /\ hung = TRUE /\ playing = FALSE /\ due = FALSE
    /\ stream \in Levels
    /\ volume = InitVolume /\ arg = InitVolume
    /\ tone = [treble |-> InitVolume, bass |-> InitVolume,
               band_treble |-> InitVolume, band_bass |-> InitVolume]
    /\ todo = [t \in Threads |-> <<>>]
    /\ old = [t \in Threads |-> InitVolume]
    /\ wq = "idle"
    /\ jack \in BOOLEAN /\ hp_prev = jack
    /\ events = 0
    /\ clean = [t \in Threads |-> FALSE]
    /\ settled = FALSE

-----------------------------------------------------------------------------
(* Writes to the chip; with the bus down they change nothing, and the      *)
(* driver does not look at their result.                                   *)

Written(c) == IF bus THEN c ELSE chip

\* Mutant: the page is numbered from 1.
OnPageMutant(p) == Written([chip EXCEPT !.page = p + 1])

OnPage(p) == Written([chip EXCEPT !.page = p])

\* A volume register, if its page is selected; another register otherwise.
WithVolume(ch, v) ==
    Written(IF chip.page = VolumePage[ch] THEN [chip EXCEPT !.vol[ch] = v] ELSE chip)

\* acm8635_set_volume as a whole, with no one in between.
AllAt(c, v) == [c EXCEPT !.vol = [ch \in Channels |-> v], !.page = 12]

\* acm8635_play_enable.
Enabled(c) == [c EXCEPT !.page = 0, !.ctrl = "play"]

-----------------------------------------------------------------------------
(* The threads.                                                            *)

\* system_volume_set: the old level, the stream, whether that changed anything,
\* then acm8635_set_volume.
VolumeCall(v) ==
    << <<"old", v>>, <<"stream", v>>, <<"check", v>>, <<"page", 4>>, <<"left", v>>,
       <<"page", 4>>, <<"right", v>>, <<"page", 12>>, <<"sub", v>>, <<"save", v>> >>

\* py32_apply_treble_bass.
ToneCall(treble, bass) ==
    << <<"treble", treble>>, <<"bass", bass>>,
       <<"band_bass", bass>>, <<"band_treble", treble>> >>

Idle(t) == todo[t] = <<>>

Event == events < MaxEvents /\ events' = events + 1

\* The call of t begins with the accesses s.
Call(t, s) ==
    /\ Event
    /\ Idle(t)
    /\ todo' = [todo EXCEPT ![t] = s]
    /\ UNCHANGED <<chip, bus, volume, jack, hung, stream, tone, old, workVars, histVars>>

\* The phone or a key changes the volume.
PhoneVolume(v) == Call("app", VolumeCall(v))

\* system_app_py32_reapply_eq reads the settings and applies them again.
ReapplyEq == Call("app", ToneCall(tone.treble, tone.bass))

\* py32_handle_set_params with a frame of valid values.
SetFrame(f) ==
    Idle("app") /\ Call("py32", VolumeCall(f[1]) \o ToneCall(f[2], f[3]))

\* Mutant: both threads run at the same priority.
RunsMutant(t) == todo[t] # <<>>

\* t executes its next access: the application thread comes first.
Runs(t) == todo[t] # <<>> /\ (t = "py32" => Idle("app"))

Now(t) == Head(todo[t])

Done(t) == todo' = [todo EXCEPT ![t] = Tail(@)]

\* History: t has touched the volume, the call of another is not clean any more.
Touch(t) == clean' = [u \in Threads |-> u = t /\ clean[u]]

ReadOld(t) ==
    /\ Runs(t) /\ Now(t)[1] = "old"
    /\ old' = [old EXCEPT ![t] = stream]
    /\ clean' = [clean EXCEPT ![t] = bus]
    /\ Done(t)
    /\ UNCHANGED <<chip, bus, volume, jack, hung, events, stream, tone, workVars, settled>>

\* audio_system_set_stream_volume.
WriteStream(t) ==
    /\ Runs(t) /\ Now(t)[1] = "stream"
    /\ stream' = Now(t)[2]
    /\ settled' = (settled /\ stream' = stream)
    /\ Done(t)
    /\ Touch(t)
    /\ UNCHANGED <<chip, bus, volume, jack, hung, events, tone, old, workVars>>

\* If the level is the old one, the rest of system_volume_set is skipped.
CheckOld(t) ==
    /\ Runs(t) /\ Now(t)[1] = "check"
    /\ IF stream = old[t]
       THEN todo' = [todo EXCEPT ![t] = SubSeq(@, 9, Len(@))] /\ UNCHANGED settled
       ELSE Done(t) /\ settled' = FALSE
    /\ UNCHANGED <<chip, bus, volume, jack, hung, events, stream, tone, old, workVars,
                   clean>>

\* One write of acm8635_set_volume.
WriteChip(t) ==
    /\ Runs(t)
    /\ LET w == Now(t)
       IN  \/ w[1] = "page" /\ chip' = OnPage(w[2])
           \/ w[1] \in Channels /\ chip' = WithVolume(w[1], w[2])
    /\ Done(t)
    /\ Touch(t)
    /\ UNCHANGED <<bus, volume, jack, hung, events, stream, tone, old, workVars, settled>>

\* u has changed the stream volume and not yet all of the chip.
MidVolume(u) == todo[u] # <<>> /\ Now(u)[1] \in {"check", "page", "save"} \cup Channels

SaveVolume(t) ==
    /\ Runs(t) /\ Now(t)[1] = "save"
    /\ volume' = Now(t)[2]
    /\ settled' = (clean[t] /\ \A u \in Threads \ {t} : ~MidVolume(u))
    /\ Touch(t)
    /\ Done(t)
    /\ UNCHANGED <<chip, bus, jack, hung, events, stream, tone, old, workVars>>

WriteTone(t) ==
    /\ Runs(t)
    /\ \/ Now(t)[1] = "treble" /\ tone' = [tone EXCEPT !.treble = Now(t)[2]]
       \/ Now(t)[1] = "bass" /\ tone' = [tone EXCEPT !.bass = Now(t)[2]]
       \/ Now(t)[1] = "band_bass" /\ tone' = [tone EXCEPT !.band_bass = Now(t)[2]]
       \/ Now(t)[1] = "band_treble" /\ tone' = [tone EXCEPT !.band_treble = Now(t)[2]]
    /\ Done(t)
    /\ UNCHANGED <<chip, bus, volume, jack, hung, events, stream, old, workVars, histVars>>

Thread(t) ==
    \/ ReadOld(t) \/ WriteStream(t) \/ CheckOld(t) \/ WriteChip(t) \/ SaveVolume(t)
    \/ WriteTone(t)

-----------------------------------------------------------------------------
(* acm8635_amp_start in the work queue.  Each action runs from one k_sleep *)
(* to the next.                                                            *)

workSame == <<jack, hung, events, threadVars, hp_prev>>

\* History: somebody other than the threads has touched the volume.
TouchAll == clean' = [t \in Threads |-> FALSE]

\* acm8635_probe_online.
Online(up) == up /\ chip.ctrl # "off"

\* Volume, play state, and the sleep that follows.
PlayAt(c, v) ==
    /\ chip' = IF bus' THEN Enabled(AllAt(c, v)) ELSE c
    /\ wq' = "played"

\* The chip answers: nothing to do, faults to clear, or play.
Proceed(c, v) ==
    \/ /\ c.ctrl = "play" /\ playing
       /\ chip' = [c EXCEPT !.page = 0]
       /\ wq' = "idle"
    \/ /\ ~(c.ctrl = "play" /\ playing)
       /\ c.fault
       /\ chip' = [c EXCEPT !.page = 0, !.fault = FALSE]
       /\ wq' = "cleared"
    \/ /\ ~(c.ctrl = "play" /\ playing)
       /\ ~c.fault
       /\ PlayAt(c, v)

StartBegin ==
    /\ wq = "idle" /\ due
    /\ due' = FALSE
    /\ UNCHANGED bus
    /\ IF Online(bus) THEN Proceed(chip, volume)
       ELSE wq' = "recover" /\ chip' = OnPage(0)
    /\ TouchAll
    /\ UNCHANGED <<workSame, volume, playing, arg, settled>>

\* Mutant: the bus recovery is left out.
StartRecoveredMutant ==
    /\ wq = "recover"
    /\ UNCHANGED bus
    /\ IF Online(bus')
       THEN Proceed(chip, volume) /\ UNCHANGED arg
       ELSE /\ wq' = IF bus' THEN "tables" ELSE "idle"
            /\ chip' = IF bus' THEN [chip EXCEPT !.page = 0, !.ctrl = "off"] ELSE chip
            /\ arg' = volume
    /\ TouchAll
    /\ UNCHANGED <<workSame, volume, playing, due, settled>>

\* acm8635_i2c_bus_recovery; it frees a hung bus and may free any other.  The next
\* resort is acm8635_dsp_configure with the volume of now, up to the sleep between
\* the two register tables; the first one turns the chip off.
StartRecovered ==
    /\ wq = "recover"
    /\ bus' \in {bus \/ hung, TRUE}
    /\ IF Online(bus')
       THEN Proceed(chip, volume) /\ UNCHANGED arg
       ELSE /\ wq' = IF bus' THEN "tables" ELSE "idle"
            /\ chip' = IF bus' THEN [chip EXCEPT !.page = 0, !.ctrl = "off"] ELSE chip
            /\ arg' = volume
    /\ TouchAll
    /\ UNCHANGED <<workSame, volume, playing, due, settled>>

\* Mutant: the volume of the register table is left in place.
StartTablesMutant ==
    /\ wq = "tables" /\ bus
    /\ UNCHANGED bus
    /\ LET c == [AllAt(chip, TableVolume) EXCEPT !.ctrl = "play"]
       IN  Proceed(c, TableVolume)
    /\ settled' = (settled /\ arg = volume)
    /\ UNCHANGED volume
    /\ TouchAll
    /\ UNCHANGED <<workSame, playing, due, arg>>

\* The second table ends with play.  Then the volume is set, to what it was
\* before the sleep: a change made meanwhile is undone (settled notes that).
StartTables ==
    /\ wq = "tables"
    /\ UNCHANGED bus
    /\ IF bus
       THEN /\ Proceed([AllAt(chip, arg) EXCEPT !.ctrl = "play"], arg)
            /\ volume' = arg
            /\ settled' = (settled /\ arg = volume)
       ELSE wq' = "idle" /\ UNCHANGED <<chip, volume, settled>>
    /\ TouchAll
    /\ UNCHANGED <<workSame, playing, due, arg>>

StartCleared ==
    /\ wq = "cleared"
    /\ UNCHANGED bus
    /\ PlayAt(chip, volume)
    /\ TouchAll
    /\ UNCHANGED <<workSame, volume, playing, due, arg, settled>>

\* After play has been enabled: enable it once more if the chip does not say so.
\* With the bus down the registers read as what the driver read before; that only
\* adds sleeps, no write gets through.
StartPlayed ==
    /\ wq = "played"
    /\ playing' = TRUE
    /\ \/ /\ ~(bus /\ chip.ctrl = "play")
          /\ chip' = Written(Enabled(chip))
          /\ wq' = "again"
       \/ /\ bus /\ chip.ctrl = "play" /\ chip.fault
          /\ chip' = [chip EXCEPT !.page = 0, !.fault = FALSE]
          /\ wq' = "cleared2"
       \/ /\ bus /\ chip.ctrl = "play" /\ ~chip.fault
          /\ chip' = OnPage(0)
          /\ wq' = "idle"
    /\ TouchAll
    /\ UNCHANGED <<workSame, bus, volume, due, arg, settled>>

StartAgain ==
    /\ wq = "again"
    /\ chip' = Written([chip EXCEPT !.page = 0, !.fault = FALSE])
    /\ wq' = IF bus /\ chip.fault THEN "cleared2" ELSE "idle"
    /\ TouchAll
    /\ UNCHANGED <<workSame, bus, volume, playing, due, arg, settled>>

\* Faults after play have been cleared: enable play again.
StartCleared2 ==
    /\ wq = "cleared2"
    /\ chip' = Written(Enabled(chip))
    /\ wq' = "final"
    /\ TouchAll
    /\ UNCHANGED <<workSame, bus, volume, playing, due, arg, settled>>

StartFinal ==
    /\ wq = "final"
    /\ chip' = OnPage(0)
    /\ wq' = "idle"
    /\ TouchAll
    /\ UNCHANGED <<workSame, bus, volume, playing, due, arg, settled>>

AmpStart ==
    \/ StartBegin \/ StartRecovered \/ StartTables \/ StartCleared
    \/ StartPlayed \/ StartAgain \/ StartCleared2 \/ StartFinal

-----------------------------------------------------------------------------
(* hp_detect_work_handler and hp_apply_amp_state.                          *)

\* Mutant: only a change to "inserted" is applied.
HpDetectInsertOnly ==
    /\ wq = "idle"
    /\ jack # hp_prev
    /\ hp_prev' = jack
    /\ chip' = IF jack THEN Written([chip EXCEPT !.page = 0, !.ctrl = "mute"]) ELSE chip
    /\ settled' = (settled /\ chip.ctrl # "off")
    /\ TouchAll
    /\ UNCHANGED <<bus, volume, jack, hung, events, threadVars, playing, due, wq, arg>>

\* Every 100 ms.  On a chip that has lost its tables, settled notes that the
\* write makes the probe of the next start take it for a configured one.
HpDetect ==
    /\ wq = "idle"
    /\ jack # hp_prev
    /\ hp_prev' = jack
    /\ chip' = Written([chip EXCEPT !.page = 0, !.ctrl = IF jack THEN "mute" ELSE "play"])
    /\ settled' = (settled /\ chip.ctrl # "off")
    /\ TouchAll
    /\ UNCHANGED <<bus, volume, jack, hung, events, threadVars, playing, due, wq, arg>>

-----------------------------------------------------------------------------
(* The audio output, the user and the hardware.                            *)

\* acm8635_schedule_amp_start: cancel and submit.
ScheduleStart ==
    /\ Event /\ due' = TRUE
    /\ UNCHANGED <<chip, bus, volume, jack, hung, threadVars, playing, wq, arg, hp_prev,
                   histVars>>

\* acts_audio_out_stop; the submitted start is not cancelled.
StopPlayback ==
    /\ Event /\ playing' = FALSE
    /\ UNCHANGED <<chip, bus, volume, jack, hung, threadVars, due, wq, arg, hp_prev,
                   histVars>>

PlugOrUnplug ==
    /\ Event /\ jack' = ~jack
    /\ UNCHANGED <<chip, bus, hung, volume, threadVars, workVars, histVars>>

ChipFault ==
    /\ Event /\ chip' = [chip EXCEPT !.fault = TRUE]
    /\ UNCHANGED <<bus, volume, jack, hung, threadVars, workVars, histVars>>

\* The chip loses its registers.  In the middle of a start nobody notices: play is
\* enabled again on a chip without its tables (settled notes that).
ChipReset ==
    /\ Event
    /\ chip' = [page |-> 0, vol |-> [c \in Channels |-> TableVolume],
                ctrl |-> "off", fault |-> FALSE]
    /\ settled' = (settled /\ wq = "idle")
    /\ TouchAll
    /\ UNCHANGED <<bus, volume, jack, hung, threadVars, workVars>>

\* The bus goes down, in a way the recovery mends (a slave that holds SDA) or not.
BusFails ==
    /\ Event /\ bus' = FALSE
    /\ hung' \in BOOLEAN
    /\ TouchAll
    /\ UNCHANGED <<chip, volume, jack, threadVars, workVars, settled>>

-----------------------------------------------------------------------------
AudioNext ==
    \/ \E v \in Levels : PhoneVolume(v)
    \/ ReapplyEq
    \/ \E f \in Frames : SetFrame(f)
    \/ \E t \in Threads : Thread(t)
    \/ AmpStart
    \/ HpDetect
    \/ ScheduleStart \/ StopPlayback
    \/ PlugOrUnplug \/ ChipFault \/ ChipReset \/ BusFails

\* The work queue gets to the work that is due: its thread outranks all others,
\* and every sleep in a handler ends.
AudioSpec ==
    /\ AudioInit /\ [][AudioNext]_audioVars
    /\ WF_audioVars(AmpStart) /\ WF_audioVars(HpDetect)

-----------------------------------------------------------------------------
(* Properties.                                                             *)

\* A volume change during which nobody else touched the amplifier stays in force
\* in all four places (stream, driver, the three channels) whatever starts,
\* stops, headphones, faults, lost writes and resets follow: no start brings back
\* an older volume, and a reset chip gets it back with its tables.
VolumeInForce ==
    settled /\ chip.ctrl # "off" =>
        /\ volume = stream
        /\ \A c \in Channels : chip.vol[c] = stream

\* The tone in the equalizer is the tone in py32_state once the threads are
\* through: reapplying it at playback start in the middle of a set frame never
\* leaves old bands behind, because the application thread cannot be interrupted
\* by py32_uart_thread.
ToneFollowsSettings ==
    Idle("app") /\ Idle("py32") =>
        tone.band_treble = tone.treble /\ tone.band_bass = tone.bass

\* A start has lost the bus: its recovery could not mend it, or it is down in the
\* middle of the start, past the recovery.
BusLost ==
    /\ ~bus
    /\ \/ wq \notin {"idle", "recover"}
       \/ wq = "idle" /\ ~due /\ ~hung

\* A start scheduled while the amplifier counts as stopped brings it to play with
\* its faults cleared, from whatever state the chip and the bus are in.  A bus that
\* is down when the start is scheduled or begins is no excuse: if it only hangs, the
\* start has to recover it.  A bus the recovery cannot mend is one, and a bus that
\* fails after the recovery and before the amplifier plays.
StartRecovers == due /\ ~playing ~> (chip.ctrl = "play" /\ ~chip.fault) \/ BusLost

\* Pulling the headphone ends the mute, also when the handler was late and a
\* start came between, unless it is plugged in again or the bus is down, so that
\* the one write of the handler is lost: nothing repeats it.
UnplugUnmutes == ~jack ~> chip.ctrl # "mute" \/ jack \/ ~bus

-----------------------------------------------------------------------------
(* What the comments say.                                                  *)

\* system_app_headphone_detect.c, lines 8 and 9: inserting the headphone mutes the
\* speaker while the music goes on, and pulling it brings the speaker back.
\* Until then the speaker stays muted.
MutedUntilUnplugged ==
    [][jack /\ jack' /\ chip.ctrl = "mute" => chip'.ctrl # "play"]_audioVars
=============================================================================
