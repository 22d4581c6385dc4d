# Verification of the ATS2853P2 speaker firmware

The repository is the firmware of a Bluetooth speaker (ATS2853P2, a C-SKY SoC
running the vendor's Zephyr derivative).  Almost all of its 843,000 lines are the
vendor SDK.  What is the product's own is small and sits around one serial link:
a second microcontroller, the PY32, owns the knobs and the light strip, sends the
user's settings over UART1 and by its mere activity switches the speaker on and
off.  This project models that link from the DMA buffer to the settings, the power
switching that hangs on it, the amplifier the settings end in with everything else
that touches it (phone volume, headphone, playback), and the second way commands
come in, the Bluetooth serial port.

All line numbers below are of
`src/samples/bt_speaker/src/system_app/system_app_py32_uart.c` unless a file is
named.

## 1. Inventory

| Component | State | Operations | Interacts with | What makes it correct |
|---|---|---|---|---|
| PY32 parser and commands | parser state, frame buffer, last good frame, `py32_state` | `py32_rx_feed_byte`, `py32_process_complete_frame`, `py32_handle_set_params`, status frames | audio policy and volume manager (calls), ring (bytes) | never writes past the frame buffer; acts only on frames that were sent; finds its feet after line faults; settings are the host's last |
| PY32 receive path | DMA buffer, `py32_rx_ring`, head, tail, semaphore | `py32_dma_rx_isr`, `py32_dma_rx_timeout_handle`, `py32_rx_ring_push`, `py32_uart_ring_drain`, `py32_uart_thread` | UART DMA driver (interrupts), parser | a FIFO that loses bytes only when full; no lost wakeup; what arrived reaches the parser |
| PY32 host power | `py32_host_alive`, the idle work | `py32_host_on_rx_activity`, `py32_host_idle_work_handler` | Bluetooth manager (calls that sleep), system work queue, UI messages | data means on and visible, ten silent seconds mean off and hidden |
| Volume conversion | two anchor tables | `py32_volume_pct_to_level`, `py32_volume_level_to_pct` | parser | monotone, in range, stable under echo |
| Spectrum for the light strip | `py32_rhythm_bands`, `py32_rhythm_playing` | `py32_rhythm_set_data`, snapshot in the status frame | btmusic thread | a frame carries the bands of one update |
| UART DMA receive driver (`drivers/serial/uart_acts.c`, `drivers/dma/vdma_acts_andes.c`) | DMA position, receive timer | half/full interrupts, timeout with restart | receive path | every byte at most once, in order; the end of a message is not left behind |
| SPP bridge (`system_app_spp_uart_bridge.c`, called through `btsrv_spp.c` and `bt_manager_spp.c`) | accumulator, channel, queue of btsrv | fragment receive in hci_rx, connect and disconnect in btsrv | remote commands, Bluetooth service | commands survive fragmentation, once and in order; nothing is copied past the accumulator; no bytes of a closed connection stay in it |
| Remote commands (`bt_manager_remote_cmd.c`, `bt_manager_uart_rx.c`, `system_app_ble_remote_cmd.c`) | small parsers | key events | Bluetooth manager | UART and BLE entries are disabled in this product |
| Amplifier ACM8635 (`drivers/codec_acm8635/driver.c`, `audio_out_acts_andes.c`) | page register, `amp_playing`, delayed start work | start, stop, set volume | audio output, volume manager | the volume in force is the one set last; a start recovers chip, faults and bus |
| Volume manager, audio policy | stream volumes | set, get | everything that changes volume | in range |
| Headphone detection (`system_app_headphone_detect.c`) | last jack state | GPIO poll every 100 ms | amplifier (register writes) | speaker silent while a headphone is in |
| Bluetooth music, WS2812 strip, TWS, LE audio, local music, calls, OTA | application state | messages | Bluetooth manager, media | vendor samples; TWS is compiled out |
| Kernel, Bluetooth stack and service, media, file systems, mbedtls | | | | vendored |

What is hard here is not any single function.  It is the byte stream without
framing guarantees, a DMA that writes on while the driver restarts it, an
interrupt and a preemptible thread on one ring, a delayed work whose handler sleeps
in the middle of switching the speaker off, and an amplifier with paged registers
that three threads write without a lock.
`PROJECT.json` lists these hazards at their lines.

## 2. Modules

| Module | Models |
|---|---|
| `Py32Volume` | the two volume conversions as operators |
| `Py32Wheel` | the conversions in use: what the host is told after it has set a percentage, for every position of the wheel and every maximum |
| `Py32Crc` | `py32_crc16`, bit by bit (used by TLC only: it needs `Bitwise`) |
| `Py32Parser` | `py32_rx_feed_byte` and all it calls; one action per parser state, `FeedCrcH` is the whole of `py32_process_complete_frame` |
| `RxFifo` | what the ring promises: a bounded queue |
| `RxRing` | the ring in memory: array, head, tail, semaphore, interrupt and thread |
| `Py32Link` | host, line, interrupt, ring and thread around the parser |
| `Py32Host` | switching on and off: thread, timer, work queue, Bluetooth |
| `UartDmaRx` | the receiving half of the UART driver: DMA, interrupts, timer, restart |
| `RxPath` | `UartDmaRx` and `RxRing` composed: a byte's way from the DMA buffer to the parser |
| `AudioControl` | the ACM8635 amplifier and all who write to it: volume calls, tone, delayed start, headphone |
| `SppBridge` | commands over the Bluetooth serial port |
| `MCPy32Link`, `MCRxPath`, `MCAudioControl`, `MCSppBridge` | frames, damage, chunks and messages for TLC |
| `Py32VolumeProofs`, `Py32LinkProofs`, `RxRingProofs`, `Py32HostProofs`, `UartDmaRxProofs`, `RxPathProofs`, `AudioControlProofs`, `SppBridgeProofs` | theorems |

**Py32Parser.**  The state is that of the file's statics.  `frame_data` is the
first `py32_frame_got` bytes of the buffer.  A byte is an action, because the
thread handles a byte to its end (checksum, command, answer) before the next; the
interrupt only touches the ring.  A volume change by another thread in the middle
of a frame's handling appears as a change right after it.  `outcome` and `reply` are history: what the last
byte led to and the status frame it sent.  A status frame is reduced to the fields
taken from `py32_state` and the error code; the connection byte, the spectrum and
all printing are left out.  EQ gains are functions of treble and bass and are
represented by them.  The checksum is a parameter, so what is proved holds for any;
TLC uses the real one.

**Py32Link.**  The host appends whole frames to the line, or what the line makes
of them.  An interrupt moves up to a burst of bytes to the ring, dropping what does
not fit, as `py32_rx_ring_push` does.  The ring here is a sequence; that the array
implements it is what `RxRing` shows.  `Drain` is one round of
`py32_uart_ring_drain`, `EndTurn` the rest of the thread's loop.  The idle timeout
is an action that may strike whenever the host is alive: `Py32Host` looks inside
it.  `sent`, `rcvd`, `asked` and `overrun` are history for the properties.

**RxRing.**  Copying a chunk is one step per byte, with the thread excluded, since
interrupts are locked and the thread cannot preempt an interrupt.  A wait on the
semaphore may always end, because of its 10 ms timeout.

**Py32Host.**  The thread has priority 14 and is preemptible: every access to
shared state is a step.  The system work queue is cooperative at a higher
priority: the idle handler is atomic except where it sleeps, in
`bt_manager_br_disconnect_all_phone_device` (10 ms sleeps, 500 at most, while a
phone is connected).  That is also why cancelling never meets the work between the
queue and its handler (`-EBUSY` in `k_delayed_work_cancel`).  Bluetooth is five
facts: hidden by the user setting, waiting for connections, pair mode,
reconnecting, a phone connected.  The reconnection work shares the work queue, so
it cannot begin while the idle handler sleeps.  In the initial state Bluetooth is
hidden: `system_app_init_bte_ready` runs before the thread exists.

**UartDmaRx.**  A byte is its number in the order of arrival, so order and
multiplicity can be read off what the callbacks got.  `pos` is how far the DMA has
come; `hf` and `tc` are its bits in `DMAIP`.  Interrupt handler and timer handler do
not preempt each other, but the DMA goes on while they run, so the restart is four
steps: the look at the pending bits, the clearing of the reload flag, the stop with
copy and resume, and the callback.  Of the controller the model assumes what the
driver relies on: a pending half is served before the next one is full (11 ms), at
most one byte (87 us) arrives during a handler, and bytes wait in the UART's FIFO
while the DMA stands still.  `lost` counts the halves that fall into the window
after the look.

**RxPath.**  `py32_dma_rx_isr` and `py32_dma_rx_timeout_handle` are the callbacks:
entering one is one action of both modules, then the push goes byte by byte while
the DMA may write on.  The thread runs when no handler does.

**AudioControl.**  A call of a thread is the list of its accesses to shared state
(`VolumeCall`, `ToneCall`); the application thread (priority 10) comes between any
two of `py32_uart_thread` (14), the work queue (cooperative) between any two of
both.  `acm8635_amp_start` is one action from sleep to sleep.  The four byte writes
of one volume register are one access.  `ctrl` is register 0x04 (play, mute, and
`off` for a chip without its tables, for which the status registers read as zero),
`bus` whether I2C works; writes on a dead bus change nothing and the driver does
not look.  When the bus fails, `hung` is chosen: whether `acm8635_i2c_bus_recovery`
frees it for sure (a slave that holds SDA) or only perhaps.  `clean` and `settled` are
history and say precisely under which disturbances nothing is claimed of the volume.
Levels stand for tone settings too.

**SppBridge.**  Packets are handed to the bridge by the hci_rx thread at once, whether
or not the service counts as connected; connects, disconnects and failures go through
the message queue of the btsrv thread (`events`) and from there through `btsrv_spp.c` and
`bt_manager_spp_callback` to the bridge.  Nothing orders the two, so a packet may overtake
the connect of its own connection and the disconnect of the one before.  `sppmgr_lock`
makes each callback one step.  The bridge registers one service with one id, and a second
connect is ignored, so there is one channel.  A packet is any prefix of what is on the
line, up to `MAX_PACKET` bytes; one that does not fit flushes the accumulator and is then
copied whatever its length.  If that goes past the end, the state is `Overrun`, and as
what follows is undefined no step does.  `registered` becomes false when a connection
fails: the manager frees its entry, and the bridge is deaf from then on.  `ScanAt` is one
round of the loop of `spp_process_accumulator`, `Scan` the loop.  Each byte on the line
carries as ghost what the peer means by it, which tells when bytes are *misread*
(`Misread`, `mixed`): a piece of a frame taken for a bare command, a bare command for
something else, the bytes of two connections joined, a partial frame flushed to make room
or cleared by the late disconnect of an older connection.

Definitions whose name contains `Mutant`, or that a comment calls a mutant, are
deliberately wrong variants, used to show that each property can fail.

## 3. Runs

| Run | Checks | Shows |
|---|---|---|
| `link_faults` | `FrameFits`, `ReceivedWereSent`, `ResyncWithinTwo`, `SettingsFollowHost`, `ReportedVolumeIsCurrent`, `EchoIsStable`, `FullRange`, `TurnsSmoothly` | three frames, one damaged in any of some sixty ways, through a ring that drops what two frames do not leave room for, under the checksum of the code: nothing is made of the remains, and recovery costs at most one more frame; the volume conversions for all percentages and maxima 0..16 |
| `link_overrun` | `LinkTypeOK`, `BytesWakeHost` | a ring too small for the traffic: it never holds too much, and any bytes that get through wake the speaker |
| `rx_path` | `RxTypeOK`, `HandedInOrder`, `OnlyWindowLoses`, `RingTypeOK`, `NoLostWakeup`, `RingIsFifo`, `ReachesParser` | DMA, interrupts, timer, ring and thread: order is kept, one window loses bytes, the ring implements `RxFifo`, the end of a message arrives |
| `audio` | `AudioTypeOK`, `VolumeInForce`, `ToneFollowsSettings`, `StartRecovers`, `UnplugUnmutes` | every order of volume calls, starts, headphone, faults, resets and bus failures the scheduler allows |
| `spp` | `CommandsOnceInOrder`, `LeavesLessThanFrame`, `OldBytesAwaitDisconnect` | commands cut and joined at every byte, connections that come, go and fail, packets overtaking their messages |
| `host_power` | `IdleWorkArmed`, `OnIsVisibleAlone`, `SilenceTurnsOff` | lasting silence switches off; where no phones are near, on is visible |

Six runs exhibit disagreements with the documents or comments:

| Run | Property | What the code does |
|---|---|---|
| `address_in_data` | `EveryFrameReceived` | a data byte 0x01 restarts the frame (line 1133): volume 1 % cannot be set |
| `repeat_unanswered` | `GoodFrameAnswered` | a repeated frame is neither executed nor answered (line 1085), where the comment speaks of printing; a volume changed by the phone in between stays |
| `late_hide` | `OnMeansVisible` | data arriving while the idle handler waits for a phone: on, then hidden by the handler, and hidden as long as data flow |
| `half_off` | `SilenceHides` | the handler preempts `py32_host_power_on`: off but visible, and nothing left to hide it |
| `headphone` | `MutedUntilUnplugged` | an amplifier start switches the speaker on although a headphone is in (`acm8635_play_enable`, `driver.c:611`), and the handler does not mute it again |
| `spp_oversize` | `CopyStaysInside` | a packet longer than the accumulator is copied whole after the flush (`system_app_spp_uart_bridge.c:303`); the product's L2CAP allows 672 bytes, the accumulator has 580 |

Not given a run of their own:

* Protocol section 9 item 3 has a pause of 0.35 ms end a frame.  The parser knows no
  time; after a truncated frame it waits for the rest and swallows the next one
  (`ResyncWithinTwo` says how much that costs).
* A speaker that boots with a headphone plugged in is not muted:
  `system_app_headphone_detect_init` takes the jack as the previous state, and the
  handler writes only on a change.
* A volume change is lost, wholly or for one channel, in four ways, which `settled`
  of `AudioControl` records and without which `VolumeInForce` fails: the phone's
  call between the stream and the chip writes of the host's call; the work queue
  between page select and register write; a change during the
  sleep of `acm8635_load_reg_tables`, undone by the argument `vol` from before it;
  I2C errors, which `acm8635_set_volume` ignores.
* A chip that was reset looks configured to the probe of the next start if the
  headphone handler, or the second half of a running start, has written 0x04
  meanwhile: the tables are then not loaded again.
* The restart of the DMA loses half a buffer when a half completes between
  `acts_dma_check_dma_pending` and the stop (`uart_acts.c:551`): a window of about a
  microsecond at 115200 baud.
* The SPP bridge asks `spp_try_bare_cmd` first, also when a frame is half received
  (`system_app_spp_uart_bridge.c:362`): a frame cut between header and payload has its
  payload executed as a bare command, its header stays and takes the next frame for its
  payload.  The comment before `spp_feed_accumulator` has pieces of frames reassembled
  (line 366), and `SPP_CMD_TEST.md:42` offers frames for data in several packets.  `mixed`
  records it as `"piece"`; `CommandsOnceInOrder` fails without that exception.
* A disconnect that btsrv handles late clears what the next connection has sent of a
  frame; before that the bytes of both are joined.  `mixed` of `SppBridge` records it.
* After a failed connection the manager has no entry for the bridge any more
  (`bt_manager_spp.c:222`) and `spp_registered` keeps it from registering again.  Whether
  the stack, a library, ever reports one for a service that does not connect by itself is
  not visible in the source.

(The example frame of protocol section 7.1 ends in `D3 87`; `py32_crc16` of its first
seven bytes is 0x46AD, so the speaker answers it with a CRC error.)

### Bounds

* `link_faults`: three frames out of three kinds (two settings, an unsupported
  command without data), one fault.  Two intact frames after a fault are what
  `ResyncWithinTwo` speaks of.  Damage: any byte lost, any byte changed to or any
  position given an extra 0x01, 4 or 200 (an address, a LEN that fits, a LEN that
  does not), any truncation.  The frames are `WellFormed` (right LEN and checksum, no
  0x01 after the address) and `CmdNoLen`, as an ASSUME of `MCPy32Link` checks;
  `address_in_data` shows why the first matters, section 4 why the second does.
  The ring has twelve slots: a frame of nine bytes fits, a second one that comes before
  the thread has emptied the ring loses its tail, at a place that the damage moves.
  The conversions do not depend on the state, so that they are checked before the first
  frame (`AtBoot`) suffices.  They are checked for every maximum up to 16, the product's value
  (`MAX_AUDIO_VOL_LEVEL`).  Above 16 the wheel cannot reach every level and
  `TurnsSmoothly` fails, as it must with a table of 16 steps.
* `link_overrun`: a ring of eight bytes against frames of nine, all five kinds of
  frames (accepted, bad value, bad length, unsupported), chunks of 4 and whole.  The
  volume range is zero: TLC evaluates ENABLED slowly through the conversions, and neither
  the ring's type nor the waking of the host depends on them.
* `rx_path`: halves of three bytes, so that a byte can arrive in a handler without
  completing a half and with; seven bytes pass the whole buffer and return to its
  beginning; a ring of four slots, which three bytes fill and the fourth overruns.
  The semaphore's limit is two.
* `audio`: two levels (the register table holds another than the initial one), two
  set frames, four events out of calls, plugs, starts, stops, faults, resets and bus
  failures: two colliding calls with a start and a fault among them.
* `spp`, `spp_oversize`: payloads up to four bytes, two bytes of slack (an
  accumulator of ten), packets up to twelve, bare commands up to five bytes; three
  messages out of five (a command, a command with a header in its payload, too short,
  too long, bare) cut everywhere; two connections, so that the bytes of one can meet
  those of the other.
* `Py32Host` has no bounds; one phone stands for any number, since the handler
  only asks whether there is one.  `phones_near`, chosen once, says whether there
  are phones at all: without them the idle handler never sleeps.

Deadlock is not checked in the link, `audio` and `spp` runs: they stop when the
bounded environment has done its part and everybody idles (and `spp` after an overrun).  `rx_path` and
`host_power` check it.

### Fairness

`Py32Link`: the interrupt (the receive timer is periodic), and both halves of the
thread (it waits at most 10 ms).  None for host, line, phone or idle timeout.
`Py32Host`: the thread's steps and the work queue's, the end of the bounded wait,
and the timer, the last only while the host is silent, because every byte
pushes it back.  None for host MCU and phones.
`RxPath`: handlers run to their end and the timer is periodic (weak); a pending
interrupt is taken although timer handlers come between, and the thread gets the
time the handlers leave (strong, because both are disabled again and again).  None
for the arrival of bytes.  `AudioControl`: the work queue, which outranks the
threads and whose sleeps end.  None for threads, user, chip and bus.  `StartRecovers` then
obliges a start to free a hung bus: its only excuse is `BusLost`, a bus that the recovery
of the start could not mend or that fails after it in the middle of the start.

## 4. Proofs

All proofs are checked by TLAPS for every value of the constants that satisfies
the named assumptions (`VolMaxAssumption`, `LinkAssumption`, `RingAssumption`,
`DmaAssumption`, `PathAssumption`, `AudioAssumption`, `MaximaAssumption`,
`SppAssumption`), and of the hypotheses a theorem names itself.

* `Py32LinkProofs`: `LinkTypeCorrect`, `FrameBufferSafe`, `SettingsAreTheHosts`,
  `ReportsCurrentVolume`, `RecoversWithinTwo`,
  `ReceivesWhatWasSent`, `ReceivesEverything`.
  The invariant of the first three is `IInv`, on which the others build.
  `SettingsFollowHost` is not inductive: a duplicate is dropped because it equals the
  *last good frame*, while the claim is about the *settings in force*.  The link between them is `LogInForce`: if the last good
  frame is a valid set frame, the settings are its.  A refused frame overwrites the
  log but not the settings, and is no valid set frame, so the implication survives.
  `FrameFits` needs the bound on LEN and that the address is only ever the host's.
  `ReportsCurrentVolume` is for
  maxima up to 16, the product's `MAX_AUDIO_VOL_LEVEL`
  (`src/samples/bt_speaker/src/include/app_common.h:5`), since the level reported may
  be one the phone has set and the wheel of a finer scale could not reach.

  The last three follow the bytes of a frame through `py32_rx_feed_byte`.  `InStep(f, p)`
  says what state and buffers are when the parser has read the first p bytes of f as
  such, `InStepNext` that the next byte leads to `InStep(f, p + 1)` and the last one to
  f received.  `RecoversWithinTwo` proves `ResyncWithinTwo` for every number of frames
  and faults, every damage a line can do, every checksum.  Its invariant is `Tracking`:
  what is pending ends in the last one or two intact frames, or in the rest of them, and
  the parser is settling in the first (`Settles`) or in step with the second.
  `Settles(f, p)` lists where a parser that was anywhere when f began can be after p of
  its bytes: wherever it is, at the end of f it will be waiting for an address or in the
  data of a frame begun too early, where the next 0x01 catches it: the restart of line
  1133.
  The hypothesis `Recoverable` is on the host's frames only.  That they hold no second
  0x01 is what makes the restart safe.  `CmdNoLen` excludes a case the proof brought up
  and TLC confirms: if a stray 0x01 comes just before a frame, the address is taken for
  the command and the command for LEN, and when the data of that LEN end with the frame
  or one byte before it, the parser expects a checksum where the next frame begins, and
  the checksum states do not look for an address.  With command 7 and four bytes of data
  the two frames after the damage are lost.  The set frame of the
  protocol is not of that kind.

  `ReceivesWhatWasSent` proves `ReceivedWereSent`, with the frames received being the
  first of those sent, as long as nothing was damaged or dropped; `ReceivesEverything`
  proves `EveryFrameReceived` for a line that damages nothing.  Both are for hosts whose
  frames are `WellFormed` (`ProtocolFrames`): `address_in_data` is the same property
  failing without it.  Their invariant is `Lockstep`: the bytes pending are what was
  sent behind the frames received, less the p bytes of the next frame the parser is in
  step with.
* `Py32VolumeProofs`: both conversions stay in range for every byte, level and
  maximum; the link proof uses this for the volume fields.  The interpolations between
  the anchors are then written down piece by piece (`OnLevelCurve`, `OnPctCurve`) and
  the scaling between 16 and the maximum is bounded, from which follow the properties
  of the wheel: `EchoNeverMovesVolume` and `WheelSpansVolume` for every maximum,
  `WheelTurnsSmoothly` for maxima up to 16.  Above 16 a level set by the wheel still
  survives the echo, because it is one of the 17 the table can produce.
* `RxRingProofs`: `RingImplementsFifo`, by the mapping `Contents` from array, head
  and tail to a queue; a push appends, a take removes the first, everything else
  leaves it alone.  `WakeupNeverLost` needs the strengthening `WakeupOwed`: during
  the interrupt the semaphore may still be owed.
* `Py32HostProofs`: `IdleWorkNeverForgotten` for every interleaving, and
  `OnIsVisibleWithoutPhones`, whose invariant `VisibleOnceOn` names the one moment
  at which a live host is hidden.
* `UartDmaRxProofs`: `DmaHandsInOrder`, `OnlyRestartLoses` and `DmaTypeCorrect`.
  That the callbacks got the bytes in order says nothing of the bytes to come, so
  `DmaInv` says what the buffer holds, by the numbers of the bytes: the part being
  filled (`Filled`), the second half while it is pending or partly full
  (`SecondHalf`), and what the restart has put aside (`PartReady`).  `Flags` says
  that at most one half is pending and that the DMA is then in the other one, and
  `Older` that all that was handed over is older than all that is still there.
  Each hand-over then appends a run of consecutive, newer bytes (`AppendRun`,
  `HandOver`).  TLC has checked `DmaInv` on halves of three bytes.
* `RxPathProofs`: `PathImplementsDma` and `PathImplementsRing`, so that the theorems
  of the driver and of the ring hold of the two together (`PathHandsInOrder`,
  `PathLosesOnlyInWindow`, `PathRingIsFifo`, `PathWakesThread`).  The step that is
  not immediate is that what a callback brings is a chunk the ring is specified
  for: it is as long as a half at most, and holds only bytes that arrived because
  `DmaInv` holds after the hand-over too.
* `AudioControlProofs`: `AudioTypeCorrect`, whose invariant types an access by its
  kind (pages 4 and 12, or a level), since otherwise a page number might be written
  as a volume; and `ToneIsTheSettings`.  The latter needs
  `ToneInv`: every call ends in what is left of `py32_apply_treble_bass` or does not
  touch the tone, the application thread repeats what is set, and the bands lag
  behind only while `py32_uart_thread` has their writes before it.  Skipping the
  rest of a volume call must stop exactly at the tone (`SkipsToTone`).
  `VolumeStaysInForce` needs `VolInv`, which says for each of the ten places in
  `VolumeCall` what an undisturbed call has done there: stream, pages and channels one
  by one (`Progress`); and that in a settled state all channels have the volume of the
  stream, or the chip is off and the start under way has yet to come to its tables
  (`ChipState`).
* `SppBridgeProofs`: `AccumulatorDrains`, `SmallPacketsStayInside`, `OldBytesCleared` and
  `CommandsOnce`.  A recursive function has to be shown to exist before anything can
  be said of it: `MovesForward` says that a round depends on later indices only, from
  which the loop is built from the end of the accumulator to its start
  (`OneRoundMore`, `LoopExists`).  The inductions are written as "a least
  counterexample leads to a smaller one" (`LeastOf`), which needs no induction scheme
  with an operator.  `ScanEnds` then gives `AccumulatorDrains` for any content of the
  accumulator and any packet that fits into it, and with it that the overflow branch of
  `spp_process_accumulator` is dead.  `SmallPacketsStayInside` says what the code relies
  on and the product does not give: no packet longer than the accumulator.
  `OldBytesCleared` needs `EventInv`: btsrv drops a disconnect that finds the service
  disconnected, so it says of every disconnect in the queue that the service will count
  as connected when its turn comes (`UpAt`).  For `CommandsOnce` the loop is compared with what the peer means, message by
  message and from the end (`Agree`, `AgreeBefore`, `ScanAgrees`).  `out = whole` says
  nothing of the bytes in the accumulator, so `BookInv` says where they come from: as
  long as nothing was misread there is, for the connection that is up, a sequence of whole
  messages (`Flow`, `Complete`) of which the bridge holds the first bytes, none of them the
  last of a message, and the line the rest (`Pending`).  `CommandsOnce` is for peers that keep to the protocol (`WellFormed`):
  frames whose length field is right and at most `SPP_MAX_PAYLOAD`, and bare commands.
  Behind a header that announces more, the loop looks for the next frame inside the
  payload, and what it finds depends on the bytes; run `spp` has such a frame.

Only model-checked:

* the liveness properties (fairness is out of the prover's reach): among them
  `ReachesParser`, `StartRecovers`, `UnplugUnmutes` and those of link and host;
* `ReceivedWereSent` after a fault or an overrun: that nothing is made of the remains
  depends on the actual checksum, and what `py32_crc16` computes is a fold
  (`link_faults` runs it, damage and overruns included);
* `CommandsOnceInOrder` with frames that are too long, see above.

## 5. Not modelled, and the plan

Not modelled, and why:

* Pin multiplexing and hardware diagnostics, printing, and the test modes
  (`LB_TEST`, `HW_TX_TEST`, `RX_DEBUG`), which are off in the product.
* The spectrum in the status frame: one copy with interrupts locked; nothing depends
  on it, and that it may be from another moment than the playing flag is visible to
  no one but the light strip.
* What follows a copy past the end of `rx_acc`, and a message to btsrv lost because the
  pool of thirty messages is empty (`btsrv_message.c:76`).
* The remote commands behind `SppBridge` are a table from sub-command to key event;
  the UART and BLE entries are compiled out, and so is TWS.
* Bluetooth music and the WS2812 strip, LE audio, local music, calls, OTA: samples of
  the SDK with small product changes, driven by a Bluetooth stack that is mostly a
  library.
* The rest of the repository (kernel, drivers, Bluetooth controller and host, file
  systems, mbedtls, fonts, code pages) is vendored.  It is nearly all of the
  repository's lines, so the share of lines the modules cover is tiny however
  completely the product's own code is modelled.  A faithful model of, say, the link
  layer controller would be a project of its own and say nothing of this product.

What a next step would be:

1. `ReceivedWereSent` after faults, for checksums that tell the damage of a given line
   from every frame: a hypothesis about `Damaged` and `Crc16` to be found first, as
   weak as CRC-16 really justifies.
2. `CommandsOnceInOrder` of the bridge for frames that announce too much.
