# Satellite1: models, model checking and proofs

TLA+ specifications of the Satellite1 firmware components that have behaviour of
their own: the USB-PD sink, the XMOS link and flasher, the shared I2S port with
its speakers and microphone, the resampling speaker and microphone, and the
automations that tie them to buttons, timer, voice assistant, jack and LEDs. TLC
checks them on small instances. TLAPS proves, for every value of their constants,
the core of the USB-PD driver, the PDO selection, the message header, the frame
count and the states of the resampler, that both microphones implement what a
microphone promises, and the invariants of the automations.

File names of the code are relative to the repository (`components/...`,
`esphome/components/...`, `config/...`). Definitions keep the names of the code
where TLA+ allows it; `PROJECT.json` maps every one of them to its lines.

## The system and its parts

| Part | Code | State and operations | Interacts with | Modelled by |
|---|---|---|---|---|
| PD message coding, PDO selection | `fusb302b/pd.cpp`, `pd.h` | pure: header, PDOs, choice of the offer, request object | PD engine | `PdMessages`, `PdoSelection` |
| PD sink engine | `fusb302b/pd.cpp` | contract, AMS, message ids, retry count; one handler per message | driver | `PowerDelivery` |
| FUSB302B driver | `fusb302b/fusb302b.cpp` | attach state, CC measurement, reader and trigger tasks, ISR, queue, timers | PD engine, chip, source, automations | `FUSB302B` |
| XMOS link | `satellite1/satellite1.cpp` | connection state, attempts, reset line, flash access | flasher, XMOS | `Satellite1` |
| Flasher | `satellite1/memory_flasher`, `memory_flasher` | erase and write steps, readers, MD5, triggers | link, flash chip, buttons | `XMOSFlasher` |
| I2S port | `i2s_audio/i2s_audio.cpp` | two handles of a duplex channel | speakers, microphone | `I2SPort` |
| I2S speakers | `i2s_audio/speaker` | state machine, task, ring buffer, DMA, `on_sent` | port, router, microphone | `I2SAudioSpeaker` |
| I2S microphone | `i2s_audio/microphone` | listeners, state machine, task | port | `I2SAudio`, implements `Microphone` |
| Resampling speaker | `resampler/speaker` | commands, state machine, task, frame count | media player, mixer input | `ResamplerSpeaker`, `ResamplerFrames` |
| Resampling microphone | `resampler/microphone` | listeners, state machine, task, ring buffer | I2S microphone, voice assistant | `ResamplerMicrophone`, implements `Microphone`; `MicrophoneChain` |
| Automations | `config/common/*.yaml` | DAC power, ducking, timer, stop word, phases, clicks, mute, jack | everything | `Automations` with `AudioOutput`, `MediaPlayer` |
| LED ring | `led_ring.yaml` | priorities of the effects, two scripts that sleep | automations | `LedRing`, `Effect` in `Automations` |
| Sensors, schemas | `*.py`, ... | build time | | not modelled |

The hard part of all of them is the same: FreeRTOS tasks, interrupts and the
ESPHome main loop share members and event groups without locks, and every
`start`, `stop`, failure and timeout may fall between any two of their steps.
`PROJECT.json` lists the hazards at the line where they bite.

## How the models are built

* A thread's step is an action. The main loop is one thread: its step is a
  `loop()` call, or a part of one where another thread can act in between and
  that matters (the driver's `pc`, `main` in `I2SAudioSpeaker`, `in_loop` in
  `ResamplerSpeaker`). A part that reads shared state once is one step.
* Event groups are sets of bit names; ring buffers, DMA buffers and streams are
  counted in blocks; timers are flags that may expire; PDOs are parsed records;
  an image page is a pair of image and number.
* What fails is named in the constant `Faults`, and how often by `MaxFaults`; a
  run without a fault says nothing about it.
* What belongs to ESP-IDF, the chips, the cable, the network, the mixer or the
  media player is external, modelled by how the code uses it.
* Operators named in a comment as "Mutant" are plausible bugs in the definition
  that follows. No specification uses them; each shows that a property is
  sensitive to the code it is about.

### USB-PD (`PdMessages`, `PdoSelection`, `PowerDelivery`, `FUSB302B`)

`PdMessages` has the pure functions: `get_coded_header`, `set_header`,
`pd_parse_power_info`, the selection in closed form (`SelectPdo`), the request
object. `PdoSelection` is the loop of `respond_to_src_cap_msg_`, one offer per
step. `PowerDelivery` holds the members of the engine and one operator per
handler. `FUSB302B` adds the three threads (main loop, reader task, trigger
task), the ISR, the chip (FIFOs, interrupt latches, INT_N) and the source with
its cable, and says which thread runs which handler when. `Reboot` restarts the
ESP32 while chip and source stay as they are.

### XMOS (`Satellite1`, `XMOSFlasher`)

Everything runs in the main loop, so an action is one `loop()` of the link or of
the flasher, or an automation; the flash chip, the XMOS and the network act in
between. `Restart` models a loss of power. The automations of `debug.yaml`,
`buttons.yaml` and `satellite1.yaml` that start a flash, an erase or a factory
reset are actions.

### I2S (`I2SPort`, `I2SAudioSpeaker`, `I2SAudio`)

`I2SPort` holds the record `port` and the operators of `I2SAudioOut` and
`I2SAudioIn`. `I2SAudioSpeaker` models any number of speakers on the port, their
tasks and the `on_sent` interrupt, and the client that plays, stops and switches
(the router). `I2SAudio` composes them with the microphone.

### Resampler (`ResamplerSpeaker`, `ResamplerFrames`, `ResamplerMicrophone`)

`ResamplerSpeaker` has the client's two-step `send_command_`, both halves of
`loop()` (before and after it reads the event group again), the task and an
external output speaker. `ResamplerFrames` is the output callback, which converts
played frames with a remainder. `ResamplerMicrophone` has listeners, `loop()`,
the data callback in the source's task, and the task; with equal rates there is no
task and the data passes through, and both cases are checked.

### What a microphone promises (`Microphone`, `MicrophoneChain`)

Both microphones have the same interface and nearly the same `loop()`.
`Microphone` is what their listeners may rely on: a counter of listeners, a
state that only `loop()` moves, and whether something records. With listeners
`loop()` never comes to rest, without any it never starts; nothing records for a
stopped microphone. `I2SAudio` and `ResamplerMicrophone` each define
`ImplementsMicrophone`, the specification of `Microphone` under a refinement
mapping (`MicRecording`, `Recording`: whether the task, or the source where there
is no task, can hand out data).

`MicrophoneChain` composes them as `voice_assistant.yaml` does: the resampling
microphone is the only listener of the raw one. Of the raw microphone it uses only
`Microphone`, so that what it shows holds for any implementation. `stop()` is
ignored in STATE_STOPPED, which loses the stop of a listener that leaves before
`loop()` has seen it come; `RawFollows` says that the chain never does that,
because the raw `loop()` is called between any two calls of the listener's.

The liveness of the chain assumes that a raw microphone with listeners runs in
the end. The I2S microphone does not keep that after a stop with a kept TX handle
(`i2s_v_restart`, below).

### Automations (`Automations`, `AudioOutput`, `MediaPlayer`, `LedRing`)

An automation runs on the main loop in one step up to a `delay` or a
`wait_until`; what it does afterwards is an action of its own, and anything may
come in between. `AudioOutput` has the two DACs and what powers them,
`MediaPlayer` the external player with its lag between what it was told and the
state it publishes, `LedRing` the script `control_leds` with its two children
that sleep for 2 s and are skipped while they do. `Automations` composes them
with timer switch, voice assistant, stop word, clicks, mute and jack. The voice
assistant is external: it asks the server for runs, and the server may end, fail
or continue them, also after the device has stopped waiting for them.

The model begins when the device is initialised and connected, with nothing in
the jack. `cut` remembers that a run lost its `on_end` with the connection,
`unplugged` that the jack was pulled and `on_state` has not run since: two
exceptions that `DuckingEnds` and `DacPowered` name.

## What the runs check

| Run | Shows |
|---|---|
| `fusb_nominal` | One attach, with a source that retransmits, rejects and sends an unsolicited message of every kind: message ids are fresh (`FreshMessageIds`), a REQUEST only answers a SOURCE_CAP (`RequestOnlyWhenAsked`), no INT_N edge and no message is lost (`NoLostWakeup`, `NoStrandedMessage`), a PD source is never reported as timed out (`TimeoutOnlyWithoutPd`) |
| `fusb_attach` | The cable is pulled and plugged again, possibly into another source, and the ESP32 restarts alone: a PD source ends in `on_power_ready`, a plain charger in a timeout (`AttachSettles`), a detach is noticed (`DetachNoticed`), and the amplifier's mode fits the contract of the source that is plugged in (`AmpModeMatchesContract`) |
| `fusb_faults` | Types and the single soft reset (`OneSoftResetPerAttach`) under failing I2C, failing task creation, a cable pulled before the ISR exists or between the CC measurements, either orientation, and a queue of one |
| `pdo_selection` | The selection loop against its closed form (`LoopComputesSelectPdo`), its choice (`VoltageRespected`) and the request (`RequestNamesAnOffer`), for offers of every kind and order |
| `xmos` | Sectors are erased before they are written, the XMOS is held while its flash is used, success means the expected image or a blank chip, the reported version runs; every flash ends, and an XMOS without firmware is repaired; one fault, a loss of power, held buttons and hardware resets |
| `i2s_shared` | Two speakers and the microphone, every request, one failure: the microphone implements `Microphone`, the channel has one owner and a handle, the microphone reads a running channel, a finished speaker has played everything, a stop is not obeyed twice |
| `i2s_live` | All that is played is accepted, also across a switch of the output, stops end, an unused microphone stops |
| `i2s_v_restart` | A microphone that was stopped cannot always be started again (see below) |
| `res_speaker` | STOPPED means released, RUNNING has a task, no stop outlives its task (`StateMatchesTask`); everything is accepted, stops end |
| `mic_chain` | The raw microphone knows of its listener (`RawFollows`), the resampling one implements `Microphone`, listeners are heard, both stop (`ChainStops`) |
| `frames` | The frame count is exact |
| `automations` | A ring has its stop word and its timeout (`RingStops`), nothing is played into a DAC that is powered down (`DacPowered`), the LEDs show the state (`LedShowsState`); the stop word is not listened for for ever, ducking ends, the speaker is heard again after the jack was pulled (`StopWordEnds`, `DuckingEnds`, `SpeakerComesBack`) |

### Timing assumptions

Some properties hold only under assumptions on timing. Each assumption is a named
fault that the runs of those properties leave out; with the fault TLC finds the
property violated.

| Fault | What it allows | Needed by |
|---|---|---|
| `late` (`FUSB302B`) | the driver does not keep up with source and cable: a timer runs out while an answer is on its way, the source answers before `loop()` has finished to attach, a cable returns before its loss was seen | `FreshMessageIds`, `RequestOnlyWhenAsked`, `TimeoutOnlyWithoutPd`, `AmpModeMatchesContract`, `AttachSettles` |
| `glitch` (`FUSB302B`) | the cable moves between the two CC measurements | `DetachNoticed` |
| `slow` (`I2SAudioSpeaker`, `I2SAudio`) | an interrupt or a task gets no turn for the length of a main loop | `ChannelHasOneOwner`, `MicReadsRunningChannel`, `EverythingAccepted` |
| `race` (`I2SAudioSpeaker`) | a `loop()` falls between the two instructions of `start()` | `ChannelHasOneOwner`, `OnlyAskedStops`, `EverythingAccepted` |

`NoLostWakeup`, `NoStrandedMessage`, `OneSoftResetPerAttach` and `TypeOK` of the
driver need none of them: they are proved for every set of faults, and so is
`ImplementsMicrophone` of both microphones. `slow` of `ResamplerSpeaker`, an
output speaker that needs longer than the timeout, is part of `res_speaker`.

### Where the code and its comments disagree

`i2s_v_restart` is a run of its own: a stopped microphone cannot start again
while the TX handle is kept, although `i2s_audio.cpp:215` promises a clean
restart. The other statements of this kind are the definitions at the end of the
modules, under "What comments of the code say". None of them holds; to see a
counterexample, name one in the configuration given here.

| Definition | What happens | Add to |
|---|---|---|
| `AttachComesFromDisconnected` | a PS_RDY still in the queue at the detach leaves its state behind, the next attach does not fire `on_connect` (`fusb302b.cpp:392`) | `MCFUSB302B_attach` |
| `TimeoutMeansFiveVolts` | the contract survives the detach: PD_TIMEOUT with 20 V reported (`fusb302b.cpp:424`) | `MCFUSB302B_attach` |
| `SourceCapAskedBeforeReset` | GET_SOURCE_CAP is never sent (`fusb302b.cpp:410-417`) | `MCFUSB302B_nominal` |
| `DetachNoticed`, with `Faults = {"glitch"}` | a source lost between the two CC measurements leaves the driver attached to nothing (`fusb302b.cpp:343`) | `MCFUSB302B_attach` |
| `FallbackAsksFor500mA` | 30 units of 10 mA are 300 mA (`pd.cpp:139-140`) | `MCPdoSelection` |
| `EveryMallocIsFreed` | a failed erase step skips `deinit_flashing_`; the XMOS stays in reset (`xmos_flashing.cpp:37`) | `MCXMOSFlasher` |
| `EraseButtonWipesOnlyXmos` | `factory_reset_requested` outlives a failed erase (`buttons.yaml:254`) | `MCXMOSFlasher` |
| `MicStopsWithoutListeners` | `stop()` before `loop()` has seen `start()` is ignored (`i2s_audio_microphone.cpp:68`) | `MCI2SAudio_live` |
| `RxHandleIsValid` | a failed enable leaves the handle of a deleted channel (`i2s_audio.cpp:197`) | `MCI2SAudio_shared` |
| `NoCallbackBeforePreload` | a kept channel has the callback of its last use (`i2s_audio.cpp:121`) | `MCI2SAudio_shared` |
| `RingBufferCanBeTaken` | `has_buffered_data` uses a weak pointer it tested a step before (`i2s_audio_speaker.cpp:174`) | `MCI2SAudio_shared` |
| `TxHandleKeptForMic`, with `Faults = {"race"}` | two enables of one channel (`i2s_audio_speaker.cpp:192`) | `MCI2SAudio_shared` |
| `StartIsKept` | ALL_BITS clears a start command (`resampler_speaker.cpp:159`) | `MCResamplerSpeaker` |
| `NothingPendingWhenDisabled` | the loop disables itself inside `send_command_` (`resampler_speaker.cpp:251`) | `MCResamplerSpeaker` |
| `SourceStopsWithoutListeners` | a task that fails alone leaves the source on (`resampler_microphone.cpp:106`) | `MCMicrophoneChain` |
| `DuckedWhileBusy` | the end of a ring or of a run restores the volume while the other goes on (`timer.yaml:34`, `voice_assistant.yaml:247`) | `MCAutomations` |
| `DuckingAlwaysEnds` | a run that loses its end with the connection leaves the music ducked until the player's state changes (`media_player.yaml:300`) | `MCAutomations` |
| `SpeakerIsActive` | after the jack is pulled out of a playing device the TAS2780 stays powered down until the next state is published (`media_player.yaml:303`) | `MCAutomations` |
| `LineOutIsActive` | `switch_to_lineout` without a plug plays into a PCM5122 that may be powered down (`media_player.yaml:312`) | `MCAutomations` |
| `MutedIsNotStarted` | a mute during the 300 ms of the sound does not stop the start (`buttons.yaml:115`) | `MCAutomations` |
| `EveryErrorIsShown` | an error is not shown again while the script of the last one sleeps (`led_ring.yaml:505`) | `MCAutomations` |
| `PhaseResetIsOfOwnRun` | the delay of an error's `on_end` resets the phase of a run that has started since (`voice_assistant.yaml:256`) | `MCAutomations` |

Some properties except one of these cases, and say so: `NotRestarted` in
`FUSB302B` (the first exchange after a restart meets a source that remembers the
old ids), the failing driver in `OnlyAskedStops` and `MicReadsRunningChannel`, the
failed erase in `XmosRepaired`, an XMOS that is let out of its reset during a flash
(`disturbed`: a user turns the hold or the reset switch) in the properties of the
flash, more listeners than places in `ListenersAreHeard`, a repeated error or warning in
`LedShowsState`, a pulled jack in `DacPowered`, a lost connection in `DuckingEnds`.

### Bounds

* USB-PD: a plain charger and a source with 5 V, 20 V and a programmable supply:
  one offer below, one at the request and one that must be skipped. One re-plug,
  one restart, one unsolicited message of every kind. The queue has its five
  places, or one where it should overflow.
* PDO selection: all sequences of up to three offers of seven kinds, below, at and
  above four voltages.
* XMOS: pages of two bytes, two to a sector, two sectors; one image ends in a
  half page of the second sector, the other fills one page. Two requests, so that
  one meets the other; one fault, one loss of power. Without liveness the
  invariants and action properties also hold with two faults (1.9 million states).
* I2S: two speakers, since a third only repeats the second; two DMA buffers and a
  ring buffer of one block, so that both fill; two plays and two requests of the
  client, enough for stop, switch and restart (one request where liveness is
  checked), one listener. Without faults the properties of `i2s_shared` also hold
  with three requests, three plays and two listeners (40 million states).
* Resampler: three plays, two requests, two faults; four arrivals of listeners on
  two places, with and without resampling.
* Automations: four inputs of users and server (a media command, a timer, a wake
  word, a click, a mute, a plug, a disconnection, ...), which is enough for a run,
  a ring and a disturbance of both; what follows from them is not bounded. One
  start of the assistant waits for its 300 ms at a time, and the jack is not
  plugged again within the second that its automation takes.
* Frames: rates below, at and above the target, coprime with it, and products
  that stay below the range of the integer. TLC's numbers have 32 bits, so the
  range is a constant, 2^32 in the code.

Deadlock is checked in `fusb_nominal` and `fusb_attach`, where the main loop
always goes on. In the others the client may have finished, or the component may
have failed for good.

### Fairness

Weak fairness of the main loop, of each task, of the passing of time and of
sources and devices that answer: the main loop is called for ever, FreeRTOS runs
ready tasks, timers expire. In `I2SAudio` the main loop is weakly fair as a whole
and visits every component in turn; since the model leaves out `loop()` calls
that change nothing, a component's turn may be disabled and enabled again by
others, and the turns of speakers, switch and microphone are strongly fair. In
`MicrophoneChain` the two `loop()`s take turns and are weakly fair; strong
fairness of the raw microphone's data, of its coming to RUNNING and of its
leaving STOPPING is what the chain assumes of any `Microphone`. In `Automations`
delays and waits end, the player publishes its state and its sounds end, and the
assistant stops when told to; the server ends the runs it has started. No user,
listener or fault is fair. The liveness runs assume that a PD source
answers within the driver's timeouts, as USB-PD requires.

## What is proved

| Theorem | For every |
|---|---|
| `HeaderRoundTrip` (`Standalone_proofs`): a coded header decodes to its fields | header |
| `LoopIsCorrect`, `VoltageIsRespected`, `RequestIsValid` (`Standalone_proofs`): the loop computes the closed form; the offer is within the voltage or the first usable one; the request names an offer | sequence of offers, voltage |
| `TypeCorrect`, `WakeupsNotLost`, `MessagesNotStranded`, `SoftResetOnce` (`FUSB302B_proofs`) | queue length, set of sources, set of faults, bound |
| `RequestsAreAsked` (`PdExchange_proofs`): `RequestOnlyWhenAsked` | the same, if `Orderly` |
| `IdsAreFresh` (`PdAnswers_proofs`): `FreshMessageIds` | the same, if `Orderly`, the cable is plugged in once and the queue has two places |
| `TimeoutsAreTrue` (`PdAnswers_proofs`): `TimeoutOnlyWithoutPd` | the same, if `Orderly`, no automation asks for a voltage and the queue has its five places |
| `AmpModeIsRight` (`PdContract_proofs`): `AmpModeMatchesContract` | the same, if `Orderly`, the source says ACCEPT and PS_RDY only in answer and the queue has four places |
| `FlashIsExclusive`, `WritesGoToBlankPages`, `SuccessIsTrue`, `ReportIsTrue`, `FlasherTypes` (`XMOSFlasher_proofs`): `XmosHeldWhileFlashing`, `ErasedBeforeWritten`, `SuccessMeansDone`, `ReportedVersionRuns`, and types | set of images and their sizes, page and sector size, number of sectors, set of faults and requests, bound |
| `FramesNotLost`, `ReportedWithinOneFrame` (`Standalone_proofs`) | set of rates, target rate, report that fits its integer |
| `StateAlwaysMatchesTask` (`Standalone_proofs`): the state, the event bits and the task agree | stream, ring size, set of faults and requests, bound |
| `MicrophoneImplements` (`I2SAudio_proofs`): the I2S microphone implements `Microphone` | set of speakers and requests, set of faults (`slow` and `race` too), buffer sizes, bound |
| `OneOwner`, `MicHasChannel`, `StopsAreAsked`, `FinishLosesNothing` (`I2SAudio_proofs`): `ChannelHasOneOwner`, `MicReadsRunningChannel`, `OnlyAskedStops`, `FinishedMeansPlayed` | the same, without `slow` and `race` (`InTime`) |
| `ResamplerImplements`, `ChainImplements`, `RawAlwaysFollows`, `StateAlwaysMatches` (`MicrophoneChain_proofs`): so does the resampling microphone, alone and in the chain; the raw microphone knows of its listener; the state agrees with the task | number of listeners, set of faults, bound |
| `DacAlwaysPowered`, `RingAlwaysStops`, `LedAlwaysShowsState` (`Standalone_proofs`) | number of inputs and of starts that overlap |

The driver's invariants are not inductive alone. `DriverInv` is the conjunction
of `TypeOK`, `PhaseInv` (which tasks exist and what the ISR and the chip are in
each phase between setup, attach and failure), `WakeupInv` (INT_N low means that
the reader has a notification pending or will read the status), `FifoInv` (a
message in the FIFO is announced, or the reader is draining) and `SoftResetInv`
(the retry count, `tried_soft_reset_` and the number of soft resets sent). Each
part is preserved by every action given the others (`PhaseInvStep`,
`WakeupInvStep`, ...); the theorems follow. `PhaseInv` is needed because an
interrupt is safe only if the ISR is registered when the reader waits.

The exchange of messages builds on `DriverInv`. What the source has sent and the
driver has not handled lies in three places: the chip's RX FIFO, the hands of the
reader task and the queue. `Pipe` is the three in a row, and the last lemmas of
`FUSB302B_proofs` say what each step does to it: the source appends, the main
loop takes from the front, a full queue drops one, a reset flushes the FIFO, and
nothing else touches it. `ExchangeInv` says that there is one exchange at a time:
a message that asks for an answer is the last one in the pipe, its source still
waits and nothing is in the TX FIFO, or it is a retransmission that the driver is
going to ignore. That does not survive `check_status_` unless a soft reset never
falls into an exchange (`DueInv`), nor a cable that moves unless it is known where
tasks and loop are then (`AttachInv`). These three are inductive together
(`FlowInvariant`) and give `RequestsAreAsked`.

`IdsAreFresh` adds `CounterInv`: `msg_counter_` is one ahead of the last id the
source has seen, or level with it while the one GOODCRC that will move it is among
the first two messages of the pipe. So it is handled before any message that makes
the driver build another one. `TimeoutsAreTrue` adds `RecoveryInv`: from the soft
reset of `check_status_` on, a source that speaks PD goes through four stages
(`Asked`, `Heard`, `Accepted`, `Offered`), each with a bound on the length of the
pipe; it never exceeds five, the places of the queue, so the SOURCE_CAP is not
dropped, and its id is not the one that was received last.

`AmpModeIsRight` follows the contract from the REQUEST to the amplifier.
`ContractInv` has three parts that hold while the driver talks to a source. `Replies`
reads the state of the source off the messages that are on their way: behind a
PS_RDY comes no ACCEPT, and an ACCEPT is among the first four, so that the queue
has room for it. `AmsState` says that the contract the source was asked for is the
one `handle_accept` is going to take while `active_ams_` is set, or has taken with
its `on_power_ready` to come; that an ACCEPT is not mistaken for a retransmission,
since its id is the source's next and not `last_received_msg_id_`; and that the one
that answers a soft reset finds no AMS, so that it changes no contract. `Agreed` is
the property with what is still to come: a PS_RDY, an ACCEPT that is due, or the
deferred publication. `PlugInv` is about the cable: a source that was plugged in
again has granted nothing before the chip was reset, so that no message of the one
before it reaches `handle_accept` as its own. It needs to know where the main loop
and the reader are while AUTO_CRC is off (`PlaceInv`).

TLC shows what the hypotheses are for. `Orderly` excludes failing I2C and `late`
(above), and a lost acknowledge (`dup`) together with a second plug-in:
`fusb_reset_` forgets the id by which the retransmission would be recognised, and
a REQUEST goes to a source that no longer waits. With failing I2C ids repeat and
the timeout strikes a PD source; `RequestOnlyWhenAsked` holds with it on the small
instance, which the theorem leaves open. A second plug-in alone can repeat an id,
since the driver enables AUTO_CRC before `fusb_reset_` clears the counter, and the
counter may restart in the middle of an exchange. `request_voltage` starts the wait
for SOURCE_CAP again without a soft reset, so that the timeout may strike a PD
source. A queue of one place loses a GOODCRC and with it a fresh id, a queue of
three can lose the SOURCE_CAP; the code has five. The contract goes wrong with
failing I2C, with `late`, with a source that says PS_RDY unasked (the driver then
reports a contract that was never granted), and where the queue drops an ACCEPT: one
place is too few, and two are when acknowledges get lost. Three places, and a source
that says ACCEPT unasked, are right on the small instance; the theorem leaves both
open.

`FlashInv` of the flasher relates `current_sector_`, `page_pos_` and
`bytes_remaining_` to the pages of the chip: the sectors behind `current_sector_`
are blank, the pages behind `page_pos_` hold the blocks that were read, and the
pages the image has yet to reach are blank. It needs the arithmetic of the code
(whole sectors are erased, the last page may be short) for all sizes, which is in
the lemmas before it. `LinkOff` says that an XMOS in reset is one whose flash is
accessed directly. The action properties follow from both, with one case for each
action that can end a flash or connect the link.

`LoopInv` of `PdoSelection` says that `selected_info` is the closed form over
the offers read so far. `FramesAccountedFor` is inductive with `FramesTypeOK`, once the
product of a report is known to fit (`ProductFits`) and the division is written
out (`Division`).

The two refinements rest on an invariant each. `MicInv` relates the state of the
I2S microphone to its task and their event bits: no task in STOPPED, one in
RUNNING and STOPPING, and no bit that belongs to an earlier task.
`ResInv` says the same of the resampling microphone, and that its source is
enabled while it is needed (`SourceInv`). The many paths through `loop()` are
first reduced to the few outcomes that matter (`Outcome`); then every outcome is
a step of `Microphone` or a stutter. `RawInv` adds whose turn it is: `RawFollows`
alone is not inductive, since a raw microphone in STATE_STOPPED ignores a stop.

For the shared port, `OwnerInv` follows each speaker through its life: which event
bits may be set in which state of `loop()` and of the task (`SpeakerInv`), that
only the speaker the client plays to is anything but stopped, and that the channel
runs exactly while a task is alive (`PortInv`). It holds only with `InTime`, that
is without `slow` and `race`, with either of which TLC finds two owners.
`MicRxInv`, `AskedInv` and `DmaInv` are added for the microphone, for stops and for
the blocks that are in the channel and not yet reported. `FinishedMeansPlayed`
holds with `slow` and with `race` on the small instance; its proof uses `OwnerInv`,
and so assumes `InTime`.

In `ResamplerSpeaker`, `loop()` passes a record from one operator to the next.
`Good` is the invariant on that record: a task ends only when told to, or with an
error bit that `loop()` sees in time. It is preserved operator by operator; `Flat`
spells it out for the variables, and the task, the client and the output speaker
are shown to preserve that.

An automation changes little of the state. `DacStep`, `RingStep` and `LedStep`
say what a step may do to the DACs, to the ring and to what the LEDs show; every
action is one of these, and they preserve `DacInv`, `RingInv` and `LedShowsState`.

The assumptions are those named in the modules: the sets of faults, voltages
and rates, positive bounds, that what a source sends unasked is a message
(`UnsolicitedAssumption`: not a GOODCRC), and for the frames that no report
exceeds the 32 bits of the product.

Every safety property of the runs is proved. Only model-checked is liveness
(`AttachSettles`, `DetachNoticed`, `FlasherBecomesIdle`, `XmosRepaired`,
`EverythingAccepted`, `StopsInTheEnd`, `ListenersAreHeard`, `ChainStops`,
`StopWordEnds`, `DuckingEnds`, `SpeakerComesBack`): fairness and ENABLED are beyond
the prover. It cannot do induction over data either: what `SelectPdo` computes is
related to the loop step by step, by the inductive invariant, not by a recursion
over the offers.

## What is not modelled

* Sample data: volume, ducking, decimation, filters, byte order.
* The payload of SPI transfers, wording, logs, text sensors, LED drawing.
* Build-time Python, board and sensor declarations.
* GPIO expander pins: they read the register the link holds.
* `cleanup_` of the USB-PD driver and other shutdown hooks: the restart follows.
* Failures of `setup()` itself, after which a component is never called.
* What the LEDs and buttons do outside of `control_leds`' steady state: the
  progress of the flasher, improv, initialisation, volume buttons, a held action
  button and the factory-reset warning (both set the LEDs directly), a timer that
  ticks, the mute of the player.
* The wake word sensitivity and the choice of wake words.
* A common abstract speaker, as `Microphone` is for the microphones. What both
  speakers promise their client is stated of each (`EverythingAccepted`,
  `StopsInTheEnd`); it is liveness, which a proof could not add to.
* The I2S port and the chain in one state space. The chain uses `Microphone`
  instead, which the I2S microphone is proved to implement.
* Memory of the DMA descriptors, the stack of tasks, the heap: only whether an
  allocation fails.

## Running

    tlc -workers 2 -config MCFUSB302B_nominal.cfg MCFUSB302B
    tlapm FUSB302B_proofs.tla

Runs take from a second to about four minutes. The proofs of the driver, of the
exchange and of the contract (`FUSB302B_proofs`, `PdExchange_proofs`,
`PdAnswers_proofs`, `PdContract_proofs`) take about a quarter of an hour each from
nothing, the others a few minutes.
