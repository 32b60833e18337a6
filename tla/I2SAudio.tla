------------------------------ MODULE I2SAudio ------------------------------
(***************************************************************************)
(* The I2S audio of the device: the microphone (I2SAudioMicrophone of      *)
(* components/i2s_audio/microphone) and the speakers of I2SAudioSpeaker on *)
(* the port they share.  The microphone's loop() runs in the main loop,    *)
(* between the loops of the speakers; its task only sets event bits.       *)
(***************************************************************************)
EXTENDS I2SAudioSpeaker

CONSTANTS
  MAX_LISTENERS,     \* of the counting semaphore
  MaxListens         \* bound: how often a listener starts the microphone

ASSUME ListenersAssumption == MAX_LISTENERS \in Nat \ {0} /\ MaxListens \in Nat

VARIABLES
  mic_state_, mic_bits, mic_error, mic_task,
  listeners,         \* how many of active_listeners_semaphore_ are taken
  asked, listens     \* the listeners that want data; how many may still come

micVars == <<mic_state_, mic_bits, mic_error, mic_task, listeners, asked, listens>>
vars    == <<port, faults, speakerVars, main, clientVars, micVars>>

Init ==
  /\ PortInit /\ SpeakerInit
  /\ mic_state_ = "STOPPED" /\ mic_bits = {} /\ mic_error = FALSE /\ mic_task = "none"
  /\ listeners = 0 /\ asked = 0 /\ listens = MaxListens

-----------------------------------------------------------------------------
(* start(): the semaphore is taken if it can be.                           *)
ListenerStarts ==
  /\ main = Idle /\ listens > 0
  /\ listeners' = IF listeners < MAX_LISTENERS THEN listeners + 1 ELSE listeners
  /\ asked' = asked + 1 /\ listens' = listens - 1
  /\ UNCHANGED <<port, faults, speakerVars, main, clientVars, mic_state_, mic_bits, mic_error,
                 mic_task>>

(* stop(): ignored while the microphone has not begun to start.            *)
ListenerStops ==
  /\ main = Idle /\ asked > 0
  /\ listeners' = IF mic_state_ = "STOPPED" \/ listeners = 0 THEN listeners ELSE listeners - 1
  /\ asked' = asked - 1
  /\ UNCHANGED <<port, faults, speakerVars, main, clientVars, mic_state_, mic_bits, mic_error,
                 mic_task, listens>>

(* What loop() has made of the bits of the task.                           *)
Seen ==
  IF "TASK_STOPPED" \in mic_bits
  THEN [state |-> "STOPPED", bits |-> {}, port |-> stop_rx(port), task |-> "none", error |-> FALSE]
  ELSE [state |-> IF "TASK_RUNNING" \in mic_bits THEN "RUNNING" ELSE mic_state_,
        bits |-> mic_bits \ {"TASK_RUNNING"}, port |-> port, task |-> mic_task,
        error |-> mic_error]

(* Mutant: without listeners the microphone is stopped in any state.       *)
StopsAlways(state) ==
  IF listeners = 0 THEN "STOPPING" ELSE IF state = "STOPPED" THEN "STARTING" ELSE state

(* The state that the semaphore then leads to.                             *)
Wanted(state) ==
  CASE listeners > 0 /\ state = "STOPPED" -> "STARTING"
    [] listeners = 0 /\ state = "RUNNING" -> "STOPPING"
    [] OTHER                              -> state

(* STATE_STARTING, in every loop() until the task reports that it runs.    *)
MicStarts(p, t) ==
  \E r \in start_rx(p) :
    IF ~r.ok
    THEN /\ port' = stop_rx(r.port) /\ faults' = faults - r.cost
         /\ mic_error' = TRUE /\ mic_task' = t
    ELSE \/ /\ port' = r.port /\ mic_task' = IF t = "none" THEN "begin" ELSE t
            /\ mic_error' = FALSE /\ UNCHANGED faults
         \/ /\ t = "none" /\ "task" \in Faults /\ faults > 0 /\ faults' = faults - 1
            /\ port' = stop_rx(r.port) /\ mic_error' = TRUE /\ mic_task' = t

(* loop().  The task it created has reported TASK_RUNNING before the next  *)
(* loop(): it has a high priority, and that is milliseconds away.          *)
MicLoop ==
  /\ main = Idle /\ (mic_task = "begin" => "slow" \in Faults)
  /\ LET seen == Seen
         next == Wanted(seen.state)
     IN  /\ mic_state_' = next
         /\ mic_bits' = IF next = "STOPPING" THEN seen.bits \union {"COMMAND_STOP"} ELSE seen.bits
         /\ IF next = "STARTING" /\ ~seen.error THEN MicStarts(seen.port, seen.task)
            ELSE port' = seen.port /\ mic_task' = seen.task /\ mic_error' = seen.error /\ UNCHANGED faults
  /\ UNCHANGED <<speakerVars, main, clientVars, listeners, asked, listens>>

MicErrorEnds ==
  /\ mic_error /\ mic_error' = FALSE
  /\ UNCHANGED <<port, faults, speakerVars, main, clientVars, mic_state_, mic_bits, mic_task,
                 listeners, asked, listens>>

(* mic_task: it runs until it finds COMMAND_STOP.                          *)
MicTask ==
  /\ \/ /\ mic_task = "begin"
        /\ mic_task' = "run" /\ mic_bits' = mic_bits \union {"TASK_RUNNING"}
     \/ /\ mic_task = "run" /\ "COMMAND_STOP" \in mic_bits
        /\ mic_task' = "stopped" /\ mic_bits' = mic_bits \union {"TASK_STOPPED"}
  /\ UNCHANGED <<port, faults, speakerVars, main, clientVars, mic_state_, mic_error, listeners,
                 asked, listens>>

(* A step of the speakers.                                                 *)
OfSpeakers(A) == A /\ UNCHANGED micVars

Next ==
  \/ OfSpeakers(SpeakerNext)
  \/ ListenerStarts \/ ListenerStops \/ MicLoop \/ MicErrorEnds \/ MicTask

Spec == Init /\ [][Next]_vars

(* The main loop comes round to every component, also while others have    *)
(* work (SF), the tasks run, the channel is clocked, and a client goes on  *)
(* playing what it has.                                                    *)
FairSpec ==
  /\ Spec
  /\ \A s \in Speakers : SF_vars(OfSpeakers(SpeakerLoop(s))) /\ WF_vars(OfSpeakers(TaskStep(s)))
  /\ WF_vars(OfSpeakers(ClientStep)) /\ SF_vars(OfSpeakers(SwitchEnds))
  /\ WF_vars(OfSpeakers(DmaSent))
  /\ SF_vars(MicLoop) /\ WF_vars(MicErrorEnds) /\ WF_vars(MicTask)

-----------------------------------------------------------------------------
(* Every variable keeps its type; no queue or ring buffer overflows.       *)
TypeOK ==
  /\ PortTypeOK /\ SpeakerTypeOK
  /\ mic_state_ \in SpeakerStates
  /\ mic_bits \subseteq {"TASK_RUNNING", "TASK_STOPPED", "COMMAND_STOP"}
  /\ mic_error \in BOOLEAN /\ mic_task \in {"none", "begin", "run", "stopped"}
  /\ listeners \in 0..MAX_LISTENERS /\ asked \in 0..MaxListens /\ listens \in 0..MaxListens

(* The speakers share one channel: at most one of them has a task, and the *)
(* channel runs only while one has.  It is never lost: without a handle    *)
(* nothing is allocated, so that a later start can allocate it again.      *)
ChannelHasOneOwner ==
  /\ port.tx # "none" <=> port.tx_handle_
  /\ \A s, t \in Speakers : task[s].pc # "none" /\ task[t].pc # "none" => s = t
  /\ port.tx = "RUNNING" => \E s \in Speakers : task[s].pc # "none"

(* A task gives up playing only because it was told to: by stop(), or by   *)
(* the interrupt that found the speaker's event queue full.  What stopped  *)
(* it the last time does not stop it again, unless the driver failed: a    *)
(* stop() that a failed start answers stays in the event group.            *)
OnlyAskedStops ==
  [][\A s \in Speakers :
       /\ faults = MaxFaults
       /\ task[s].pc = "run" /\ "COMMAND_STOP" \in bits[s] /\ task'[s].pc = "freeing"
       => stop_asked[s]]_vars

(* finish(): when the task ends because of it, all that play() accepted has*)
(* left the channel and has been reported to the audio output callback.    *)
FinishedMeansPlayed ==
  [][\A s \in Speakers :
       /\ task[s].pc = "run" /\ task'[s].pc = "freeing" /\ task'[s].graceful
       /\ "COMMAND_STOP" \notin bits[s] /\ requests' = requests
       => ring[s] = 0 /\ ~task[s].buf /\ dma = 0 /\ task'[s].frames = 0]_vars

(* A microphone that runs has a running channel to read from, whatever the *)
(* speakers do to the port.  A failing driver is excepted: it can leave the*)
(* handle of a deleted channel behind.                                     *)
MicReadsRunningChannel ==
  faults = MaxFaults /\ mic_state_ = "RUNNING" /\ mic_task = "run" =>
    port.rx_handle_ /\ port.rx = "RUNNING"

(* It is the task that records.                                            *)
MicRecording == mic_task \in {"begin", "run"}

AbstractMicrophone == INSTANCE Microphone WITH state <- mic_state_, recording <- MicRecording

(* The I2S microphone keeps the promises of module Microphone, on which    *)
(* the resampling microphone in front of it relies, whatever the speakers  *)
(* do to the port they share.                                              *)
ImplementsMicrophone == AbstractMicrophone!Spec

(* What a client plays is accepted in the end, however often the speaker   *)
(* is stopped, switched or fails to start in between.                      *)
EverythingAccepted == <>(plays = 0)

(* stop() and finish() of a speaker end in STATE_STOPPED, and a microphone *)
(* that runs without listeners stops.                                      *)
StopsInTheEnd ==
  /\ \A s \in Speakers : stop_asked[s] ~> state_[s] = "STOPPED"
  /\ mic_state_ = "RUNNING" /\ listeners = 0 ~> mic_state_ = "STOPPED" \/ listeners > 0

-----------------------------------------------------------------------------
(* What comments of the code say.                                          *)

(* i2s_audio.cpp:215, on the end of I2SAudioIn::stop_i2s_channel: "Delete  *)
(* channel and reset state for clean restart (matches TX behavior and      *)
(* upstream)": a microphone that was stopped can be started again.         *)
MicCanRestart == asked > 0 ~> mic_state_ = "RUNNING" \/ asked = 0

(* i2s_audio_microphone.cpp:107, in loop(): "Stop the microphone if all    *)
(* semaphores are returned": it does not run for nobody.                   *)
MicStopsWithoutListeners == asked = 0 ~> mic_state_ = "STOPPED" \/ asked > 0

(* i2s_audio_microphone.cpp:121, where the driver does not start:          *)
(* "Stop/frees whatever possibly started": no handle is left of a channel  *)
(* that was deleted.                                                       *)
RxHandleIsValid == port.rx_handle_ => port.rx \notin {"none", "freed"}

(* i2s_audio_speaker_standard.cpp:241, in start_i2s_driver: "Start with no *)
(* on_sent callback; the task registers it after the first preload".       *)
NoCallbackBeforePreload ==
  \A s \in Speakers : task[s].pc = "begin" => port.on_sent = Nobody

(* i2s_audio_speaker.h:101, on audio_ring_buffer_: "Weak pointer: task owns*)
(* the shared_ptr; base holds a weak ref for play() / has_buffered_data()":*)
(* the reference that has_buffered_data found valid is valid when taken.   *)
RingBufferCanBeTaken == client = "lock" => RingValid(route)

(* i2s_audio.cpp:153-155, in I2SAudioOut::stop_i2s_channel: "If the mic is *)
(* still active (rx_handle_ != nullptr), keep the handle allocated so the  *)
(* next TX start can re-enable it".                                        *)
TxHandleKeptForMic == port.rx_handle_ => port.tx_handle_
=============================================================================
