---------------------------- MODULE Automations ----------------------------
(***************************************************************************)
(* The device's automations, composed: voice assistant, wake and stop word,*)
(* timer, buttons, mute switch, jack (config/common/*.yaml), with the DACs *)
(* (AudioOutput), the LED ring (LedRing) and the media player.  They run   *)
(* on the main loop: an automation runs in one step up to a delay or a     *)
(* wait_until, and goes on in a later one.  The voice assistant, the       *)
(* server's pipeline runs and the wake word engine are external.           *)
(*                                                                         *)
(* The model begins when the device is initialised and connected, with     *)
(* nothing in the jack.                                                    *)
(***************************************************************************)
EXTENDS AudioOutput, LedRing

CONSTANTS
  MaxInputs,   \* bound: what users and the server do
  MaxStarts    \* bound: starts of the voice assistant that wait for their 300 ms

ASSUME AutomationsAssumption == MaxInputs \in Nat /\ MaxStarts \in Nat \ {0}

VARIABLES
  timer_ringing, ring_timeout,     \* the switch, and script timer_ring_timeout is in its delay
  stop_enabled, stop_word_once,    \* the stop model, and where script activate_stop_word_once is
  va, asked, open,      \* external: the voice assistant; a run it asked for; one that has started
  connected,            \* external: to the API, to the voice assistant too
  starts,               \* automations in the 300 ms before voice_assistant.start
  ending, error_delay,  \* on_end is in its wait_until, in its delay
  voice_assistant_phase,
  ducked,               \* external: apply_ducking of the mixer's media input
  cut,                  \* history: a run lost its end with the connection
  btn_left, master_mute_switch,
  on_press, on_release, \* the jack automations: which delay they are in
  inputs

ringVars == <<timer_ringing, ring_timeout, stop_enabled, stop_word_once>>
vaVars   == <<va, asked, open, connected, starts>>
endVars  == <<ending, error_delay, voice_assistant_phase>>
jackVars == <<on_press, on_release>>
muteVars == <<btn_left, master_mute_switch>>
duckVars == <<ducked, cut>>
vars == <<playerVars, dacVars, ledVars, ringVars, vaVars, endVars, jackVars, muteVars, duckVars, inputs>>

Phases == {"idle", "waiting", "listening", "thinking", "replying", "not_ready", "error"}

is_running == va # "IDLE"

Init ==
  /\ PlayerInit /\ DacInit /\ LedInit("Off")
  /\ timer_ringing = FALSE /\ ring_timeout = FALSE /\ stop_enabled = FALSE /\ stop_word_once = "off"
  /\ va = "IDLE" /\ asked = FALSE /\ open = FALSE /\ connected = "va" /\ starts = 0
  /\ ending = FALSE /\ error_delay = FALSE /\ voice_assistant_phase = "idle"
  /\ ducked = FALSE /\ cut = FALSE /\ btn_left = FALSE /\ master_mute_switch = FALSE
  /\ on_press = "off" /\ on_release = "off" /\ inputs = MaxInputs

Input == inputs > 0 /\ inputs' = inputs - 1

(* What control_leds chooses.                                              *)
PhaseEffect ==
  [waiting |-> "Waiting for Command", listening |-> "Listening For Command", thinking |-> "Thinking",
   replying |-> "Replying", error |-> "Error", not_ready |-> "Twinkle",
   idle |-> IF master_mute_switch THEN "Muted or Silent" ELSE "Off"]

Effect ==
  IF connected = "no" THEN "Twinkle"
  ELSE IF on_press # "off" THEN "Jack Plugged"
  ELSE IF on_release # "off" THEN "Jack Unplugged"
  ELSE IF warning THEN "Warning"
  ELSE IF timer_ringing THEN "Timer Ring"
  ELSE PhaseEffect[voice_assistant_phase]

RefreshLeds == UNCHANGED warning /\ control_leds(Effect')

duck   == ducked' = TRUE /\ UNCHANGED cut
unduck == ducked' = FALSE /\ cut' = (cut /\ is_running)

-----------------------------------------------------------------------------
(* The player publishes a state: on_state, and on_announcement.            *)

(* Mutant: nothing but the end of a run restores the volume.               *)
OnStateKeepsDucking(state) ==
  /\ OnStateDacs(state)
  /\ IF state = "ANNOUNCING" THEN duck ELSE UNCHANGED duckVars

OnState(state) ==
  /\ OnStateDacs(state)
  /\ CASE state = "ANNOUNCING" -> duck
       [] state # "ANNOUNCING" /\ ~timer_ringing /\ ~is_running -> unduck
       [] OTHER -> UNCHANGED duckVars

PlayerLoop ==
  /\ \E state \in MediaStates \union {"ANNOUNCING"} : Publishes(state) /\ shown' = state /\ OnState(state)
  /\ UNCHANGED <<media, ann, ledVars, ringVars, vaVars, endVars, jackVars, muteVars, inputs>>

(* A change of the volume is published too.                                *)
VolumeChanges ==
  /\ Input /\ OnState(shown)
  /\ UNCHANGED <<playerVars, ringVars, vaVars, endVars, jackVars, muteVars>> /\ RefreshLeds

PlayerSoundEnds ==
  /\ SoundEnds(timer_ringing)
  /\ UNCHANGED <<dacVars, ledVars, ringVars, vaVars, endVars, jackVars, muteVars, duckVars, inputs>>

MediaChanges ==
  /\ Input /\ \E state \in MediaStates : MediaCommand(state)
  /\ UNCHANGED <<dacVars, ledVars, ringVars, vaVars, endVars, jackVars, muteVars, duckVars>>

-----------------------------------------------------------------------------
(* The timer: switch timer_ringing.                                        *)

(* on_timer_finished: turning on a switch that is on does nothing.         *)
TimerFinished ==
  /\ Input /\ connected = "va" /\ ~timer_ringing
  /\ timer_ringing' = TRUE /\ duck /\ stop_enabled' = TRUE /\ play_sound(TRUE)
  /\ ring_timeout' = TRUE
  /\ UNCHANGED <<dacVars, stop_word_once, vaVars, endVars, jackVars, muteVars>> /\ RefreshLeds

(* Mutant: the ring's end does not refresh the LEDs.                       *)
turn_off_ringing_dark ==
  /\ timer_ringing' = FALSE /\ ring_timeout' = FALSE /\ stop_enabled' = FALSE
  /\ IF is_announcing THEN stop_announcement ELSE UNCHANGED playerVars
  /\ unduck
  /\ UNCHANGED <<dacVars, ledVars, stop_word_once, vaVars, endVars, jackVars, muteVars>>

turn_off_ringing ==
  /\ timer_ringing' = FALSE /\ ring_timeout' = FALSE /\ stop_enabled' = FALSE
  /\ IF is_announcing THEN stop_announcement ELSE UNCHANGED playerVars
  /\ unduck
  /\ UNCHANGED <<dacVars, stop_word_once, vaVars, endVars, jackVars, muteVars>> /\ RefreshLeds

RingTimeout == ring_timeout /\ turn_off_ringing /\ UNCHANGED inputs

-----------------------------------------------------------------------------
(* Wake word and action button.                                            *)

(* voice_assistant.stop: a reply is cut off.                               *)
va_stop ==
  /\ va' = IF is_running THEN "STOPPING" ELSE va
  /\ IF va = "REPLYING" THEN stop_announcement ELSE UNCHANGED playerVars

(* voice_assistant.start: ignored while it runs or without a client.       *)
va_start ==
  IF ~is_running /\ connected = "va" THEN va' = "STARTING" /\ asked' = TRUE ELSE UNCHANGED <<va, asked>>

(* What both do first: stop the ring, the assistant or the announcement.   *)
Abort ==
  \/ timer_ringing /\ turn_off_ringing
  \/ /\ ~timer_ringing /\ is_running /\ va_stop
     /\ UNCHANGED <<dacVars, ledVars, ringVars, asked, open, connected, starts, endVars, jackVars,
                    muteVars, duckVars>>
  \/ /\ ~timer_ringing /\ ~is_running /\ is_announcing /\ stop_announcement
     /\ UNCHANGED <<dacVars, ledVars, ringVars, vaVars, endVars, jackVars, muteVars, duckVars>>

(* play_sound, then a delay of 300 ms before the start.                    *)
SoundThenStart ==
  /\ starts < MaxStarts /\ starts' = starts + 1 /\ play_sound(TRUE)
  /\ UNCHANGED <<dacVars, ledVars, ringVars, va, asked, open, connected, endVars, jackVars, muteVars,
                 duckVars>>

Free == ~timer_ringing /\ ~is_running /\ ~is_announcing

(* on_wake_word_detected, with the wake sound on or off; a detection of    *)
(* the stop word is one too.                                               *)
WakeWord ==
  /\ Input /\ ~master_mute_switch
  /\ \/ Abort
     \/ Free /\ SoundThenStart
     \/ /\ Free /\ va_start
        /\ UNCHANGED <<playerVars, dacVars, ledVars, ringVars, open, connected, starts, endVars, jackVars,
                       muteVars, duckVars>>

(* A single click.                                                         *)
ActionButton ==
  /\ Input
  /\ \/ Abort
     \/ /\ Free /\ shown = "PLAYING" /\ MediaCommand("PAUSED")
        /\ UNCHANGED <<dacVars, ledVars, ringVars, vaVars, endVars, jackVars, muteVars, duckVars>>
     \/ Free /\ shown # "PLAYING" /\ ~master_mute_switch /\ SoundThenStart

(* The delay is over; what was checked before it is not checked again.     *)
DelayedStart ==
  /\ starts > 0 /\ starts' = starts - 1 /\ va_start
  /\ UNCHANGED <<playerVars, dacVars, ledVars, ringVars, open, connected, endVars, jackVars, muteVars,
                 duckVars, inputs>>

(* A double or triple press: a sound.                                      *)
OtherPress ==
  /\ Input /\ play_sound(FALSE)
  /\ UNCHANGED <<dacVars, ledVars, ringVars, vaVars, endVars, jackVars, muteVars, duckVars>>

-----------------------------------------------------------------------------
(* The voice assistant's triggers.                                         *)

SetPhase(phase) == voice_assistant_phase' = phase

(* on_start: the server has begun a run, wanted any more or not.           *)
RunStarts ==
  /\ asked /\ ~open /\ asked' = FALSE /\ open' = TRUE /\ duck
  /\ va' = IF va = "STARTING" THEN "RUNNING" ELSE va
  /\ UNCHANGED <<playerVars, dacVars, ledVars, ringVars, connected, starts, endVars, jackVars, muteVars,
                 inputs>>

(* on_listening, on_stt_vad_start, on_stt_vad_end.                         *)
Listening ==
  /\ open /\ va = "RUNNING"
  /\ \E phase \in {"waiting", "listening", "thinking"} : SetPhase(phase)
  /\ UNCHANGED <<playerVars, dacVars, ringVars, vaVars, ending, error_delay, jackVars, muteVars, duckVars,
                 inputs>>
  /\ RefreshLeds

(* on_tts_start, or on_intent_progress with the url of the answer: script  *)
(* activate_stop_word_once begins, unless it is running.                   *)
Reply ==
  /\ open /\ va = "RUNNING" /\ va' = "ANSWERING" /\ SetPhase("replying")
  /\ stop_word_once' = IF stop_word_once = "off" THEN "delay" ELSE stop_word_once
  /\ UNCHANGED <<playerVars, dacVars, timer_ringing, ring_timeout, stop_enabled, asked, open, connected,
                 starts, ending, error_delay, jackVars, muteVars, duckVars, inputs>>
  /\ RefreshLeds

(* External: the assistant announces the answer, and is done when the      *)
(* announcement is; it may then listen again.                              *)
Speaks ==
  /\ open /\ va = "ANSWERING" /\ va' = "REPLYING" /\ play_sound(TRUE)
  /\ UNCHANGED <<dacVars, ledVars, ringVars, asked, open, connected, starts, endVars, jackVars, muteVars,
                 duckVars, inputs>>

Spoken ==
  /\ va = "REPLYING" /\ ann = "none" /\ ~is_announcing
  /\ \/ va' = "IDLE" /\ UNCHANGED <<asked, inputs>>
     \/ va' = "STARTING" /\ connected = "va" /\ asked' = TRUE /\ Input
  /\ UNCHANGED <<playerVars, dacVars, ledVars, ringVars, open, connected, starts, endVars, jackVars,
                 muteVars, duckVars>>

VaStopped ==
  /\ va = "STOPPING" /\ va' = "IDLE"
  /\ UNCHANGED <<playerVars, dacVars, ledVars, ringVars, asked, open, connected, starts, endVars, jackVars,
                 muteVars, duckVars, inputs>>

(* on_error; some errors are ignored, one comes with a sound.              *)
RunFails(code) ==
  /\ Input /\ open /\ is_running /\ va' = "STOPPING"
  /\ voice_assistant_phase' = IF code = "stt-no-text-recognized" THEN voice_assistant_phase ELSE "error"
  /\ IF code = "cloud-auth-failed" THEN play_sound(TRUE) ELSE UNCHANGED playerVars
  /\ UNCHANGED <<dacVars, ringVars, asked, open, connected, starts, ending, error_delay, jackVars, muteVars,
                 duckVars>>
  /\ IF code = "stt-no-text-recognized" THEN UNCHANGED ledVars ELSE RefreshLeds

(* on_end, up to its wait_until ...                                        *)
RunEnds ==
  /\ open /\ open' = FALSE /\ ending' = TRUE
  /\ va' = IF va \in {"STARTING", "RUNNING", "ANSWERING"} THEN "STOPPING" ELSE va
  /\ UNCHANGED <<playerVars, dacVars, ledVars, ringVars, asked, connected, starts, error_delay,
                 voice_assistant_phase, jackVars, muteVars, duckVars, inputs>>

(* ... up to its delay, which an error phase gets, ...                     *)
EndWaited ==
  /\ ending /\ ~is_running /\ ending' = FALSE /\ unduck
  /\ UNCHANGED <<playerVars, dacVars, ringVars, vaVars, jackVars, muteVars, inputs>>
  /\ IF voice_assistant_phase = "error"
     THEN error_delay' = TRUE /\ UNCHANGED <<voice_assistant_phase, ledVars>>
     ELSE SetPhase("idle") /\ UNCHANGED error_delay /\ RefreshLeds

(* ... and to its end.                                                     *)
ErrorDelayEnds ==
  /\ error_delay /\ error_delay' = FALSE /\ SetPhase("idle")
  /\ UNCHANGED <<playerVars, dacVars, ringVars, vaVars, ending, jackVars, muteVars, duckVars, inputs>>
  /\ RefreshLeds

(* on_client_disconnected: no on_end comes for a run.                      *)
Disconnect ==
  /\ Input /\ connected # "no" /\ connected' = "no" /\ asked' = FALSE /\ open' = FALSE
  /\ va_stop /\ SetPhase("not_ready") /\ cut' = (cut \/ asked \/ open)
  /\ UNCHANGED <<dacVars, ringVars, starts, ending, error_delay, jackVars, muteVars, ducked>> /\ RefreshLeds

(* on_client_connected, of the API and then of the voice assistant.        *)
Connect ==
  /\ Input /\ connected = "no" /\ connected' = "api"
  /\ UNCHANGED <<playerVars, dacVars, ringVars, va, asked, open, starts, endVars, jackVars, muteVars,
                 duckVars>>
  /\ RefreshLeds

VaConnects ==
  /\ connected = "api" /\ connected' = "va" /\ SetPhase("idle")
  /\ UNCHANGED <<playerVars, dacVars, ringVars, va, asked, open, starts, ending, error_delay, jackVars,
                 muteVars, duckVars, inputs>>
  /\ RefreshLeds

-----------------------------------------------------------------------------
(* script activate_stop_word_once, after its delay and after its           *)
(* wait_until.                                                             *)
EnableStopWord ==
  /\ stop_word_once = "delay"
  /\ IF timer_ringing THEN stop_word_once' = "off" /\ UNCHANGED stop_enabled
                      ELSE stop_word_once' = "wait" /\ stop_enabled' = TRUE
  /\ UNCHANGED <<playerVars, dacVars, ledVars, timer_ringing, ring_timeout, vaVars, endVars, jackVars,
                 muteVars, duckVars, inputs>>

(* Mutant: the stop word of a ring is disabled too.                        *)
DisableStopWordAlways ==
  /\ stop_word_once = "wait" /\ ~is_announcing /\ stop_word_once' = "off" /\ stop_enabled' = FALSE
  /\ UNCHANGED <<playerVars, dacVars, ledVars, timer_ringing, ring_timeout, vaVars, endVars, jackVars,
                 muteVars, duckVars, inputs>>

(* Mutant: the script waits for the announcement's beginning.              *)
DisableStopWordInSound ==
  /\ stop_word_once = "wait" /\ is_announcing /\ stop_word_once' = "off"
  /\ stop_enabled' = (stop_enabled /\ timer_ringing)
  /\ UNCHANGED <<playerVars, dacVars, ledVars, timer_ringing, ring_timeout, vaVars, endVars, jackVars,
                 muteVars, duckVars, inputs>>

DisableStopWord ==
  /\ stop_word_once = "wait" /\ ~is_announcing /\ stop_word_once' = "off"
  /\ stop_enabled' = (stop_enabled /\ timer_ringing)
  /\ UNCHANGED <<playerVars, dacVars, ledVars, timer_ringing, ring_timeout, vaVars, endVars, jackVars,
                 muteVars, duckVars, inputs>>

-----------------------------------------------------------------------------
(* The mute switches.                                                      *)

(* btn_left on_state: the sound, and the master switch follows.            *)
HardwareMute ==
  /\ Input /\ btn_left' = ~btn_left /\ master_mute_switch' = ~btn_left /\ play_sound(FALSE)
  /\ UNCHANGED <<dacVars, ringVars, vaVars, endVars, jackVars, duckVars>>
  /\ IF master_mute_switch' = master_mute_switch THEN UNCHANGED ledVars ELSE RefreshLeds

(* The master switch is turned on or off by the user: the hardware switch  *)
(* has the last word.                                                      *)
SoftwareMute(on) ==
  /\ Input /\ master_mute_switch' = (on \/ btn_left) /\ UNCHANGED btn_left
  /\ UNCHANGED <<playerVars, dacVars, ringVars, vaVars, endVars, jackVars, duckVars>>
  /\ IF ~on /\ btn_left THEN warning' = TRUE /\ control_leds(Effect')
     ELSE IF master_mute_switch' = master_mute_switch THEN UNCHANGED ledVars ELSE RefreshLeds

WarningOver ==
  /\ UNCHANGED <<playerVars, dacVars, ringVars, vaVars, endVars, jackVars, muteVars, duckVars, inputs>>
  /\ WarningEnds(Effect')

ErrorOver ==
  /\ UNCHANGED <<playerVars, dacVars, ringVars, vaVars, endVars, jackVars, muteVars, duckVars, inputs>>
  /\ ErrorEnds(Effect')

-----------------------------------------------------------------------------
(* The jack's on_press and on_release: at once, after 200 ms and after     *)
(* 800 ms more.  The flags jack_plugged_recently and ..._unplugged_recently*)
(* last as long.                                                           *)

JackIn ==
  /\ Input /\ on_press = "off" /\ on_press' = "sound" /\ LineOutPressed
  /\ UNCHANGED <<on_release, playerVars, ringVars, vaVars, endVars, muteVars, duckVars>> /\ RefreshLeds

JackOut ==
  /\ Input /\ on_release = "off" /\ on_release' = "sound" /\ LineOutReleased
  /\ UNCHANGED <<on_press, playerVars, ringVars, vaVars, endVars, muteVars, duckVars>> /\ RefreshLeds

(* Mutant: no sound when the cable is removed.                             *)
JackSoundIn ==
  /\ \/ on_press = "sound" /\ on_press' = "leds" /\ UNCHANGED on_release /\ play_sound(FALSE)
     \/ on_release = "sound" /\ on_release' = "leds" /\ UNCHANGED <<on_press, playerVars>>
  /\ UNCHANGED <<dacVars, ledVars, ringVars, vaVars, endVars, muteVars, duckVars, inputs>>

JackSound ==
  /\ \/ on_press = "sound" /\ on_press' = "leds" /\ UNCHANGED on_release
     \/ on_release = "sound" /\ on_release' = "leds" /\ UNCHANGED on_press
  /\ play_sound(FALSE)
  /\ UNCHANGED <<dacVars, ledVars, ringVars, vaVars, endVars, muteVars, duckVars, inputs>>

JackShown ==
  /\ \/ on_press = "leds" /\ on_press' = "off" /\ UNCHANGED on_release
     \/ on_release = "leds" /\ on_release' = "off" /\ UNCHANGED on_press
  /\ UNCHANGED <<playerVars, dacVars, ringVars, vaVars, endVars, muteVars, duckVars, inputs>> /\ RefreshLeds

-----------------------------------------------------------------------------
OfDacs(A) == A /\ UNCHANGED <<playerVars, ledVars, ringVars, vaVars, endVars, jackVars, muteVars, duckVars>>

ErrorCodes == {"stt-no-text-recognized", "cloud-auth-failed", "other"}

Next ==
  \/ PlayerLoop \/ VolumeChanges \/ PlayerSoundEnds \/ MediaChanges
  \/ TimerFinished \/ RingTimeout
  \/ WakeWord \/ ActionButton \/ DelayedStart \/ OtherPress
  \/ RunStarts \/ Listening \/ Reply \/ Speaks \/ Spoken \/ VaStopped
  \/ (\E code \in ErrorCodes : RunFails(code))
  \/ RunEnds \/ EndWaited \/ ErrorDelayEnds \/ Disconnect \/ Connect \/ VaConnects
  \/ EnableStopWord \/ DisableStopWord
  \/ HardwareMute \/ (\E on \in BOOLEAN : SoftwareMute(on)) \/ WarningOver \/ ErrorOver
  \/ JackIn \/ JackOut \/ JackSound \/ JackShown
  \/ (OfDacs(Interval \/ ActivateTas2780) /\ UNCHANGED inputs)
  \/ (\E target \in {"tas2780", "pcm5122"} : OfDacs(SwitchOutput(target)) /\ Input)

Spec == Init /\ [][Next]_vars

(* The main loop goes on: the player publishes and its sounds end, delays  *)
(* and wait_untils are over in the end.  The assistant stops when told to, *)
(* and the server ends the runs it starts.                                 *)
FairSpec ==
  /\ Spec
  /\ WF_vars(PlayerLoop) /\ WF_vars(PlayerSoundEnds) /\ WF_vars(RingTimeout)
  /\ WF_vars(EnableStopWord \/ DisableStopWord) /\ WF_vars(VaStopped \/ Spoken)
  /\ WF_vars(RunEnds) /\ WF_vars(EndWaited) /\ WF_vars(JackSound)

-----------------------------------------------------------------------------
(* Every variable keeps its type.                                          *)
TypeOK ==
  /\ PlayerTypeOK /\ DacTypeOK
  /\ warning \in BOOLEAN /\ warning_running \in BOOLEAN /\ error_running \in BOOLEAN
  /\ timer_ringing \in BOOLEAN /\ ring_timeout \in BOOLEAN /\ stop_enabled \in BOOLEAN
  /\ stop_word_once \in {"off", "delay", "wait"}
  /\ va \in {"IDLE", "STARTING", "RUNNING", "ANSWERING", "REPLYING", "STOPPING"}
  /\ asked \in BOOLEAN /\ open \in BOOLEAN /\ connected \in {"no", "api", "va"} /\ starts \in 0..MaxStarts
  /\ ending \in BOOLEAN /\ error_delay \in BOOLEAN /\ voice_assistant_phase \in Phases
  /\ ducked \in BOOLEAN /\ cut \in BOOLEAN /\ btn_left \in BOOLEAN /\ master_mute_switch \in BOOLEAN
  /\ on_press \in {"off", "sound", "leds"} /\ on_release \in {"off", "sound", "leds"}
  /\ inputs \in 0..MaxInputs

(* A ring can be stopped by voice and stops by itself, and the stop word is*)
(* listened for only during a ring or an announcement: the ring and the    *)
(* reply's script enable and disable the same model in any order.          *)
RingStops ==
  /\ timer_ringing <=> ring_timeout
  /\ timer_ringing => stop_enabled
  /\ stop_enabled => timer_ringing \/ stop_word_once = "wait"

(* led_ring.yaml:505: control_leds is called "every time one of these      *)
(* conditions is changing": the ring shows what the state asks for.  An    *)
(* error or a warning may come while its script still shows the last one.  *)
LedShowsState ==
  led = Effect \/ Effect = "Error" \/ (Effect = "Warning" /\ warning_running)

(* The stop word is not listened for for ever.                             *)
StopWordEnds == stop_enabled ~> ~stop_enabled

(* media_player.yaml:300: "Restore audio ducking when not actively playing *)
(* announcements or running voice assistant": music is not left turned     *)
(* down, unless the connection is lost during a run.                       *)
Silent == ~timer_ringing /\ ~is_running /\ ~is_announcing /\ ann = "none" /\ ~asked
Quiet  == Silent /\ ~cut

DuckingEnds == ducked /\ Quiet ~> ~ducked \/ ~Quiet

-----------------------------------------------------------------------------
(* What comments of the code say.                                          *)

(* media_player.yaml:300, without the exception of DuckingEnds: a run that *)
(* lost its end with the connection leaves the music turned down.          *)
DuckingAlwaysEnds == ducked /\ Silent ~> ~ducked \/ ~Silent

(* media_player.yaml:300: the volume is not restored during a ring or a run*)
(* of the assistant.                                                       *)
DuckedWhileBusy == [][ducked /\ ~ducked' => ~timer_ringing' /\ ~is_running']_vars

(* media_player.yaml:303: "Ensure TAS2780 is active when audio is playing  *)
(* through the internal speaker".                                          *)
SpeakerIsActive == Audible(shown) /\ ~line_out_sensor => tas2780_active

(* media_player.yaml:312: "Ensure PCM5122 is out of powerdown when audio is*)
(* playing through the line-out".                                          *)
LineOutIsActive == Audible(shown) /\ router_speaker = "pcm5122" => pcm5122_active

(* buttons.yaml:115: a click "starts the voice assistant if it is not yet  *)
(* running and if the device is not muted".                                *)
MutedIsNotStarted == [][DelayedStart /\ master_mute_switch => UNCHANGED va]_vars

(* led_ring.yaml:505, without the exception for errors in LedShowsState.   *)
EveryErrorIsShown == Effect = "Error" => led = "Error"

(* voice_assistant.yaml:251: "If the end happened because of an error, let *)
(* the error phase on for a second": and then reset the phase of that run, *)
(* not of the next.                                                        *)
PhaseResetIsOfOwnRun == [][ErrorDelayEnds => ~open]_vars
=============================================================================
