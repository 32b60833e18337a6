---------------------------- MODULE AudioOutput ----------------------------
(***************************************************************************)
(* The two DACs of config/common/media_player.yaml: the TAS2780 drives the *)
(* internal speaker, the PCM5122 the line-out jack.  Each is powered down  *)
(* when it is not in use, by the jack sensor's automations and by an       *)
(* interval timer, and powered again by on_state of the media player.  The *)
(* scripts they call run to their end without a pause.                     *)
(***************************************************************************)
EXTENDS MediaPlayer

VARIABLES
  line_out_sensor,     \* the jack is plugged
  router_speaker,      \* external: where the router sends the sound
  tas2780_active, pcm5122_active,
  unplugged            \* history: the jack was pulled and on_state has not run since

dacVars == <<line_out_sensor, router_speaker, tas2780_active, pcm5122_active, unplugged>>

DacTypeOK ==
  /\ line_out_sensor \in BOOLEAN /\ router_speaker \in {"tas2780", "pcm5122"}
  /\ tas2780_active \in BOOLEAN /\ pcm5122_active \in BOOLEAN
  /\ unplugged \in BOOLEAN

DacInit ==
  /\ line_out_sensor = FALSE /\ router_speaker = "tas2780"
  /\ tas2780_active = FALSE /\ pcm5122_active = TRUE
  /\ unplugged = FALSE

(* on_press: cable inserted, up to the first delay.                        *)
LineOutPressed ==
  /\ ~line_out_sensor /\ line_out_sensor' = TRUE
  /\ pcm5122_active' = TRUE /\ tas2780_active' = FALSE /\ router_speaker' = "pcm5122"
  /\ unplugged' = FALSE

(* on_release: cable removed; the TAS2780 is left to on_state.             *)
LineOutReleased ==
  /\ line_out_sensor /\ line_out_sensor' = FALSE
  /\ pcm5122_active' = FALSE /\ router_speaker' = "tas2780"
  /\ unplugged' = TRUE /\ UNCHANGED tas2780_active

(* on_state, the part about the DACs: the one in use is powered.           *)
OnStateDacs(state) ==
  /\ tas2780_active' = (tas2780_active \/ (~line_out_sensor /\ Audible(state)))
  /\ pcm5122_active' = (pcm5122_active \/ (line_out_sensor /\ Audible(state)))
  /\ unplugged' = FALSE /\ UNCHANGED <<line_out_sensor, router_speaker>>

(* Mutant: the interval powers down whatever the player does.              *)
IntervalAnyTime ==
  /\ tas2780_active' = FALSE /\ pcm5122_active' = (pcm5122_active /\ ~line_out_sensor)
  /\ UNCHANGED <<line_out_sensor, router_speaker, unplugged>>

(* interval: 30s.  The player may have been idle or paused for 60 s in any *)
(* state in which it is; of what it was told it knows nothing.             *)
Interval ==
  /\ ~Audible(shown)
  /\ tas2780_active' = FALSE /\ pcm5122_active' = (pcm5122_active /\ ~line_out_sensor)
  /\ UNCHANGED <<line_out_sensor, router_speaker, unplugged>>

(* on_power_ready and on_flashing_success activate the TAS2780.            *)
ActivateTas2780 ==
  /\ tas2780_active' = TRUE
  /\ UNCHANGED <<line_out_sensor, router_speaker, pcm5122_active, unplugged>>

(* The API actions switch_to_speaker and switch_to_lineout.                *)
SwitchOutput(target) ==
  /\ router_speaker' = target
  /\ UNCHANGED <<line_out_sensor, tas2780_active, pcm5122_active, unplugged>>

-----------------------------------------------------------------------------
(* The DAC that belongs to the state of the jack.                          *)
DacInUse == IF line_out_sensor THEN pcm5122_active ELSE tas2780_active

(* Nothing is played into a DAC that is powered down, whatever the jack,   *)
(* the interval and the player do: what the player shows as playing comes  *)
(* from a powered DAC, unless the jack was pulled and on_state has not run *)
(* since.                                                                  *)
DacPowered == Audible(shown) => DacInUse \/ unplugged

(* media_player.yaml:110: "TAS2780 is reactivated by on_state once audio   *)
(* is actually playing": what goes on playing when the jack is pulled is   *)
(* heard again in the end.                                                 *)
SpeakerComesBack == Audible(shown) /\ ~DacInUse ~> ~Audible(shown) \/ DacInUse
=============================================================================
