------------------------------ MODULE LedRing ------------------------------
(***************************************************************************)
(* The LED ring's master script control_leds and its child scripts, in     *)
(* config/common/led_ring.yaml.  Two of the children show their effect,    *)
(* wait for 2 s and call control_leds again; scripts are in the mode       *)
(* single, so that a child which is still running is not executed again.   *)
(* What control_leds would choose is a parameter here.                     *)
(***************************************************************************)
EXTENDS Naturals

VARIABLES
  led,               \* the effect the ring shows
  warning,
  warning_running, error_running    \* control_leds_warning and ..._error_phase are in their delay

ledVars == <<led, warning, warning_running, error_running>>

LedInit(effect) == led = effect /\ warning = FALSE /\ warning_running = FALSE /\ error_running = FALSE

(* control_leds, for the effect that the state asks for.                   *)
control_leds(effect) ==
  /\ led' = IF (effect = "Warning" /\ warning_running) \/ (effect = "Error" /\ error_running)
            THEN led ELSE effect
  /\ warning_running' = (warning_running \/ effect = "Warning")
  /\ error_running'   = (error_running \/ effect = "Error")

(* The delay of control_leds_warning is over ...                           *)
WarningEnds(effect) ==
  /\ warning_running /\ warning' = FALSE /\ warning_running' = FALSE
  /\ led' = IF effect = "Error" /\ error_running THEN led ELSE effect
  /\ error_running' = (error_running \/ effect = "Error")

(* ... and that of control_leds_voice_assistant_error_phase, which is still*)
(* running while it calls control_leds.                                    *)
ErrorEnds(effect) ==
  /\ error_running /\ error_running' = FALSE /\ UNCHANGED warning
  /\ led' = IF effect = "Error" \/ (effect = "Warning" /\ warning_running) THEN led ELSE effect
  /\ warning_running' = (warning_running \/ effect = "Warning")
=============================================================================
