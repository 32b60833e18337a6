---------------------------- MODULE MediaPlayer ----------------------------
(***************************************************************************)
(* The media player as the automations use it; the player is external.     *)
(* What it was told is carried out by its own loop(), which then publishes *)
(* a state: is_announcing and the other conditions of the automations see  *)
(* the published state, which lags behind.                                 *)
(***************************************************************************)
EXTENDS Naturals

VARIABLES
  media,    \* external: what the media pipeline does
  ann,      \* external: the announcement pipeline: silent, a sound, the pause before its repeat
  shown     \* external: the state published last

playerVars == <<media, ann, shown>>

MediaStates == {"IDLE", "PLAYING", "PAUSED"}

PlayerTypeOK ==
  media \in MediaStates /\ ann \in {"none", "sound", "gap"} /\ shown \in MediaStates \union {"ANNOUNCING"}

PlayerInit == media = "IDLE" /\ ann = "none" /\ shown = "IDLE"

is_announcing == shown = "ANNOUNCING"

Audible(state) == state \in {"PLAYING", "ANNOUNCING"}

(* script play_sound: without priority only when nothing is announced.     *)
play_sound(priority) ==
  ann' = (IF priority \/ ~is_announcing THEN "sound" ELSE ann) /\ UNCHANGED <<media, shown>>

(* media_player.stop with announcement.                                    *)
stop_announcement == ann' = "none" /\ UNCHANGED <<media, shown>>

(* What the player's loop() publishes; in the pause before a repeat it may *)
(* or may not go on announcing.                                            *)
Publishes(state) ==
  /\ state # shown
  /\ state = IF ann = "sound" THEN "ANNOUNCING" ELSE media

(* A sound ends once it was published; a repeated one pauses before it     *)
(* starts again.  One whose repeat is turned off in the pause may still be *)
(* played once more.                                                       *)
SoundEnds(repeat) ==
  /\ \/ ann = "sound" /\ is_announcing /\ ann' = IF repeat THEN "gap" ELSE "none"
     \/ ann = "gap" /\ ann' \in IF repeat THEN {"sound"} ELSE {"none", "sound"}
  /\ UNCHANGED <<media, shown>>

(* The media pipeline is told to play, to pause or to stop.                *)
MediaCommand(state) == media' = state /\ UNCHANGED <<ann, shown>>
=============================================================================
