--------------------------- MODULE ResamplerFrames ---------------------------
(***************************************************************************)
(* The audio output callback of the resampling speaker (setup() of         *)
(* components/resampler/speaker): the output speaker reports the frames it *)
(* has played at the target rate, and they are passed on as frames of the  *)
(* source rate.  callback_remainder_ carries what the division leaves; it  *)
(* is reset when the speaker starts with a stream.                         *)
(***************************************************************************)
EXTENDS Naturals

CONSTANTS
  Rates,         \* the sample rates of the streams
  TargetRate,    \* target_sample_rate_
  Uint32Range,   \* 2^32 in the code: the product is one of two uint32_t
  MaxFrames,     \* the frames of one report, a part of the output's buffer
  MaxPlayed      \* bound

(* No report is so long that the product leaves a uint32_t: 89478 frames   *)
(* of 48 kHz, far more than a buffer holds.                                *)
ASSUME RatesAssumption ==
  /\ Rates \subseteq Nat \ {0} /\ TargetRate \in Nat \ {0}
  /\ Uint32Range \in Nat \ {0} /\ MaxFrames \in Nat /\ MaxPlayed \in Nat
  /\ \A r \in Rates, n \in 0..MaxFrames : n * r < Uint32Range

VARIABLES
  rate,                   \* of audio_stream_info_
  callback_remainder_,
  played, reported        \* of this stream: target frames in, source frames out

frameVars == <<rate, callback_remainder_, played, reported>>

FramesInit ==
  /\ rate \in Rates
  /\ callback_remainder_ = 0
  /\ played = 0 /\ reported = 0

(* The speaker starts with a new stream, after the last one has stopped.   *)
NewStream ==
  /\ rate' \in Rates
  /\ played' = 0 /\ reported' = 0
  /\ callback_remainder_' = 0

Numerator(new_frames) == ((new_frames * rate) % Uint32Range) + callback_remainder_

(* Mutant: the remainder is set before it is used.                         *)
RemainderFirst(new_frames) ==
  /\ played' = played + new_frames
  /\ callback_remainder_' = (new_frames * rate) % TargetRate
  /\ reported' = reported + ((new_frames * rate + callback_remainder_') \div TargetRate)
  /\ UNCHANGED rate

AudioOutputCallback(new_frames) ==
  /\ played' = played + new_frames
  /\ IF rate # TargetRate
     THEN /\ callback_remainder_' = Numerator(new_frames) % TargetRate
          /\ reported' = reported + (Numerator(new_frames) \div TargetRate)
     ELSE reported' = reported + new_frames /\ UNCHANGED callback_remainder_
  /\ UNCHANGED rate

FramesNext ==
  \/ NewStream
  \/ \E n \in 0..MaxFrames : played + n <= MaxPlayed /\ AudioOutputCallback(n)

FramesSpec == FramesInit /\ [][FramesNext]_frameVars

-----------------------------------------------------------------------------
(* The remainder stays below the divisor; the counts have no bound.        *)
FramesTypeOK ==
  /\ rate \in Rates
  /\ callback_remainder_ \in 0..(TargetRate - 1)
  /\ played \in Nat /\ reported \in Nat

(* What is reported and the remainder make up what was played: no frame is *)
(* lost however the reports are cut.                                       *)
FramesAccountedFor == reported * TargetRate + callback_remainder_ = played * rate

(* So the position of the media player is never ahead, and less than a     *)
(* frame behind.                                                           *)
WithinOneFrame ==
  /\ reported * TargetRate <= played * rate
  /\ played * rate < reported * TargetRate + TargetRate
==============================================================================
