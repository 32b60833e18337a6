-------------------------- MODULE MicrophoneChain --------------------------
(***************************************************************************)
(* The microphones of the device in a row, as voice_assistant.yaml         *)
(* configures them: sat1_mics, the resampling microphone, is the only      *)
(* listener of sat1_mics_raw.  Of the raw microphone only what module      *)
(* Microphone promises is used.  start() and stop() of the source reach the*)
(* raw microphone when they change the enabled flag, and the main loop     *)
(* calls the loop() of both components in turn.                            *)
(***************************************************************************)
EXTENDS ResamplerMicrophone

VARIABLES raw_state, raw_listeners, raw_recording,
          turn     \* external: whose loop() the main loop calls next

rawVars   == <<raw_state, raw_listeners, raw_recording>>
chainVars == <<vars, rawVars, turn>>

Raw == INSTANCE Microphone WITH state <- raw_state, listeners <- raw_listeners,
                                recording <- raw_recording

ChainInit == Init /\ Raw!Init /\ turn = "resampler"

SourceFollows ==
  CASE ~source /\ source' -> Raw!Start
    [] source /\ ~source' -> Raw!Stop
    [] OTHER              -> UNCHANGED rawVars

ChainLoop == turn = "resampler" /\ turn' = "raw" /\ Loop /\ SourceFollows

RawLoop == turn = "raw" /\ turn' = "resampler" /\ Raw!Loop /\ UNCHANGED vars

RawData == raw_recording /\ SourceData /\ UNCHANGED <<rawVars, turn>>

RawEnds == Raw!Ends /\ UNCHANGED <<vars, turn>>

(* A step of the resampling microphone that does not touch the source.     *)
OfResampler(A) == A /\ UNCHANGED <<rawVars, turn>>

ChainNext ==
  \/ ChainLoop \/ RawLoop \/ RawData \/ RawEnds
  \/ OfResampler(ListenerStarts \/ ListenerStops \/ ErrorEnds \/ TaskStep)

ChainSpec == ChainInit /\ [][ChainNext]_chainVars

(* The main loop goes round, errors end after their second, the resample   *)
(* task makes progress.  Of the raw microphone: it runs when it has        *)
(* listeners, delivers while it runs, and stops when it has none or was    *)
(* stopping.                                                               *)
FairChainSpec ==
  /\ ChainSpec
  /\ WF_chainVars(ChainLoop) /\ WF_chainVars(RawLoop)
  /\ WF_chainVars(OfResampler(ErrorEnds)) /\ WF_chainVars(OfResampler(TaskStep))
  /\ SF_chainVars(RawData)
  /\ SF_chainVars(RawLoop /\ raw_state' = "RUNNING" /\ raw_recording')
  /\ SF_chainVars(RawLoop /\ raw_state' = "STOPPED")
  /\ SF_chainVars(RawLoop /\ raw_state = "STOPPING" /\ raw_state' # "STOPPING")

-----------------------------------------------------------------------------
(* The raw microphone knows of its listener exactly while that is enabled: *)
(* no stop() of the source falls into a STATE_STOPPED that ignores it,     *)
(* because the raw loop() comes between any two loop()s of the listener.   *)
RawFollows == raw_listeners = IF source THEN 1 ELSE 0

(* When the last listener has left, both microphones stop, unless the      *)
(* resample task fails on its own.                                         *)
ChainStops ==
  state_ = "RUNNING" /\ listeners = 0 /\ task \in {"none", "run"} /\ faults = 0
    ~> (state_ = "STOPPED" /\ raw_state = "STOPPED") \/ listeners > 0
=============================================================================
