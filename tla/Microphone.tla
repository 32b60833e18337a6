----------------------------- MODULE Microphone -----------------------------
(***************************************************************************)
(* What a microphone promises to its listeners, whichever component        *)
(* implements it: the I2S microphone (module I2SAudio) and the resampling  *)
(* microphone (module ResamplerMicrophone) both do, and the resampling one *)
(* is itself a listener of such a microphone (module MicrophoneChain).     *)
(*                                                                         *)
(* Listeners are counted by a semaphore; loop() alone moves the state, and *)
(* may pass through several states in one call; recording says whether     *)
(* there is something that can hand data to the listeners.                 *)
(***************************************************************************)
EXTENDS Naturals

CONSTANT MAX_LISTENERS

VARIABLES state, listeners, recording

micVars == <<state, listeners, recording>>

MicStates == {"STOPPED", "STARTING", "RUNNING", "STOPPING"}

Init == state = "STOPPED" /\ listeners = 0 /\ recording = FALSE

(* start(): without a free place the caller is not counted.                *)
Start ==
  /\ listeners' = IF listeners < MAX_LISTENERS THEN listeners + 1 ELSE listeners
  /\ UNCHANGED <<state, recording>>

(* stop(): ignored by a microphone that is stopped.                        *)
Stop ==
  /\ listeners' = IF state = "STOPPED" \/ listeners = 0 THEN listeners ELSE listeners - 1
  /\ UNCHANGED <<state, recording>>

(* Mutant: a microphone that may look at its listeners later.              *)
LazyLoop ==
  /\ state' \in MicStates /\ recording' \in BOOLEAN /\ UNCHANGED listeners
  /\ state' = "STOPPED" => ~recording'

(* loop().  With listeners it never comes to rest, and stops only to start *)
(* again; without any it never starts, and never goes on running.  One that*)
(* is stopping runs again only after it has stopped, nothing records for a *)
(* stopped one, and recording begins only while it starts.                 *)
Loop ==
  /\ state' \in MicStates /\ recording' \in BOOLEAN /\ UNCHANGED listeners
  /\ listeners > 0 => state' # "STOPPED" /\ (state' = "STOPPING" => state = "STOPPING")
  /\ listeners = 0 => /\ state' # "RUNNING" /\ (state' = "STARTING" => state = "STARTING")
                      /\ state = "STOPPED" => state' = "STOPPED"
  /\ state' = "RUNNING" => state # "STOPPING"
  /\ state' = "STOPPED" => ~recording'
  /\ recording' /\ ~recording => state' \in {"STARTING", "RUNNING"}

(* What records ends, told to or not.                                      *)
Ends == recording /\ recording' = FALSE /\ UNCHANGED <<state, listeners>>

Next == Start \/ Stop \/ Loop \/ Ends

Spec == Init /\ [][Next]_micVars
=============================================================================
