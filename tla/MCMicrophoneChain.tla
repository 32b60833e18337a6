------------------------- MODULE MCMicrophoneChain -------------------------
(* Instances of MicrophoneChain for model checking.                        *)
EXTENDS MicrophoneChain
=============================================================================
