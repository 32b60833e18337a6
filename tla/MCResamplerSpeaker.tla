------------------------ MODULE MCResamplerSpeaker ------------------------
(* Instances of ResamplerSpeaker for model checking; the configurations    *)
(* choose the streams, what fails and what the client asks for.            *)
EXTENDS ResamplerSpeaker
=============================================================================
