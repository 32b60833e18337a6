-------------------------- MODULE MCResamplerFrames --------------------------
(* An instance of ResamplerFrames for model checking.                      *)
EXTENDS ResamplerFrames
==============================================================================
