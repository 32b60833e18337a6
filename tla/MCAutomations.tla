--------------------------- MODULE MCAutomations ---------------------------
(* Instances of Automations for model checking.                            *)
EXTENDS Automations
=============================================================================
