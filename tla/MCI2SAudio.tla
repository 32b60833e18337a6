---------------------------- MODULE MCI2SAudio ----------------------------
(* Instances of I2SAudio for model checking; the configurations choose the *)
(* speakers, what fails and what the clients do.                           *)
EXTENDS I2SAudio
=============================================================================
