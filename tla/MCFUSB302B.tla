---------------------------- MODULE MCFUSB302B ----------------------------
(***************************************************************************)
(* FUSB302B on small instances: the source is a plain charger, a 5 V PD    *)
(* source or one with a fixed 20 V and a programmable supply.              *)
(***************************************************************************)
EXTENDS FUSB302B

Fixed(v) == Contract(FIXED_SUPPLY, 0, v * 20, 300, 0)
Programmable == Contract(AUGMENTED_PDO, 66, 220, 300, 0)

PlainCharger == <<>>
Pd20V == <<Fixed(5), Fixed(20), Programmable>>

MCCapsBoth == {PlainCharger, Pd20V}
MCCapsPd   == {Pd20V}
MCCapsPlain == {PlainCharger}
=============================================================================
