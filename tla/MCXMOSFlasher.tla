--------------------------- MODULE MCXMOSFlasher ---------------------------
(* Instances of XMOSFlasher: pages of two bytes, two pages to a sector and *)
(* two sectors; the embedded image fills three pages, the last one half,   *)
(* and reaches into the second sector; the other one fills exactly one.    *)
EXTENDS XMOSFlasher

MCImages == {"embedded", "other"}

MCImageSize == [i \in MCImages |-> IF i = "embedded" THEN 5 ELSE 2]
=============================================================================
