-------------------------- MODULE MCPdoSelection --------------------------
(***************************************************************************)
(* PdoSelection over every sequence of up to three offers out of seven:    *)
(* fixed supplies of 5, 9, 15 and 20 V, a variable supply, a battery and a *)
(* programmable supply, in any order.                                      *)
(***************************************************************************)
EXTENDS PdoSelection

Fixed(volts, max_i) == [type |-> FIXED_SUPPLY, body |-> volts * 20 * 1024 + max_i]

MCPdos ==
  { Fixed(5, 300), Fixed(9, 300), Fixed(15, 200), Fixed(20, 500),
    [type |-> VARIABLE_SUPPLY, body |-> 240 * 1048576 + 100 * 1024 + 150],
    [type |-> BATTERY,         body |-> 400 * 1048576 + 100 * 1024 + 120],
    [type |-> AUGMENTED_PDO,   body |-> 110 * 131072 + 33 * 256 + 60] }

MCOffers == UNION {[1..n -> MCPdos] : n \in 1..3}
=============================================================================
