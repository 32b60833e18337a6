----------------------------- MODULE PdMessages -----------------------------
(***************************************************************************)
(* The pure part of the USB-PD stack (components/fusb302b/pd.cpp): the     *)
(* coding of the 16-bit message header, the parsing of the power data      *)
(* objects (PDOs) a source offers, the choice of the PDO to request and    *)
(* the request data object.                                                *)
(*                                                                         *)
(* A 32-bit PDO is a record of its two type bits B31..30 and of the other  *)
(* thirty, so that every number fits the checker's integers.               *)
(***************************************************************************)
EXTENDS Integers, Sequences, FiniteSetsExt

(* The size values a field can have, from the bit of weight lsb upwards:   *)
(* (word >> k) & (size - 1) for lsb = 2^k.                                 *)
Field(word, lsb, size) == (word \div lsb) % size

(* The fields of a header and their widths (reserved role bits are 0).     *)
MsgHeader ==
  [type : 0..31, spec_rev : 0..3, id : 0..7, num_of_obj : 0..7, extended : 0..1]

(* PDMsg::get_coded_header: shifts by 6, 9, 12 and 15.                     *)
get_coded_header(m) ==
  m.type + m.spec_rev * 64 + m.id * 512 + m.num_of_obj * 4096 + m.extended * 32768

(* PDMsg::set_header                                                       *)
set_header(h) ==
  [ type       |-> Field(h, 1, 32),
    spec_rev   |-> Field(h, 64, 4),
    id         |-> Field(h, 512, 8),
    num_of_obj |-> Field(h, 4096, 8),
    extended   |-> Field(h, 32768, 2) ]

-----------------------------------------------------------------------------
FIXED_SUPPLY    == 0
BATTERY         == 1
VARIABLE_SUPPLY == 2
AUGMENTED_PDO   == 3

Contract(type, min_v, max_v, max_i, max_p) ==
  [type |-> type, min_v |-> min_v, max_v |-> max_v, max_i |-> max_i, max_p |-> max_p]

Contracts == [type : 0..3, min_v : Nat, max_v : Nat, max_i : Nat, max_p : Nat]

(* The value-initialised PdContract{}.                                     *)
NoContract == Contract(FIXED_SUPPLY, 0, 0, 0, 0)

(* A power data object: its type bits and the other thirty.                *)
Pdos == [type : 0..3, body : Nat]

(* pd_parse_power_info: voltages in 50 mV, currents in 10 mA units.        *)
pd_parse_power_info(pdo) ==
  LET B9_0   == Field(pdo.body, 1, 1024)
      B19_10 == Field(pdo.body, 1024, 1024)
      B29_20 == Field(pdo.body, 1048576, 1024)
      B6_0   == Field(pdo.body, 1, 128)
      B15_8  == Field(pdo.body, 256, 256)
      B24_17 == Field(pdo.body, 131072, 256)
  IN  CASE pdo.type = FIXED_SUPPLY    -> Contract(FIXED_SUPPLY, 0, B19_10, B9_0, 0)
        [] pdo.type = BATTERY         -> Contract(BATTERY, B19_10, B29_20, 0, B9_0)
        [] pdo.type = VARIABLE_SUPPLY -> Contract(VARIABLE_SUPPLY, B19_10, B29_20, B9_0, 0)
        [] pdo.type = AUGMENTED_PDO   -> Contract(AUGMENTED_PDO, B15_8 * 2, B24_17 * 2, B6_0 * 5, 0)

(* PdContract::operator== looks at three of the five members.              *)
SameContract(c, d) == c.max_v = d.max_v /\ c.max_i = d.max_i /\ c.type = d.type

(* set_contract_ derives the whole volts that get_contract_voltage returns.*)
ContractVolts(c) == (c.max_v * 5) \div 100

-----------------------------------------------------------------------------
NONE_SELECTED == 255

Fits(c, request_voltage) == (c.max_v * 50) \div 1000 <= request_voltage

(* The loop of respond_to_src_cap_msg_ assigns to selected_info at every   *)
(* offer that is not augmented and that fits, and at the first one that is *)
(* not augmented: nothing is selected before it.                           *)
Assigned(infos, request_voltage) ==
  {n \in 1..Len(infos) :
     /\ infos[n].type # AUGMENTED_PDO
     /\ \/ Fits(infos[n], request_voltage)
        \/ \A k \in 1..(n - 1) : infos[k].type = AUGMENTED_PDO}

(* What it leaves in selected_info: an index from 0, or 255.               *)
SelectPdo(infos, request_voltage) ==
  LET assigned == Assigned(infos, request_voltage)
  IN  IF assigned = {} THEN NONE_SELECTED ELSE Max(assigned) - 1

FallbackContract == Contract(FIXED_SUPPLY, 0, 100, 30, 0)

(* requested_contract_ after respond_to_src_cap_msg_.                      *)
RequestedContract(infos, request_voltage) ==
  LET s == SelectPdo(infos, request_voltage)
  IN  IF s = NONE_SELECTED THEN FallbackContract ELSE infos[s + 1]

(* The fields of a request data object the source reads: the object        *)
(* position (B30..28) and the maximum operating current or power (B9..0).  *)
RequestObject(pos, max_op) == [pos |-> pos % 8, max_op |-> max_op % 1024]

build_source_cap_response(c, pos) ==
  IF c.type # AUGMENTED_PDO
  THEN RequestObject(pos, IF c.max_i # 0 THEN c.max_i ELSE c.max_p)
  ELSE RequestObject(0, 0)

create_fallback_request_message == RequestObject(1, 30)
=============================================================================
