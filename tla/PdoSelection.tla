---------------------------- MODULE PdoSelection ----------------------------
(***************************************************************************)
(* PowerDelivery::respond_to_src_cap_msg_ (components/fusb302b/pd.cpp)     *)
(* iteration by iteration: the loop over the offers of a SOURCE_CAP        *)
(* message, and the request built from what it selected.  PdMessages gives *)
(* the outcome in closed form (SelectPdo); this module is what shows that  *)
(* the loop has that outcome.                                              *)
(***************************************************************************)
EXTENDS PdMessages

CONSTANTS
  Offers,    \* the data objects a SOURCE_CAP may carry: sequences of PDOs
  Voltages   \* what request_voltage_ may be

ASSUME OffersAssumption == Offers \subseteq {s \in Seq(Pdos) : Len(s) \in 1..7}
ASSUME VoltagesAssumption == Voltages \subseteq 5..20

VARIABLES
  data_objects, request_voltage_,
  idx, selected, selected_info,
  request      \* the requests sent: none or one, with the contract noted for it

selectionVars == <<data_objects, request_voltage_, idx, selected, selected_info, request>>

SelectionInit ==
  /\ data_objects \in Offers /\ request_voltage_ \in Voltages
  /\ idx = 0 /\ selected = NONE_SELECTED /\ selected_info = NoContract
  /\ request = <<>>

pwr_info == pd_parse_power_info(data_objects[idx + 1])

(* Mutant: augmented offers are considered like any other.                 *)
TakeAugmentedToo ==
  /\ idx < Len(data_objects)
  /\ idx' = idx + 1
  /\ IF Fits(pwr_info, request_voltage_) \/ selected = NONE_SELECTED
     THEN selected' = idx /\ selected_info' = pwr_info
     ELSE UNCHANGED <<selected, selected_info>>
  /\ UNCHANGED <<data_objects, request_voltage_, request>>

(* Mutant: the voltage of an offer is not looked at.                       *)
TakeEveryUsable ==
  /\ idx < Len(data_objects)
  /\ idx' = idx + 1
  /\ IF pwr_info.type # AUGMENTED_PDO
     THEN selected' = idx /\ selected_info' = pwr_info
     ELSE UNCHANGED <<selected, selected_info>>
  /\ UNCHANGED <<data_objects, request_voltage_, request>>

(* One iteration of the loop.                                              *)
Iterate ==
  /\ idx < Len(data_objects)
  /\ idx' = idx + 1
  /\ IF /\ pwr_info.type # AUGMENTED_PDO
        /\ Fits(pwr_info, request_voltage_) \/ selected = NONE_SELECTED
     THEN selected' = idx /\ selected_info' = pwr_info
     ELSE UNCHANGED <<selected, selected_info>>
  /\ UNCHANGED <<data_objects, request_voltage_, request>>

(* Mutant: the object position counts from 0.                              *)
RespondFromZero ==
  /\ idx = Len(data_objects) /\ request = <<>>
  /\ request' = IF selected = NONE_SELECTED
                THEN <<[object |-> create_fallback_request_message, contract |-> FallbackContract]>>
                ELSE <<[object |-> build_source_cap_response(selected_info, selected),
                        contract |-> selected_info]>>
  /\ UNCHANGED <<data_objects, request_voltage_, idx, selected, selected_info>>

(* What follows the loop.                                                  *)
Respond ==
  /\ idx = Len(data_objects) /\ request = <<>>
  /\ request' = IF selected = NONE_SELECTED
                THEN <<[object |-> create_fallback_request_message, contract |-> FallbackContract]>>
                ELSE <<[object |-> build_source_cap_response(selected_info, selected + 1),
                        contract |-> selected_info]>>
  /\ UNCHANGED <<data_objects, request_voltage_, idx, selected, selected_info>>

SelectionNext == Iterate \/ Respond

SelectionSpec == SelectionInit /\ [][SelectionNext]_selectionVars

-----------------------------------------------------------------------------
infos == [n \in 1..Len(data_objects) |-> pd_parse_power_info(data_objects[n])]

Usable(n) == infos[n].type # AUGMENTED_PDO

TypeInv ==
  /\ data_objects \in Seq(Pdos) /\ Len(data_objects) \in 1..7
  /\ request_voltage_ \in 5..20 /\ idx \in 0..Len(data_objects)

(* Of the first idx offers nothing usable was seen, or the last one the    *)
(* loop had to take is selected.                                           *)
SeenInv ==
  \/ selected = NONE_SELECTED /\ \A n \in 1..idx : ~Usable(n)
  \/ /\ selected \in 0..(idx - 1)
     /\ selected + 1 \in Assigned(infos, request_voltage_)
     /\ \A n \in Assigned(infos, request_voltage_) : n <= idx => n <= selected + 1
     /\ selected_info = infos[selected + 1]

(* The request was built after the loop, from what it left.                *)
SentInv ==
  \/ request = <<>>
  \/ /\ idx = Len(data_objects) /\ selected = NONE_SELECTED
     /\ request = <<[object |-> create_fallback_request_message, contract |-> FallbackContract]>>
  \/ /\ idx = Len(data_objects) /\ selected # NONE_SELECTED
     /\ request = <<[object   |-> build_source_cap_response(selected_info, selected + 1),
                     contract |-> selected_info]>>

LoopInv == TypeInv /\ SeenInv /\ SentInv

(* The loop of respond_to_src_cap_msg_ leaves what the closed form says,   *)
(* and the contract noted for the request is the selected offer.           *)
LoopComputesSelectPdo ==
  /\ idx = Len(data_objects) => selected = SelectPdo(infos, request_voltage_)
  /\ request # <<>> => request[1].contract = RequestedContract(infos, request_voltage_)

(* The request names an offer of the source (object position 0 is          *)
(* reserved), never an augmented one unless the source has nothing else,   *)
(* and asks for no more current or power than that offer has.              *)
RequestNamesAnOffer ==
  request # <<>> =>
    LET object == request[1].object IN
    /\ object.pos \in 1..Len(data_objects)
    /\ (\E n \in 1..Len(data_objects) : Usable(n)) =>
         /\ Usable(object.pos)
         /\ object.max_op <= infos[object.pos].max_i \/ object.max_op <= infos[object.pos].max_p

(* The device asks for more than the configured voltage only when no       *)
(* usable offer of the source is within it.                                *)
VoltageRespected ==
  request # <<>> /\ (\E n \in 1..Len(data_objects) : Usable(n) /\ Fits(infos[n], request_voltage_))
  => Fits(request[1].contract, request_voltage_)

(* pd.cpp:139, on the fallback request: "max current 500mA" (in units of   *)
(* 10 mA).                                                                 *)
FallbackAsksFor500mA ==
  request # <<>> /\ selected = NONE_SELECTED => request[1].object.max_op * 10 = 500
=============================================================================
