--------------------------- MODULE PowerDelivery ---------------------------
(***************************************************************************)
(* The USB-PD sink protocol engine, class PowerDelivery of                 *)
(* components/fusb302b/pd.h and pd.cpp: its members, and what each message *)
(* handler does to them.  The operators below are the bodies of the        *)
(* handlers; module FUSB302B says which task runs them and when.           *)
(*                                                                         *)
(* A message is [type, id, objs]; objs is the sequence of parsed PDOs of a *)
(* data message and <<>> for a control message (num_of_obj = 0).  Timers   *)
(* are not clocks: "contract_timer_" is TRUE while armed, and expired      *)
(* holds the names of the armed timers whose delay has passed.             *)
(***************************************************************************)
EXTENDS PdMessages

CONSTANTS
  Faults,        \* the failures the environment may inject
  ConfigVoltage, \* request_voltage of the configuration
  Voltages       \* the volts automations ask for

FaultKinds == {"i2c", "spawn", "early_plug", "glitch", "dup", "late", "reject"}

ASSUME FaultsAssumption == Faults \subseteq FaultKinds
ASSUME VoltagesAssumption == ConfigVoltage \in 5..20 /\ Voltages \subseteq 5..20

VARIABLES
  state_, prev_state_,
  active_ams_,
  last_received_msg_id_,        \* 255: none
  msg_counter_,                 \* uint8_t
  requested_contract_, accepted_contract_,
  contract_timer_,
  wait_src_cap_, tried_soft_reset_, get_src_cap_retry_count_,
  request_voltage_,
  expired,
  tx_fifo                       \* messages handed to the chip, not yet sent

stateVars    == <<state_, prev_state_>>
idVars       == <<last_received_msg_id_, msg_counter_>>
contractVars == <<requested_contract_, accepted_contract_, contract_timer_>>
capVars      == <<wait_src_cap_, tried_soft_reset_, get_src_cap_retry_count_>>

PdStates == {"DISCONNECTED", "PD_TIMEOUT", "DEFAULT_CONTRACT", "TRANSITION",
             "EXPLICIT_SPR_CONTRACT", "ERROR"}

NO_MSG_ID == 255

Timers == {"ams", "contract", "cap"}

Msg(type, id, objs) == [type |-> type, id |-> id, objs |-> objs]
CntrlMsg(type, id)  == Msg(type, id, <<>>)

MsgTypes ==
  {"NONE", "GOODCRC", "SOURCE_CAP", "VENDOR_DEFINED", "REQUEST", "SINK_CAP", "ACCEPT",
   "REJECT", "PS_RDY", "GET_SOURCE_CAP", "GET_SINK_CAP", "GET_STATUS", "SOFT_RESET",
   "NOT_SUPPORTED"}

Messages == [type : MsgTypes, id : 0..7, objs : Seq(Contracts)]

(* What the sink sends: its requests carry a request data object.          *)
SinkMessages == {m \in Messages : m.type = "REQUEST" => m.objs # <<>>}

(* The value-initialised members; config sets request_voltage_.            *)
PdInit ==
  /\ state_ = "DISCONNECTED" /\ prev_state_ = "DISCONNECTED"
  /\ active_ams_ = FALSE
  /\ last_received_msg_id_ = NO_MSG_ID /\ msg_counter_ = 0
  /\ requested_contract_ = NoContract /\ accepted_contract_ = NoContract
  /\ contract_timer_ = FALSE
  /\ wait_src_cap_ = TRUE /\ tried_soft_reset_ = FALSE /\ get_src_cap_retry_count_ = 0
  /\ request_voltage_ = ConfigVoltage
  /\ expired = {}
  /\ tx_fifo = <<>>

(* contract_voltage_: 5 until set_contract_ is first called, then the      *)
(* volts of the accepted contract.                                         *)
contract_voltage_ ==
  IF accepted_contract_ = NoContract THEN 5 ELSE ContractVolts(accepted_contract_)

-----------------------------------------------------------------------------
SinkCap == Contract(FIXED_SUPPLY, 0, 100, 500, 0)

set_state_(s) == prev_state_' = state_ /\ state_' = s

NextId == msg_counter_ % 8

(* send_message: the I2C lock may not be had within 100 ms, or the write   *)
(* to the TX FIFO may fail; no caller looks at the result.                 *)
send_message(m) ==
  \/ tx_fifo' = Append(tx_fifo, m)
  \/ "i2c" \in Faults /\ UNCHANGED tx_fifo

(* Mutant: the acknowledge of the own message does not move the counter.   *)
GoodCrcNotCounted ==
  UNCHANGED <<stateVars, active_ams_, idVars, contractVars, capVars, request_voltage_,
              expired, tx_fifo>>

(* handle_message, GOODCRC: the only message not screened by its id.       *)
handle_goodcrc ==
  /\ msg_counter_' = (msg_counter_ + 1) % 256
  /\ UNCHANGED <<stateVars, active_ams_, last_received_msg_id_, contractVars, capVars,
                 request_voltage_, expired, tx_fifo>>

(* A message whose id is that of the last one is a retransmission.         *)
handle_duplicate ==
  UNCHANGED <<stateVars, active_ams_, idVars, contractVars, capVars,
              request_voltage_, expired, tx_fifo>>

(* handle_data_message_, SOURCE_CAP, with set_ams(true) and                *)
(* respond_to_src_cap_msg_.                                                *)
handle_source_cap(m) ==
  /\ last_received_msg_id_' = m.id
  /\ active_ams_' = TRUE /\ expired' = expired \ {"ams"}
  /\ wait_src_cap_' = FALSE
  /\ requested_contract_' = RequestedContract(m.objs, request_voltage_)
  /\ send_message(Msg("REQUEST", NextId, <<requested_contract_'>>))
  /\ UNCHANGED <<stateVars, msg_counter_, accepted_contract_, contract_timer_,
                 tried_soft_reset_, get_src_cap_retry_count_, request_voltage_>>

(* Mutant: the switch falls through to SOURCE_CAP.                         *)
AnyDataIsSourceCap(m) == handle_source_cap(m)

(* Any other data message only moves the id.                               *)
handle_other_data(m) ==
  /\ last_received_msg_id_' = m.id
  /\ UNCHANGED <<stateVars, active_ams_, msg_counter_, contractVars, capVars,
                 request_voltage_, expired, tx_fifo>>

(* handle_cntrl_message_, ACCEPT, with set_contract_.                      *)
handle_accept(m) ==
  /\ last_received_msg_id_' = m.id
  /\ IF active_ams_
     THEN /\ IF SameContract(requested_contract_, accepted_contract_)
             THEN UNCHANGED stateVars
             ELSE set_state_("TRANSITION")
          /\ accepted_contract_' = requested_contract_
          /\ contract_timer_' = TRUE /\ expired' = expired \ {"contract"}
     ELSE UNCHANGED <<stateVars, accepted_contract_, contract_timer_, expired>>
  /\ UNCHANGED <<active_ams_, msg_counter_, requested_contract_, capVars,
                 request_voltage_, tx_fifo>>

handle_ps_rdy(m) ==
  /\ last_received_msg_id_' = m.id
  /\ active_ams_' = FALSE
  /\ set_state_("EXPLICIT_SPR_CONTRACT")
  /\ UNCHANGED <<msg_counter_, contractVars, capVars, request_voltage_, expired, tx_fifo>>

(* SOFT_RESET, up to and including the send (the task blocks in it) ...    *)
handle_soft_reset_send(m) ==
  /\ last_received_msg_id_' = m.id
  /\ send_message(CntrlMsg("ACCEPT", 0))
  /\ UNCHANGED <<stateVars, active_ams_, msg_counter_, contractVars, capVars,
                 request_voltage_, expired>>

(* ... and the rest of the case.                                           *)
handle_soft_reset_rest ==
  /\ set_state_("DEFAULT_CONTRACT")
  /\ msg_counter_' = 0
  /\ UNCHANGED <<active_ams_, last_received_msg_id_, contractVars, capVars,
                 request_voltage_, expired, tx_fifo>>

(* GET_SINK_CAP is answered with SINK_CAP, an unknown control message with *)
(* NOT_SUPPORTED.                                                          *)
handle_query(m) ==
  /\ last_received_msg_id_' = m.id
  /\ send_message(IF m.type = "GET_SINK_CAP"
                  THEN Msg("SINK_CAP", NextId, <<SinkCap>>)
                  ELSE CntrlMsg("NOT_SUPPORTED", NextId))
  /\ UNCHANGED <<stateVars, active_ams_, msg_counter_, contractVars, capVars,
                 request_voltage_, expired>>

(* handle_message, but for the soft reset, which takes two steps.          *)
handle_message(m) ==
  IF m.objs = <<>> /\ m.type = "GOODCRC" THEN handle_goodcrc
  ELSE IF m.id = last_received_msg_id_ THEN handle_duplicate
  ELSE IF m.objs # <<>>
       THEN IF m.type = "SOURCE_CAP" THEN handle_source_cap(m) ELSE handle_other_data(m)
  ELSE CASE m.type = "ACCEPT"     -> handle_accept(m)
         [] m.type = "PS_RDY"     -> handle_ps_rdy(m)
         [] m.type = "SOFT_RESET" -> handle_soft_reset_send(m)
         [] OTHER                 -> handle_query(m)

StartsSoftReset(m) ==
  m.objs = <<>> /\ m.type = "SOFT_RESET" /\ m.id # last_received_msg_id_

(* request_voltage, from an automation: refused during an AMS.             *)
request_voltage(v) ==
  /\ ~active_ams_
  /\ request_voltage_' = v
  /\ wait_src_cap_' = TRUE
  /\ get_src_cap_retry_count_' = 0
  /\ UNCHANGED <<stateVars, active_ams_, idVars, contractVars, tried_soft_reset_,
                 expired, tx_fifo>>

-----------------------------------------------------------------------------
(* The types of the members; msg_counter_ is a uint8_t.                    *)
PdTypeOK ==
  /\ state_ \in PdStates /\ prev_state_ \in PdStates
  /\ active_ams_ \in BOOLEAN /\ contract_timer_ \in BOOLEAN
  /\ last_received_msg_id_ \in 0..7 \union {NO_MSG_ID} /\ msg_counter_ \in 0..255
  /\ requested_contract_ \in Contracts /\ accepted_contract_ \in Contracts
  /\ wait_src_cap_ \in BOOLEAN /\ tried_soft_reset_ \in BOOLEAN
  /\ get_src_cap_retry_count_ \in Nat
  /\ request_voltage_ \in 5..20 /\ expired \subseteq Timers
  /\ tx_fifo \in Seq(SinkMessages)
=============================================================================
