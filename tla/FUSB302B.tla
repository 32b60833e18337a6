------------------------------ MODULE FUSB302B ------------------------------
(***************************************************************************)
(* The USB-PD controller driver, components/fusb302b/fusb302b.cpp, and its *)
(* surroundings.  Five actors share the members of PowerDelivery:          *)
(*   - the main loop (setup, loop, check_status_, deferred publishes,      *)
(*     automations), whose position inside loop() is pc;                   *)
(*   - the reader task, woken by the INT_N interrupt, which moves messages *)
(*     from the chip's RX FIFO to message_queue_;                          *)
(*   - the trigger task, which takes them from the queue to handle_message;*)
(*   - the chip's interrupt line with the ISR (part of RaiseIrq);          *)
(*   - the USB-C source at the other end of the cable (external).          *)
(* A section that holds i2c_lock_ is one step; between two such sections,  *)
(* and wherever a task can be preempted after a decision, another actor    *)
(* may step.  Failing to get the lock in 100 ms and failing I2C transfers  *)
(* are the same choice, allowed by the fault "i2c".                        *)
(***************************************************************************)
EXTENDS PowerDelivery

CONSTANTS
  QueueLength,  \* xQueueCreate(5, ...)
  SourceCaps,   \* what a source may offer: sequences of PDOs, <<>> is a non-PD charger
  CcLines,      \* the cable's orientations
  Unsolicited,  \* control messages a source sends on its own while idle
  MaxPlugs, MaxReboots, MaxExtras, MaxRequests     \* bounds on the environment

ASSUME QueueLengthAssumption == QueueLength \in Nat \ {0}
ASSUME SourceCapsAssumption == SourceCaps \subseteq Seq(Contracts)
ASSUME UnsolicitedAssumption == Unsolicited \subseteq MsgTypes \ {"NONE", "GOODCRC"}
ASSUME CcLinesAssumption == CcLines \subseteq {1, 2}
ASSUME BoundsAssumption ==
  /\ MaxPlugs \in Nat /\ MaxReboots \in Nat
  /\ MaxExtras \in Nat /\ MaxRequests \in Nat

VARIABLES
  hw_state_, cc_phase_, cc1_lvl_, startup_delay_, vbus_lost_,
  failed,               \* mark_failed(): loop() is not called any more
  pc,                   \* where the main loop is
  deferred,             \* publishes waiting for the scheduler
  reader, rmsg,         \* the reader task and the message it holds
  trigger,              \* the trigger task
  message_queue_,
  notified,             \* the reader's pending task notification
  isr,                  \* the ISR is registered (and the reader exists)
  rx_fifo, irq, auto_crc,   \* the chip: RX FIFO, latched interrupts, AUTO_CRC
  src,                  \* the source
  fired,                \* triggers fired since the last attach
  sent,                 \* what check_status_ sent since the last attach
  power_mode,           \* tas2780_power_mode, set by on_power_ready
  budget                \* what is left of the environment's bounds

hwVars   == <<hw_state_, cc_phase_, cc1_lvl_, startup_delay_, failed>>
taskVars == <<reader, rmsg, trigger, message_queue_, isr>>
chipVars == <<rx_fifo, irq, auto_crc, notified>>
pdVars   == <<stateVars, active_ams_, idVars, contractVars, capVars,
              request_voltage_, expired, tx_fifo>>
autoVars == <<fired, sent, power_mode>>
vars     == <<pdVars, hwVars, vbus_lost_, pc, deferred, taskVars, chipVars, src,
              autoVars, budget>>

NoMsg == CntrlMsg("NONE", 0)

NoSource == [plugged |-> FALSE, cc |-> 1, caps |-> <<>>, mode |-> "off",
             id |-> 0, last |-> NO_MSG_ID, req |-> NoContract, granted |-> NoContract,
             surprised |-> FALSE]

PluggedSource(caps, cc) ==
  [NoSource EXCEPT !.plugged = TRUE, !.cc = cc, !.caps = caps,
                   !.mode = IF caps = <<>> THEN "off" ELSE "caps"]

Sources == {PluggedSource(caps, cc) : caps \in SourceCaps, cc \in CcLines}

(* Everything the firmware and the chip hold after power-up.               *)
PowerUp ==
  /\ PdInit
  /\ hw_state_ = "UNATTACHED" /\ cc_phase_ = "IDLE" /\ cc1_lvl_ = FALSE
  /\ startup_delay_ = FALSE /\ vbus_lost_ = FALSE /\ failed = FALSE
  /\ pc = "setup" /\ deferred = 0
  /\ reader = "none" /\ rmsg = NoMsg /\ trigger = "none" /\ message_queue_ = <<>>
  /\ notified = FALSE /\ isr = FALSE
  /\ rx_fifo = <<>> /\ irq = {} /\ auto_crc = FALSE
  /\ fired = {} /\ sent = {} /\ power_mode = 0

(* The cable that powers the device is there from the start, unless it has *)
(* another supply.                                                         *)
Init ==
  /\ PowerUp
  /\ src \in Sources \union (IF "early_plug" \in Faults THEN {NoSource} ELSE {})
  /\ budget = [plug |-> MaxPlugs, reboot |-> MaxReboots,
               extra |-> MaxExtras, request |-> MaxRequests]

-----------------------------------------------------------------------------
(* Shared fragments.                                                       *)

(* publish() defers a lambda to the scheduler.                             *)
publish == deferred' = deferred + 1

(* fusb_reset_                                                             *)
fusb_reset_ ==
  \/ /\ rx_fifo' = <<>> /\ tx_fifo' = <<>>
     /\ last_received_msg_id_' = NO_MSG_ID /\ msg_counter_' = 0
  \/ "i2c" \in Faults /\ UNCHANGED <<rx_fifo, tx_fifo, idVars>>

(* enable_auto_crc                                                         *)
enable_auto_crc ==
  \/ auto_crc' = TRUE
  \/ "i2c" \in Faults /\ UNCHANGED auto_crc

(* Mutant: the ISR notifies the reader only while it waits.                *)
NotifyOnlyWaiting(bits) ==
  /\ irq' = irq \union bits
  /\ notified' = (notified \/ (irq = {} /\ bits # {} /\ isr /\ reader = "wait"))

(* The chip latches interrupts; INT_N goes low when the first one is       *)
(* latched, and that edge runs fusb302b_isr_handler.                       *)
RaiseIrq(bits) ==
  /\ irq' = irq \union bits
  /\ notified' = (notified \/ (irq = {} /\ bits # {} /\ isr))

-----------------------------------------------------------------------------
(* The main loop.                                                          *)

(* setup: check_chip_id and init_fusb_settings_ (which resets the chip).   *)
Setup ==
  /\ pc = "setup"
  /\ pc' = "idle"
  /\ \/ /\ startup_delay_' = TRUE
        /\ rx_fifo' = <<>> /\ tx_fifo' = <<>> /\ irq' = {} /\ auto_crc' = FALSE
        /\ UNCHANGED <<stateVars, failed, deferred>>
     \/ /\ "i2c" \in Faults
        /\ set_state_("ERROR") /\ publish /\ failed' = TRUE
        /\ UNCHANGED <<startup_delay_, rx_fifo, tx_fifo, irq, auto_crc>>
     \/ /\ "spawn" \in Faults          \* no memory for the mutex
        /\ failed' = TRUE
        /\ UNCHANGED <<stateVars, deferred, startup_delay_, rx_fifo, tx_fifo, irq, auto_crc>>
  /\ UNCHANGED <<active_ams_, idVars, contractVars, capVars, request_voltage_, expired,
                 hw_state_, cc_phase_, cc1_lvl_, vbus_lost_, taskVars, notified, src,
                 autoVars, budget>>

(* The scheduler runs one deferred publish: the registered triggers look   *)
(* at the state of this moment.                                            *)
PowerReady == state_ \in {"EXPLICIT_SPR_CONTRACT", "PD_TIMEOUT"}

FiredTriggers ==
       (IF prev_state_ = "DISCONNECTED" /\ state_ = "DEFAULT_CONTRACT" THEN {"on_connect"} ELSE {})
  \cup (IF PowerReady THEN {"on_power_ready"} ELSE {})
  \cup (IF state_ = "DISCONNECTED" THEN {"on_disconnect"} ELSE {})
  \cup (IF state_ = "ERROR" THEN {"on_error"} ELSE {})

on_power_ready == power_mode' = IF contract_voltage_ >= 9 THEN 2 ELSE 0

RunDeferred ==
  /\ pc = "idle" /\ deferred > 0
  /\ deferred' = deferred - 1
  /\ fired' = fired \union FiredTriggers
  /\ IF PowerReady THEN on_power_ready ELSE UNCHANGED power_mode
  /\ UNCHANGED <<pdVars, hwVars, vbus_lost_, pc, taskVars, chipVars, src, sent, budget>>

(* The power_delivery.request_voltage automation action.                   *)
RequestVoltage ==
  /\ pc = "idle" /\ budget.request > 0
  /\ \E v \in Voltages : request_voltage(v)
  /\ budget' = [budget EXCEPT !.request = @ - 1]
  /\ UNCHANGED <<hwVars, vbus_lost_, pc, deferred, taskVars, chipVars, src, autoVars>>

(* loop: the VBUS check.                                                   *)
LoopStart ==
  /\ pc = "idle" /\ deferred = 0 /\ ~failed
  /\ vbus_lost_' = FALSE
  /\ IF vbus_lost_ /\ hw_state_ = "ATTACHED"
     THEN /\ hw_state_' = "UNATTACHED" /\ cc_phase_' = "IDLE"
          /\ wait_src_cap_' = FALSE /\ active_ams_' = FALSE
          /\ pc' = "detach_reset"
     ELSE /\ pc' = "status"
          /\ UNCHANGED <<hw_state_, cc_phase_, wait_src_cap_, active_ams_>>
  /\ UNCHANGED <<stateVars, idVars, contractVars, tried_soft_reset_,
                 get_src_cap_retry_count_, request_voltage_, expired, tx_fifo, cc1_lvl_,
                 startup_delay_, failed, deferred, taskVars, chipVars, src, autoVars, budget>>

LoopDetachReset ==
  /\ pc = "detach_reset"
  /\ fusb_reset_
  /\ pc' = "detach_state"
  /\ UNCHANGED <<stateVars, active_ams_, contractVars, capVars, request_voltage_, expired,
                 hwVars, vbus_lost_, deferred, taskVars, irq, auto_crc, notified, src,
                 autoVars, budget>>

LoopDetachState ==
  /\ pc = "detach_state"
  /\ set_state_("DISCONNECTED") /\ publish
  /\ pc' = "status"
  /\ UNCHANGED <<active_ams_, idVars, contractVars, capVars, request_voltage_, expired,
                 tx_fifo, hwVars, vbus_lost_, taskVars, chipVars, src, autoVars, budget>>

(* check_status_, UNATTACHED.  The start-up, retry and settle delays only  *)
(* repeat the iteration, so a step is one whose delay is over.  Writing    *)
(* SWITCHES1 clears AUTO_CRC.                                              *)
LoopCcIdle ==
  /\ pc = "status" /\ hw_state_ = "UNATTACHED" /\ cc_phase_ = "IDLE"
  /\ cc_phase_' = "SETTLE_CC1" /\ auto_crc' = FALSE
  /\ pc' = "timer"
  /\ UNCHANGED <<pdVars, hw_state_, cc1_lvl_, startup_delay_, failed, vbus_lost_, deferred,
                 taskVars, rx_fifo, irq, notified, src, autoVars, budget>>

(* cc_read_bc_lvl_ on line n: what a source pulls up.  An unstable reading *)
(* ends in cc_measurement_failed_.                                         *)
BcLvl(n) == src.plugged /\ src.cc = n

LoopCcSettle1 ==
  /\ pc = "status" /\ hw_state_ = "UNATTACHED" /\ cc_phase_ = "SETTLE_CC1"
  /\ cc1_lvl_' = BcLvl(1)
  /\ cc_phase_' = "SETTLE_CC2" \/ ("i2c" \in Faults /\ cc_phase_' = "IDLE")
  /\ pc' = "timer"
  /\ UNCHANGED <<pdVars, hw_state_, startup_delay_, failed, vbus_lost_, deferred, taskVars,
                 chipVars, src, autoVars, budget>>

LoopCcSettle2 ==
  /\ pc = "status" /\ hw_state_ = "UNATTACHED" /\ cc_phase_ = "SETTLE_CC2"
  /\ cc_phase_' = "IDLE"
  /\ \/ /\ cc1_lvl_ # BcLvl(2)
        /\ auto_crc' = FALSE
        /\ pc' = IF startup_delay_ THEN "spawn" ELSE "reattach_crc"
     \/ /\ cc1_lvl_ = BcLvl(2) \/ "i2c" \in Faults
        /\ pc' = "timer"
        /\ UNCHANGED auto_crc
  /\ UNCHANGED <<pdVars, hw_state_, cc1_lvl_, startup_delay_, failed, vbus_lost_, deferred,
                 taskVars, rx_fifo, irq, notified, src, autoVars, budget>>

(* First attach: xTaskCreatePinnedToCore(trigger_task).                    *)
LoopSpawn ==
  /\ pc = "spawn"
  /\ startup_delay_' = FALSE
  /\ \/ /\ trigger' = "create" /\ pc' = "arm"
        /\ UNCHANGED <<stateVars, deferred, hw_state_, failed>>
     \/ /\ "spawn" \in Faults
        /\ failed' = TRUE /\ hw_state_' = "FAILED" /\ set_state_("ERROR") /\ publish
        /\ pc' = "timer"
        /\ UNCHANGED trigger
  /\ UNCHANGED <<active_ams_, idVars, contractVars, capVars, request_voltage_, expired,
                 tx_fifo, cc_phase_, cc1_lvl_, vbus_lost_, reader, rmsg, message_queue_, isr,
                 chipVars, src, autoVars, budget>>

(* Later attaches: enable_auto_crc, then fusb_reset_.                      *)
LoopReattachCrc ==
  /\ pc = "reattach_crc"
  /\ enable_auto_crc
  /\ pc' = "reattach_reset"
  /\ UNCHANGED <<pdVars, hwVars, vbus_lost_, deferred, taskVars, rx_fifo, irq, notified,
                 src, autoVars, budget>>

LoopReattachReset ==
  /\ pc = "reattach_reset"
  /\ fusb_reset_
  /\ pc' = "arm"
  /\ UNCHANGED <<stateVars, active_ams_, contractVars, capVars, request_voltage_, expired,
                 hwVars, vbus_lost_, deferred, taskVars, irq, auto_crc, notified, src,
                 autoVars, budget>>

LoopArm ==
  /\ pc = "arm"
  /\ get_src_cap_retry_count_' = 0 /\ wait_src_cap_' = TRUE /\ tried_soft_reset_' = FALSE
  /\ hw_state_' = "ATTACHED"
  /\ set_state_("DEFAULT_CONTRACT") /\ publish
  /\ fired' = {} /\ sent' = {}
  /\ pc' = "timer"
  /\ UNCHANGED <<active_ams_, idVars, contractVars, request_voltage_, expired, tx_fifo,
                 cc_phase_, cc1_lvl_, startup_delay_, failed, vbus_lost_, taskVars,
                 chipVars, src, power_mode, budget>>

(* check_status_, ATTACHED, up to the decision: an AMS holds everything    *)
(* back for 2 s (check_ams), the wait for SOURCE_CAP advances every 5 s.   *)
AmsBusy == active_ams_ /\ "ams" \notin expired

CapDue == wait_src_cap_ /\ (get_src_cap_retry_count_ = 0 \/ "cap" \in expired)

(* Mutant: no soft reset before giving up.                                 *)
GiveUpAtOnce ==
  /\ pc = "status" /\ hw_state_ = "ATTACHED"
  /\ active_ams_' = AmsBusy
  /\ IF ~AmsBusy /\ CapDue
     THEN /\ get_src_cap_retry_count_' = get_src_cap_retry_count_ + 1
          /\ expired' = expired \ {"cap"}
          /\ pc' = IF get_src_cap_retry_count_ = 0 THEN "timer" ELSE "pd_timeout"
     ELSE pc' = "timer" /\ UNCHANGED <<get_src_cap_retry_count_, expired>>
  /\ UNCHANGED <<stateVars, idVars, contractVars, wait_src_cap_, tried_soft_reset_,
                 request_voltage_, tx_fifo, hwVars, vbus_lost_, deferred, taskVars, chipVars,
                 src, autoVars, budget>>

LoopAttached ==
  /\ pc = "status" /\ hw_state_ = "ATTACHED"
  /\ active_ams_' = AmsBusy
  /\ IF ~AmsBusy /\ CapDue
     THEN /\ get_src_cap_retry_count_' = get_src_cap_retry_count_ + 1
          /\ expired' = expired \ {"cap"}
          /\ pc' = IF get_src_cap_retry_count_ = 0 THEN "timer"
                   ELSE IF get_src_cap_retry_count_' < 2 THEN "send"
                   ELSE IF ~tried_soft_reset_ THEN "soft_reset" ELSE "pd_timeout"
     ELSE /\ pc' = "timer"
          /\ UNCHANGED <<get_src_cap_retry_count_, expired>>
  /\ UNCHANGED <<stateVars, idVars, contractVars, wait_src_cap_, tried_soft_reset_,
                 request_voltage_, tx_fifo, hwVars, vbus_lost_, deferred, taskVars, chipVars,
                 src, autoVars, budget>>

LoopSoftReset ==
  /\ pc = "soft_reset"
  /\ fusb_reset_
  /\ pc' = "send"
  /\ UNCHANGED <<stateVars, active_ams_, contractVars, capVars, request_voltage_, expired,
                 hwVars, vbus_lost_, deferred, taskVars, irq, auto_crc, notified, src,
                 autoVars, budget>>

(* Mutant: tried_soft_reset_ is not set.                                   *)
SoftResetForgotten ==
  /\ pc = "send"
  /\ send_message(CntrlMsg("SOFT_RESET", NextId))
  /\ sent' = sent \union {"SOFT_RESET"}
  /\ get_src_cap_retry_count_' = 2
  /\ pc' = "timer"
  /\ UNCHANGED <<stateVars, active_ams_, idVars, contractVars, wait_src_cap_, tried_soft_reset_,
                 request_voltage_, expired, hwVars, vbus_lost_, deferred, taskVars, chipVars,
                 src, fired, power_mode, budget>>

(* GET_SOURCE_CAP below two tries, SOFT_RESET from the second on.          *)
LoopSend ==
  /\ pc = "send"
  /\ LET type == IF get_src_cap_retry_count_ < 2 THEN "GET_SOURCE_CAP" ELSE "SOFT_RESET"
     IN  /\ send_message(CntrlMsg(type, NextId))
         /\ sent' = sent \union {type}
         /\ IF type = "SOFT_RESET"
            THEN get_src_cap_retry_count_' = 2 /\ tried_soft_reset_' = TRUE
            ELSE UNCHANGED <<get_src_cap_retry_count_, tried_soft_reset_>>
  /\ pc' = "timer"
  /\ UNCHANGED <<stateVars, active_ams_, idVars, contractVars, wait_src_cap_,
                 request_voltage_, expired, hwVars, vbus_lost_, deferred, taskVars, chipVars,
                 src, fired, power_mode, budget>>

LoopPdTimeout ==
  /\ pc = "pd_timeout"
  /\ wait_src_cap_' = FALSE /\ active_ams_' = FALSE
  /\ set_state_("PD_TIMEOUT") /\ publish
  /\ pc' = "timer"
  /\ UNCHANGED <<idVars, contractVars, tried_soft_reset_, get_src_cap_retry_count_,
                 request_voltage_, expired, tx_fifo, hwVars, vbus_lost_, taskVars, chipVars,
                 src, autoVars, budget>>

(* Mutant: the expired timer is cleared without a publish.                 *)
TimerWithoutPublish ==
  /\ pc = "timer"
  /\ IF contract_timer_ /\ "contract" \in expired
     THEN contract_timer_' = FALSE /\ expired' = expired \ {"contract"}
     ELSE UNCHANGED <<contract_timer_, expired>>
  /\ pc' = "idle"
  /\ UNCHANGED <<stateVars, active_ams_, idVars, requested_contract_, accepted_contract_,
                 capVars, request_voltage_, tx_fifo, hwVars, vbus_lost_, deferred, taskVars,
                 chipVars, src, autoVars, budget>>

(* loop: the contract is published 1 s after it was accepted.              *)
LoopTimer ==
  /\ pc = "timer"
  /\ IF contract_timer_ /\ "contract" \in expired
     THEN publish /\ contract_timer_' = FALSE /\ expired' = expired \ {"contract"}
     ELSE UNCHANGED <<deferred, contract_timer_, expired>>
  /\ pc' = "idle"
  /\ UNCHANGED <<stateVars, active_ams_, idVars, requested_contract_, accepted_contract_,
                 capVars, request_voltage_, tx_fifo, hwVars, vbus_lost_, taskVars, chipVars,
                 src, autoVars, budget>>

MainLoop ==
  \/ Setup \/ RunDeferred \/ RequestVoltage \/ LoopStart \/ LoopDetachReset \/ LoopDetachState
  \/ LoopCcIdle \/ LoopCcSettle1 \/ LoopCcSettle2 \/ LoopSpawn \/ LoopReattachCrc
  \/ LoopReattachReset \/ LoopArm \/ LoopAttached \/ LoopSoftReset \/ LoopSend
  \/ LoopPdTimeout \/ LoopTimer

-----------------------------------------------------------------------------
(* The trigger task.                                                       *)

(* Queue, ISR service, reader task and ISR in one step: the task outranks  *)
(* the reader on the core they share and does not block here.              *)
TriggerCreate ==
  /\ trigger = "create"
  /\ \/ /\ trigger' = "receive" /\ reader' = "crc" /\ isr' = TRUE
        /\ UNCHANGED failed
     \/ /\ "spawn" \in Faults
        /\ failed' = TRUE /\ trigger' = "none"
        /\ UNCHANGED <<reader, isr>>
  /\ UNCHANGED <<pdVars, hw_state_, cc_phase_, cc1_lvl_, startup_delay_, vbus_lost_, pc,
                 deferred, rmsg, message_queue_, chipVars, src, autoVars, budget>>

TriggerReceive ==
  /\ trigger = "receive" /\ message_queue_ # <<>>
  /\ message_queue_' = Tail(message_queue_)
  /\ handle_message(Head(message_queue_))
  /\ trigger' = IF StartsSoftReset(Head(message_queue_)) THEN "soft_reset" ELSE "receive"
  /\ UNCHANGED <<hwVars, vbus_lost_, pc, deferred, reader, rmsg, isr, chipVars, src,
                 autoVars, budget>>

TriggerSoftReset ==
  /\ trigger = "soft_reset"
  /\ handle_soft_reset_rest
  /\ trigger' = "receive"
  /\ UNCHANGED <<hwVars, vbus_lost_, pc, deferred, reader, rmsg, message_queue_, isr,
                 chipVars, src, autoVars, budget>>

TriggerTask == TriggerCreate \/ TriggerReceive \/ TriggerSoftReset

-----------------------------------------------------------------------------
(* The reader task.                                                        *)

ReaderCrc ==
  /\ reader = "crc"
  /\ enable_auto_crc
  /\ reader' = "reset"
  /\ UNCHANGED <<pdVars, hwVars, vbus_lost_, pc, deferred, rmsg, trigger, message_queue_,
                 isr, rx_fifo, irq, notified, src, autoVars, budget>>

ReaderReset ==
  /\ reader = "reset"
  /\ fusb_reset_
  /\ reader' = "wait"
  /\ UNCHANGED <<stateVars, active_ams_, contractVars, capVars, request_voltage_, expired,
                 hwVars, vbus_lost_, pc, deferred, rmsg, trigger, message_queue_, isr,
                 irq, auto_crc, notified, src, autoVars, budget>>

ReaderWake ==
  /\ reader = "wait" /\ notified
  /\ notified' = FALSE
  /\ reader' = "status"
  /\ UNCHANGED <<pdVars, hwVars, vbus_lost_, pc, deferred, rmsg, trigger, message_queue_,
                 isr, rx_fifo, irq, auto_crc, src, autoVars, budget>>

(* Mutant: VBUSOK is not looked at.                                        *)
VbusIgnored ==
  /\ reader = "status"
  /\ irq' = {}
  /\ reader' = IF "GCRCSENT" \in irq THEN "drain" ELSE "wait"
  /\ UNCHANGED <<pdVars, hwVars, vbus_lost_, pc, deferred, rmsg, trigger, message_queue_, isr,
                 rx_fifo, auto_crc, notified, src, autoVars, budget>>

(* read_status reads and thereby clears the interrupt registers; when it   *)
(* fails they stay latched, INT_N stays low and the task waits again.      *)
ReaderStatus ==
  /\ reader = "status"
  /\ \/ /\ irq' = {}
        /\ vbus_lost_' = (vbus_lost_ \/ ("VBUSOK" \in irq /\ ~src.plugged))
        /\ reader' = IF "GCRCSENT" \in irq THEN "drain" ELSE "wait"
     \/ /\ "i2c" \in Faults
        /\ reader' = "wait"
        /\ UNCHANGED <<irq, vbus_lost_>>
  /\ UNCHANGED <<pdVars, hwVars, pc, deferred, rmsg, trigger, message_queue_, isr, rx_fifo,
                 auto_crc, notified, src, autoVars, budget>>

(* The loop on RX_EMPTY; a read_message that fails loses the message.      *)
ReaderDrain ==
  /\ reader = "drain"
  /\ IF rx_fifo = <<>>
     THEN reader' = "wait" /\ UNCHANGED <<rx_fifo, rmsg>>
     ELSE /\ rx_fifo' = Tail(rx_fifo)
          /\ \/ reader' = "enqueue" /\ rmsg' = Head(rx_fifo)
             \/ "i2c" \in Faults /\ UNCHANGED <<reader, rmsg>>
  /\ UNCHANGED <<pdVars, hwVars, vbus_lost_, pc, deferred, trigger, message_queue_, isr,
                 irq, auto_crc, notified, src, autoVars, budget>>

(* Mutants: one message more than the queue holds; one message per wake-up.*)
EnqueueOneTooMany ==
  /\ reader = "enqueue"
  /\ message_queue_' = IF Len(message_queue_) <= QueueLength
                       THEN Append(message_queue_, rmsg) ELSE message_queue_
  /\ reader' = "drain" /\ rmsg' = NoMsg
  /\ UNCHANGED <<pdVars, hwVars, vbus_lost_, pc, deferred, trigger, isr, chipVars, src,
                 autoVars, budget>>

EnqueueOnlyOne ==
  /\ reader = "enqueue"
  /\ message_queue_' = IF Len(message_queue_) < QueueLength
                       THEN Append(message_queue_, rmsg) ELSE message_queue_
  /\ reader' = "wait" /\ rmsg' = NoMsg
  /\ UNCHANGED <<pdVars, hwVars, vbus_lost_, pc, deferred, trigger, isr, chipVars, src,
                 autoVars, budget>>

(* xQueueSend with timeout 0: a full queue drops the message.              *)
ReaderEnqueue ==
  /\ reader = "enqueue"
  /\ message_queue_' = IF Len(message_queue_) < QueueLength
                       THEN Append(message_queue_, rmsg) ELSE message_queue_
  /\ reader' = "drain" /\ rmsg' = NoMsg
  /\ UNCHANGED <<pdVars, hwVars, vbus_lost_, pc, deferred, trigger, isr, chipVars, src,
                 autoVars, budget>>

ReaderTask ==
  ReaderCrc \/ ReaderReset \/ ReaderWake \/ ReaderStatus \/ ReaderDrain \/ ReaderEnqueue

-----------------------------------------------------------------------------
(* External: the cable and the source, as far as the driver sees them.     *)

Armed(t) ==
  CASE t = "ams"      -> active_ams_
    [] t = "contract" -> contract_timer_
    [] t = "cap"      -> wait_src_cap_ /\ get_src_cap_retry_count_ > 0

LoopAtRest == pc \in {"idle", "status", "timer"}

(* Nothing is under way between the source and the handlers, and loop() is *)
(* not about to act on what it saw.  (A GOODCRC may stay in the RX FIFO.)  *)
Settled ==
  /\ LoopAtRest /\ ~vbus_lost_
  /\ \A t \in expired : ~Armed(t)
  /\ tx_fifo = <<>> /\ message_queue_ = <<>>
  /\ ~notified /\ irq = {}
  /\ reader \in {"none", "wait"} /\ trigger \in {"none", "receive"}

(* The source owes no message.                                             *)
SourceQuiet == src.mode \in {"off", "idle", "wait_req", "wait_accept"}

(* The cable moves only once the ISR is registered, unless the fault       *)
(* "early_plug" lets it.  It stays out until the driver measures the CC    *)
(* lines again, with AUTO_CRC off, unless the fault "late" lets it return  *)
(* at once.                                                                *)
CableMoves ==
  /\ isr \/ "early_plug" \in Faults
  /\ RaiseIrq({"VBUSOK"})

Plug ==
  /\ ~src.plugged /\ budget.plug > 0
  /\ "late" \in Faults \/ (Settled /\ ~auto_crc)
  /\ src' \in Sources
  /\ budget' = [budget EXCEPT !.plug = @ - 1]
  /\ CableMoves
  /\ UNCHANGED <<pdVars, hwVars, vbus_lost_, pc, deferred, taskVars, rx_fifo, auto_crc,
                 autoVars>>

(* Unplugged, or switched off by the source's hard reset; between the two  *)
(* CC measurements only under the fault "glitch".  Nothing that is in the  *)
(* TX FIFO will be acknowledged.                                           *)
Unplug ==
  /\ src.plugged
  /\ cc_phase_ = "IDLE" \/ "glitch" \in Faults
  /\ src' = NoSource
  /\ tx_fifo' = <<>>
  /\ CableMoves
  /\ UNCHANGED <<stateVars, active_ams_, idVars, contractVars, capVars, request_voltage_,
                 expired, hwVars, vbus_lost_, pc, deferred, taskVars, rx_fifo, auto_crc,
                 autoVars, budget>>

(* A message to nobody.                                                    *)
TxLost ==
  /\ tx_fifo # <<>> /\ (~src.plugged \/ src.caps = <<>>)
  /\ tx_fifo' = Tail(tx_fifo)
  /\ UNCHANGED <<stateVars, active_ams_, idVars, contractVars, capVars, request_voltage_,
                 expired, hwVars, vbus_lost_, pc, deferred, taskVars, chipVars, src,
                 autoVars, budget>>

(* The source sends a message: the chip acknowledges it when AUTO_CRC is   *)
(* on (otherwise the source keeps trying).  A lost acknowledge makes the   *)
(* source send it again.                                                   *)
SourceSends(m, next) ==
  /\ src.plugged /\ auto_crc
  /\ rx_fifo' \in {Append(rx_fifo, m)} \union
                  (IF "dup" \in Faults THEN {rx_fifo \o <<m, m>>} ELSE {})
  /\ RaiseIrq({"GCRCSENT"})
  /\ src' = [next EXCEPT !.id = (m.id + 1) % 8]
  /\ UNCHANGED <<pdVars, hwVars, vbus_lost_, pc, deferred, taskVars, auto_crc, autoVars>>

(* Its protocol.  Answers take it longer than the few statements by which  *)
(* loop() attaches, unless the fault "late" says otherwise.                *)
SourceStep ==
  /\ "late" \in Faults \/ src.mode = "caps" \/ LoopAtRest
  /\ \/ /\ src.mode = "caps"
        /\ SourceSends(Msg("SOURCE_CAP", src.id, src.caps), [src EXCEPT !.mode = "wait_req"])
     \/ /\ src.mode = "accept"
        /\ SourceSends(CntrlMsg("ACCEPT", src.id), [src EXCEPT !.mode = "ps_rdy"])
     \/ /\ src.mode = "reject"
        /\ SourceSends(CntrlMsg("REJECT", src.id), [src EXCEPT !.mode = "idle"])
     \/ /\ src.mode = "ps_rdy"
        /\ SourceSends(CntrlMsg("PS_RDY", src.id),
                       [src EXCEPT !.mode = "idle", !.granted = src.req])
     \/ /\ src.mode = "reset"           \* answers the sink's SOFT_RESET
        /\ SourceSends(CntrlMsg("ACCEPT", 0), [src EXCEPT !.mode = "caps"])
  /\ UNCHANGED budget

(* What an idle source does on its own.  A soft reset restarts its ids.    *)
SourceExtra ==
  /\ src.mode = "idle" /\ budget.extra > 0
  /\ "late" \in Faults \/ Settled
  /\ budget' = [budget EXCEPT !.extra = @ - 1]
  /\ \E type \in Unsolicited :
       CASE type = "SOFT_RESET" ->
              SourceSends(CntrlMsg(type, 0),
                          [src EXCEPT !.mode = "wait_accept", !.last = NO_MSG_ID])
         [] type = "SOURCE_CAP" ->
              SourceSends(Msg(type, src.id, src.caps), [src EXCEPT !.mode = "wait_req"])
         [] type = "VENDOR_DEFINED" ->
              SourceSends(Msg(type, src.id, <<NoContract>>), src)
         [] OTHER -> SourceSends(CntrlMsg(type, src.id), src)

(* The source receives what is in the TX FIFO, and its GOODCRC lands in    *)
(* the RX FIFO without an interrupt the reader waits for.  It ignores a    *)
(* message with the id of the last one, except a soft reset.               *)
SourceAfter(m) ==
  LET heard == [src EXCEPT !.last = m.id]
  IN  CASE m.type = "SOFT_RESET" -> {[heard EXCEPT !.mode = "reset"]}
        [] m.type # "SOFT_RESET" /\ m.id = src.last -> {src}
        [] m.type = "REQUEST" /\ m.id # src.last ->
             IF src.mode = "wait_req"
             THEN {[heard EXCEPT !.mode = mode, !.req = m.objs[1]] :
                     mode \in {"accept"} \union (IF "reject" \in Faults THEN {"reject"} ELSE {})}
             ELSE {[heard EXCEPT !.surprised = TRUE]}
        [] m.type = "ACCEPT" /\ m.id # src.last ->
             {IF src.mode = "wait_accept" THEN [heard EXCEPT !.mode = "caps"] ELSE heard}
        [] m.type = "GET_SOURCE_CAP" /\ m.id # src.last -> {[heard EXCEPT !.mode = "caps"]}
        [] OTHER -> {heard}

SourceReceives ==
  /\ src.plugged /\ src.caps # <<>> /\ tx_fifo # <<>>
  /\ tx_fifo' = Tail(tx_fifo)
  /\ rx_fifo' = Append(rx_fifo, CntrlMsg("GOODCRC", Head(tx_fifo).id))
  /\ src' \in SourceAfter(Head(tx_fifo))
  /\ UNCHANGED <<stateVars, active_ams_, idVars, contractVars, capVars, request_voltage_,
                 expired, hwVars, vbus_lost_, pc, deferred, taskVars, irq, auto_crc, notified,
                 autoVars, budget>>

(* Time: an armed timer runs out.  Without the fault "late" the source and *)
(* the tasks answer within the driver's timeouts.                          *)
Elapse ==
  \E t \in Timers \ expired :
    /\ Armed(t)
    /\ "late" \in Faults \/ (Settled /\ SourceQuiet)
    /\ expired' = expired \union {t}
    /\ UNCHANGED <<stateVars, active_ams_, idVars, contractVars, capVars, request_voltage_,
                   tx_fifo, hwVars, vbus_lost_, pc, deferred, taskVars, chipVars, src,
                   autoVars, budget>>

(* The ESP32 restarts (on_shutdown and cleanup_, or a crash): its memory   *)
(* is lost, the chip and the source go on.                                 *)
Reboot ==
  /\ budget.reboot > 0 /\ pc # "setup"
  /\ budget' = [budget EXCEPT !.reboot = @ - 1]
  /\ state_' = "DISCONNECTED" /\ prev_state_' = "DISCONNECTED" /\ active_ams_' = FALSE
  /\ last_received_msg_id_' = NO_MSG_ID /\ msg_counter_' = 0
  /\ requested_contract_' = NoContract /\ accepted_contract_' = NoContract
  /\ contract_timer_' = FALSE /\ expired' = {}
  /\ wait_src_cap_' = TRUE /\ tried_soft_reset_' = FALSE /\ get_src_cap_retry_count_' = 0
  /\ request_voltage_' = ConfigVoltage
  /\ hw_state_' = "UNATTACHED" /\ cc_phase_' = "IDLE" /\ cc1_lvl_' = FALSE
  /\ startup_delay_' = FALSE /\ vbus_lost_' = FALSE /\ failed' = FALSE
  /\ pc' = "setup" /\ deferred' = 0
  /\ reader' = "none" /\ rmsg' = NoMsg /\ trigger' = "none" /\ message_queue_' = <<>>
  /\ notified' = FALSE /\ isr' = FALSE
  /\ fired' = {} /\ sent' = {} /\ power_mode' = 0
  /\ UNCHANGED <<tx_fifo, rx_fifo, irq, auto_crc, src>>

Environment ==
  Plug \/ Unplug \/ TxLost \/ SourceStep \/ SourceExtra \/ SourceReceives \/ Elapse \/ Reboot

Next == MainLoop \/ TriggerTask \/ ReaderTask \/ Environment

Spec == Init /\ [][Next]_vars

(* What the scheduling of the ESP32 guarantees: the main loop is called    *)
(* again and again, ready tasks get to run, and time passes; and what a    *)
(* working source does: it answers, and gives up when it is not answered.  *)
SourceGivesUp == src.mode \in {"wait_req", "wait_accept"} /\ Settled /\ Unplug

LoopStep == MainLoop /\ ~RequestVoltage

FairSpec ==
  /\ Spec
  /\ WF_vars(LoopStep) /\ WF_vars(TriggerTask) /\ WF_vars(ReaderTask)
  /\ WF_vars(SourceStep) /\ WF_vars(SourceReceives) /\ WF_vars(TxLost)
  /\ WF_vars(SourceGivesUp) /\ WF_vars(Elapse)

-----------------------------------------------------------------------------
(* Types.                                                                  *)

Pcs == {"setup", "idle", "detach_reset", "detach_state", "status", "spawn", "reattach_crc",
        "reattach_reset", "arm", "soft_reset", "send", "pd_timeout", "timer"}

DriverTypeOK ==
  /\ hw_state_ \in {"UNATTACHED", "ATTACHED", "FAILED"}
  /\ cc_phase_ \in {"IDLE", "SETTLE_CC1", "SETTLE_CC2"} /\ cc1_lvl_ \in BOOLEAN
  /\ startup_delay_ \in BOOLEAN /\ vbus_lost_ \in BOOLEAN /\ failed \in BOOLEAN
  /\ pc \in Pcs /\ deferred \in Nat
  /\ reader \in {"none", "crc", "reset", "wait", "status", "drain", "enqueue"}
  /\ trigger \in {"none", "create", "receive", "soft_reset"}
  /\ rmsg \in Messages
  /\ message_queue_ \in Seq(Messages) /\ Len(message_queue_) <= QueueLength
  /\ isr \in BOOLEAN /\ power_mode \in {0, 2}
  /\ fired \subseteq {"on_connect", "on_power_ready", "on_disconnect", "on_error"}
  /\ sent \subseteq {"GET_SOURCE_CAP", "SOFT_RESET"}

SourceModes ==
  {"off", "caps", "wait_req", "accept", "reject", "ps_rdy", "idle", "reset", "wait_accept"}

SourceStates ==
  [plugged : BOOLEAN, cc : {1, 2}, caps : Seq(Contracts), mode : SourceModes, id : 0..7,
   last : 0..7 \union {NO_MSG_ID}, req : Contracts, granted : Contracts, surprised : BOOLEAN]

WorldTypeOK ==
  /\ rx_fifo \in Seq(Messages) /\ irq \subseteq {"GCRCSENT", "VBUSOK"}
  /\ auto_crc \in BOOLEAN /\ notified \in BOOLEAN
  /\ src \in SourceStates
  /\ budget \in [plug : Nat, reboot : Nat, extra : Nat, request : Nat]

(* Every variable keeps its type: the queue never holds more than the      *)
(* events xQueueCreate made room for, msg_counter_ stays a uint8_t, and    *)
(* whatever is in a FIFO or the queue is a message handle_message can take.*)
TypeOK == PdTypeOK /\ DriverTypeOK /\ WorldTypeOK

-----------------------------------------------------------------------------
(* Safety.                                                                 *)

(* The ESP32 has not restarted under a source that goes on: a restart      *)
(* forgets msg_counter_ and requested_contract_, and an exchange it cuts in*)
(* two is only put right by the next soft reset.                           *)
NotRestarted == budget.reboot = MaxReboots

(* The source never discards a message of the driver as a retransmission:  *)
(* msg_counter_ has moved on before the next message is built, although it *)
(* is only advanced when the source's GOODCRC has come through the RX FIFO *)
(* and the queue, which nothing but the next message triggers.             *)
FreshMessageIds ==
  NotRestarted /\ src.plugged /\ tx_fifo # <<>> =>
    Head(tx_fifo).type = "SOFT_RESET" \/ Head(tx_fifo).id # src.last

(* The driver sends a REQUEST only to a source that waits for one: one per *)
(* SOURCE_CAP, whatever is retransmitted or soft-reset in between.         *)
RequestOnlyWhenAsked == ~src.surprised

(* Once a negotiation has come to rest, the contract the driver reports is *)
(* the one the source granted, and the amplifier's power mode is the one   *)
(* on_power_ready derives from it.                                         *)
AmpModeMatchesContract ==
  /\ NotRestarted
  /\ state_ = "EXPLICIT_SPR_CONTRACT" /\ hw_state_ = "ATTACHED" /\ src.plugged
  /\ Settled /\ src.mode = "idle" /\ pc = "idle" /\ deferred = 0 /\ ~contract_timer_
  => /\ SameContract(accepted_contract_, src.granted)
     /\ power_mode = IF ContractVolts(src.granted) >= 9 THEN 2 ELSE 0

(* check_status_ gives up on power delivery only with a partner that does  *)
(* not speak it: the soft reset it tries first brings any PD source back   *)
(* to offering its capabilities.                                           *)
TimeoutOnlyWithoutPd == [][LoopPdTimeout => ~src.plugged \/ src.caps = <<>>]_vars

(* check_status_ sends at most one soft reset per attach, also when        *)
(* automations restart the wait for SOURCE_CAP, and the count that drives  *)
(* it stops at three.                                                      *)
OneSoftResetPerAttach ==
  /\ pc \in {"soft_reset", "send"} => "SOFT_RESET" \notin sent
  /\ get_src_cap_retry_count_ <= 3

(* An interrupt the chip has latched is one the reader task will look at:  *)
(* the INT_N edge was not lost.  It can be when a status read fails or the *)
(* cable moves before the ISR is registered.                               *)
NoLostWakeup ==
  /\ "i2c" \notin Faults /\ "early_plug" \notin Faults
  /\ isr /\ irq # {}
  => notified \/ reader = "status"

(* A message of the source in the RX FIFO is announced by its interrupt or *)
(* about to be fetched by the reader's loop on RX_EMPTY.                   *)
Unread == \E i \in 1..Len(rx_fifo) : rx_fifo[i].type # "GOODCRC"

NoStrandedMessage ==
  "i2c" \notin Faults /\ isr /\ Unread => "GCRCSENT" \in irq \/ reader \in {"drain", "enqueue"}

-----------------------------------------------------------------------------
(* The inductive invariants behind them.                                   *)

(* The life of the driver, from the main loop's and the tasks' side: before*)
(* setup; measuring for the first attach; the trigger task not yet run; all*)
(* tasks running; failed.                                                  *)
Starting ==
  /\ pc = "setup" /\ hw_state_ = "UNATTACHED" /\ ~startup_delay_ /\ ~failed
  /\ trigger = "none" /\ reader = "none" /\ ~isr /\ ~vbus_lost_

Measuring ==
  /\ pc \in {"idle", "status", "timer", "spawn"} /\ hw_state_ = "UNATTACHED"
  /\ startup_delay_ /\ ~failed
  /\ trigger = "none" /\ reader = "none" /\ ~isr /\ ~vbus_lost_ /\ ~auto_crc

FirstAttach == pc = "arm" \/ hw_state_ = "ATTACHED"

LaterPcs == {"idle", "status", "timer", "arm", "soft_reset", "send", "pd_timeout"}

Spawning ==
  /\ pc \in LaterPcs /\ FirstAttach /\ ~startup_delay_ /\ ~failed
  /\ trigger = "create" /\ reader = "none" /\ ~isr /\ ~vbus_lost_ /\ ~auto_crc

Running ==
  /\ pc \notin {"setup", "spawn"} /\ ~startup_delay_ /\ ~failed
  /\ trigger \in {"receive", "soft_reset"} /\ reader # "none" /\ isr

Stopped ==
  /\ failed /\ pc \in LaterPcs
  /\ pc \in {"idle", "timer"} \/ FirstAttach
  /\ trigger = "none" /\ reader = "none" /\ ~isr /\ ~vbus_lost_

PhaseInv == Starting \/ Measuring \/ Spawning \/ Running \/ Stopped

(* Before the ISR exists nothing is latched and nothing is unread.         *)
WakeupInv ==
  /\ NoLostWakeup
  /\ "early_plug" \notin Faults /\ (Measuring \/ Spawning) => irq = {}

FifoInv ==
  /\ NoStrandedMessage
  /\ Measuring \/ Spawning => ~Unread

SoftResetInv ==
  /\ ~tried_soft_reset_ => "SOFT_RESET" \notin sent
  /\ pc \in {"soft_reset", "send"} => ~tried_soft_reset_ /\ get_src_cap_retry_count_ = 2
  /\ ~tried_soft_reset_ /\ get_src_cap_retry_count_ >= 2 => pc \in {"soft_reset", "send"}
  /\ get_src_cap_retry_count_ \in 0..3
  /\ get_src_cap_retry_count_ = 3 => ~wait_src_cap_ \/ pc = "pd_timeout"

-----------------------------------------------------------------------------
(* The exchange of messages.                                               *)

(* The messages of the source on their way to handle_message: in the queue,*)
(* in the reader's hands, in the RX FIFO.                                  *)
Held == IF reader = "enqueue" THEN <<rmsg>> ELSE <<>>

Pipe == message_queue_ \o Held \o rx_fifo

OnlyGoodCrc == \A i \in 1..Len(Pipe) : Pipe[i].type = "GOODCRC"

(* What handle_message never answers.                                      *)
Unanswered == {"GOODCRC", "ACCEPT", "PS_RDY"}

(* The I2C bus works, the source and the tasks answer in time, and the     *)
(* cable is not plugged in again while acknowledges get lost: fusb_reset_  *)
(* then forgets the id by which a retransmission would be recognised.      *)
Orderly ==
  /\ "i2c" \notin Faults /\ "late" \notin Faults
  /\ "dup" \in Faults => MaxPlugs = 0

(* What the source does until a message that asks for an answer gets it.   *)
Waits(m) ==
  CASE m.type = "SOURCE_CAP" -> src.mode = "wait_req"
    [] m.type = "SOFT_RESET" -> src.mode = "wait_accept" /\ src.last = NO_MSG_ID
    [] OTHER -> src.mode = "idle"

(* Of a message that asks for an answer only a retransmission is left ...  *)
Spent(i) == "dup" \in Faults /\ i = 1 /\ Pipe[i].id = last_received_msg_id_

(* ... or it is the last one the source has sent, and nothing is under way *)
(* in the other direction.                                                 *)
Pending(i) ==
  /\ tx_fifo = <<>> /\ Waits(Pipe[i])
  /\ \/ i = Len(Pipe)
     \/ "dup" \in Faults /\ i + 1 = Len(Pipe) /\ Pipe[i + 1] = Pipe[i]

Exchanging == src.plugged /\ trigger \in {"receive", "soft_reset"}

(* One exchange at a time, and a REQUEST only while the source waits for it.*)
QuestionsOpen ==
  Exchanging =>
    \A i \in 1..Len(Pipe) : Pipe[i].type \notin Unanswered => Spent(i) \/ Pending(i)

OneAtATime ==
  Exchanging /\ tx_fifo # <<>> =>
    /\ Len(tx_fifo) = 1 /\ SourceQuiet /\ Len(Pipe) <= 1
    /\ \A i \in 1..Len(Pipe) : Pipe[i].type \notin Unanswered

RequestsAwaited ==
  src.plugged =>
    \A i \in 1..Len(tx_fifo) : tx_fifo[i].type = "REQUEST" => i = 1 /\ src.mode = "wait_req"

ExchangeInv == QuestionsOpen /\ OneAtATime /\ RequestsAwaited /\ RequestOnlyWhenAsked

(* The wait for SOURCE_CAP is over, check_status_ has yet to act on it.    *)
DuePcs == {"soft_reset", "send", "pd_timeout"}

CapExpired == Armed("cap") /\ "cap" \in expired

SendDue == trigger # "none" /\ (pc \in DuePcs \/ CapExpired)

(* It is only when nothing is under way, and stays so until the soft reset *)
(* is sent.                                                                *)
DueInv ==
  /\ SendDue =>
       /\ tx_fifo = <<>> /\ OnlyGoodCrc /\ SourceQuiet
       /\ trigger = "receive" /\ reader \notin {"none", "crc", "reset"}
       /\ src.plugged =>
            /\ reader = "wait" /\ ~notified /\ irq = {} /\ message_queue_ = <<>>
            /\ pc = "send" => rx_fifo = <<>> /\ last_received_msg_id_ = NO_MSG_ID
  /\ pc \in DuePcs => "cap" \notin expired

(* Where the main loop and the tasks are when the cable moves.             *)
AttachInv ==
  /\ vbus_lost_ \/ pc \in {"detach_reset", "detach_state"} => ~src.plugged
  /\ pc \in {"reattach_crc", "reattach_reset"} => hw_state_ = "UNATTACHED"
  /\ MaxPlugs = 0 => budget.plug = 0
  /\ MaxPlugs = 0 /\ isr /\ src.plugged => FirstAttach
  /\ reader \in {"none", "crc", "reset"} => message_queue_ = <<>>
  /\ reader \in {"none", "crc", "reset"} /\ trigger # "none" => tx_fifo = <<>>
  /\ Measuring => tx_fifo = <<>>
  /\ Starting \/ Measuring => get_src_cap_retry_count_ = 0

(* The id of the next message of the driver, once handle_soft_reset_ is    *)
(* over, and the acknowledge that will move it on.                         *)
Counter == IF trigger = "soft_reset" THEN 0 ELSE msg_counter_

Acknowledged == \E i \in 1..Len(Pipe) : Pipe[i].type = "GOODCRC"

Counting == reader \notin {"none", "crc", "reset"}

(* msg_counter_ and the source's last id move in step: it is one behind    *)
(* while the acknowledge is under way.                                     *)
CounterInv ==
  /\ budget.reboot <= MaxReboots
  /\ src.caps = <<>> => src.last = NO_MSG_ID
  /\ NotRestarted /\ src.plugged /\ ~Counting =>
       IF failed THEN \A i \in 1..Len(tx_fifo) : tx_fifo[i].type = "SOFT_RESET"
                 ELSE src.last = NO_MSG_ID /\ tx_fifo = <<>>
  /\ NotRestarted /\ src.plugged /\ Counting =>
       /\ \A i \in 1..Len(Pipe) : Pipe[i].type = "GOODCRC" =>
            /\ i <= 2 /\ Pipe[i].objs = <<>>
            /\ \A j \in 1..Len(Pipe) : Pipe[j].type = "GOODCRC" => j = i
       /\ tx_fifo = <<>> /\ pc # "send" /\ src.last # NO_MSG_ID =>
            (Counter + (IF Acknowledged THEN 1 ELSE 0)) % 8 = (src.last + 1) % 8
       /\ tx_fifo # <<>> =>
            /\ tx_fifo[1].id = Counter % 8
            /\ tx_fifo[1].type = "SOFT_RESET" \/ tx_fifo[1].id # src.last

(* The soft reset of check_status_ is under way, and the answers to it.    *)
Answers(types) == tx_fifo = <<>> /\ \A i \in 1..Len(Pipe) : Pipe[i].type \in types

Recovering == tried_soft_reset_ /\ wait_src_cap_ /\ src.plugged /\ src.caps # <<>> /\ isr

RecoverySteps ==
  \/ Pipe = <<>> /\ Len(tx_fifo) = 1 /\ tx_fifo[1].type = "SOFT_RESET"
  \/ src.mode = "reset" /\ Len(Pipe) <= 1 /\ Answers({"GOODCRC"})
  \/ src.mode = "caps" /\ src.id = 1 /\ Len(Pipe) <= 3 /\ Answers({"GOODCRC", "ACCEPT"})
  \/ /\ src.mode = "wait_req" /\ Len(Pipe) <= 5 /\ Answers({"GOODCRC", "ACCEPT", "SOURCE_CAP"})
     /\ \E i \in 1..Len(Pipe) : Pipe[i].type = "SOURCE_CAP"

RecoveryInv ==
  Recovering =>
    /\ trigger = "receive" /\ Counting /\ ~SendDue
    /\ last_received_msg_id_ \in {NO_MSG_ID, 0}
    /\ \A i \in 1..Len(Pipe) :
         /\ Pipe[i].type = "GOODCRC" => Pipe[i].objs = <<>>
         /\ Pipe[i].type = "ACCEPT" => Pipe[i].id = 0
         /\ Pipe[i].type = "SOURCE_CAP" => Pipe[i].id = 1 /\ Pipe[i].objs # <<>>
    /\ RecoverySteps

(* So check_status_ does not give up on a source that speaks PD.           *)
TimeoutInv ==
  /\ RecoveryInv
  /\ pc = "pd_timeout" => ~src.plugged \/ src.caps = <<>>
  /\ MaxRequests = 0 => budget.request = 0
  /\ isr /\ hw_state_ = "UNATTACHED" => ~wait_src_cap_ \/ pc = "arm"
  /\ isr /\ ~auto_crc => reader = "crc" \/ hw_state_ = "UNATTACHED"
  /\ isr /\ ~auto_crc /\ pc \in {"reattach_reset", "arm"} => reader = "crc"
  /\ ~isr /\ tried_soft_reset_ => failed /\ pc \in {"timer", "idle"}

-----------------------------------------------------------------------------
(* The contract.                                                           *)

(* What handle_message never answers is a control message.                 *)
SourceMessages == {m \in Messages : m.type \in Unanswered => m.objs = <<>>}

WireInv ==
  /\ message_queue_ \in Seq(SourceMessages) /\ rx_fifo \in Seq(SourceMessages)
  /\ rmsg \in SourceMessages

Talking == NotRestarted /\ Exchanging

InPipe(type) == \E i \in 1..Len(Pipe) : Pipe[i].type = type

(* An ACCEPT that handle_message will not take for a retransmission.       *)
AcceptDue ==
  \E i \in 1..Len(Pipe) : Pipe[i].type = "ACCEPT" /\ Pipe[i].id # last_received_msg_id_

Sending(types) == tx_fifo # <<>> /\ Head(tx_fifo).type \in types

(* Where the main loop and the tasks are while AUTO_CRC is off.            *)
PlaceInv ==
  /\ budget.reboot <= MaxReboots
  /\ trigger \in {"none", "create"} => state_ # "EXPLICIT_SPR_CONTRACT"
  /\ pc \in DuePcs => hw_state_ = "ATTACHED"
  /\ isr /\ ~auto_crc => reader = "crc" \/ hw_state_ = "UNATTACHED"
  /\ isr /\ ~auto_crc /\ pc \in {"reattach_reset", "arm"} => reader = "crc"
  /\ reader \in {"crc", "reset"} => FirstAttach /\ ~vbus_lost_

(* Until the reader has reset the chip, nothing has been asked ...         *)
Unasked ==
  NotRestarted /\ src.plugged /\ ~Counting /\ ~failed =>
    /\ tx_fifo = <<>> /\ src.mode \in {"off", "caps", "wait_req"}
    /\ ~InPipe("ACCEPT") /\ ~InPipe("PS_RDY")

(* ... while loop() attaches, nothing has been accepted ...                *)
Unaccepted ==
  Talking /\ pc \in {"reattach_crc", "reattach_reset", "arm"} =>
    /\ src.mode \in {"off", "caps", "wait_req", "accept", "reject"}
    /\ ~InPipe("ACCEPT") /\ ~Sending({"SOFT_RESET"})

(* ... and before it does, a source that has come back is not heard.       *)
Unheard ==
  Talking /\ hw_state_ = "UNATTACHED" =>
    \/ pc \in {"reattach_reset", "arm"}
    \/ ~auto_crc /\ src.mode \in {"off", "caps"} /\ OnlyGoodCrc /\ tx_fifo = <<>>

PlugInv == PlaceInv /\ Unasked /\ Unaccepted /\ Unheard

(* What the messages on their way say of the source.                       *)
Replies ==
  /\ \A i \in 1..Len(Pipe) :
       /\ Pipe[i].type = "SOURCE_CAP" =>
            /\ src.mode \in {"wait_req", "accept", "reject", "ps_rdy", "idle"}
            /\ src.mode = "wait_req" => (Pipe[i].id + 1) % 8 = src.id
       /\ Pipe[i].type = "ACCEPT" =>
            /\ src.mode \in {"caps", "wait_req", "ps_rdy", "idle"}
            /\ src.mode \in {"ps_rdy", "idle"} => i <= 4
       /\ Pipe[i].type = "PS_RDY" =>
            /\ src.mode = "idle" /\ src.granted = src.req
            /\ \A j \in (i + 1)..Len(Pipe) : Pipe[j].type # "ACCEPT"
  /\ src.mode = "accept" => Len(Pipe) <= 2
  /\ Sending({"GET_SOURCE_CAP", "SOFT_RESET"}) => ~InPipe("SOURCE_CAP")

(* The contract the source has been asked for is the one handle_accept     *)
(* will take, in the AMS the request started ...                           *)
RequestOpen == requested_contract_ = src.req /\ AmsBusy

(* ... or has taken, with its publish to come.                             *)
ContractTaken == accepted_contract_ = src.req /\ contract_timer_ /\ "contract" \notin expired

(* No ACCEPT is lost, and the one that answers a soft reset finds no AMS.  *)
AmsState ==
  /\ Sending({"REQUEST"}) =>
       /\ Head(tx_fifo).objs[1] = requested_contract_ /\ AmsBusy
       /\ last_received_msg_id_ # src.id
  /\ src.mode = "accept" => RequestOpen /\ last_received_msg_id_ # src.id
  /\ src.mode = "ps_rdy" => RequestOpen /\ (AcceptDue \/ ContractTaken)
  /\ InPipe("PS_RDY") => AcceptDue \/ ContractTaken
  /\ AcceptDue /\ src.mode = "idle" => RequestOpen /\ src.granted = src.req
  /\ AcceptDue /\ src.mode \in {"caps", "wait_req"} => ~active_ams_
  /\ src.mode = "reset" \/ pc \in {"soft_reset", "send"} \/ Sending({"SOFT_RESET"}) => ~active_ams_

(* The contract is the granted one, and the amplifier knows it or will.    *)
Agreed ==
  hw_state_ = "ATTACHED" /\ state_ = "EXPLICIT_SPR_CONTRACT" =>
    /\ \/ src.mode = "ps_rdy" \/ (src.mode = "idle" /\ AcceptDue)
       \/ accepted_contract_ = src.granted
    /\ \/ contract_timer_ \/ deferred > 0
       \/ power_mode = IF contract_voltage_ >= 9 THEN 2 ELSE 0

ContractInv == WireInv /\ PlugInv /\ (Talking => Replies /\ AmsState /\ Agreed)

-----------------------------------------------------------------------------
(* Liveness.                                                               *)

Attached == hw_state_ = "ATTACHED" /\ src.plugged

GoneOrRestarted == ~src.plugged \/ pc = "setup"

(* Attached to a PD source, the driver gets its explicit contract and      *)
(* tells on_power_ready, also when the ESP32 restarts with a contract in   *)
(* place and the source has no reason to speak first.  Attached to a       *)
(* charger that never answers, it reports PD_TIMEOUT.                      *)
AttachSettles ==
  Attached ~>
    \/ /\ state_ = IF src.caps = <<>> THEN "PD_TIMEOUT" ELSE "EXPLICIT_SPR_CONTRACT"
       /\ "on_power_ready" \in fired
    \/ GoneOrRestarted

(* A lost VBUS ends the attachment.  A cable that is pulled between the two*)
(* CC measurements of an attach (the fault glitch) is excepted: its flag is*)
(* consumed before the driver is ATTACHED.                                 *)
DetachNoticed == hw_state_ = "ATTACHED" /\ ~src.plugged ~> hw_state_ # "ATTACHED" \/ src.plugged

-----------------------------------------------------------------------------
(* What comments and messages of the code say.                             *)

(* fusb302b.cpp:392, on the publish of an attach: "fires the on_connect    *)
(* trigger (prev state was DISCONNECTED)".                                 *)
AttachComesFromDisconnected == [][LoopArm => state_ = "DISCONNECTED"]_vars

(* fusb302b.cpp:424: "PD negotiation failed, staying at 5V".               *)
TimeoutMeansFiveVolts == state_ = "PD_TIMEOUT" => contract_voltage_ = 5

(* fusb302b.cpp:417: a soft reset comes after "GET_SOURCE_CAP reached max  *)
(* retries".                                                               *)
SourceCapAskedBeforeReset == "SOFT_RESET" \in sent => "GET_SOURCE_CAP" \in sent
=============================================================================
