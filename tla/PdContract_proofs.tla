------------------------- MODULE PdContract_proofs -------------------------
(***************************************************************************)
(* The contract that the driver reports, on top of the exchange of         *)
(* messages: it is one the source has granted.                             *)
(***************************************************************************)
EXTENDS PdExchange_proofs

-----------------------------------------------------------------------------
(* The parts of the invariant.                                             *)

(* What a message on its way says of the source.                           *)
CapSays(i) ==
  Pipe[i].type = "SOURCE_CAP" =>
    /\ src.mode \in {"wait_req", "accept", "reject", "ps_rdy", "idle"}
    /\ src.mode = "wait_req" => (Pipe[i].id + 1) % 8 = src.id

AcceptSays(i) ==
  Pipe[i].type = "ACCEPT" =>
    /\ src.mode \in {"caps", "wait_req", "ps_rdy", "idle"}
    /\ src.mode \in {"ps_rdy", "idle"} => i <= 4

ReadySays(i) ==
  Pipe[i].type = "PS_RDY" =>
    /\ src.mode = "idle" /\ src.granted = src.req
    /\ \A j \in (i + 1)..Len(Pipe) : Pipe[j].type # "ACCEPT"

(* Replies, message by message.                                            *)
LEMMA RepliesParts ==
  /\ Replies <=> /\ \A i \in 1..Len(Pipe) : CapSays(i) /\ AcceptSays(i) /\ ReadySays(i)
                 /\ src.mode = "accept" => Len(Pipe) <= 2
                 /\ Sending({"GET_SOURCE_CAP", "SOFT_RESET"}) => ~InPipe("SOURCE_CAP")
  /\ Replies' <=> /\ \A i \in 1..Len(Pipe') : CapSays(i)' /\ AcceptSays(i)' /\ ReadySays(i)'
                  /\ src'.mode = "accept" => Len(Pipe') <= 2
                  /\ Sending({"GET_SOURCE_CAP", "SOFT_RESET"})' => ~InPipe("SOURCE_CAP")'
<1>1. Replies <=> /\ \A i \in 1..Len(Pipe) : CapSays(i) /\ AcceptSays(i) /\ ReadySays(i)
                  /\ src.mode = "accept" => Len(Pipe) <= 2
                  /\ Sending({"GET_SOURCE_CAP", "SOFT_RESET"}) => ~InPipe("SOURCE_CAP")
  BY Zenon DEF Replies, CapSays, AcceptSays, ReadySays
<1>2. Replies' <=> /\ \A i \in 1..Len(Pipe') : CapSays(i)' /\ AcceptSays(i)' /\ ReadySays(i)'
                   /\ src'.mode = "accept" => Len(Pipe') <= 2
                   /\ Sending({"GET_SOURCE_CAP", "SOFT_RESET"})' => ~InPipe("SOURCE_CAP")'
  BY Zenon DEF Replies, CapSays, AcceptSays, ReadySays
<1>. QED
  BY <1>1, <1>2, Zenon

(* It still says it when others have left the pipe.                        *)
LEMMA RepliesShrunk ==
  ASSUME TypeOK, TypeOK', Replies, src' = src,
         Sending({"GET_SOURCE_CAP", "SOFT_RESET"})' => Sending({"GET_SOURCE_CAP", "SOFT_RESET"}),
         NEW q \in Nat, Shrunk(q)
  PROVE  Replies'
<1>. Len(Pipe) \in Nat /\ Len(Pipe') \in Nat
  BY PipeLengths, Zenon
<1>1. \A i \in 1..Len(Pipe) : CapSays(i) /\ AcceptSays(i) /\ ReadySays(i)
  BY RepliesParts, Zenon
<1>2. ASSUME NEW i \in 1..Len(Pipe')
      PROVE  CapSays(i)' /\ AcceptSays(i)' /\ ReadySays(i)'
  <2>1. PICK j \in 1..Len(Pipe) : /\ Pipe'[i] = Pipe[j] /\ i <= j
                                  /\ j = IF i <= q THEN i ELSE i + 1
    BY SMTT(30) DEF Shrunk
  <2>2. CapSays(j) /\ AcceptSays(j) /\ ReadySays(j)
    BY <1>1, Zenon
  <2>3. CapSays(i)'
    BY <2>1, <2>2, Zenon DEF CapSays
  <2>4. AcceptSays(i)'
    BY <2>1, <2>2, SMTT(30) DEF AcceptSays
  <2>5. ASSUME Pipe'[i].type = "PS_RDY", NEW k \in (i + 1)..Len(Pipe')
        PROVE  Pipe'[k].type # "ACCEPT"
    <3>1. PICK l \in 1..Len(Pipe) : Pipe'[k] = Pipe[l] /\ l \in (j + 1)..Len(Pipe)
      BY <2>1, SMTT(30) DEF Shrunk
    <3>2. \A n \in (j + 1)..Len(Pipe) : Pipe[n].type # "ACCEPT"
      BY <2>1, <2>2, <2>5, Zenon DEF ReadySays
    <3>. QED
      BY <3>1, <3>2, Zenon
  <2>6. ReadySays(i)'
    BY <2>1, <2>2, <2>5, Zenon DEF ReadySays
  <2>. QED
    BY <2>3, <2>4, <2>6, Zenon
<1>3. src'.mode = "accept" => Len(Pipe') <= 2
  <2>1. src.mode = "accept" => Len(Pipe) <= 2
    BY RepliesParts, Zenon
  <2>. QED
    BY <2>1, SMTT(30) DEF Shrunk
<1>4. Sending({"GET_SOURCE_CAP", "SOFT_RESET"})' => ~InPipe("SOURCE_CAP")'
  BY ShrunkTypes, RepliesParts, Zenon
<1>. QED
  BY <1>2, <1>3, <1>4, RepliesParts, Zenon

(* So it does when nothing has moved and nothing more is being sent.       *)
LEMMA RepliesSame ==
  ASSUME Replies, UNCHANGED <<src, Pipe>>, tx_fifo' = tx_fifo \/ tx_fifo' = <<>>
  PROVE  Replies'
<1>1. ASSUME NEW i \in 1..Len(Pipe)
      PROVE  (CapSays(i) => CapSays(i)') /\ (AcceptSays(i) => AcceptSays(i)') /\ (ReadySays(i) => ReadySays(i)')
  BY Zenon DEF CapSays, AcceptSays, ReadySays
<1>2. Sending({"GET_SOURCE_CAP", "SOFT_RESET"})' => Sending({"GET_SOURCE_CAP", "SOFT_RESET"})
  BY Zenon DEF Sending
<1>3. InPipe("SOURCE_CAP")' => InPipe("SOURCE_CAP")
  BY Zenon DEF InPipe
<1>. QED
  BY <1>1, <1>2, <1>3, RepliesParts, Zenon

(* An empty pipe, or one with acknowledges only, says nothing.             *)
LEMMA QuietReplies ==
  ASSUME TypeOK', OnlyGoodCrc', src'.mode # "accept"
  PROVE  Replies'
<1>1. ~InPipe("SOURCE_CAP")'
  BY Zenon DEF OnlyGoodCrc, InPipe
<1>2. \A i \in 1..Len(Pipe') : Pipe'[i].type = "GOODCRC"
  BY Zenon DEF OnlyGoodCrc
<1>3. \A i \in 1..Len(Pipe') : CapSays(i)' /\ AcceptSays(i)' /\ ReadySays(i)'
  BY <1>2, Zenon DEF CapSays, AcceptSays, ReadySays
<1>. QED
  BY <1>1, <1>3, RepliesParts, Zenon

(* A step that leaves the AMS as it is ...                                 *)
LEMMA AmsKept ==
  ASSUME AmsState, src' = src, tx_fifo' = tx_fifo \/ tx_fifo' = <<>>,
         UNCHANGED <<last_received_msg_id_, requested_contract_, accepted_contract_>>,
         InPipe("PS_RDY")' => InPipe("PS_RDY"),
         AcceptDue' => AcceptDue,
         AcceptDue /\ src.mode \in {"ps_rdy", "idle"} => AcceptDue',
         AmsBusy => AmsBusy', active_ams_' => active_ams_,
         contract_timer_ /\ "contract" \notin expired =>
           contract_timer_' /\ "contract" \notin expired',
         pc' \in {"soft_reset", "send"} => ~active_ams_',
         Replies
  PROVE  AmsState'
<1>1. /\ Sending({"REQUEST"})' => Sending({"REQUEST"}) /\ Head(tx_fifo') = Head(tx_fifo)
      /\ Sending({"SOFT_RESET"})' => Sending({"SOFT_RESET"})
  BY Zenon DEF Sending
<1>2. (RequestOpen => RequestOpen') /\ (ContractTaken => ContractTaken')
  BY Zenon DEF RequestOpen, ContractTaken
<1>3. InPipe("PS_RDY") => src.mode = "idle"
  BY RepliesParts, Zenon DEF InPipe, ReadySays
<1>. QED
  BY <1>1, <1>2, <1>3, Zenon DEF AmsState

(* ... and one that finds nothing under way.                               *)
LEMMA AmsQuiet ==
  ASSUME tx_fifo' = <<>>, src'.mode \notin {"accept", "ps_rdy", "reset"},
         ~InPipe("ACCEPT")', ~InPipe("PS_RDY")',
         pc' \in {"soft_reset", "send"} => ~active_ams_'
  PROVE  AmsState'
<1>1. \A types : ~Sending(types)'
  BY Zenon DEF Sending
<1>2. ~AcceptDue'
  BY QuietDue, Zenon
<1>. QED
  BY <1>1, <1>2, Zenon DEF AmsState

(* A step that leaves the contract as it is ...                            *)
LEMMA AgreedKept ==
  ASSUME TypeOK, TypeOK', Agreed, src'.mode = src.mode, src'.granted = src.granted,
         accepted_contract_' = accepted_contract_,
         hw_state_' = "ATTACHED" /\ state_' = "EXPLICIT_SPR_CONTRACT" =>
           hw_state_ = "ATTACHED" /\ state_ = "EXPLICIT_SPR_CONTRACT",
         AcceptDue /\ src.mode = "idle" => AcceptDue',
         contract_timer_ => contract_timer_' \/ deferred' > 0,
         deferred > 0 => deferred' > 0, power_mode' = power_mode
  PROVE  Agreed'
<1>1. contract_voltage_' = contract_voltage_
  BY Zenon DEF contract_voltage_
<1>. QED
  BY <1>1, Zenon DEF Agreed

(* ... and one that moves the source on when nothing is to be accepted.    *)
LEMMA AgreedMoved ==
  ASSUME TypeOK, Agreed, ~(src.mode = "idle" /\ AcceptDue), src.mode # "ps_rdy",
         src'.granted = src.granted,
         UNCHANGED <<accepted_contract_, hw_state_, state_, contract_timer_, deferred, power_mode>>
  PROVE  Agreed'
<1>1. contract_voltage_' = contract_voltage_
  BY Zenon DEF contract_voltage_
<1>. QED
  BY <1>1, Zenon DEF Agreed

-----------------------------------------------------------------------------
(* The exchange and the contract, step by step.                            *)

Agreeing == Replies /\ AmsState /\ Agreed

(* The loop asks for nothing while an AMS is under way, and publishes what *)
(* it finds.                                                               *)
LEMMA AgreeingAside ==
  ASSUME Orderly, TypeOK, TypeOK', PhaseInv, FifoInv, AttachInv, DueInv, Talking, Talking',
         Agreeing, Aside
  PROVE  Agreeing'
<1>. Replies /\ AmsState /\ Agreed
  BY Zenon DEF Agreeing
<1>. /\ UNCHANGED <<src, tx_fifo, Pipe, last_received_msg_id_, trigger>>
     /\ src.plugged /\ trigger \in {"receive", "soft_reset"}
  BY AsideKeeps, Zenon DEF flowVars, idVars, Talking, Exchanging
<1>1. Replies'
  BY RepliesSame, Zenon
<1>2. /\ InPipe("PS_RDY")' <=> InPipe("PS_RDY")
      /\ InPipe("ACCEPT")' <=> InPipe("ACCEPT")
      /\ AcceptDue' <=> AcceptDue
      /\ OnlyGoodCrc' <=> OnlyGoodCrc
  BY Zenon DEF InPipe, AcceptDue, OnlyGoodCrc
<1>3. pc \in {"soft_reset", "send"} => ~active_ams_
  BY Zenon DEF AmsState
<1>4. ASSUME UNCHANGED <<requested_contract_, accepted_contract_, contract_timer_, active_ams_, expired>>,
             pc' \in {"soft_reset", "send"} => pc' = pc
      PROVE  AmsState'
  <2>1. AmsBusy' <=> AmsBusy
    BY <1>4, Zenon DEF AmsBusy
  <2>. QED
    BY <1>2, <1>3, <1>4, <2>1, AmsKept, Zenon
<1>5. ASSUME UNCHANGED <<accepted_contract_, contract_timer_, power_mode, deferred>>,
             hw_state_' = hw_state_, state_' = state_
      PROVE  Agreed'
  BY <1>2, <1>5, AgreedKept, Zenon
<1>6. deferred \in Nat
  BY Zenon DEF TypeOK, DriverTypeOK
<1>. USE DEF pdVars, hwVars, taskVars, chipVars, autoVars, contractVars, stateVars
<1>7. CASE RunDeferred
  <2>1. /\ UNCHANGED <<requested_contract_, accepted_contract_, contract_timer_, active_ams_, expired,
                       pc, hw_state_, state_>>
        /\ state_ = "EXPLICIT_SPR_CONTRACT" => power_mode' = IF contract_voltage_ >= 9 THEN 2 ELSE 0
    BY <1>7, Zenon DEF RunDeferred, PowerReady, on_power_ready
  <2>2. contract_voltage_' = contract_voltage_
    BY <2>1, Zenon DEF contract_voltage_
  <2>3. Agreed'
    BY <1>2, <2>1, <2>2, Zenon DEF Agreed
  <2>. QED
    BY <1>1, <1>4, <2>1, <2>3, Zenon DEF Agreeing
<1>8. CASE RequestVoltage \/ ReaderCrc \/ ReaderWake
  <2>1. /\ UNCHANGED <<requested_contract_, accepted_contract_, contract_timer_, active_ams_, expired>>
        /\ UNCHANGED <<pc, hw_state_, state_, power_mode, deferred>>
    BY <1>8, Zenon DEF RequestVoltage, request_voltage, ReaderCrc, ReaderWake
  <2>. QED
    BY <1>1, <1>4, <1>5, <2>1, Zenon DEF Agreeing
<1>9. CASE ReaderStatus \/ UNCHANGED vars
  <2>1. /\ UNCHANGED <<requested_contract_, accepted_contract_, contract_timer_, active_ams_, expired>>
        /\ UNCHANGED <<pc, hw_state_, state_, power_mode, deferred>>
    BY <1>9, Zenon DEF ReaderStatus, vars
  <2>. QED
    BY <1>1, <1>4, <1>5, <2>1, Zenon DEF Agreeing
<1>10. CASE LoopStart
  <2>1. ~vbus_lost_
    BY Zenon DEF AttachInv
  <2>2. /\ UNCHANGED <<requested_contract_, accepted_contract_, contract_timer_, active_ams_, expired>>
        /\ UNCHANGED <<hw_state_, state_, power_mode, deferred>> /\ pc' = "status"
    BY <1>10, <2>1, Zenon DEF LoopStart
  <2>. QED
    BY <1>1, <1>4, <1>5, <2>2, Zenon DEF Agreeing
<1>11. CASE LoopCcIdle \/ LoopCcSettle1
  <2>1. /\ UNCHANGED <<requested_contract_, accepted_contract_, contract_timer_, active_ams_, expired>>
        /\ UNCHANGED <<hw_state_, state_, power_mode, deferred>> /\ pc' = "timer"
    BY <1>11, Zenon DEF LoopCcIdle, LoopCcSettle1
  <2>. QED
    BY <1>1, <1>4, <1>5, <2>1, Zenon DEF Agreeing
<1>12. CASE LoopCcSettle2 \/ LoopReattachCrc
  <2>1. /\ UNCHANGED <<requested_contract_, accepted_contract_, contract_timer_, active_ams_, expired>>
        /\ UNCHANGED <<hw_state_, state_, power_mode, deferred>>
        /\ pc' \notin {"soft_reset", "send"}
    BY <1>12, Zenon DEF LoopCcSettle2, LoopReattachCrc
  <2>. QED
    BY <1>1, <1>4, <1>5, <2>1, Zenon DEF Agreeing
<1>13. CASE LoopArm \/ LoopDetachState
  <2>1. /\ UNCHANGED <<requested_contract_, accepted_contract_, contract_timer_, active_ams_, expired>>
        /\ pc' \in {"timer", "status"} /\ state_' # "EXPLICIT_SPR_CONTRACT"
    BY <1>13, Zenon DEF LoopArm, LoopDetachState, set_state_
  <2>2. Agreed'
    BY <2>1, Zenon DEF Agreed
  <2>. QED
    BY <1>1, <1>4, <2>1, <2>2, Zenon DEF Agreeing
<1>14. CASE LoopAttached
  <2>1. /\ UNCHANGED <<requested_contract_, accepted_contract_, contract_timer_>>
        /\ UNCHANGED <<hw_state_, state_, power_mode, deferred>>
        /\ active_ams_' = AmsBusy /\ expired' \in {expired, expired \ {"cap"}}
        /\ pc' \in {"soft_reset", "send"} => ~AmsBusy
    BY <1>14, Zenon DEF LoopAttached
  <2>2. (AmsBusy => AmsBusy') /\ (active_ams_' => active_ams_)
    BY <2>1, Zenon DEF AmsBusy
  <2>3. "contract" \notin expired => "contract" \notin expired'
    BY <2>1, Zenon
  <2>4. AmsState'
    BY <1>2, <2>1, <2>2, <2>3, AmsKept, Zenon
  <2>. QED
    BY <1>1, <1>5, <2>1, <2>4, Zenon DEF Agreeing
<1>15. CASE LoopTimer
  <2>1. /\ UNCHANGED <<requested_contract_, accepted_contract_, active_ams_>>
        /\ UNCHANGED <<hw_state_, state_, power_mode>> /\ pc' = "idle"
        /\ \/ deferred' = deferred + 1 /\ "contract" \in expired /\ expired' = expired \ {"contract"}
           \/ UNCHANGED <<deferred, contract_timer_, expired>>
    BY <1>15, Zenon DEF LoopTimer, publish
  <2>2. AmsBusy => AmsBusy'
    BY <2>1, Zenon DEF AmsBusy
  <2>3. contract_timer_ /\ "contract" \notin expired => contract_timer_' /\ "contract" \notin expired'
    BY <2>1, Zenon
  <2>4. AmsState'
    BY <1>2, <2>1, <2>2, <2>3, AmsKept, Zenon
  <2>5. (contract_timer_ => contract_timer_' \/ deferred' > 0) /\ (deferred > 0 => deferred' > 0)
    BY <1>6, <2>1, SMTT(30)
  <2>6. Agreed'
    BY <1>2, <2>1, <2>5, AgreedKept, Zenon
  <2>. QED
    BY <1>1, <2>4, <2>6, Zenon DEF Agreeing
<1>16. CASE LoopPdTimeout
  <2>1. pc = "pd_timeout" /\ pc' = "timer" /\ state_' # "EXPLICIT_SPR_CONTRACT"
    BY <1>16, Zenon DEF LoopPdTimeout, set_state_
  <2>2. tx_fifo = <<>> /\ OnlyGoodCrc /\ SourceQuiet
    BY <2>1, Zenon DEF DueInv, SendDue, DuePcs
  <2>3. AmsState'
    BY <1>2, <2>1, <2>2, QuietDue, AmsQuiet, Zenon DEF SourceQuiet
  <2>4. Agreed'
    BY <2>1, Zenon DEF Agreed
  <2>. QED
    BY <1>1, <2>3, <2>4, Zenon DEF Agreeing
<1>17. CASE Elapse
  <2>1. /\ UNCHANGED <<accepted_contract_, contract_timer_, active_ams_, pc, hw_state_, state_,
                       power_mode, deferred>>
        /\ Settled /\ SourceQuiet
    BY <1>17, Zenon DEF Elapse, Orderly
  <2>2. OnlyGoodCrc /\ tx_fifo = <<>>
    BY <2>1, SettledPipe, Zenon DEF Orderly, Settled
  <2>3. AmsState'
    BY <1>2, <1>3, <2>1, <2>2, QuietDue, AmsQuiet, Zenon DEF SourceQuiet
  <2>. QED
    BY <1>1, <1>5, <2>1, <2>3, Zenon DEF Agreeing
<1>. HIDE DEF pdVars, hwVars, taskVars, chipVars, autoVars, contractVars, stateVars
<1>. QED
  BY <1>7, <1>8, <1>9, <1>10, <1>11, <1>12, <1>13, <1>14, <1>15, <1>16, <1>17, Zenon
  DEF Aside, LoopAside, ReaderAside

(* fusb_reset_ takes from the pipe what the source says again.             *)
LEMMA AgreeingReset ==
  ASSUME Orderly, TypeOK, TypeOK', PhaseInv, AttachInv, DueInv, PlugInv, Talking, Agreeing,
         LoopReattachReset \/ LoopSoftReset \/ ReaderReset
  PROVE  Agreeing'
<1>. Replies /\ AmsState /\ Agreed
  BY Zenon DEF Agreeing
<1>. "i2c" \notin Faults /\ src.plugged /\ trigger \in {"receive", "soft_reset"} /\ NotRestarted
  BY Zenon DEF Orderly, Talking, Exchanging
<1>1. /\ rx_fifo' = <<>> /\ tx_fifo' = <<>> /\ last_received_msg_id_' = NO_MSG_ID
      /\ UNCHANGED <<src, message_queue_, Held>>
      /\ UNCHANGED <<requested_contract_, accepted_contract_, contract_timer_, active_ams_, expired,
                     state_, hw_state_, power_mode, deferred>>
  <2>1. CASE LoopReattachReset
    BY <2>1, Zenon DEF LoopReattachReset, fusb_reset_, taskVars, Held, hwVars, autoVars, contractVars,
       stateVars
  <2>2. CASE LoopSoftReset
    BY <2>2, Zenon DEF LoopSoftReset, fusb_reset_, taskVars, Held, hwVars, autoVars, contractVars,
       stateVars
  <2>3. CASE ReaderReset
    BY <2>3, Zenon DEF ReaderReset, fusb_reset_, Held, hwVars, autoVars, contractVars, stateVars
  <2>. QED
    BY <2>1, <2>2, <2>3, Zenon
<1>2. Shrunk(Len(Pipe)) /\ Len(Pipe) \in Nat
  BY <1>1, PipeCut, PipeLengths, SMTT(30) DEF Shrunk
<1>3. /\ InPipe("PS_RDY")' => InPipe("PS_RDY")
      /\ InPipe("ACCEPT")' => InPipe("ACCEPT")
  BY <1>2, ShrunkTypes, Zenon
<1>4. ~Sending({"GET_SOURCE_CAP", "SOFT_RESET"})' /\ ~Sending({"REQUEST"})' /\ ~Sending({"SOFT_RESET"})'
  BY <1>1, Zenon DEF Sending
<1>5. Replies'
  BY <1>1, <1>2, <1>4, RepliesShrunk, Zenon
<1>6. InPipe("PS_RDY") => src.mode = "idle"
  BY RepliesParts, Zenon DEF InPipe, ReadySays
<1>7. CASE LoopReattachReset
  <2>1. pc = "reattach_reset" /\ pc' = "arm"
    BY <1>7, Zenon DEF LoopReattachReset
  <2>2. hw_state_ = "UNATTACHED"
    BY <2>1, Zenon DEF AttachInv
  <2>3. src.mode \in {"off", "caps", "wait_req", "accept", "reject"} /\ ~InPipe("ACCEPT")
    BY <2>1, Zenon DEF PlugInv, Unaccepted
  <2>4. last_received_msg_id_' # src.id
    <3>1. src.id \in 0..7
      BY SourceModeType, Zenon DEF TypeOK, WorldTypeOK
    <3>. QED
      BY <1>1, <3>1, ModFacts, Zenon
  <2>5. RequestOpen => RequestOpen'
    BY <1>1, Zenon DEF RequestOpen, AmsBusy
  <2>6. ~AcceptDue' /\ ~InPipe("PS_RDY")'
    BY <1>3, <1>6, <2>3, QuietDue, Zenon
  <2>7. AmsState'
    BY <1>1, <1>4, <2>1, <2>3, <2>4, <2>5, <2>6, Zenon DEF AmsState
  <2>8. Agreed'
    BY <1>1, <2>2, Zenon DEF Agreed
  <2>. QED
    BY <1>5, <2>7, <2>8, Zenon DEF Agreeing
<1>8. CASE LoopSoftReset
  <2>1. pc = "soft_reset" /\ pc' = "send"
    BY <1>8, Zenon DEF LoopSoftReset
  <2>2. OnlyGoodCrc /\ SourceQuiet
    BY <2>1, Zenon DEF DueInv, SendDue, DuePcs
  <2>3. ~InPipe("ACCEPT") /\ ~InPipe("PS_RDY") /\ ~AcceptDue
    BY <2>2, QuietDue, Zenon
  <2>4. ~active_ams_
    BY <2>1, Zenon DEF AmsState
  <2>5. AmsState'
    BY <1>1, <1>3, <2>2, <2>3, <2>4, AmsQuiet, Zenon DEF SourceQuiet
  <2>6. Agreed'
    BY <1>1, <2>2, <2>3, AgreedMoved, Zenon DEF SourceQuiet
  <2>. QED
    BY <1>5, <2>5, <2>6, Zenon DEF Agreeing
<1>9. CASE ReaderReset
  <2>1. reader = "reset" /\ pc' = pc
    BY <1>9, Zenon DEF ReaderReset
  <2>2. ~failed
    BY Zenon DEF PhaseInv, Starting, Measuring, Spawning, Running, Stopped
  <2>3. src.mode \in {"off", "caps", "wait_req"} /\ ~InPipe("ACCEPT") /\ ~InPipe("PS_RDY")
    BY <2>1, <2>2, Zenon DEF PlugInv, Unasked, Counting
  <2>4. ~AcceptDue
    BY <2>3, QuietDue, Zenon
  <2>5. pc \in {"soft_reset", "send"} => ~active_ams_
    BY Zenon DEF AmsState
  <2>6. AmsState'
    BY <1>1, <1>3, <2>1, <2>3, <2>5, AmsQuiet, Zenon
  <2>7. Agreed'
    BY <1>1, <2>3, <2>4, AgreedMoved, Zenon
  <2>. QED
    BY <1>5, <2>6, <2>7, Zenon DEF Agreeing
<1>. QED
  BY <1>7, <1>8, <1>9, Zenon

(* The soft reset of check_status_ leaves when nothing is under way.       *)
LEMMA AgreeingSend ==
  ASSUME Orderly, TypeOK, TypeOK', SoftResetInv, DueInv, Talking, Agreeing, LoopSend
  PROVE  Agreeing'
<1>. Replies /\ AmsState /\ Agreed
  BY Zenon DEF Agreeing
<1>. "i2c" \notin Faults /\ src.plugged /\ trigger \in {"receive", "soft_reset"}
  BY Zenon DEF Orderly, Talking, Exchanging
<1>1. /\ pc = "send" /\ pc' = "timer"
      /\ UNCHANGED <<src, rx_fifo, message_queue_, Held, accepted_contract_, contract_timer_,
                     active_ams_, state_, hw_state_, power_mode, deferred>>
  BY Zenon DEF LoopSend, taskVars, chipVars, Held, hwVars, contractVars, stateVars
<1>2. /\ tx_fifo = <<>> /\ OnlyGoodCrc /\ SourceQuiet /\ reader = "wait"
      /\ message_queue_ = <<>> /\ rx_fifo = <<>>
  BY <1>1, Zenon DEF DueInv, SendDue, DuePcs
<1>3. PICK x \in SinkMessages : x.type = "SOFT_RESET" /\ tx_fifo' = Append(tx_fifo, x)
  BY SoftResetSent, Zenon
<1>4. tx_fifo' = <<x>> /\ Head(tx_fifo') = x
  BY <1>2, <1>3, SMTT(30)
<1>5. OnlyGoodCrc'
  <2>1. Pipe' = Pipe
    BY <1>1, Zenon DEF Pipe
  <2>. QED
    BY <1>2, <2>1, Zenon DEF OnlyGoodCrc
<1>6. ~AcceptDue' /\ ~InPipe("PS_RDY")' /\ ~AcceptDue
  BY <1>2, <1>5, QuietDue, Zenon
<1>7. ~Sending({"REQUEST"})'
  BY <1>3, <1>4, Zenon DEF Sending
<1>8. ~active_ams_ /\ src.mode \notin {"accept", "ps_rdy"}
  BY <1>1, <1>2, Zenon DEF AmsState, SourceQuiet
<1>9. Replies'
  BY <1>1, <1>5, <1>8, QuietReplies, Zenon
<1>10. AmsState'
  BY <1>1, <1>6, <1>7, <1>8, Zenon DEF AmsState
<1>11. Agreed'
  BY <1>1, <1>6, <1>8, AgreedMoved, Zenon
<1>. QED
  BY <1>9, <1>10, <1>11, Zenon DEF Agreeing

(* The rest of a soft reset of the source, and a message to nobody.        *)
LEMMA AgreeingAlone ==
  ASSUME TypeOK, TypeOK', ExchangeInv, Talking, Agreeing, TriggerSoftReset \/ TxLost
  PROVE  Agreeing'
<1>. Replies /\ AmsState /\ Agreed
  BY Zenon DEF Agreeing
<1>1. /\ UNCHANGED <<src, rx_fifo, message_queue_, Held, last_received_msg_id_, expired>>
      /\ UNCHANGED <<requested_contract_, accepted_contract_, contract_timer_, active_ams_, hw_state_,
                     power_mode, deferred, pc>>
      /\ state_' = state_ \/ state_' = "DEFAULT_CONTRACT"
      /\ tx_fifo' = tx_fifo \/ (tx_fifo # <<>> /\ tx_fifo' = Tail(tx_fifo))
  BY Zenon DEF TriggerSoftReset, handle_soft_reset_rest, set_state_, TxLost, taskVars, chipVars, Held,
     hwVars, autoVars, contractVars, stateVars, idVars
<1>2. Pipe' = Pipe
  BY <1>1, Zenon DEF Pipe
<1>3. tx_fifo' = tx_fifo \/ tx_fifo' = <<>>
  BY <1>1, TxShape, Zenon DEF ExchangeInv, OneAtATime, Talking
<1>4. Replies'
  BY <1>1, <1>2, <1>3, RepliesSame, Zenon
<1>5. (InPipe("PS_RDY")' <=> InPipe("PS_RDY")) /\ (AcceptDue' <=> AcceptDue) /\ (AmsBusy' <=> AmsBusy)
  BY <1>1, <1>2, Zenon DEF InPipe, AcceptDue, AmsBusy
<1>6. pc \in {"soft_reset", "send"} => ~active_ams_
  BY Zenon DEF AmsState
<1>7. AmsState'
  BY <1>1, <1>3, <1>5, <1>6, AmsKept, Zenon
<1>8. Agreed'
  BY <1>1, <1>5, AgreedKept, Zenon
<1>. QED
  BY <1>4, <1>7, <1>8, Zenon DEF Agreeing

(* The queue has room for the ACCEPT of a request.                         *)
LEMMA AgreeingQueued ==
  ASSUME TypeOK, TypeOK', QueueLength >= 4, "i2c" \notin Faults, Agreeing,
         ReaderDrain \/ ReaderEnqueue
  PROVE  Agreeing'
<1>. Replies /\ AmsState /\ Agreed
  BY Zenon DEF Agreeing
<1>1. /\ UNCHANGED <<src, tx_fifo, last_received_msg_id_, expired>>
      /\ UNCHANGED <<requested_contract_, accepted_contract_, contract_timer_, active_ams_, hw_state_,
                     state_, power_mode, deferred, pc>>
  BY Zenon DEF ReaderDrain, ReaderEnqueue, pdVars, hwVars, autoVars, contractVars, stateVars, idVars
<1>. Len(Pipe) \in Nat /\ Len(Pipe') \in Nat /\ QueueLength \in Nat
  BY PipeLengths, QueueLengthAssumption, Zenon
<1>2. \E q \in Nat : /\ Shrunk(q)
                     /\ \A i \in 1..Len(Pipe) : i <= 4 => i \in 1..Len(Pipe') /\ Pipe'[i] = Pipe[i]
  <2>1. CASE Pipe' = Pipe
    <3>1. Shrunk(Len(Pipe))
      BY <2>1, SMTT(30) DEF Shrunk
    <3>. QED
      BY <2>1, <3>1, Zenon
  <2>2. CASE /\ ReaderEnqueue /\ Len(message_queue_) >= QueueLength
             /\ Len(Pipe') = Len(Pipe) - 1
             /\ \A i \in 1..Len(Pipe') :
                  Pipe'[i] = IF i <= Len(message_queue_) THEN Pipe[i] ELSE Pipe[i + 1]
    <3>1. /\ Len(message_queue_) \in Nat /\ Len(rx_fifo) \in Nat
          /\ Len(Pipe) = Len(message_queue_) + Len(Held) + Len(rx_fifo)
      BY PipeElement, Zenon
    <3>2. Len(Held) = 1
      BY <2>2, SMTT(30) DEF ReaderEnqueue, Held
    <3>3. Shrunk(Len(message_queue_))
      BY <2>2, <3>1, SMTT(30) DEF Shrunk
    <3>4. Len(Pipe') >= 4 /\ Len(message_queue_) >= 4
      BY <2>2, <3>1, <3>2, SMTT(30)
    <3>5. \A i \in 1..Len(Pipe) : i <= 4 => i \in 1..Len(Pipe') /\ Pipe'[i] = Pipe[i]
      BY <2>2, <3>1, <3>4, SMTT(30)
    <3>. QED
      BY <3>1, <3>3, <3>5, Zenon
  <2>. QED
    BY <2>1, <2>2, PipeFetched, PipeQueued, Zenon
<1>3. PICK q \in Nat : /\ Shrunk(q)
                      /\ \A i \in 1..Len(Pipe) : i <= 4 => i \in 1..Len(Pipe') /\ Pipe'[i] = Pipe[i]
  BY <1>2, Zenon
<1>4. Replies'
  BY <1>1, <1>3, RepliesShrunk, Zenon DEF Sending
<1>5. (InPipe("PS_RDY")' => InPipe("PS_RDY")) /\ (AcceptDue' => AcceptDue) /\ (AmsBusy' <=> AmsBusy)
  BY <1>1, <1>3, ShrunkTypes, Zenon DEF AmsBusy
<1>6. ASSUME AcceptDue, src.mode \in {"ps_rdy", "idle"}
      PROVE  AcceptDue'
  <2>1. PICK i \in 1..Len(Pipe) : Pipe[i].type = "ACCEPT" /\ Pipe[i].id # last_received_msg_id_
    BY <1>6, Zenon DEF AcceptDue
  <2>2. i <= 4
    BY <1>6, <2>1, RepliesParts, Zenon DEF AcceptSays
  <2>3. i \in 1..Len(Pipe') /\ Pipe'[i] = Pipe[i]
    BY <1>3, <2>2, Zenon
  <2>. QED
    BY <1>1, <2>1, <2>3, Zenon DEF AcceptDue
<1>7. pc \in {"soft_reset", "send"} => ~active_ams_
  BY Zenon DEF AmsState
<1>8. AmsState'
  BY <1>1, <1>5, <1>6, <1>7, AmsKept, Zenon
<1>9. Agreed'
  BY <1>1, <1>6, AgreedKept, Zenon
<1>. QED
  BY <1>4, <1>8, <1>9, Zenon DEF Agreeing

(* handle_message takes the contract over when its ACCEPT comes in an AMS, *)
(* and that of a soft reset comes in none.                                 *)
LEMMA AgreeingHandled ==
  ASSUME TypeOK, TypeOK', "i2c" \notin Faults, WireInv, ExchangeInv, DueInv, Talking, Agreeing,
         TriggerReceive
  PROVE  Agreeing'
<1>. Replies /\ AmsState /\ Agreed
  BY Zenon DEF Agreeing
<1>. DEFINE m == Pipe[1]
<1>. Len(Pipe) \in Nat /\ Len(Pipe') \in Nat
  BY PipeLengths, Zenon
<1>1. /\ UNCHANGED <<src, pc, hw_state_, power_mode, deferred>>
      /\ message_queue_ # <<>> /\ handle_message(Head(message_queue_))
      /\ trigger = "receive" /\ src.plugged
  BY Zenon DEF TriggerReceive, hwVars, autoVars, Talking, Exchanging
<1>2. /\ m = Head(message_queue_) /\ Len(Pipe) >= 1 /\ Len(Pipe') = Len(Pipe) - 1
      /\ \A i \in 1..Len(Pipe') : Pipe'[i] = Pipe[i + 1]
  BY PipeTaken, Zenon
<1>3. 1 \in 1..Len(Pipe)
  BY <1>2, SMTT(30)
<1>. m \in SourceMessages /\ m.id \in 0..7
  BY <1>3, WirePipe, Zenon DEF SourceMessages, Messages
<1>4. TakenIn(m)
  BY <1>1, <1>2, MessageTakenIn, Zenon
<1>5. CapSays(1) /\ AcceptSays(1) /\ ReadySays(1)
  BY <1>3, RepliesParts, Zenon
<1>6. Shrunk(0)
  BY <1>2, SMTT(30) DEF Shrunk
<1>7. \A type : InPipe(type)' => InPipe(type)
  BY <1>6, ShrunkTypes, SMTT(30)
<1>8. ASSUME Sending({"GET_SOURCE_CAP", "SOFT_RESET"})' => Sending({"GET_SOURCE_CAP", "SOFT_RESET"})
      PROVE  Replies'
  <2>1. 0 \in Nat
    BY SMTT(30)
  <2>. QED
    BY <1>1, <1>6, <1>8, <2>1, RepliesShrunk, Zenon
<1>9. m.type \in Unanswered => tx_fifo = <<>>  \/ m.type = "GOODCRC"
  BY <1>1, <1>3, Zenon DEF ExchangeInv, OneAtATime, Exchanging
<1>10. pc \in {"soft_reset", "send"} => ~active_ams_ /\ m.type = "GOODCRC"
  BY <1>1, <1>3, Zenon DEF AmsState, DueInv, SendDue, DuePcs, OnlyGoodCrc
<1>. HIDE DEF m
<1>11. CASE /\ m.type = "GOODCRC" \/ m.id = last_received_msg_id_
            /\ UNCHANGED <<state_, active_ams_, last_received_msg_id_, contractVars, expired, tx_fifo>>
  <2>1. UNCHANGED <<requested_contract_, accepted_contract_, contract_timer_>>
    BY <1>11, Zenon DEF contractVars
  <2>2. Replies'
    BY <1>8, <1>11, Zenon DEF Sending
  <2>3. AcceptDue' <=> AcceptDue
    <3>1. ASSUME AcceptDue PROVE AcceptDue'
      <4>1. PICK i \in 1..Len(Pipe) : Pipe[i].type = "ACCEPT" /\ Pipe[i].id # last_received_msg_id_
        BY <3>1, Zenon DEF AcceptDue
      <4>2. i # 1
        BY <1>11, <4>1, Zenon DEF m
      <4>3. i - 1 \in 1..Len(Pipe') /\ Pipe'[i - 1] = Pipe[i]
        BY <1>2, <4>2, SMTT(30)
      <4>. QED
        BY <1>11, <4>1, <4>3, Zenon DEF AcceptDue
    <3>2. 0 \in Nat
      BY SMTT(30)
    <3>. QED
      BY <1>6, <1>11, <3>1, <3>2, ShrunkTypes, Zenon
  <2>4. AmsBusy' <=> AmsBusy
    BY <1>11, Zenon DEF AmsBusy
  <2>5. AmsState'
    BY <1>1, <1>7, <1>10, <1>11, <2>1, <2>3, <2>4, AmsKept, Zenon
  <2>6. Agreed'
    BY <1>1, <1>11, <2>1, <2>3, AgreedKept, Zenon
  <2>. QED
    BY <2>2, <2>5, <2>6, Zenon DEF Agreeing
<1>. DEFINE Fresh == /\ m.type # "GOODCRC" /\ m.id # last_received_msg_id_
                     /\ last_received_msg_id_' = m.id
<1>12. CASE Fresh /\ m.type = "ACCEPT"
  <2>1. tx_fifo = <<>> /\ AcceptDue
    BY <1>3, <1>9, <1>12, Zenon DEF Unanswered, AcceptDue, m
  <2>2. tx_fifo' = <<>> /\ UNCHANGED <<active_ams_, requested_contract_>>
    BY <1>4, <1>12, <2>1, Zenon DEF TakenIn, contractVars, Unanswered
  <2>3. \A types : ~Sending(types)'
    BY <2>2, Zenon DEF Sending
  <2>4. Replies'
    BY <1>8, <2>3, Zenon
  <2>5. InPipe("PS_RDY") => src.mode = "idle"
    BY RepliesParts, Zenon DEF InPipe, ReadySays
  <2>6. CASE src.mode \in {"caps", "wait_req"}
    <3>1. ~active_ams_
      BY <2>1, <2>6, Zenon DEF AmsState
    <3>2. UNCHANGED <<state_, accepted_contract_, contract_timer_>>
      BY <1>4, <1>12, <3>1, Zenon DEF TakenIn, contractVars, Unanswered
    <3>3. AmsState'
      BY <1>1, <1>7, <2>2, <2>3, <2>5, <2>6, <3>1, Zenon DEF AmsState
    <3>4. Agreed'
      BY <1>1, <2>6, <3>2, AgreedMoved, Zenon
    <3>. QED
      BY <2>4, <3>3, <3>4, Zenon DEF Agreeing
  <2>7. CASE src.mode \in {"ps_rdy", "idle"}
    <3>1. RequestOpen /\ (src.mode = "idle" => src.granted = src.req)
      BY <2>1, <2>7, Zenon DEF AmsState
    <3>2. /\ accepted_contract_' = requested_contract_ /\ contract_timer_'
          /\ expired' = expired \ {"contract"}
      BY <1>4, <1>12, <3>1, Zenon DEF TakenIn, Unanswered, RequestOpen, AmsBusy
    <3>3. RequestOpen'
      BY <1>1, <2>2, <3>1, <3>2, Zenon DEF RequestOpen, AmsBusy
    <3>4. ContractTaken'
      BY <1>1, <3>1, <3>2, Zenon DEF RequestOpen, ContractTaken
    <3>5. pc \notin {"soft_reset", "send"}
      BY <1>10, <1>12, Zenon
    <3>6. AmsState'
      BY <1>1, <2>3, <2>7, <3>1, <3>3, <3>4, <3>5, Zenon DEF AmsState
    <3>7. accepted_contract_' = src.req
      BY <3>1, <3>2, Zenon DEF RequestOpen
    <3>8. Agreed'
      BY <1>1, <2>7, <3>1, <3>2, <3>7, Zenon DEF Agreed
    <3>. QED
      BY <2>4, <3>6, <3>8, Zenon DEF Agreeing
  <2>. QED
    BY <1>5, <1>12, <2>6, <2>7, Zenon DEF AcceptSays, m
<1>13. CASE Fresh /\ m.type = "PS_RDY"
  <2>1. tx_fifo = <<>> /\ InPipe("PS_RDY")
    BY <1>3, <1>9, <1>13, Zenon DEF Unanswered, InPipe, m
  <2>2. /\ tx_fifo' = <<>> /\ state_' = "EXPLICIT_SPR_CONTRACT" /\ active_ams_' = FALSE
        /\ UNCHANGED <<requested_contract_, accepted_contract_, contract_timer_, expired>>
    BY <1>4, <1>13, <2>1, Zenon DEF TakenIn, contractVars, Unanswered
  <2>3. \A types : ~Sending(types)'
    BY <2>2, Zenon DEF Sending
  <2>4. Replies'
    BY <1>8, <2>3, Zenon
  <2>5. /\ src.mode = "idle" /\ src.granted = src.req
        /\ \A j \in (1 + 1)..Len(Pipe) : Pipe[j].type # "ACCEPT"
    BY <1>5, <1>13, Zenon DEF ReadySays, m
  <2>6. ~InPipe("ACCEPT")
    <3>1. ASSUME NEW i \in 1..Len(Pipe) PROVE i = 1 \/ i \in (1 + 1)..Len(Pipe)
      BY SMTT(30)
    <3>. QED
      BY <1>13, <2>5, <3>1, Zenon DEF InPipe, m
  <2>7. ContractTaken
    BY <2>1, <2>6, QuietDue, Zenon DEF AmsState
  <2>8. ContractTaken' /\ ~AcceptDue'
    BY <1>1, <1>7, <2>2, <2>6, <2>7, QuietDue, Zenon DEF ContractTaken
  <2>9. AmsState'
    BY <1>1, <2>2, <2>3, <2>5, <2>8, Zenon DEF AmsState
  <2>10. Agreed'
    BY <1>1, <2>2, <2>5, <2>7, Zenon DEF Agreed, ContractTaken
  <2>. QED
    BY <2>4, <2>9, <2>10, Zenon DEF Agreeing
<1>14. CASE Fresh /\ m.type \notin Unanswered
  <2>1. Pending(1)
    BY <1>1, <1>3, <1>14, Zenon DEF ExchangeInv, QuestionsOpen, Exchanging, Spent, m
  <2>2. tx_fifo = <<>> /\ Waits(m)
    BY <2>1, Zenon DEF Pending, m
  <2>3. \A i \in 1..Len(Pipe) : Pipe[i] = m
    BY <2>1, SMTT(30) DEF Pending, m
  <2>4. ~InPipe("ACCEPT") /\ ~InPipe("PS_RDY")
    BY <1>14, <2>3, Zenon DEF InPipe, Unanswered
  <2>5. ~InPipe("ACCEPT")' /\ ~InPipe("PS_RDY")' /\ ~AcceptDue /\ ~AcceptDue'
    BY <1>7, <2>4, QuietDue, Zenon
  <2>6. src.mode \in {"wait_req", "wait_accept", "idle"}
    BY <2>2, Zenon DEF Waits
  <2>7. pc \notin {"soft_reset", "send"}
    BY <1>10, <1>14, Zenon DEF Unanswered
  <2>8. CASE /\ m.type = "SOURCE_CAP" /\ active_ams_' = TRUE /\ expired' = expired \ {"ams"}
             /\ \E x \in SinkMessages :
                  /\ tx_fifo' = Append(tx_fifo, x)
                  /\ x.type = "REQUEST" /\ x.objs[1] = requested_contract_'
             /\ UNCHANGED <<state_, accepted_contract_, contract_timer_>>
    <3>1. PICK x \in SinkMessages : /\ tx_fifo' = Append(tx_fifo, x)
                                    /\ x.type = "REQUEST" /\ x.objs[1] = requested_contract_'
      BY <2>8, Zenon
    <3>2. Head(tx_fifo') = x
      BY <2>2, <3>1, SMTT(30)
    <3>3. ~Sending({"GET_SOURCE_CAP", "SOFT_RESET"})' /\ ~Sending({"SOFT_RESET"})'
      BY <3>1, <3>2, Zenon DEF Sending
    <3>4. AmsBusy'
      BY <2>8, Zenon DEF AmsBusy
    <3>5. src.mode = "wait_req" /\ (m.id + 1) % 8 = src.id
      BY <1>5, <2>2, <2>8, Zenon DEF Waits, CapSays, m
    <3>6. last_received_msg_id_' # src.id
      BY <1>14, <3>5, ModFacts, ZenonT(30)
    <3>9. /\ src'.mode = "wait_req" /\ src'.id = src.id /\ pc' \notin {"soft_reset", "send"}
          /\ Head(tx_fifo').objs[1] = requested_contract_'
      BY <1>1, <2>7, <3>1, <3>2, <3>5, Zenon
    <3>7. AmsState'
      BY <2>5, <3>3, <3>4, <3>6, <3>9, Zenon DEF AmsState
    <3>8. Agreed'
      BY <1>1, <2>8, <3>5, AgreedMoved, Zenon
    <3>. QED
      BY <1>8, <3>3, <3>7, <3>8, Zenon DEF Agreeing
  <2>9. CASE /\ \/ tx_fifo' = tx_fifo
                \/ \E x \in SinkMessages :
                     /\ tx_fifo' = Append(tx_fifo, x)
                     /\ x.type \notin {"REQUEST", "SOFT_RESET", "GET_SOURCE_CAP"}
             /\ UNCHANGED <<state_, active_ams_, contractVars, expired>>
    <3>1. ~Sending({"GET_SOURCE_CAP", "SOFT_RESET"})' /\ ~Sending({"SOFT_RESET"})' /\ ~Sending({"REQUEST"})'
      <4>1. CASE tx_fifo' = tx_fifo
        BY <2>2, <4>1, Zenon DEF Sending
      <4>2. CASE tx_fifo' # tx_fifo
        <5>1. PICK x \in SinkMessages : /\ tx_fifo' = Append(tx_fifo, x)
                                        /\ x.type \notin {"REQUEST", "SOFT_RESET", "GET_SOURCE_CAP"}
          BY <2>9, <4>2, Zenon
        <5>2. Head(tx_fifo') = x
          BY <2>2, <5>1, SMTT(30)
        <5>. QED
          BY <5>1, <5>2, Zenon DEF Sending
      <4>. QED
        BY <4>1, <4>2, Zenon
    <3>2. AmsState'
      BY <1>1, <2>5, <2>6, <2>7, <3>1, Zenon DEF AmsState
    <3>3. Agreed'
      BY <1>1, <2>5, <2>6, <2>9, AgreedMoved, Zenon DEF contractVars
    <3>. QED
      BY <1>8, <3>1, <3>2, <3>3, Zenon DEF Agreeing
  <2>. QED
    BY <1>4, <1>14, <2>8, <2>9, Zenon DEF TakenIn, Unanswered
<1>. QED
  BY <1>4, <1>11, <1>12, <1>13, <1>14, Zenon DEF TakenIn, Unanswered

(* The source hears the request of an AMS under way, or a soft reset after *)
(* which none is.                                                          *)
LEMMA AgreeingHeard ==
  ASSUME TypeOK, TypeOK', ExchangeInv, Talking, Agreeing, SourceReceives
  PROVE  Agreeing'
<1>. Replies /\ AmsState /\ Agreed
  BY Zenon DEF Agreeing
<1>. DEFINE g == CntrlMsg("GOODCRC", Head(tx_fifo).id)
            m == Head(tx_fifo)
<1>1. /\ tx_fifo # <<>> /\ tx_fifo' = Tail(tx_fifo) /\ rx_fifo' = Append(rx_fifo, g)
      /\ UNCHANGED <<message_queue_, Held, last_received_msg_id_, requested_contract_,
                     accepted_contract_, contract_timer_, expired, active_ams_, pc, hw_state_,
                     state_, deferred, power_mode>>
  BY Zenon DEF SourceReceives, Held, taskVars, idVars, contractVars, stateVars, hwVars, autoVars
<1>2. g \in Messages /\ g.type = "GOODCRC"
  BY SourceHears, MessageTypes, Zenon DEF MsgTypes, CntrlMsg, Msg
<1>3. Hears(m)
  BY SourceListens, Zenon
<1>. HIDE DEF g, m
<1>4. /\ Len(tx_fifo) = 1 /\ SourceQuiet /\ Len(Pipe) <= 1
      /\ \A i \in 1..Len(Pipe) : Pipe[i].type \notin Unanswered
  BY <1>1, Zenon DEF ExchangeInv, OneAtATime, Talking
<1>5. tx_fifo' = <<>> /\ \A types : ~Sending(types)'
  BY <1>1, <1>4, TxShape, Zenon DEF Sending
<1>6. /\ Len(Pipe) \in Nat /\ Len(Pipe') = Len(Pipe) + 1
      /\ \A i \in 1..Len(Pipe) : Pipe'[i] = Pipe[i]
      /\ Pipe'[Len(Pipe) + 1] = g
  BY <1>1, <1>2, PipeGrown, Zenon
<1>7. \A i \in 1..Len(Pipe') : (i \in 1..Len(Pipe) /\ Pipe'[i] = Pipe[i]) \/ Pipe'[i] = g
  BY <1>6, SMTT(30)
<1>8. ~InPipe("ACCEPT") /\ ~InPipe("ACCEPT")' /\ ~InPipe("PS_RDY")'
  BY <1>2, <1>4, <1>7, Zenon DEF InPipe, Unanswered
<1>9. ~AcceptDue /\ ~AcceptDue'
  BY <1>8, QuietDue, Zenon
<1>10. src.mode \notin {"ps_rdy", "accept", "reset"}
  BY <1>4, Zenon DEF SourceQuiet
<1>11. src'.mode = "accept" =>
         /\ src'.req = requested_contract_ /\ AmsBusy /\ last_received_msg_id_ # src.id
  BY <1>1, <1>3, <1>10, Zenon DEF Hears, AmsState, Sending, m
<1>12. src'.mode = "reset" => ~active_ams_
  BY <1>1, <1>3, <1>10, Zenon DEF Hears, AmsState, Sending, m
<1>13. src'.id = src.id /\ src'.granted = src.granted /\ src'.mode # "ps_rdy"
  BY <1>3, <1>10, Zenon DEF Hears
<1>14. AmsState'
  <2>1. src'.mode = "accept" => RequestOpen' /\ last_received_msg_id_' # src'.id
    BY <1>1, <1>11, <1>13, Zenon DEF RequestOpen, AmsBusy
  <2>. QED
    BY <1>1, <1>5, <1>8, <1>9, <1>12, <1>13, <2>1, Zenon DEF AmsState
<1>15. Agreed'
  BY <1>1, <1>9, <1>10, <1>13, AgreedMoved, Zenon
<1>16. ASSUME NEW i \in 1..Len(Pipe')
       PROVE  CapSays(i)' /\ AcceptSays(i)' /\ ReadySays(i)'
  <2>1. CASE i \in 1..Len(Pipe) /\ Pipe'[i] = Pipe[i]
    <3>1. CapSays(i)
      BY <2>1, RepliesParts, Zenon
    <3>2. Pipe[i].type = "SOURCE_CAP" => InPipe("SOURCE_CAP")
      BY <2>1, Zenon DEF InPipe
    <3>3. Pipe[i].type = "SOURCE_CAP" => m.type \notin {"GET_SOURCE_CAP", "SOFT_RESET"}
      BY <1>1, <3>2, RepliesParts, Zenon DEF Sending, m
    <3>4. Pipe[i].type = "SOURCE_CAP" =>
            src'.mode \in {"accept", "reject"} \/ (src'.mode = src.mode /\ src'.id = src.id)
      BY <1>3, <3>1, <3>3, Zenon DEF Hears, CapSays
    <3>5. CapSays(i)'
      BY <2>1, <3>1, <3>4, Zenon DEF CapSays
    <3>. QED
      BY <1>4, <2>1, <3>5, Zenon DEF AcceptSays, ReadySays, Unanswered
  <2>2. CASE Pipe'[i] = g
    BY <1>2, <2>2, Zenon DEF CapSays, AcceptSays, ReadySays
  <2>. QED
    BY <1>7, <2>1, <2>2, Zenon
<1>17. Len(Pipe') <= 2
  BY <1>4, <1>6, SMTT(30)
<1>18. Replies'
  BY <1>5, <1>16, <1>17, RepliesParts, Zenon
<1>. QED
  BY <1>14, <1>15, <1>18, Zenon DEF Agreeing

(* The source answers the request of the AMS under way, or a soft reset.   *)
LEMMA AgreeingSpoken ==
  ASSUME TypeOK, TypeOK', "late" \notin Faults, "i2c" \notin Faults,
         Unsolicited \intersect Unanswered = {},
         PhaseInv, FifoInv, ExchangeInv, Talking, Agreeing, SourceStep \/ SourceExtra
  PROVE  Agreeing'
<1>. Replies /\ AmsState /\ Agreed
  BY Zenon DEF Agreeing
<1>. PICK m \in SourceMessages : Speaks(m)
  BY SourceStepSpeaks, SourceExtraSpeaks, Zenon
<1>. m \in Messages
  BY Zenon DEF SourceMessages
<1>1. UNCHANGED <<message_queue_, Held, tx_fifo, last_received_msg_id_, requested_contract_,
                  accepted_contract_, contract_timer_, expired, active_ams_, pc, hw_state_,
                  state_, deferred, power_mode>>
  BY SourceRaisesIrq, Zenon DEF Held, taskVars, pdVars, idVars, contractVars, stateVars, hwVars, autoVars
<1>2. /\ Len(Pipe) \in Nat /\ Len(Pipe') \in {Len(Pipe) + 1, Len(Pipe) + 2}
      /\ Len(Pipe) + 1 \in 1..Len(Pipe') /\ Pipe'[Len(Pipe) + 1] = m
      /\ \A i \in 1..Len(Pipe) : i \in 1..Len(Pipe') /\ Pipe'[i] = Pipe[i]
      /\ \A i \in 1..Len(Pipe') : i \in 1..Len(Pipe) \/ Pipe'[i] = m
  BY <1>1, PipeEmitted, Zenon DEF Speaks
<1>3. src.mode = "idle" => Settled /\ m.type \notin Unanswered /\ OnlyGoodCrc
  BY SettledPipe, Zenon DEF Speaks, Talking, Exchanging
<1>4. tx_fifo = <<>> /\ \A types : ~Sending(types)'
  <2>1. CASE src.mode = "idle"
    BY <1>1, <1>3, <2>1, Zenon DEF Settled, Sending
  <2>2. CASE src.mode # "idle"
    <3>1. ~SourceQuiet
      BY <2>2, Zenon DEF SourceQuiet, Speaks
    <3>. QED
      BY <1>1, <3>1, Zenon DEF ExchangeInv, OneAtATime, Talking, Sending
  <2>. QED
    BY <2>1, <2>2, Zenon
<1>5. /\ src'.req = src.req /\ src'.mode \notin {"accept", "reset"}
      /\ src.mode # "ps_rdy" => src'.granted = src.granted
      /\ src.mode = "ps_rdy" => src'.granted = src'.req /\ src'.mode = "idle" /\ m.type = "PS_RDY"
      /\ src.mode \notin {"ps_rdy", "accept"} => m.type # "PS_RDY" /\ src'.mode # "ps_rdy"
      /\ src.mode \in {"caps", "accept", "reject", "ps_rdy", "reset", "idle"}
  BY Zenon DEF Speaks, Unanswered
<1>6. /\ InPipe("ACCEPT") => src.mode \in {"caps", "ps_rdy"}
      /\ ~InPipe("PS_RDY")
      /\ InPipe("SOURCE_CAP") => src.mode \in {"accept", "reject", "ps_rdy"}
  <2>1. src.mode = "idle" => ~InPipe("ACCEPT") /\ ~InPipe("PS_RDY") /\ ~InPipe("SOURCE_CAP")
    BY <1>3, QuietDue, Zenon
  <2>2. /\ InPipe("ACCEPT") => src.mode \in {"caps", "wait_req", "ps_rdy", "idle"}
        /\ InPipe("PS_RDY") => src.mode = "idle"
        /\ InPipe("SOURCE_CAP") => src.mode \in {"wait_req", "accept", "reject", "ps_rdy", "idle"}
    BY RepliesParts, Zenon DEF InPipe, CapSays, AcceptSays, ReadySays
  <2>. QED
    BY <1>5, <2>1, <2>2, Zenon
<1>7. \A type : InPipe(type)' => InPipe(type) \/ m.type = type
  BY <1>2, Zenon DEF InPipe
<1>8. AcceptDue => AcceptDue'
  BY <1>1, <1>2, Zenon DEF AcceptDue
<1>9. /\ RequestOpen => RequestOpen'
      /\ ContractTaken => ContractTaken'
  BY <1>1, <1>5, Zenon DEF RequestOpen, AmsBusy, ContractTaken
<1>10. Replies'
  <2>1. ASSUME NEW i \in 1..Len(Pipe'), i \in 1..Len(Pipe)
        PROVE  CapSays(i)' /\ AcceptSays(i)' /\ ReadySays(i)'
    <3>1. Pipe'[i] = Pipe[i]
      BY <1>2, <2>1, Zenon
    <3>2. CapSays(i) /\ AcceptSays(i) /\ ReadySays(i)
      BY <2>1, RepliesParts, Zenon
    <3>3. \A type : Pipe[i].type = type => InPipe(type)
      BY <2>1, Zenon DEF InPipe
    <3>4. CapSays(i)'
      <4>1. /\ src.mode = "accept" => src'.mode = "ps_rdy"
            /\ src.mode \in {"reject", "ps_rdy"} => src'.mode = "idle"
        BY Zenon DEF Speaks
      <4>2. Pipe[i].type = "SOURCE_CAP" => src'.mode \in {"ps_rdy", "idle"}
        BY <1>6, <3>3, <4>1, Zenon
      <4>. QED
        BY <3>1, <4>2, Zenon DEF CapSays
    <3>5. AcceptSays(i)'
      <4>1. Pipe[i].type = "ACCEPT" =>
              src'.mode = "wait_req" \/ (src'.mode = "idle" /\ src.mode = "ps_rdy")
        BY <1>6, <3>3, Zenon DEF Speaks
      <4>. QED
        BY <3>1, <3>2, <4>1, Zenon DEF AcceptSays
    <3>6. ReadySays(i)'
      BY <1>6, <3>1, <3>3, Zenon DEF ReadySays
    <3>. QED
      BY <3>4, <3>5, <3>6, Zenon
  <2>2. ASSUME NEW i \in 1..Len(Pipe'), i \notin 1..Len(Pipe)
        PROVE  CapSays(i)' /\ AcceptSays(i)' /\ ReadySays(i)'
    <3>1. Pipe'[i] = m
      BY <1>2, <2>2, Zenon
    <3>2. CapSays(i)'
      <4>1. m.type = "SOURCE_CAP" => src'.mode = "wait_req" /\ (m.id + 1) % 8 = src'.id
        BY Zenon DEF Speaks
      <4>. QED
        BY <3>1, <4>1, Zenon DEF CapSays
    <3>3. AcceptSays(i)'
      <4>1. m.type = "ACCEPT" => src'.mode = "caps" \/ (src.mode = "accept" /\ src'.mode = "ps_rdy")
        <5>1. m.type = "ACCEPT" => src.mode \in {"accept", "reset"}
          BY Zenon DEF Speaks, Unanswered
        <5>2. src.mode = "reset" => src'.mode = "caps"
          BY Zenon DEF Speaks
        <5>3. src.mode = "accept" => src'.mode = "ps_rdy"
          BY Zenon DEF Speaks
        <5>. QED
          BY <5>1, <5>2, <5>3, Zenon
      <4>2. src.mode = "accept" => i <= 4
        BY <1>2, RepliesParts, SMTT(30)
      <4>. QED
        BY <3>1, <4>1, <4>2, Zenon DEF AcceptSays
    <3>4. ReadySays(i)'
      <4>1. m.type = "PS_RDY" => src'.mode = "idle" /\ src'.granted = src'.req
        BY <1>5, Zenon DEF Speaks, Unanswered
      <4>2. \A j \in (i + 1)..Len(Pipe') : j \in 1..Len(Pipe') /\ j \notin 1..Len(Pipe)
        BY <1>2, <2>2, SMTT(30)
      <4>3. \A j \in (i + 1)..Len(Pipe') : Pipe'[j] = m
        BY <1>2, <4>2, Zenon
      <4>. QED
        BY <3>1, <4>1, <4>3, Zenon DEF ReadySays
    <3>. QED
      BY <3>2, <3>3, <3>4, Zenon
  <2>3. \A i \in 1..Len(Pipe') : CapSays(i)' /\ AcceptSays(i)' /\ ReadySays(i)'
    BY <2>1, <2>2, Zenon
  <2>. QED
    BY <1>4, <1>5, <2>3, RepliesParts, Zenon
<1>11. AmsState'
  <2>1. src'.mode = "ps_rdy" => RequestOpen' /\ AcceptDue'
    <3>1. src'.mode = "ps_rdy" => src.mode = "accept" /\ m.type = "ACCEPT" /\ m.id = src.id
      BY Zenon DEF Speaks
    <3>2. src.mode = "accept" => RequestOpen' /\ last_received_msg_id_ # src.id
      BY <1>9, Zenon DEF AmsState
    <3>. QED
      BY <1>1, <1>2, <3>1, <3>2, Zenon DEF AcceptDue
  <2>2. InPipe("PS_RDY")' => AcceptDue' \/ ContractTaken'
    <3>1. m.type = "PS_RDY" => src.mode = "ps_rdy"
      BY Zenon DEF Speaks, Unanswered
    <3>. QED
      BY <1>6, <1>7, <1>8, <1>9, <3>1, Zenon DEF AmsState
  <2>3. AcceptDue' => \/ m.type = "ACCEPT" /\ src.mode \in {"accept", "reset"}
                      \/ AcceptDue /\ src.mode \in {"caps", "ps_rdy"}
    <3>1. m.type = "ACCEPT" => src.mode \in {"accept", "reset"}
      BY Zenon DEF Speaks, Unanswered
    <3>2. AcceptDue' => AcceptDue \/ m.type = "ACCEPT"
      BY <1>1, <1>2, Zenon DEF AcceptDue
    <3>. QED
      BY <1>6, <3>1, <3>2, QuietDue, Zenon
  <2>4. AcceptDue' /\ src'.mode = "idle" => RequestOpen' /\ src'.granted = src'.req
    <3>1. src'.mode = "idle" => src.mode \notin {"accept", "reset", "caps"}
      BY Zenon DEF Speaks
    <3>. QED
      BY <1>5, <1>9, <2>3, <3>1, Zenon DEF AmsState
  <2>5. AcceptDue' /\ src'.mode \in {"caps", "wait_req"} => ~active_ams_'
    <3>1. src'.mode \in {"caps", "wait_req"} => src.mode \notin {"accept", "ps_rdy"}
      BY Zenon DEF Speaks
    <3>. QED
      BY <1>1, <2>3, <3>1, Zenon DEF AmsState
  <2>. QED
    BY <1>1, <1>4, <1>5, <2>1, <2>2, <2>4, <2>5, Zenon DEF AmsState
<1>12. Agreed'
  <2>1. contract_voltage_' = contract_voltage_
    BY <1>1, Zenon DEF contract_voltage_
  <2>2. CASE src.mode = "accept"
    <3>1. src'.mode = "ps_rdy"
      BY <2>2, Zenon DEF Speaks
    <3>. QED
      BY <1>1, <2>1, <3>1, Zenon DEF Agreed
  <2>3. CASE src.mode = "ps_rdy"
    <3>1. AcceptDue' \/ accepted_contract_' = src'.granted
      BY <1>1, <1>5, <1>8, <2>3, Zenon DEF AmsState, ContractTaken
    <3>. QED
      BY <1>1, <1>5, <2>1, <2>3, <3>1, Zenon DEF Agreed
  <2>4. CASE src.mode \notin {"accept", "ps_rdy"}
    BY <1>1, <1>3, <1>5, <2>4, QuietDue, AgreedMoved, Zenon
  <2>. QED
    BY <2>2, <2>3, <2>4, Zenon
<1>. QED
  BY <1>10, <1>11, <1>12, Zenon DEF Agreeing

(* The exchange begins, with nothing under way: the tasks come up, or the  *)
(* source comes back.                                                      *)
LEMMA AgreeingBegins ==
  ASSUME TypeOK, TypeOK', "late" \notin Faults, "i2c" \notin Faults,
         PhaseInv, FifoInv, AttachInv, DueInv, PlugInv, Talking', TriggerCreate \/ Plug
  PROVE  Agreeing'
<1>1. ASSUME tx_fifo' = <<>>, OnlyGoodCrc', src'.mode \in {"off", "caps", "wait_req"},
             pc' \notin {"soft_reset", "send"},
             hw_state_' # "ATTACHED" \/ state_' # "EXPLICIT_SPR_CONTRACT"
      PROVE  Agreeing'
  <2>1. Replies'
    BY <1>1, QuietReplies, Zenon
  <2>2. AmsState'
    BY <1>1, QuietDue, AmsQuiet, Zenon
  <2>3. Agreed'
    BY <1>1, Zenon DEF Agreed
  <2>. QED
    BY <2>1, <2>2, <2>3, Zenon DEF Agreeing
<1>2. CASE TriggerCreate
  <2>1. /\ trigger = "create" /\ Spawning /\ reader = "none" /\ ~failed
        /\ reader' # "enqueue"
        /\ UNCHANGED <<message_queue_, rx_fifo, tx_fifo, rmsg, src, pc, hw_state_, state_, budget>>
    BY <1>2, TasksExist, Zenon DEF TriggerCreate, Spawning, pdVars, stateVars, chipVars
  <2>2. OnlyGoodCrc
    BY <2>1, QuietPipe, Zenon DEF AttachInv
  <2>3. OnlyGoodCrc'
    <3>1. Pipe' = Pipe
      BY <2>1, Zenon DEF Pipe, Held
    <3>. QED
      BY <2>2, <3>1, Zenon DEF OnlyGoodCrc
  <2>4. tx_fifo = <<>> /\ src.mode \in {"off", "caps", "wait_req"}
    BY <2>1, Zenon DEF PlugInv, Unasked, Counting, Talking, NotRestarted, Exchanging
  <2>5. pc \notin {"soft_reset", "send"}
    BY <2>1, Zenon DEF DueInv, SendDue, DuePcs
  <2>6. state_ # "EXPLICIT_SPR_CONTRACT"
    BY <2>1, Zenon DEF PlugInv, PlaceInv
  <2>. QED
    BY <1>1, <2>1, <2>3, <2>4, <2>5, <2>6, Zenon
<1>3. CASE Plug
  <2>1. /\ Settled /\ ~auto_crc /\ src' \in Sources
        /\ UNCHANGED <<message_queue_, rx_fifo, tx_fifo, rmsg, reader, trigger, pc, hw_state_, state_>>
    BY <1>3, Zenon DEF Plug, pdVars, stateVars, taskVars, hwVars
  <2>2. OnlyGoodCrc /\ isr /\ reader = "wait"
    BY <2>1, SettledPipe, Zenon DEF Talking, Exchanging
  <2>3. OnlyGoodCrc'
    <3>1. Pipe' = Pipe
      BY <2>1, Zenon DEF Pipe, Held
    <3>. QED
      BY <2>2, <3>1, Zenon DEF OnlyGoodCrc
  <2>4. tx_fifo = <<>> /\ src'.mode \in {"off", "caps"} /\ pc \notin {"soft_reset", "send"}
    BY <2>1, NewSource, Zenon DEF Settled, LoopAtRest
  <2>5. hw_state_ # "ATTACHED"
    BY <2>1, <2>2, Zenon DEF PlugInv, PlaceInv
  <2>. QED
    BY <1>1, <2>1, <2>3, <2>4, <2>5, Zenon
<1>. QED
  BY <1>2, <1>3, Zenon

-----------------------------------------------------------------------------
(* How the contract comes about: what a source has not said yet when loop()*)
(* attaches to it.                                                         *)

(* The tasks only take from the pipe, and send no soft reset.              *)
LEMMA TasksTake ==
  ASSUME TypeOK, TypeOK', "i2c" \notin Faults, WireInv,
         \/ TriggerReceive \/ TriggerSoftReset \/ ReaderReset \/ ReaderDrain \/ ReaderEnqueue
  PROVE  /\ \A type : InPipe(type)' => InPipe(type)
         /\ OnlyGoodCrc => OnlyGoodCrc' /\ (tx_fifo = <<>> => tx_fifo' = <<>>)
         /\ Sending({"SOFT_RESET"})' => Sending({"SOFT_RESET"})
         /\ UNCHANGED <<src, pc, hw_state_, budget, auto_crc>>
         /\ trigger' \in {"receive", "soft_reset"} => trigger \in {"receive", "soft_reset"}
<1>. USE DEF taskVars, hwVars, pdVars, chipVars
<1>1. /\ UNCHANGED <<src, pc, hw_state_, budget, auto_crc>>
      /\ trigger' \in {"receive", "soft_reset"} => trigger \in {"receive", "soft_reset"}
  BY Zenon DEF TriggerReceive, TriggerSoftReset, ReaderReset, ReaderDrain, ReaderEnqueue
<1>2. \A type : InPipe(type)' => InPipe(type)
  <2>. Len(Pipe) \in Nat /\ Len(Pipe') \in Nat
    BY PipeLengths, Zenon
  <2>1. CASE TriggerReceive
    <3>1. Shrunk(0)
      BY <2>1, PipeTaken, SMTT(30) DEF Shrunk
    <3>2. 0 \in Nat
      BY SMTT(30)
    <3>. QED
      BY <3>1, <3>2, ShrunkTypes, Zenon
  <2>2. CASE TriggerSoftReset \/ ReaderReset
    <3>1. UNCHANGED <<message_queue_, Held>> /\ (rx_fifo' = <<>> \/ rx_fifo' = rx_fifo)
      BY <2>2, Zenon DEF TriggerSoftReset, ReaderReset, fusb_reset_, Held
    <3>. QED
      BY <3>1, CutTypes, Zenon
  <2>3. CASE ReaderDrain \/ ReaderEnqueue
    <3>1. CASE Pipe' = Pipe
      BY <3>1, Zenon DEF InPipe
    <3>2. CASE /\ Len(Pipe') = Len(Pipe) - 1
               /\ \A i \in 1..Len(Pipe') :
                    Pipe'[i] = IF i <= Len(message_queue_) THEN Pipe[i] ELSE Pipe[i + 1]
      <4>1. Len(message_queue_) \in Nat
        BY PipeElement, Zenon
      <4>2. Shrunk(Len(message_queue_))
        BY <3>2, <4>1, SMTT(30) DEF Shrunk
      <4>. QED
        BY <4>1, <4>2, ShrunkTypes, Zenon
    <3>. QED
      BY <2>3, <3>1, <3>2, PipeFetched, PipeQueued, Zenon
  <2>. QED
    BY <2>1, <2>2, <2>3, Zenon
<1>3. OnlyGoodCrc => OnlyGoodCrc'
  BY <1>2, Zenon DEF InPipe, OnlyGoodCrc
<1>4. CASE tx_fifo' = tx_fifo \/ tx_fifo' = <<>>
  BY <1>1, <1>2, <1>3, <1>4, Zenon DEF Sending
<1>5. CASE tx_fifo' # tx_fifo /\ tx_fifo' # <<>>
  <2>1. TriggerReceive
    BY <1>5, Zenon DEF TriggerSoftReset, ReaderReset, ReaderDrain, ReaderEnqueue, fusb_reset_,
       handle_soft_reset_rest
  <2>2. Pipe[1] = Head(message_queue_) /\ Len(Pipe) >= 1
    BY <2>1, PipeTaken, Zenon
  <2>3. 1 \in 1..Len(Pipe) /\ Pipe[1] \in SourceMessages
    <3>1. Len(Pipe) \in Nat
      BY PipeLengths, Zenon
    <3>2. 1 \in 1..Len(Pipe)
      BY <2>2, <3>1, SMTT(30)
    <3>. QED
      BY <3>2, WirePipe, Zenon
  <2>4. TakenIn(Pipe[1])
    BY <2>1, <2>2, <2>3, MessageTakenIn, Zenon DEF TriggerReceive
  <2>5. /\ Pipe[1].type # "GOODCRC"
        /\ \E x \in SinkMessages : tx_fifo' = Append(tx_fifo, x) /\ x.type # "SOFT_RESET"
    BY <1>5, <2>4, Zenon DEF TakenIn
  <2>6. ~OnlyGoodCrc
    BY <2>3, <2>5, Zenon DEF OnlyGoodCrc
  <2>7. PICK x \in SinkMessages : tx_fifo' = Append(tx_fifo, x) /\ x.type # "SOFT_RESET"
    BY <2>5, Zenon
  <2>8. Sending({"SOFT_RESET"})' => Sending({"SOFT_RESET"})
    <3>1. tx_fifo \in Seq(SinkMessages)
      BY TxShape, Zenon
    <3>2. CASE tx_fifo = <<>>
      <4>1. Head(tx_fifo') = x
        BY <2>7, <3>1, <3>2, SMTT(30)
      <4>. QED
        BY <2>7, <4>1, Zenon DEF Sending
    <3>3. CASE tx_fifo # <<>>
      <4>1. Head(tx_fifo') = Head(tx_fifo)
        BY <2>7, <3>1, <3>3, SMTT(30)
      <4>. QED
        BY <3>3, <4>1, Zenon DEF Sending
    <3>. QED
      BY <3>2, <3>3, Zenon
  <2>. QED
    BY <1>1, <1>2, <2>6, <2>8, Zenon
<1>. QED
  BY <1>4, <1>5, Zenon

(* While loop() attaches, the source can only offer its capabilities and   *)
(* hear the request for them.                                              *)
LEMMA UnacceptedStep ==
  ASSUME Orderly, Unsolicited \intersect Unanswered = {}, TypeOK, TypeOK', PhaseInv, AttachInv,
         ExchangeInv, WireInv, PlugInv, [Next]_vars
  PROVE  Unaccepted'
<1>. USE DEF Orderly, PlugInv
<1>. DEFINE Attaching == {"reattach_crc", "reattach_reset", "arm"}
<1>. SUFFICES ASSUME Talking', pc' \in Attaching
              PROVE  /\ src'.mode \in {"off", "caps", "wait_req", "accept", "reject"}
                     /\ ~InPipe("ACCEPT")' /\ ~Sending({"SOFT_RESET"})'
  BY Zenon DEF Unaccepted
<1>0. NotRestarted /\ ~Reboot
  BY RebootsCounted, Zenon DEF PlaceInv, Talking
<1>00. /\ src'.plugged /\ trigger' \in {"receive", "soft_reset"}
  BY Zenon DEF Talking, Exchanging
<1>a. ASSUME src.plugged, trigger \in {"receive", "soft_reset"}, pc \in Attaching
      PROVE  /\ Talking /\ src.mode \in {"off", "caps", "wait_req", "accept", "reject"}
             /\ ~InPipe("ACCEPT") /\ ~Sending({"SOFT_RESET"})
  BY <1>0, <1>a, Zenon DEF Unaccepted, Talking, Exchanging
<1>1. CASE Aside
  <2>1. UNCHANGED <<src, tx_fifo, Pipe, trigger>>
    BY <1>1, AsideKeeps, Zenon DEF flowVars
  <2>2. CASE pc \in Attaching
    BY <1>a, <1>00, <2>1, <2>2, Zenon DEF InPipe, Sending
  <2>3. CASE pc \notin Attaching
    <3>1. LoopCcSettle2
      BY <1>1, <2>3, Zenon DEF Aside, LoopAside, ReaderAside, RunDeferred, RequestVoltage, LoopStart,
         LoopDetachState, LoopCcIdle, LoopCcSettle1, LoopReattachCrc, LoopArm, LoopAttached,
         LoopPdTimeout, LoopTimer, ReaderCrc, ReaderWake, ReaderStatus, Elapse, vars
    <3>2. pc = "status" /\ hw_state_ = "UNATTACHED"
      BY <3>1, Zenon DEF LoopCcSettle2
    <3>3. src.mode \in {"off", "caps"} /\ OnlyGoodCrc /\ tx_fifo = <<>>
      BY <1>0, <1>00, <2>1, <3>2, Zenon DEF Unheard, Talking, Exchanging
    <3>. QED
      BY <2>1, <3>3, QuietDue, Zenon DEF InPipe, Sending
  <2>. QED
    BY <2>2, <2>3, Zenon
<1>2. CASE \/ Setup \/ LoopDetachReset \/ LoopSoftReset \/ LoopSend \/ Unplug \/ LoopSpawn \/ Plug
  <2>1. pc' \in Attaching => LoopSpawn \/ Unplug \/ Plug
    BY <1>2, Zenon DEF Setup, LoopDetachReset, LoopSoftReset, LoopSend
  <2>2. LoopSpawn => trigger' \notin {"receive", "soft_reset"}
    BY Zenon DEF LoopSpawn, PhaseInv, Starting, Measuring, Spawning, Running, Stopped, LaterPcs
  <2>3. ~Unplug
    <3>1. Unplug => src' = NoSource
      BY Zenon DEF Unplug
    <3>2. ~NoSource.plugged
      BY Zenon DEF NoSource
    <3>. QED
      BY <1>00, <3>1, <3>2, Zenon
  <2>4. ~Plug
    BY Zenon DEF Plug, Settled, LoopAtRest
  <2>. QED
    BY <1>00, <2>1, <2>2, <2>3, <2>4, Zenon
<1>3. CASE LoopReattachReset
  <2>1. /\ UNCHANGED <<src, trigger, message_queue_, Held>>
        /\ tx_fifo' = <<>> /\ rx_fifo' = <<>> /\ pc = "reattach_reset"
    BY <1>3, Zenon DEF LoopReattachReset, fusb_reset_, Held, taskVars
  <2>2. \A type : InPipe(type)' => InPipe(type)
    BY <2>1, CutTypes, Zenon
  <2>. QED
    BY <1>a, <1>00, <2>1, <2>2, Zenon DEF Sending
<1>4. CASE TriggerCreate
  <2>1. UNCHANGED <<src, tx_fifo, message_queue_, rx_fifo>> /\ trigger = "create" /\ reader' # "enqueue"
    BY <1>4, TasksExist, Zenon DEF TriggerCreate, chipVars, pdVars
  <2>2. ~Counting /\ ~failed /\ reader = "none"
    BY <2>1, TasksExist, Zenon DEF Counting, Spawning
  <2>3. Held' = Held
    BY <2>1, <2>2, Zenon DEF Held
  <2>4. \A type : InPipe(type)' => InPipe(type)
    BY <2>1, <2>3, CutTypes, Zenon
  <2>5. tx_fifo = <<>> /\ src.mode \in {"off", "caps", "wait_req"} /\ ~InPipe("ACCEPT")
    BY <1>0, <1>00, <2>1, <2>2, Zenon DEF Unasked
  <2>. QED
    BY <2>1, <2>4, <2>5, Zenon DEF Sending
<1>5. CASE \/ TriggerReceive \/ TriggerSoftReset \/ ReaderReset \/ ReaderDrain \/ ReaderEnqueue
  <2>1. /\ \A type : InPipe(type)' => InPipe(type)
        /\ Sending({"SOFT_RESET"})' => Sending({"SOFT_RESET"})
        /\ UNCHANGED <<src, pc>> /\ trigger \in {"receive", "soft_reset"}
    BY <1>00, <1>5, TasksTake, Zenon
  <2>. QED
    BY <1>a, <1>00, <2>1, Zenon
<1>6. CASE TxLost
  <2>1. UNCHANGED <<src, pc, trigger, Pipe>> /\ tx_fifo # <<>> /\ tx_fifo' = Tail(tx_fifo)
    BY <1>6, Zenon DEF TxLost, taskVars, chipVars, Held, Pipe
  <2>2. tx_fifo' = <<>>
    BY <1>00, <2>1, TxShape, Zenon DEF ExchangeInv, OneAtATime, Exchanging
  <2>. QED
    BY <1>a, <1>00, <2>1, <2>2, Zenon DEF Sending, InPipe
<1>7. CASE SourceStep \/ SourceExtra
  <2>1. UNCHANGED <<tx_fifo, message_queue_, Held, pc, trigger>>
    BY <1>7, SourceRaisesIrq, Zenon DEF Held, pdVars, taskVars
  <2>2. PICK m \in SourceMessages : Speaks(m)
    BY <1>7, SourceStepSpeaks, SourceExtraSpeaks, Zenon
  <2>3. src.plugged
    BY <1>7, SourceStepEmits, SourceExtraEmits, Zenon DEF Emits
  <2>4. /\ src.mode \in {"off", "caps", "wait_req", "accept", "reject"}
        /\ ~InPipe("ACCEPT") /\ ~Sending({"SOFT_RESET"})
    BY <1>a, <1>00, <2>1, <2>3, Zenon
  <2>5. src.mode = "caps"
    BY <2>1, <2>2, <2>4, Zenon DEF Speaks, LoopAtRest
  <2>6. m.type = "SOURCE_CAP" /\ src'.mode = "wait_req"
    BY <2>2, <2>5, Zenon DEF Speaks
  <2>7. /\ Len(Pipe) \in Nat
        /\ \A i \in 1..Len(Pipe) : i \in 1..Len(Pipe') /\ Pipe'[i] = Pipe[i]
        /\ \A i \in 1..Len(Pipe') : i \in 1..Len(Pipe) \/ Pipe'[i] = m
    BY <2>1, <2>2, PipeEmitted, Zenon DEF Speaks, SourceMessages
  <2>8. ~InPipe("ACCEPT")'
    BY <2>4, <2>6, <2>7, Zenon DEF InPipe
  <2>. QED
    BY <2>1, <2>4, <2>6, <2>8, Zenon DEF Sending
<1>8. CASE SourceReceives
  <2>. DEFINE g == CntrlMsg("GOODCRC", Head(tx_fifo).id)
  <2>1. /\ src.plugged /\ UNCHANGED <<pc, trigger, message_queue_, Held>>
        /\ tx_fifo # <<>> /\ tx_fifo' = Tail(tx_fifo) /\ rx_fifo' = Append(rx_fifo, g)
    BY <1>8, Zenon DEF SourceReceives, taskVars, Held
  <2>2. g \in Messages /\ g.type = "GOODCRC"
    BY <1>8, SourceHears, MessageTypes, Zenon DEF MsgTypes, CntrlMsg, Msg
  <2>. HIDE DEF g
  <2>3. tx_fifo' = <<>>
    BY <1>00, <2>1, TxShape, Zenon DEF ExchangeInv, OneAtATime, Exchanging
  <2>4. /\ src.mode \in {"off", "caps", "wait_req", "accept", "reject"}
        /\ ~InPipe("ACCEPT") /\ ~Sending({"SOFT_RESET"})
    BY <1>a, <1>00, <2>1, Zenon
  <2>5. Head(tx_fifo).type # "SOFT_RESET"
    BY <2>1, <2>4, Zenon DEF Sending
  <2>6. src'.mode \in {"off", "caps", "wait_req", "accept", "reject"}
    BY <1>8, <2>4, <2>5, SourceListens, Zenon DEF Hears
  <2>7. /\ Len(Pipe) \in Nat
        /\ \A i \in 1..Len(Pipe) : i \in 1..Len(Pipe') /\ Pipe'[i] = Pipe[i]
        /\ \A i \in 1..Len(Pipe') : i \in 1..Len(Pipe) \/ Pipe'[i] = g
    BY <2>1, <2>2, PipeEmitted, Zenon
  <2>8. ~InPipe("ACCEPT")'
    BY <2>2, <2>4, <2>7, Zenon DEF InPipe
  <2>. QED
    BY <2>3, <2>6, <2>8, Zenon DEF Sending
<1>. QED
  BY <1>0, <1>1, <1>2, <1>3, <1>4, <1>5, <1>6, <1>7, <1>8, StepKinds, Zenon

(* A source that has come back is not heard before loop() attaches.        *)
LEMMA UnheardStep ==
  ASSUME Orderly, TypeOK, TypeOK', PhaseInv, FifoInv, AttachInv, WireInv, PlugInv, [Next]_vars
  PROVE  Unheard'
<1>. USE DEF Orderly, PlugInv
<1>. DEFINE Unserved == ~auto_crc /\ src.mode \in {"off", "caps"} /\ OnlyGoodCrc /\ tx_fifo = <<>>
<1>. SUFFICES ASSUME Talking', hw_state_' = "UNATTACHED", pc' \notin {"reattach_reset", "arm"}
              PROVE  Unserved'
  BY Zenon DEF Unheard
<1>0. NotRestarted /\ ~Reboot
  BY RebootsCounted, Zenon DEF PlaceInv, Talking
<1>00. /\ src'.plugged /\ trigger' \in {"receive", "soft_reset"}
  BY Zenon DEF Talking, Exchanging
<1>a. ASSUME src.plugged, trigger \in {"receive", "soft_reset"}, hw_state_ = "UNATTACHED",
             pc \notin {"reattach_reset", "arm"}
      PROVE  Unserved
  BY <1>0, <1>a, Zenon DEF Unheard, Talking, Exchanging
<1>1. CASE Aside
  <2>1. UNCHANGED <<src, tx_fifo, Pipe, trigger>>
    BY <1>1, AsideKeeps, Zenon DEF flowVars
  <2>2. hw_state_ = "UNATTACHED" /\ pc \notin {"reattach_reset", "arm"} /\ (~auto_crc => ~auto_crc')
    <3>1. CASE LoopStart
      <4>1. ~vbus_lost_
        BY <1>00, <2>1, Zenon DEF AttachInv
      <4>. QED
        BY <3>1, <4>1, Zenon DEF LoopStart, chipVars
    <3>2. CASE LoopDetachState \/ LoopReattachCrc \/ LoopArm \/ LoopAttached \/ LoopPdTimeout
      <4>1. ~(LoopReattachCrc \/ LoopArm \/ LoopAttached)
        BY Zenon DEF LoopReattachCrc, LoopArm, LoopAttached, hwVars
      <4>2. ~LoopDetachState
        BY <1>00, <2>1, Zenon DEF LoopDetachState, AttachInv
      <4>3. ~LoopPdTimeout
        BY Zenon DEF LoopPdTimeout, PlaceInv, DuePcs, hwVars
      <4>. QED
        BY <3>2, <4>1, <4>2, <4>3, Zenon
    <3>3. CASE RunDeferred \/ RequestVoltage \/ LoopTimer \/ LoopCcIdle \/ LoopCcSettle1 \/ LoopCcSettle2
      <4>1. /\ pc \in {"idle", "timer", "status"} /\ hw_state_' = hw_state_
            /\ auto_crc' = auto_crc \/ auto_crc' = FALSE
        BY <3>3, Zenon DEF RunDeferred, RequestVoltage, LoopTimer, LoopCcIdle, LoopCcSettle1,
           LoopCcSettle2, hwVars, chipVars
      <4>. QED
        BY <4>1, SMTT(30)
    <3>4. CASE ReaderAside
      <4>1. UNCHANGED <<pc, hw_state_>> /\ (reader = "crc" \/ auto_crc' = auto_crc)
        BY <3>4, Zenon DEF ReaderAside, ReaderCrc, ReaderWake, ReaderStatus, hwVars
      <4>. QED
        <5>1. reader # "crc"
          BY <4>1, Zenon DEF PlaceInv, FirstAttach
        <5>. QED
          BY <4>1, <5>1, SMTT(30)
    <3>5. CASE Elapse \/ UNCHANGED vars
      <4>1. UNCHANGED <<pc, hw_state_, auto_crc>>
        BY <3>5, Zenon DEF Elapse, vars, hwVars, chipVars
      <4>. QED
        BY <4>1, Zenon
    <3>. QED
      BY <1>1, <3>1, <3>2, <3>3, <3>4, <3>5, Zenon DEF Aside, LoopAside
  <2>. QED
    BY <1>a, <1>00, <2>1, <2>2, Zenon DEF OnlyGoodCrc
<1>2. CASE \/ Setup \/ LoopSpawn \/ LoopDetachReset \/ LoopReattachReset \/ LoopSoftReset \/ LoopSend
           \/ Unplug
  <2>1. ~(Setup \/ LoopSpawn)
    <3>1. Setup \/ LoopSpawn => pc \in {"setup", "spawn"} /\ trigger' \in {trigger, "create"}
      BY Zenon DEF Setup, LoopSpawn, taskVars
    <3>2. pc \in {"setup", "spawn"} => trigger = "none"
      BY Zenon DEF PhaseInv, Starting, Measuring, Spawning, Running, Stopped, LaterPcs
    <3>. QED
      BY <1>00, <3>1, <3>2, Zenon
  <2>2. ~LoopDetachReset
    BY <1>00, Zenon DEF LoopDetachReset, AttachInv
  <2>3. ~(LoopReattachReset \/ LoopSoftReset \/ LoopSend)
    BY Zenon DEF LoopReattachReset, LoopSoftReset, LoopSend, PlaceInv, DuePcs, hwVars
  <2>4. ~Unplug
    <3>1. Unplug => src' = NoSource
      BY Zenon DEF Unplug
    <3>2. ~NoSource.plugged
      BY Zenon DEF NoSource
    <3>. QED
      BY <1>00, <3>1, <3>2, Zenon
  <2>. QED
    BY <1>2, <2>1, <2>2, <2>3, <2>4, Zenon
<1>3. CASE TriggerCreate
  <2>1. UNCHANGED <<pc, hw_state_>> /\ trigger = "create"
    BY <1>3, Zenon DEF TriggerCreate
  <2>2. FirstAttach
    BY <2>1, TasksExist, Zenon DEF Spawning
  <2>. QED
    BY <2>1, <2>2, Zenon DEF FirstAttach
<1>4. CASE \/ TriggerReceive \/ TriggerSoftReset \/ ReaderReset \/ ReaderDrain \/ ReaderEnqueue
  <2>1. /\ OnlyGoodCrc => OnlyGoodCrc' /\ (tx_fifo = <<>> => tx_fifo' = <<>>)
        /\ UNCHANGED <<src, pc, hw_state_, auto_crc>> /\ trigger \in {"receive", "soft_reset"}
    BY <1>00, <1>4, TasksTake, Zenon
  <2>. QED
    BY <1>a, <1>00, <2>1, Zenon
<1>5. CASE Plug
  <2>1. /\ Settled /\ ~auto_crc /\ src' \in Sources
        /\ UNCHANGED <<trigger, tx_fifo, Pipe, auto_crc>>
    BY <1>5, Zenon DEF Plug, pdVars, taskVars, Held, Pipe
  <2>2. OnlyGoodCrc
    BY <1>00, <2>1, SettledPipe, Zenon
  <2>. QED
    BY <2>1, <2>2, NewSource, Zenon DEF Settled, OnlyGoodCrc
<1>6. CASE TxLost \/ SourceReceives
  <2>1. /\ UNCHANGED <<pc, hw_state_, trigger>> /\ tx_fifo # <<>> /\ (src'.plugged => src.plugged)
    BY <1>6, Zenon DEF TxLost, SourceReceives, taskVars, hwVars
  <2>. QED
    BY <1>a, <1>00, <2>1, Zenon
<1>7. CASE SourceStep \/ SourceExtra
  <2>1. UNCHANGED <<pc, hw_state_, trigger>> /\ auto_crc
    BY <1>7, SourceRaisesIrq, Zenon DEF taskVars, hwVars
  <2>2. src.plugged
    BY <1>7, SourceStepEmits, SourceExtraEmits, Zenon DEF Emits
  <2>. QED
    BY <1>a, <1>00, <2>1, <2>2, Zenon
<1>. QED
  BY <1>0, <1>1, <1>2, <1>3, <1>4, <1>5, <1>6, <1>7, StepKinds, Zenon

-----------------------------------------------------------------------------
(* The contract in every reachable state.                                  *)

(* At the start.                                                           *)
LEMMA ContractInit == Init => ContractInv
<1>. SUFFICES ASSUME Init
              PROVE  ContractInv
  BY Zenon
<1>0. /\ pc = "setup" /\ trigger = "none" /\ reader = "none" /\ ~isr /\ tx_fifo = <<>>
      /\ message_queue_ = <<>> /\ rx_fifo = <<>> /\ state_ = "DISCONNECTED"
      /\ budget.reboot = MaxReboots
  BY Zenon DEF Init, PowerUp, PdInit
<1>1. ~Talking
  BY <1>0, Zenon DEF Talking, Exchanging
<1>2. PlaceInv
  <2>1. budget.reboot <= MaxReboots
    BY <1>0, BoundsAssumption, SMTT(30)
  <2>. QED
    BY <1>0, <2>1, Zenon DEF PlaceInv, DuePcs
<1>3. Unasked
  <2>1. src.mode \in {"off", "caps"}
    <3>1. NoSource.mode = "off"
      BY Zenon DEF NoSource
    <3>. QED
      BY <3>1, NewSource, Zenon DEF Init
  <2>2. \A type : ~InPipe(type)
    <3>1. Held = <<>>
      BY <1>0, Zenon DEF Held
    <3>2. Pipe = <<>>
      BY <1>0, <3>1, SMTT(30) DEF Pipe
    <3>3. \A i \in 1..Len(Pipe) : FALSE
      BY <3>2, SMTT(30)
    <3>. QED
      BY <3>3, Zenon DEF InPipe
  <2>. QED
    BY <1>0, <2>1, <2>2, Zenon DEF Unasked
<1>. QED
  BY <1>1, <1>2, <1>3, WireInit, Zenon DEF ContractInv, PlugInv, Unaccepted, Unheard

(* In every step.                                                          *)
LEMMA ContractStep ==
  ASSUME Orderly, QueueLength >= 4, Unsolicited \intersect Unanswered = {}, DriverInv, DriverInv',
         FlowInv, ContractInv, [Next]_vars
  PROVE  ContractInv'
<1>. "i2c" \notin Faults /\ "late" \notin Faults
  BY Zenon DEF Orderly
<1>. TypeOK /\ TypeOK' /\ PhaseInv /\ FifoInv /\ SoftResetInv
  BY Zenon DEF DriverInv
<1>. AttachInv /\ DueInv /\ ExchangeInv
  BY Zenon DEF FlowInv
<1>. WireInv /\ PlugInv /\ (Talking => Agreeing)
  BY Zenon DEF ContractInv, Agreeing
<1>1. WireInv'
  BY WireStep, Zenon
<1>2. PlaceInv' /\ Unasked' /\ Unaccepted' /\ Unheard'
  <2>1. PlaceInv'
    BY PlaceStep, Zenon DEF PlugInv
  <2>2. Unasked'
    BY UnaskedStep, Zenon DEF PlugInv
  <2>3. Unaccepted'
    BY UnacceptedStep, Zenon
  <2>4. Unheard'
    BY UnheardStep, Zenon
  <2>. QED
    BY <2>1, <2>2, <2>3, <2>4, Zenon
<1>3. ASSUME Talking'
      PROVE  Agreeing'
  <2>1. NotRestarted /\ ~Reboot
    BY <1>3, RebootsCounted, Zenon DEF PlugInv, PlaceInv, Talking
  <2>2. /\ src'.plugged /\ trigger' \in {"receive", "soft_reset"}
    BY <1>3, Zenon DEF Talking, Exchanging
  <2>3. ASSUME src.plugged, trigger \in {"receive", "soft_reset"}
        PROVE  Talking /\ Agreeing
    BY <2>1, <2>3, Zenon DEF Talking, Exchanging
  <2>4. CASE TriggerCreate \/ Plug
    BY <1>3, <2>4, AgreeingBegins, Zenon
  <2>5. CASE Setup \/ LoopSpawn \/ LoopDetachReset \/ Unplug
    <3>1. ~(Setup \/ LoopSpawn)
      <4>1. Setup \/ LoopSpawn => pc \in {"setup", "spawn"} /\ trigger' \in {trigger, "create"}
        BY Zenon DEF Setup, LoopSpawn, taskVars
      <4>2. pc \in {"setup", "spawn"} => trigger = "none"
        BY Zenon DEF PhaseInv, Starting, Measuring, Spawning, Running, Stopped, LaterPcs
      <4>. QED
        BY <2>2, <4>1, <4>2, Zenon
    <3>2. ~LoopDetachReset
      BY <2>2, Zenon DEF LoopDetachReset, AttachInv
    <3>3. ~Unplug
      <4>1. Unplug => src' = NoSource
        BY Zenon DEF Unplug
      <4>2. ~NoSource.plugged
        BY Zenon DEF NoSource
      <4>. QED
        BY <2>2, <4>1, <4>2, Zenon
    <3>. QED
      BY <2>5, <3>1, <3>2, <3>3, Zenon
  <2>6. CASE Aside
    <3>1. UNCHANGED <<src, trigger>>
      BY <2>6, AsideKeeps, Zenon DEF flowVars
    <3>2. Talking /\ Agreeing
      BY <2>2, <2>3, <3>1, Zenon
    <3>. QED
      BY <1>3, <2>6, <3>2, AgreeingAside, Zenon
  <2>7. CASE LoopReattachReset \/ LoopSoftReset \/ LoopSend
    <3>1. UNCHANGED <<src, trigger>>
      BY <2>7, Zenon DEF LoopReattachReset, LoopSoftReset, LoopSend, taskVars
    <3>2. Talking /\ Agreeing
      BY <2>2, <2>3, <3>1, Zenon
    <3>. QED
      BY <2>7, <3>2, AgreeingReset, AgreeingSend, Zenon
  <2>8. CASE \/ TriggerReceive \/ TriggerSoftReset \/ ReaderReset \/ ReaderDrain \/ ReaderEnqueue
    <3>1. src' = src /\ trigger \in {"receive", "soft_reset"}
      BY <2>2, <2>8, TasksTake, Zenon
    <3>2. Talking /\ Agreeing
      BY <2>2, <2>3, <3>1, Zenon
    <3>. QED
      BY <2>8, <3>2, AgreeingHandled, AgreeingAlone, AgreeingReset, AgreeingQueued, Zenon
  <2>9. CASE TxLost \/ SourceReceives
    <3>1. trigger' = trigger /\ (src'.plugged => src.plugged)
      BY <2>9, Zenon DEF TxLost, SourceReceives, taskVars
    <3>2. Talking /\ Agreeing
      BY <2>2, <2>3, <3>1, Zenon
    <3>. QED
      BY <2>9, <3>2, AgreeingAlone, AgreeingHeard, Zenon
  <2>10. CASE SourceStep \/ SourceExtra
    <3>1. trigger' = trigger /\ src.plugged
      BY <2>10, SourceRaisesIrq, SourceStepEmits, SourceExtraEmits, Zenon DEF Emits, taskVars
    <3>2. Talking /\ Agreeing
      BY <2>2, <2>3, <3>1, Zenon
    <3>. QED
      BY <2>10, <3>2, AgreeingSpoken, Zenon
  <2>. QED
    BY <2>1, <2>4, <2>5, <2>6, <2>7, <2>8, <2>9, <2>10, StepKinds, Zenon
<1>. QED
  BY <1>1, <1>2, <1>3, Zenon DEF ContractInv, PlugInv, Agreeing

(* Once the contract has been published and everything is quiet, the       *)
(* contract of the driver is the one the source granted and the amplifier  *)
(* runs in the mode for its voltage: no ACCEPT gets lost on its way from   *)
(* the RX FIFO to handle_accept, none is taken for a retransmission, one   *)
(* that answers a soft reset does not count, and on_power_ready comes after*)
(* the last change.  The proof needs four of the five places of the queue, *)
(* and a source that says ACCEPT and PS_RDY only in answer to a message.   *)
THEOREM AmpModeIsRight ==
  ASSUME Orderly, QueueLength >= 4, Unsolicited \intersect Unanswered = {}
  PROVE  Spec => []AmpModeMatchesContract
<1>1. Init => ContractInv
  BY ContractInit, Zenon
<1>2. DriverInv /\ DriverInv' /\ FlowInv /\ ContractInv /\ [Next]_vars => ContractInv'
  BY ContractStep, Zenon
<1>3. DriverInv /\ ContractInv => AmpModeMatchesContract
  <2>. SUFFICES ASSUME DriverInv, ContractInv, NotRestarted,
                       state_ = "EXPLICIT_SPR_CONTRACT", hw_state_ = "ATTACHED", src.plugged,
                       Settled, src.mode = "idle", deferred = 0, ~contract_timer_
                PROVE  /\ SameContract(accepted_contract_, src.granted)
                       /\ power_mode = IF ContractVolts(src.granted) >= 9 THEN 2 ELSE 0
    BY Zenon DEF AmpModeMatchesContract
  <2>1. trigger = "receive"
    BY Zenon DEF ContractInv, PlugInv, PlaceInv, Settled
  <2>2. Agreed
    BY <2>1, Zenon DEF ContractInv, Talking, Exchanging
  <2>3. ~AcceptDue
    BY <2>1, SettledPipe, QuietDue, Zenon DEF DriverInv, Orderly
  <2>4. accepted_contract_ = src.granted
    BY <2>2, <2>3, Zenon DEF Agreed
  <2>5. ~(deferred > 0)
    BY SMTT(30)
  <2>6. power_mode = IF contract_voltage_ >= 9 THEN 2 ELSE 0
    BY <2>2, <2>5, Zenon DEF Agreed
  <2>7. contract_voltage_ >= 9 <=> ContractVolts(accepted_contract_) >= 9
    <3>1. CASE accepted_contract_ = NoContract
      <4>1. NoContract.max_v = 0
        BY Zenon DEF NoContract, Contract
      <4>2. ContractVolts(NoContract) = 0
        BY <4>1, SMTT(30) DEF ContractVolts
      <4>3. contract_voltage_ = 5
        BY <3>1, Zenon DEF contract_voltage_
      <4>. QED
        BY <3>1, <4>2, <4>3, SMTT(30)
    <3>2. CASE accepted_contract_ # NoContract
      BY <3>2, Zenon DEF contract_voltage_
    <3>. QED
      BY <3>1, <3>2, Zenon
  <2>. QED
    BY <2>4, <2>6, <2>7, Zenon DEF SameContract
<1>. QED
  BY <1>1, <1>2, <1>3, DriverInvariant, FlowInvariant, PTL DEF Spec
=============================================================================
